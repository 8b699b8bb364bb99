---------------------------- MODULE BundleRestore ----------------------------
(* Bundles of several databases: create_bundle writes one snapshot after the   *)
(* other and then the manifest, restore_bundle verifies everything and then    *)
(* moves one snapshot after the other over its database. Both may be cut short *)
(* at any point, a snapshot may rot, and the destination may be on another     *)
(* file system.                                                                *)
EXTENDS Naturals, Sequences, SequencesExt

CONSTANTS
  Dbs,         \* logical names of the databases
  MaxWork,     \* bound: changes made to the databases
  Absent,      \* no such file
  Torn,        \* what a copy that was cut short leaves
  Rotten       \* a file that fails its integrity check

VARIABLES
  live,       \* live[d]: content of the database, or Absent
  snap,       \* snap[d]: <group>/<d>.db, or Absent
  manifest,   \* names listed in manifest.json, or Absent
  made,       \* made[d]: what the snapshot last promoted for d holds (history)
  work,       \* changes made so far
  job         \* the call in progress, or how the last one ended

vars == <<live, snap, manifest, made, work, job>>

BoundAssumption == MaxWork \in Nat

Contents == 0..MaxWork

Steps == {"idle", "snapshots", "manifest", "pair", "verify", "rename", "copy", "created", "restored", "refused",
          "failed", "died"}

TypeOK ==
  /\ live \in [Dbs -> Contents \cup {Torn, Absent}]
  /\ snap \in [Dbs -> Contents \cup {Rotten, Absent}]
  /\ manifest \in (SUBSET Dbs) \cup {Absent}
  /\ made \in [Dbs -> Contents \cup {Absent}]
  /\ work \in 0..MaxWork
  /\ job.step \in Steps /\ job.at \in 0..Len(job.names) + 1 /\ job.had \subseteq Dbs

(* `before` and `had` are what a restore found (history).                      *)
Idle == [step |-> "idle", names |-> <<>>, at |-> 0, before |-> live, had |-> {}]

Init ==
  /\ live \in [Dbs -> {0, Absent}]
  /\ snap = [d \in Dbs |-> Absent] /\ manifest = Absent
  /\ made = [d \in Dbs |-> Absent]
  /\ work = 0
  /\ job = Idle

Busy == job.step \in {"snapshots", "manifest", "pair", "verify", "rename", "copy"}
Current == job.names[job.at]
Step(s) == job' = [job EXCEPT !.step = s]

(* External: the databases change while no restore runs, and a snapshot may    *)
(* rot on its medium.                                                          *)
Work(d) ==
  /\ work < MaxWork /\ live[d] \notin {Absent, Torn}
  /\ ~ Busy \/ job.step \in {"snapshots", "manifest"}
  /\ work' = work + 1 /\ live' = [live EXCEPT ![d] = work + 1]
  /\ job' = IF Busy THEN job ELSE Idle
  /\ UNCHANGED <<snap, manifest, made>>

Rot(d) ==
  /\ snap[d] \notin {Absent, Rotten} /\ job.step \in {"idle", "created"}
  /\ snap' = [snap EXCEPT ![d] = Rotten]
  /\ UNCHANGED <<live, manifest, made, work, job>>

--------------------------------------------------------------------------------
(* validate_inputs: some names, none twice; the list may leave databases out.  *)
CreateBegin(names) ==
  /\ ~ Busy
  /\ names # <<>> /\ IsInjective(names)
  /\ job' = [step |-> "snapshots", names |-> names, at |-> 1, before |-> live, had |-> {}]
  /\ UNCHANGED <<live, snap, manifest, made, work>>

(* VACUUM INTO a temporary file, renamed over the snapshot of that name.       *)
Snapshot ==
  /\ job.step = "snapshots" /\ live[Current] \notin {Absent, Torn}
  /\ snap' = [snap EXCEPT ![Current] = live[Current]]
  /\ made' = [made EXCEPT ![Current] = live[Current]]
  /\ job' = [job EXCEPT !.at = @ + 1, !.step = IF job.at = Len(job.names) THEN "manifest" ELSE @]
  /\ UNCHANGED <<live, manifest, work>>

(* No source, or a statement or the rename fails: what was promoted stays.     *)
SnapshotFails ==
  /\ job.step = "snapshots"
  /\ Step("failed")
  /\ UNCHANGED <<live, snap, manifest, made, work>>

WriteManifest ==
  /\ job.step = "manifest"
  /\ manifest' = ToSet(job.names)
  /\ Step("created")
  /\ UNCHANGED <<live, snap, made, work>>

--------------------------------------------------------------------------------
(* restore_bundle for a list of targets; a missing or unreadable manifest is   *)
(* a refusal like any other.                                                   *)
RestoreBegin(names) ==
  /\ ~ Busy
  /\ job' = [step |-> "pair", names |-> names, at |-> 1, before |-> live,
             had |-> {d \in Dbs : snap[d] # Absent}]
  /\ UNCHANGED <<live, snap, manifest, made, work>>

Pairs ==
  /\ manifest # Absent
  /\ IsInjective(job.names) /\ ToSet(job.names) = manifest
  /\ \A d \in manifest : snap[d] # Absent

PairTargets ==
  /\ job.step = "pair" /\ Pairs
  /\ Step(IF job.names = <<>> THEN "restored" ELSE "verify")
  /\ UNCHANGED <<live, snap, manifest, made, work>>

PairingRefused ==
  /\ job.step = "pair" /\ ~ Pairs
  /\ Step("refused")
  /\ UNCHANGED <<live, snap, manifest, made, work>>

\* Mutant of VerifySnapshot: each snapshot is moved as soon as it is verified.
VerifyAndMove ==
  /\ job.step = "verify" /\ snap[Current] # Rotten
  /\ live' = [live EXCEPT ![Current] = snap[Current]]
  /\ snap' = [snap EXCEPT ![Current] = Absent]
  /\ job' = [job EXCEPT !.at = @ + 1, !.step = IF job.at = Len(job.names) THEN "restored" ELSE @]
  /\ UNCHANGED <<manifest, made, work>>

(* Every snapshot passes PRAGMA integrity_check before the first is moved.     *)
VerifySnapshot ==
  /\ job.step = "verify" /\ snap[Current] # Rotten
  /\ job' = IF job.at = Len(job.names) THEN [job EXCEPT !.step = "rename", !.at = 1]
                                       ELSE [job EXCEPT !.at = @ + 1]
  /\ UNCHANGED <<live, snap, manifest, made, work>>

CorruptSnapshot ==
  /\ job.step = "verify" /\ snap[Current] = Rotten
  /\ Step("refused")
  /\ UNCHANGED <<live, snap, manifest, made, work>>

(* precreate_destination_dirs fails: no file has been touched.                 *)
NoDirectory ==
  /\ job.step = "rename" /\ job.at = 1 /\ job.before = live
  /\ Step("refused")
  /\ UNCHANGED <<live, snap, manifest, made, work>>

Moved ==
  job' = [job EXCEPT !.at = @ + 1, !.step = IF job.at = Len(job.names) THEN "restored" ELSE "rename"]

(* rename(2) within a file system.                                             *)
Rename ==
  /\ job.step = "rename"
  /\ live' = [live EXCEPT ![Current] = snap[Current]]
  /\ snap' = [snap EXCEPT ![Current] = Absent]
  /\ Moved
  /\ UNCHANGED <<manifest, made, work>>

\* Mutant of CopyAcross: the snapshot is removed before the copy is complete.
MoveAcross ==
  /\ job.step = "rename"
  /\ Step("copy")
  /\ live' = [live EXCEPT ![Current] = Torn]
  /\ snap' = [snap EXCEPT ![Current] = Absent]
  /\ UNCHANGED <<manifest, made, work>>

(* Across file systems: a copy, which may be cut short, then the removal of    *)
(* the snapshot, which may fail without notice.                                *)
CopyAcross ==
  /\ job.step = "rename"
  /\ Step("copy")
  /\ live' = [live EXCEPT ![Current] = Torn]
  /\ UNCHANGED <<snap, manifest, made, work>>

CopyComplete ==
  /\ job.step = "copy"
  /\ live' = [live EXCEPT ![Current] = snap[Current]]
  /\ \E s \in {snap[Current], Absent} : snap' = [snap EXCEPT ![Current] = s]
  /\ Moved
  /\ UNCHANGED <<manifest, made, work>>

MoveFails ==
  /\ job.step \in {"rename", "copy"}
  /\ Step("failed")
  /\ UNCHANGED <<live, snap, manifest, made, work>>

Die ==
  /\ Busy
  /\ Step("died")
  /\ UNCHANGED <<live, snap, manifest, made, work>>

Lists == UNION {[1..n -> Dbs] : n \in 0..2}

Next ==
  \/ \E d \in Dbs : Work(d) \/ Rot(d)
  \/ \E s \in Lists : CreateBegin(s) \/ RestoreBegin(s)
  \/ Snapshot \/ SnapshotFails \/ WriteManifest
  \/ PairTargets \/ PairingRefused \/ VerifySnapshot \/ CorruptSnapshot \/ NoDirectory
  \/ Rename \/ CopyAcross \/ CopyComplete \/ MoveFails \/ Die

Spec == Init /\ [][Next]_vars

--------------------------------------------------------------------------------
(* Strict-atomic refusal: whichever snapshot, name or directory is at fault, a *)
(* restore that refuses has not touched any database.                          *)
RefusedUntouched == job.step = "refused" => live = job.before

(* However a restore ends, it has not cost the bundle a database: what it      *)
(* found in the bundle is the live one now or is in the bundle still, as it    *)
(* was promoted there, unless it had rotted.                                   *)
BundleNotLost == \A d \in job.had : snap[d] \in {made[d], Rotten} \/ live[d] = made[d]

================================================================================
