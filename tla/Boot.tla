---------------------------------- MODULE Boot ----------------------------------
(* One boot of the process after another over a data directory: the move from   *)
(* the flat layout, the demo sidecar, the pools of both profiles, the engine    *)
(* with its vertical's vocabulary, the hook that repairs a profile from its     *)
(* sidecar, and the setup token.                                                *)
(* What happens inside a profile's database is ProfileUpgrade and LegacyUpgrade.*)
EXTENDS Naturals, Functions

CONSTANTS
  None,
  MaxBoots        \* bound on starts of the process

NoneAssumption == None \notin {"demo", "production", "token", "empty"}

VARIABLES
  pc,             \* where the boot is
  boots,          \* starts so far
  flat,           \* mokumo.db of the flat layout
  file,           \* file[k]: the database at the path of profile k
  pointer,        \* active_profile, or None; "empty" once it is created
  sidecar,        \* the bundled demo.db
  recorded,       \* meta.profiles has a row
  graft,          \* the vertical's answers
  pool,           \* pool[k]: the copy of the file the pool of k has opened
  setup_completed,
  token,          \* the setup token, or None
  repaired,       \* sidecar_recoveries: the kinds that report a recovery
  cut,            \* history: the copy of the flat database was interrupted
  torn,           \* history: the writing of active_profile was
  moved,          \* history: the flat database was moved
  meddled         \* history: somebody else touched a file the boot had opened

disk == <<flat, file, pointer, sidecar, recorded>>
memory == <<pool, setup_completed, token, repaired>>
history == <<cut, torn, moved, meddled>>
vars == <<pc, boots, disk, graft, memory, history>>

Kinds == {"demo", "production"}
Wizard(k) == k = "production"          \* requires_setup_wizard

(* "cut": a copy that was interrupted; "unnamed": an administrator, but no name *)
(* of the shop; "newer": migrations this release does not know.                 *)
Contents == {"absent", "cut", "foreign", "newer", "empty", "fresh", "shop", "unnamed"}

Dirs == {"demo", "production", "..", "other"}
PathSafe(d) == d # ".."

Sources == {"disabled", "unreadable", "blank", "padded", "token"}

Mokumo == [show |-> [k \in Kinds |-> k],
           read |-> [d \in Dirs |-> IF d \in Kinds THEN d ELSE None],
           source |-> None]

Grafts == [show: [Kinds -> Dirs \ {"other"}], read: [Dirs -> Kinds \cup {None}],
           source: {"token"}]
  \cup {[Mokumo EXCEPT !.source = s] : s \in Sources}

Down ==
  /\ pc' = "down"
  /\ pool' = [k \in Kinds |-> None]
  /\ setup_completed' = FALSE /\ token' = None /\ repaired' = {}

(* The flat layout is one of a release that knew no profiles.                   *)
Init ==
  /\ pc = "down" /\ boots = 0
  /\ sidecar \in {"missing", "foreign", "fresh"}
  /\ \/ /\ graft = Mokumo /\ flat = "shop" /\ pointer = None /\ recorded = FALSE
        /\ file = [k \in Kinds |-> [copy |-> 0, content |-> "absent"]]
     \/ /\ graft = Mokumo /\ flat = "absent"
        /\ pointer \in Kinds \cup {None, "empty"}
        /\ \E d \in {"absent", "cut", "foreign", "newer", "fresh"},
              p \in {"absent", "foreign", "newer", "empty", "shop", "unnamed"} :
             file = [k \in Kinds |-> [copy |-> 0, content |-> IF k = "demo" THEN d ELSE p]]
        /\ recorded \in {FALSE, file["production"].content = "shop"}
     \/ /\ graft \in Grafts /\ flat = "absent" /\ pointer = "production"
        /\ recorded = TRUE /\ sidecar = "fresh"
        /\ file = [k \in Kinds |-> [copy |-> 0, content |-> IF k = "demo" THEN "fresh" ELSE "shop"]]
  /\ pool = [k \in Kinds |-> None]
  /\ setup_completed = FALSE /\ token = None /\ repaired = {}
  /\ cut = FALSE /\ torn = FALSE /\ moved = FALSE /\ meddled = FALSE

Content(k, c) == [file EXCEPT ![k].content = c]
Replaced(k, c) == [file EXCEPT ![k] = [copy |-> @.copy + 1, content |-> c]]

--------------------------------------------------------------------------------
(* prepare_database: migrate_flat_layout, copy_sidecar_if_needed.               *)

(* flat_exists and production_exists are read once, before anything is done.    *)
Launch ==
  /\ pc = "down" /\ boots < MaxBoots
  /\ boots' = boots + 1
  /\ IF flat = "absent"
       THEN pc' = "sidecar" /\ UNCHANGED file
       ELSE IF file["production"].content = "absent"
         THEN pc' = "copying" /\ file' = Content("production", "cut")
         ELSE pc' = "pointing" /\ UNCHANGED file
  /\ meddled' = FALSE
  /\ UNCHANGED <<flat, pointer, sidecar, recorded, graft, memory, cut, torn, moved>>

CopyFlat ==
  /\ pc = "copying"
  /\ pc' = "pointing"
  /\ file' = Content("production", flat)
  /\ UNCHANGED <<boots, flat, pointer, sidecar, recorded, graft, memory, history>>

(* std::fs::write creates active_profile, where there is none, and then writes. *)
CreatePointer ==
  /\ pc = "pointing"
  /\ IF pointer = None THEN pc' = "writing" /\ pointer' = "empty"
                       ELSE pc' = "removing" /\ UNCHANGED pointer
  /\ UNCHANGED <<boots, flat, file, sidecar, recorded, graft, memory, history>>

WritePointer ==
  /\ pc = "writing"
  /\ pc' = "removing"
  /\ pointer' = "production"
  /\ UNCHANGED <<boots, flat, file, sidecar, recorded, graft, memory, history>>

RemoveFlat ==
  /\ pc = "removing"
  /\ pc' = "sidecar"
  /\ flat' = "absent" /\ moved' = TRUE
  /\ UNCHANGED <<boots, file, pointer, sidecar, recorded, graft, memory, cut, torn, meddled>>

(* The demo sidecar is copied in place, when there is no demo database at all.  *)
CopySidecar ==
  /\ pc = "sidecar"
  /\ IF file["demo"].content = "absent" /\ sidecar # "missing"
       THEN pc' = "filling" /\ file' = Content("demo", "cut")
       ELSE pc' = "active" /\ UNCHANGED file
  /\ UNCHANGED <<boots, flat, pointer, sidecar, recorded, graft, memory, history>>

(* An error is only logged; it leaves what was copied so far.                   *)
SidecarCopied ==
  /\ pc = "filling"
  /\ pc' = "active"
  /\ \E c \in {sidecar, "cut"} : file' = Content("demo", c)
  /\ UNCHANGED <<boots, flat, pointer, sidecar, recorded, graft, memory, history>>

--------------------------------------------------------------------------------
(* setup_profile_db, for the active profile and then for the other one.         *)
Profile == IF pointer \in Kinds THEN pointer ELSE "demo"
OtherProfile == CHOOSE k \in Kinds : k # Profile

Turn == IF pc = "active" THEN Profile ELSE OtherProfile
SettingUp == pc \in {"active", "other"}

Opens(c) == c \notin {"foreign", "newer"}

(* What a pool finds when it has opened and migrated a file: an absent one is   *)
(* created, one that was cut right at its start passes for an empty one.        *)
Opened(c) == IF c \in {"absent", "cut"} THEN "empty" ELSE c

SetUpProfile ==
  /\ SettingUp /\ Opens(file[Turn].content)
  /\ pc' = IF pc = "active" THEN "other" ELSE "session"
  /\ file' = Content(Turn, Opened(file[Turn].content))
  /\ pool' = [pool EXCEPT ![Turn] = file[Turn].copy]
  /\ UNCHANGED <<boots, flat, pointer, sidecar, recorded, graft, setup_completed, token, repaired,
                 history>>

(* A demo database with unknown migrations is replaced by the bundled one, which*)
(* then has to pass the same guards.                                            *)
ResetNewerDemo ==
  /\ SettingUp /\ Turn = "demo" /\ file["demo"].content = "newer" /\ sidecar # "missing"
  /\ file' = Replaced("demo", sidecar)
  /\ UNCHANGED <<pc, boots, flat, pointer, sidecar, recorded, graft, memory, history>>

SetUpRefused ==
  \/ file[Turn].content \in {"foreign", "cut"}
  \/ file[Turn].content = "newer" /\ (Turn = "production" \/ sidecar = "missing")

(* init_session_and_setup, over the production database.                        *)
InitSession ==
  /\ pc = "session"
  /\ pc' = "engine"
  /\ setup_completed' = (file["production"].content \in {"shop", "unnamed"})
  /\ UNCHANGED <<boots, disk, graft, pool, token, repaired, history>>

--------------------------------------------------------------------------------
(* Engine::boot.                                                                *)

(* The main pool is that of the active profile; meta migrations; what kind of   *)
(* installation this is; the upgrade of a legacy one.                           *)
Refusable == ~ recorded /\ file["production"].content = "unnamed"

DispatchBootState ==
  /\ pc = "engine" /\ pool[Profile] # None /\ ~ Refusable
  /\ pc' = "profiles"
  /\ recorded' = (recorded \/ file["production"].content = "shop")
  /\ UNCHANGED <<boots, flat, file, pointer, sidecar, graft, memory, history>>

(* run_per_profile_migrations on every pool.                                    *)
MigrateProfiles ==
  /\ pc = "profiles"
  /\ pc' = "kinds"
  /\ UNCHANGED <<boots, disk, graft, memory, history>>

(* validate_profile_kind: a path-safe name that reads back as the same kind.    *)
Valid(k) ==
  /\ PathSafe(graft.show[k])
  /\ graft.read[graft.show[k]] = k

ValidateKinds ==
  /\ pc = "kinds" /\ \A k \in Kinds : Valid(k)
  /\ pc' = "repair"
  /\ UNCHANGED <<boots, disk, graft, memory, history>>

\* Mutant of Damaged: the hook copies the sidecar at every boot.
DamagedAlways(k) == k \in Kinds

(* recover_profile_sidecar: the file is missing or carries a foreign            *)
(* application id.                                                              *)
Damaged(k) == file[k].content \in {"absent", "foreign"}

(* maybe_repair_profile_sidecars: kinds without a setup wizard. A hook that     *)
(* fails, as without a sidecar, and an audit row that cannot be written stop    *)
(* nothing.                                                                     *)
RepairSidecars ==
  /\ pc = "repair"
  /\ pc' = "token"
  /\ \E k \in {x \in Kinds : ~ Wizard(x)} :
       \/ /\ Damaged(k) /\ sidecar # "missing"
          /\ file' = Replaced(k, sidecar)
          /\ repaired' = {k}
       \/ UNCHANGED <<file, repaired>> /\ (~ Damaged(k) \/ sidecar = "missing")
  /\ UNCHANGED <<boots, flat, pointer, sidecar, recorded, graft, pool, setup_completed,
                 token, history>>

(* The shop's vertical answers with the token of init_session_and_setup.        *)
TokenSource ==
  IF graft.source # None THEN graft.source
  ELSE IF setup_completed THEN "disabled" ELSE "token"

(* resolve_setup_token: trimmed, and nothing but blanks is no token.            *)
Resolved(s) == IF s \in {"disabled", "blank"} THEN None ELSE "token"

(* The token, and the states of the platform, the control plane and the domain. *)
Serve ==
  /\ pc = "token" /\ TokenSource # "unreadable"
  /\ pc' = "serving"
  /\ token' = Resolved(TokenSource)
  /\ UNCHANGED <<boots, disk, graft, pool, setup_completed, repaired, history>>

(* The boot returns an error, and the process ends with it.                     *)
Refuse ==
  /\ \/ SettingUp /\ SetUpRefused
     \/ pc = "engine" /\ Refusable
     \/ pc = "kinds" /\ \E k \in Kinds : ~ Valid(k)
     \/ pc = "token" /\ TokenSource = "unreadable"
  /\ Down
  /\ UNCHANGED <<boots, disk, graft, history>>

--------------------------------------------------------------------------------
(* A crash, or an input/output error at any step of the boot.                   *)
Stops ==
  /\ pc # "down"
  /\ Down
  /\ cut' = (cut \/ pc = "copying") /\ torn' = (torn \/ pc = "writing")
  /\ UNCHANGED <<boots, disk, graft, moved, meddled>>

(* External: another program removes or overwrites a database under the boot.   *)
Meddle ==
  /\ pc \in {"session", "engine", "profiles", "kinds", "repair"}
  /\ \E c \in {"absent", "foreign"} : file' = Content("demo", c)
  /\ meddled' = TRUE
  /\ UNCHANGED <<pc, boots, flat, pointer, sidecar, recorded, graft, memory, cut, torn, moved>>

BootStep ==
  \/ CopyFlat \/ CreatePointer \/ WritePointer \/ RemoveFlat \/ CopySidecar \/ SidecarCopied
  \/ SetUpProfile \/ ResetNewerDemo \/ InitSession \/ DispatchBootState
  \/ MigrateProfiles \/ ValidateKinds \/ RepairSidecars \/ Serve \/ Refuse

Next ==
  \/ Launch \/ BootStep \/ Stops \/ Meddle

Spec == Init /\ [][Next]_vars

--------------------------------------------------------------------------------
TypeOK ==
  /\ flat \in {"absent", "shop"}
  /\ file \in [Kinds -> [copy: Nat, content: Contents]]
  /\ pool \in [Kinds -> Nat \cup {None}]
  /\ token \in {None, "token"}

Serving == pc = "serving"

(* The move from the flat layout may stop anywhere: unless it was in the middle*)
(* of the copy, the shop's data is still at one of its two places and the server*)
(* that comes up afterwards finds it, and unless it was in the middle of writing*)
(* active_profile either, it comes up serving it. migrate_flat_layout is said to*)
(* be "Idempotent: safe to call on every startup", but after a stop in either   *)
(* place the next boot takes the half-made file for a whole one, and removes the*)
(* flat database: the data is lost, or the shop comes up in demo.               *)
FlatKept ==
  (moved \/ flat = "shop") /\ ~ cut =>
    /\ flat = "shop" \/ file["production"].content = "shop"
    /\ Serving => setup_completed /\ (torn \/ Profile = "production")

(* The hook repairs after the pools are open, which would leave a pool on a     *)
(* file that is gone. It never does: what it looks for has been refused or      *)
(* created before it runs, unless another program interferes.                   *)
PoolsReadFiles ==
  Serving /\ ~ meddled => repaired = {} /\ \A k \in Kinds : pool[k] = file[k].copy

(* No two kinds of a served vertical share a directory, and a directory's name  *)
(* leads a request back to the kind it was made from.                           *)
KindsApart ==
  Serving => /\ IsInjective(graft.show)
             /\ \A d \in {graft.show[k] : k \in Kinds} : PathSafe(d) /\ graft.read[d] # None

(* A shop that is not set up is never served without a token, and no request    *)
(* with blanks matches one.                                                     *)
TokenGuards ==
  Serving => /\ token \in {None, "token"}
             /\ graft.source = None => (token = None <=> setup_completed)

BootSafe == FlatKept /\ PoolsReadFiles /\ KindsApart /\ TokenGuards
=================================================================================
