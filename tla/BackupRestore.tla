---------------------------- MODULE BackupRestore ----------------------------
(* One profile directory, the copies made of it and the restore command: the   *)
(* database with its write-ahead log, the logo file the shop row names, the    *)
(* backup command (which takes no lock), the backup over the admin socket, and *)
(* restore step by step, with a crash between any two of them.                 *)
EXTENDS Naturals, FiniteSets

CONSTANTS
  Exts,        \* extensions a logo file may have
  Names,       \* files an operator gives to the backup command
  MaxWork,     \* bound: how often the shop changes
  Absent       \* no file, no row, no logo

(* The safety backup, and the same file under another spelling of its path.    *)
Safety == "mokumo.db.pre-restore-backup"
Alias == "./mokumo.db.pre-restore-backup"
Stamped == "mokumo.db.pre-restore-backup.stamp"

Copies == Names \cup {Safety, Stamped}

NamesAssumption == MaxWork \in Nat /\ Names \cap {Safety, Stamped, Alias} = {}

VARIABLES
  live,      \* the database: its main file and its -wal, or Absent
  logo,      \* logo[e]: the work during which logo.<e> was uploaded, or Absent
  copies,    \* copies[n]: a backup file and the logo siblings beside it
  server,    \* "up" or "down"
  work,      \* how often the shop has changed (a bound, and what tells contents apart)
  backup,    \* the backup command in progress
  restore    \* the restore command in progress, or how the last one ended

vars == <<live, logo, copies, server, work, backup, restore>>

Logos == [Exts -> 0..MaxWork \cup {Absent}]
NoLogo == [e \in Exts |-> Absent]

Contents == [work: 0..MaxWork, ext: Exts \cup {Absent}]

(* What a reader of the database sees: the log over the main file.             *)
Seen(f) == IF f.wal # Absent THEN f.wal ELSE f.main

NoCopy == [db |-> Absent, logo |-> NoLogo, whole |-> FALSE]

TypeOK ==
  /\ live \in [main: Contents, wal: Contents \cup {Absent}]
  /\ logo \in Logos
  /\ copies \in [Copies -> [db: Contents \cup {Absent}, logo: Logos, whole: BOOLEAN]]
  /\ server \in {"up", "down"}
  /\ work \in 0..MaxWork
  /\ backup \in [step: {"idle", "logo"}, to: Copies \cup {Absent}, at: 0..MaxWork]
  /\ restore \in [step: {"idle", "safety", "sidecars", "copy", "sweep", "logo", "done", "died"},
                  from: Copies \cup {Absent}, path: Copies \cup {Alias, Absent},
                  old: Contents \cup {Absent}, source: Contents \cup {Absent},
                  logo: Logos, whole: BOOLEAN]

Idle == [step |-> "idle", from |-> Absent, path |-> Absent, old |-> Absent, source |-> Absent,
         logo |-> NoLogo, whole |-> FALSE]

NoBackup == [step |-> "idle", to |-> Absent, at |-> 0]

Init ==
  /\ live = [main |-> [work |-> 0, ext |-> Absent], wal |-> Absent]
  /\ logo = NoLogo
  /\ copies = [n \in Copies |-> NoCopy]
  /\ server = "up"
  /\ work = 0
  /\ backup = NoBackup
  /\ restore = Idle

Quiet == restore.step \in {"idle", "done", "died"}

--------------------------------------------------------------------------------
(* External: the server runs while nobody holds the lock of the directory; its *)
(* changes go to the log, a checkpoint moves them into the main file. A stop   *)
(* checkpoints, a crash does not.                                              *)
Start ==
  /\ server = "down" /\ Quiet
  /\ server' = "up" /\ restore' = Idle
  /\ UNCHANGED <<live, logo, copies, work, backup>>

Checkpointed(f) == [main |-> Seen(f), wal |-> Absent]

Checkpoint ==
  /\ server = "up" /\ live.wal # Absent
  /\ live' = Checkpointed(live)
  /\ UNCHANGED <<logo, copies, server, work, backup, restore>>

Stop ==
  /\ server = "up"
  /\ server' = "down"
  /\ \E f \in {live, Checkpointed(live)} : live' = f
  /\ UNCHANGED <<logo, copies, work, backup, restore>>

(* The shop changes: an upload replaces the logo and the extension in the row, *)
(* a deletion clears both, any other change keeps them.                        *)
Change(ext, files) ==
  /\ server = "up" /\ work < MaxWork
  /\ work' = work + 1
  /\ live' = [live EXCEPT !.wal = [work |-> work + 1, ext |-> ext]]
  /\ logo' = files
  /\ UNCHANGED <<copies, server, backup, restore>>

Upload(e) == Change(e, [NoLogo EXCEPT ![e] = work + 1])
DeleteLogo == Seen(live).ext # Absent /\ Change(Absent, NoLogo)
Edit == Change(Seen(live).ext, logo)

--------------------------------------------------------------------------------
(* cli_backup: SQLite's online backup reads a snapshot of the database into    *)
(* the output file; the row of the copy then says which logo to copy beside    *)
(* it. Siblings of an earlier backup of that name stay.                        *)
CliBackup(n) ==
  /\ backup.step = "idle" /\ Quiet
  /\ copies' = [copies EXCEPT ![n].db = Seen(live), ![n].whole = FALSE]
  /\ backup' = [step |-> "logo", to |-> n, at |-> work]
  /\ UNCHANGED <<live, logo, server, work, restore>>

(* `whole` is a history variable: the file the row names was there, and the    *)
(* shop has not changed since the database was copied.                         *)
CliBackupLogo ==
  /\ backup.step = "logo" /\ Quiet
  /\ LET n == backup.to
         e == copies[n].db.ext
     IN copies' = [copies EXCEPT
                     ![n].logo = IF e # Absent /\ logo[e] # Absent THEN [@ EXCEPT ![e] = logo[e]] ELSE @,
                     ![n].whole = (work = backup.at /\ (e # Absent => logo[e] # Absent))]
  /\ backup' = NoBackup
  /\ UNCHANGED <<live, logo, server, work, restore>>

(* POST /backups/create on the admin socket of a running server: the database, *)
(* and nothing after it.                                                       *)
SocketBackup(n) ==
  /\ server = "up" /\ backup.step = "idle"
  /\ copies' = [copies EXCEPT ![n].db = Seen(live), ![n].whole = FALSE]
  /\ UNCHANGED <<live, logo, server, work, backup, restore>>

--------------------------------------------------------------------------------
(* cmd_restore holds the lock, so the server is down; verify_integrity accepts *)
(* what the backup command wrote. The path is compared as it was typed.        *)
File(path) == IF path = Alias THEN Safety ELSE path

RestoreBegin(path) ==
  /\ server = "down" /\ Quiet /\ backup.step = "idle"
  /\ copies[File(path)].db # Absent
  /\ restore' = [step |-> "safety", from |-> File(path), path |-> path, old |-> Seen(live),
                 source |-> copies[File(path)].db, logo |-> copies[File(path)].logo,
                 whole |-> copies[File(path)].whole]
  /\ UNCHANGED <<live, logo, copies, server, work, backup>>

RestoreStep(s) == restore' = [restore EXCEPT !.step = s]

\* Mutant of SafetyBackup: the copy is made of the main file alone.
SafetyOfMain ==
  /\ restore.step = "safety"
  /\ RestoreStep("sidecars")
  /\ LET to == IF restore.path = Safety THEN Stamped ELSE Safety
     IN copies' = [copies EXCEPT ![to].db = live.main, ![to].whole = FALSE]
  /\ UNCHANGED <<live, logo, server, work, backup>>

(* create_safety_backup: the current database, log included, goes to a fixed   *)
(* name, or to one with a time stamp when that name is the source.             *)
SafetyBackup ==
  /\ restore.step = "safety"
  /\ RestoreStep("sidecars")
  /\ LET to == IF restore.path = Safety THEN Stamped ELSE Safety
     IN copies' = [copies EXCEPT ![to].db = Seen(live), ![to].whole = FALSE]
  /\ UNCHANGED <<live, logo, server, work, backup>>

\* Mutant of RemoveSidecars: the log of the old database stays.
KeepSidecars ==
  /\ restore.step = "sidecars"
  /\ RestoreStep("copy")
  /\ UNCHANGED <<live, logo, copies, server, work, backup>>

RemoveSidecars ==
  /\ restore.step = "sidecars"
  /\ RestoreStep("copy")
  /\ live' = [live EXCEPT !.wal = Absent]
  /\ UNCHANGED <<logo, copies, server, work, backup>>

(* The copy is one transaction on the live file.                               *)
CopyOver ==
  /\ restore.step = "copy"
  /\ RestoreStep("sweep")
  /\ live' = [live EXCEPT !.main = copies[restore.from].db]
  /\ UNCHANGED <<logo, copies, server, work, backup>>

(* on_post_restore: every logo file of the directory goes, then the sibling    *)
(* of the backup comes.                                                        *)
SweepStaleLogos ==
  /\ restore.step = "sweep"
  /\ RestoreStep("logo")
  /\ logo' = NoLogo
  /\ UNCHANGED <<live, copies, server, work, backup>>

\* Mutant of RestoreLogo: the extension is taken from the files beside the backup.
RestoreAnyLogo ==
  /\ restore.step = "logo"
  /\ RestoreStep("done")
  /\ \E e \in Exts : logo' = [NoLogo EXCEPT ![e] = copies[restore.from].logo[e]]
  /\ UNCHANGED <<live, copies, server, work, backup>>

RestoreLogo ==
  /\ restore.step = "logo"
  /\ RestoreStep("done")
  /\ LET e == copies[restore.from].db.ext
     IN logo' = IF e = Absent THEN logo ELSE [logo EXCEPT ![e] = copies[restore.from].logo[e]]
  /\ UNCHANGED <<live, copies, server, work, backup>>

(* The command dies between two steps; the old database is remembered until    *)
(* the next attempt or the next start.                                         *)
RestoreDies ==
  /\ ~ Quiet
  /\ RestoreStep("died")
  /\ UNCHANGED <<live, logo, copies, server, work, backup>>

Next ==
  \/ Start \/ Checkpoint \/ Stop
  \/ \E e \in Exts : Upload(e)
  \/ DeleteLogo \/ Edit
  \/ \E n \in Names : CliBackup(n) \/ SocketBackup(n)
  \/ CliBackupLogo
  \/ \E p \in Copies \cup {Alias} : RestoreBegin(p)
  \/ SafetyBackup \/ RemoveSidecars \/ CopyOver \/ SweepStaleLogos \/ RestoreLogo
  \/ RestoreDies

Spec == Init /\ [][Next]_vars

--------------------------------------------------------------------------------
(* Whatever step a restore dies at, the database it found is the live one      *)
(* still or is the safety backup; and a restore that completes leaves exactly  *)
(* the database of the backup, nothing of the old log over it. (For sources    *)
(* named by the path the code compares with.)                                  *)
RestoreSafe ==
  restore.step # "idle" /\ restore.path # Alias =>
    /\ restore.step = "done" => Seen(live) = restore.source
    /\ restore.step = "died" =>
         \/ Seen(live) \in {restore.old, restore.source}
         \/ \E n \in {Safety, Stamped} : copies[n].db = restore.old

(* A backup made by the command while the shop did not change brings the logo  *)
(* back: the file the restored row names is there, as it was.                  *)
LogoComesBack ==
  restore.step = "done" /\ restore.whole /\ Seen(live).ext # Absent =>
    logo[Seen(live).ext] = restore.logo[Seen(live).ext] /\ logo[Seen(live).ext] # Absent

(* graft.rs:92-93, settings-data-safety.feature:99: a backup carries the logo, *)
(* so after a restore the row names a file that is there.                      *)
LogoPreserved ==
  restore.step = "done" /\ Seen(live).ext # Absent => logo[Seen(live).ext] # Absent

================================================================================
