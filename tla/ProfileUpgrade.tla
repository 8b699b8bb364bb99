--------------------------- MODULE ProfileUpgrade ---------------------------
(* The database of one profile across boots and releases: the pre-migration    *)
(* backup and its rotation, the schema check, the platform migrations run by   *)
(* kikan's runner, the shop's migrations run by SeaORM, and the engine's       *)
(* second pass over the same database.                                         *)
(*                                                                             *)
(* Releases are numbered. Release r knows the shop migrations 1..r and the     *)
(* platform migrations 1..PlatformOf[r]; both lists only grow at their end,    *)
(* so what is applied is a count.                                              *)
EXTENDS Naturals, FiniteSets, FiniteSetsExt

CONSTANTS
  Releases,       \* the newest release
  PlatformOf,     \* PlatformOf[r]: how many platform migrations release r knows
  KeepBackups,    \* backups that survive a rotation (3 in the code)
  Connections,    \* slots of the connection pool (5 in the code)
  NoFile          \* a file that does not exist

VARIABLES
  kind,      \* "production" or "demo": which profile this is
  db,        \* content of mokumo.db, or NoFile
  backups,   \* backups[v]: content of mokumo.db.backup-v<v>, or NoFile
  held,      \* a copy the operator made with the backup command, or NoFile
  boot,      \* the boot in progress or the server that came of it
  fk         \* foreign_keys of each pool connection: "on", "off", "closed"

vars == <<kind, db, backups, held, boot, fk>>

Versions == 1..Releases

(* Content of a database: platform migrations applied, shop migrations         *)
(* recorded in seaql_migrations, how many of those kikan_migrations knows, and *)
(* what the shop has entered.                                                  *)
Contents == [plat: 0..PlatformOf[Releases], shop: 0..Releases, rows: 0..Releases, work: {0, 1}]

Empty == [plat |-> 0, shop |-> 0, rows |-> 0, work |-> 0]

(* The lists of migrations only grow, and no database is a missing file.        *)
ReleaseAssumption ==
  /\ Releases \in Nat \ {0} /\ KeepBackups \in Nat
  /\ PlatformOf \in [Versions -> Nat]
  /\ \A r, s \in Versions : r <= s => PlatformOf[r] <= PlatformOf[s]
  /\ NoFile \notin Contents

Bundled(r) == [plat |-> PlatformOf[r], shop |-> r, rows |-> 0, work |-> 0]

Steps == {"down", "backup", "rotate", "check", "platform", "migrating", "cycle",
          "shop", "second", "serving"}

Down == [step |-> "down", release |-> 1, before |-> NoFile, failing |-> FALSE,
         reapplied |-> FALSE]

NoPool == [c \in Connections |-> "closed"]

TypeOK ==
  /\ kind \in {"production", "demo"}
  /\ db \in Contents \cup {NoFile}
  /\ backups \in [Versions -> Contents \cup {NoFile}]
  /\ held \in Contents \cup {NoFile}
  /\ boot \in [step: Steps, release: Versions, before: Contents \cup {NoFile},
               failing: BOOLEAN, reapplied: BOOLEAN]
  /\ fk \in [Connections -> {"on", "off", "closed"}]

Init ==
  /\ kind \in {"production", "demo"}
  /\ db = NoFile
  /\ backups = [v \in Versions |-> NoFile]
  /\ held = NoFile
  /\ boot = Down
  /\ fk = NoPool

Step(s) == boot' = [boot EXCEPT !.step = s]

(* The boot ends with an error and the process with it.                        *)
Refuse == boot' = Down /\ fk' = NoPool

OpenPool == fk' = [NoPool EXCEPT ![CHOOSE c \in Connections : TRUE] = "on"]

--------------------------------------------------------------------------------
(* setup_profile_db: a missing file is created by the auto_vacuum guard and    *)
(* needs no backup; an existing one goes through backup and check.             *)
SetupExisting(r) ==
  /\ boot.step = "down" /\ db # NoFile
  /\ boot' = [Down EXCEPT !.step = "backup", !.release = r, !.before = db]
  /\ UNCHANGED <<kind, db, backups, held, fk>>

SetupFresh(r) ==
  /\ boot.step = "down" /\ db = NoFile
  /\ boot' = [Down EXCEPT !.step = "platform", !.release = r]
  /\ db' = Empty /\ OpenPool
  /\ UNCHANGED <<kind, backups, held>>

\* Mutant of PreMigrationBackup: a backup of that name is taken to be good enough.
BackupOnce ==
  /\ boot.step = "backup"
  /\ IF db.shop = 0
       THEN Step("check") /\ UNCHANGED backups
       ELSE Step("rotate") /\ backups' = [backups EXCEPT ![db.shop] = IF @ = NoFile THEN db ELSE @]
  /\ UNCHANGED <<kind, db, held, fk>>

(* pre_migration_backup: the file is named by the newest shop migration and    *)
(* replaces one of the same name; a database without any is not backed up.     *)
(* The copy is one transaction of the destination.                             *)
PreMigrationBackup ==
  /\ boot.step = "backup"
  /\ IF db.shop = 0
       THEN Step("check") /\ UNCHANGED backups
       ELSE Step("rotate") /\ backups' = [backups EXCEPT ![db.shop] = db]
  /\ UNCHANGED <<kind, db, held, fk>>

Existing == {v \in Versions : backups[v] # NoFile}

NewestOf(S, n) == {v \in S : Cardinality({w \in S : w > v}) < n}

(* collect_existing_backups and rotate_backups: the backups with the greatest  *)
(* versions stay. A file that cannot be removed stays too (best effort).       *)
RotateBackups ==
  /\ boot.step = "rotate"
  /\ Step("check")
  /\ \E stuck \in SUBSET (Existing \ NewestOf(Existing, KeepBackups)) :
       backups' = [v \in Versions |->
                     IF v \in NewestOf(Existing, KeepBackups) \cup stuck THEN backups[v] ELSE NoFile]
  /\ UNCHANGED <<kind, db, held, fk>>

(* The backup fails: refusing to run migrations without one.                   *)
BackupFails ==
  /\ boot.step = "backup"
  /\ Refuse
  /\ UNCHANGED <<kind, db, backups, held>>

(* check_schema_compatibility looks at the shop's migrations only.             *)
Unknown == db.shop > boot.release

SchemaKnown ==
  /\ boot.step = "check" /\ ~ Unknown
  /\ Step("platform") /\ OpenPool
  /\ UNCHANGED <<kind, db, backups, held>>

SchemaIncompatible ==
  /\ boot.step = "check" /\ Unknown /\ kind = "production"
  /\ Refuse
  /\ UNCHANGED <<kind, db, backups, held>>

(* A demo database of a newer release is replaced by the bundled one, which is *)
(* then backed up and rotated like any other.                                  *)
ResetDemo ==
  /\ boot.step = "check" /\ Unknown /\ kind = "demo"
  /\ db' = Bundled(boot.release)
  /\ boot' = [boot EXCEPT !.step = "backup", !.before = Bundled(boot.release)]
  /\ UNCHANGED <<kind, backups, held, fk>>

--------------------------------------------------------------------------------
(* run_migrations over the whole platform set. The pool hands out any of its   *)
(* connections, opening one (with foreign_keys on) when it likes.              *)
Acquired(c) == [fk EXCEPT ![c] = IF @ = "closed" THEN "on" ELSE @]

ForeignKeysOff ==
  /\ boot.step = "platform" /\ db.plat < PlatformOf[boot.release]
  /\ Step("migrating")
  /\ \E c \in Connections : fk' = [fk EXCEPT ![c] = "off"]
  /\ UNCHANGED <<kind, db, backups, held>>

NothingToApply ==
  /\ boot.step = "platform" /\ db.plat >= PlatformOf[boot.release]
  /\ Step("shop")
  /\ UNCHANGED <<kind, db, backups, held, fk>>

ApplySingle ==
  /\ boot.step = "migrating" /\ db.plat < PlatformOf[boot.release]
  /\ db' = [db EXCEPT !.plat = @ + 1]
  /\ \E c \in Connections : fk' = Acquired(c)
  /\ UNCHANGED <<kind, backups, held, boot>>

BatchEnds ==
  /\ boot.step = "migrating"
  /\ boot' = [boot EXCEPT !.step = "cycle", !.failing = db.plat < PlatformOf[boot.release]]
  /\ UNCHANGED <<kind, db, backups, held, fk>>

\* Mutant of CycleForeignKeys: one statement on whichever connection the pool hands out.
SwitchBackOne ==
  /\ boot.step = "cycle" /\ ~ boot.failing
  /\ Step("shop")
  /\ \E c \in Connections : fk' = [fk EXCEPT ![c] = "on"]
  /\ UNCHANGED <<kind, db, backups, held>>

(* Every slot of the pool is held at once and switched back on; only then is   *)
(* the batch's error returned.                                                 *)
CycleForeignKeys ==
  /\ boot.step = "cycle" /\ ~ boot.failing
  /\ Step("shop")
  /\ fk' = [c \in Connections |-> "on"]
  /\ UNCHANGED <<kind, db, backups, held>>

(* The batch's error, or one of a shop migration.                              *)
MigrationFails ==
  /\ boot.step = "shop" \/ (boot.step = "cycle" /\ boot.failing)
  /\ Refuse
  /\ UNCHANGED <<kind, db, backups, held>>

(* Migrator::up, one transaction per migration.                                *)
ShopMigration ==
  /\ boot.step = "shop" /\ db.shop < boot.release
  /\ db' = [db EXCEPT !.shop = @ + 1]
  /\ UNCHANGED <<kind, backups, held, boot, fk>>

ShopDone ==
  /\ boot.step = "shop" /\ db.shop = boot.release
  /\ Step("second")
  /\ UNCHANGED <<kind, db, backups, held, fk>>

\* Mutant of Backfill: the rows of seaql_migrations are not copied.
NoBackfill(d) == d

(* run_per_profile_migrations: seaql_migrations is copied into                 *)
(* kikan_migrations, and what is then still missing is applied.                *)
Backfill(d) == [d EXCEPT !.rows = IF @ < d.shop THEN d.shop ELSE @]

SecondPass ==
  /\ boot.step = "second"
  /\ db' = Backfill(db)
  /\ boot' = [boot EXCEPT !.step = "serving", !.reapplied = Backfill(db).rows < boot.release]
  /\ UNCHANGED <<kind, backups, held, fk>>

--------------------------------------------------------------------------------
(* External: the shop works, the server stops or dies, the operator keeps a    *)
(* copy and puts one back while the server is down.                            *)
Work ==
  /\ boot.step = "serving"
  /\ db' = [db EXCEPT !.work = 1 - @]
  /\ UNCHANGED <<kind, backups, held, boot, fk>>

Crash ==
  /\ boot.step # "down"
  /\ boot' = Down /\ fk' = NoPool
  /\ UNCHANGED <<kind, db, backups, held>>

BackupCommand ==
  /\ boot.step = "serving"
  /\ held' = db
  /\ UNCHANGED <<kind, db, backups, boot, fk>>

RestoreCommand ==
  /\ boot = Down
  /\ \E d \in {held} \cup {backups[v] : v \in Versions} : d # NoFile /\ db' = d
  /\ UNCHANGED <<kind, backups, held, boot, fk>>

Next ==
  \/ \E r \in Versions : SetupExisting(r) \/ SetupFresh(r)
  \/ PreMigrationBackup \/ RotateBackups \/ BackupFails
  \/ SchemaKnown \/ SchemaIncompatible \/ ResetDemo
  \/ ForeignKeysOff \/ NothingToApply \/ ApplySingle \/ BatchEnds \/ CycleForeignKeys
  \/ MigrationFails \/ ShopMigration \/ ShopDone \/ SecondPass
  \/ Work \/ Crash \/ BackupCommand \/ RestoreCommand

Spec == Init /\ [][Next]_vars

--------------------------------------------------------------------------------
Migrating == boot.step \in {"platform", "migrating", "cycle", "shop", "second", "serving"}

(* A boot that may have migrated a database leaves the content it started from *)
(* in the backup of that version, unless the rotation already holds its fill   *)
(* of newer versions.                                                          *)
Migrated == boot.before # [db EXCEPT !.work = boot.before.work]

BackedUp ==
  Migrating /\ boot.before # NoFile /\ Migrated =>
    \/ boot.before.shop = 0
    \/ Cardinality({v \in Existing : v > boot.before.shop}) >= KeepBackups
    \/ backups[boot.before.shop] = boot.before

(* Migrations run with foreign_keys off on some connection of the pool; a pool *)
(* the server works with has it on everywhere.                                 *)
PoolEnforced == boot.step \in {"shop", "second", "serving"} => "off" \notin {fk[c] : c \in Connections}

(* Two runners share a database and record in two tables: what one applied is  *)
(* not applied again by the other, whichever boot it was interrupted in.       *)
NeverReapplied == ~ boot.reapplied

================================================================================
