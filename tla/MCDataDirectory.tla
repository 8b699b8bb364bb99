--------------------------- MODULE MCDataDirectory ---------------------------
\* What lies in the data directory and what boots, upgrades, backups, restores and
\* uploads do to it. No two components share state, so each behaviour is one of a
\* single component; part says of which.
EXTENDS LegacyUpgrade

CONSTANTS Releases, PlatformOf, KeepBackups, Connections, NoFile

CONSTANTS Exts, Names, MaxWork, Absent, Dbs, MaxChanges, Torn, Rotten

CONSTANTS Requests, Starting, None, Uploads

CONSTANTS Count, Refs, MaxDeps, MaxEdges, Procs, Nobody, MaxStarts, MaxBoots

VARIABLES part,
          kind, db, backups, held, boot, fk,
          role, origin, schema, rows, seaql, pass, plan, again,
          live, logo, copies, shop_up, work, backup, restore,
          bundled, snap, manifest, made, changes, job,
          slot, temp, written, profile, sentinel, first, busy, up, req, task, hung,
          row, files, upload, mixed, failed,
          target, ref, deps, stage, inDegree, heap, result, cause,
          lock, sock_file, cmd, main, admin, cancelled, stalled, exit, starts,
          at, boots, flat, paths, pointer, sidecar, recorded, graft, pools, setup_completed,
          token, repaired, cut, torn, moved, meddled

MCPlatformOf == <<1, 2>>

Upgrade == INSTANCE ProfileUpgrade

ASSUME UpgradeConstants == Upgrade!ReleaseAssumption

Migration == INSTANCE MigrationHistory WITH tables <- schema

Copy == INSTANCE BackupRestore WITH server <- shop_up

ASSUME CopyConstants == Copy!NamesAssumption

Bundle == INSTANCE BundleRestore WITH
    live <- bundled, work <- changes, MaxWork <- MaxChanges

ASSUME BundleConstants == Bundle!BoundAssumption

Restore == INSTANCE RestoreSlot WITH Boot <- Starting

ASSUME RestoreConstants == Restore!SlotAssumption

Logo == INSTANCE ShopLogo WITH Requests <- Uploads, req <- upload

Order == INSTANCE DependencyOrder WITH refusal <- cause

ASSUME OrderConstants == Order!RefsAssumption

Cli == INSTANCE Commands WITH pc <- main

ASSUME CliConstants == Cli!ProcsAssumption

Booting == INSTANCE Boot WITH pc <- at, file <- paths, pool <- pools

ASSUME BootConstants == Booting!NoneAssumption

upgradeVars == <<kind, db, backups, held, boot, fk>>
migrationVars == <<role, origin, schema, rows, seaql, pass, plan, again>>
copyVars == <<live, logo, copies, shop_up, work, backup, restore>>
bundleVars == <<bundled, snap, manifest, made, changes, job>>
restoreVars == <<slot, temp, written, profile, sentinel, first, busy, up, req, task, hung>>
logoVars == <<row, files, upload, mixed, failed>>
orderVars == <<target, ref, deps, stage, inDegree, heap, result, cause>>
cliVars == <<lock, sock_file, cmd, main, admin, cancelled, stalled, exit, starts>>
bootVars == <<at, boots, flat, paths, pointer, sidecar, recorded, graft, pools, setup_completed,
              token, repaired, cut, torn, moved, meddled>>

MCInit ==
    /\ part \in {"legacy", "upgrade", "migration", "copy", "bundle", "restore", "logo",
                "order", "commands", "boot"}
    /\ part # "upgrade" => kind = "demo"
    /\ part # "migration" =>
          role = "meta" /\ origin = "fresh" /\ schema = {} /\ rows = {} /\ seaql = {}
    /\ part # "bundle" => bundled = [d \in Dbs |-> 0]
    /\ part # "logo" => row = None
    /\ part # "order" =>
          target = [i \in 1 .. Count |-> Order!Meta]
          /\ ref = [i \in 1 .. Count |-> i] /\ deps = [i \in 1 .. Count |-> <<>>]
    /\ part # "commands" => sock_file = "none"
    /\ part # "boot" =>
          sidecar = "missing" /\ graft = Booting!Mokumo /\ flat = "shop"
    /\ Init /\ Upgrade!Init /\ Migration!Init /\ Copy!Init /\ Bundle!Init /\ Restore!Init
    /\ Logo!Init /\ Order!Init /\ Cli!Init /\ Booting!Init

Only(p) ==
    /\ UNCHANGED part
    /\ p # "legacy" => UNCHANGED vars
    /\ p # "upgrade" => UNCHANGED upgradeVars
    /\ p # "migration" => UNCHANGED migrationVars
    /\ p # "copy" => UNCHANGED copyVars
    /\ p # "bundle" => UNCHANGED bundleVars
    /\ p # "restore" => UNCHANGED restoreVars
    /\ p # "logo" => UNCHANGED logoVars
    /\ p # "order" => UNCHANGED orderVars
    /\ p # "commands" => UNCHANGED cliVars
    /\ p # "boot" => UNCHANGED bootVars

LegacyNext ==
    \/ PrepareDatabase
    \/ DetectBootState
    \/ SlugRejected
    \/ MoveUsers
    \/ DropLegacyTables
    \/ RegisterProfile
    \/ Crash
    \/ \E e \in Emails :
          \/ SetupAdmin(e)
          \/ Bootstrap(e)
          \/ CreateUser(e)
    \/ \E name \in ShopNames : NameShop(name)
    \/ ResetDb

UpgradeNext ==
    \/ \E r \in Upgrade!Versions :
          \/ Upgrade!SetupExisting(r)
          \/ Upgrade!SetupFresh(r)
    \/ Upgrade!PreMigrationBackup
    \/ Upgrade!RotateBackups
    \/ Upgrade!BackupFails
    \/ Upgrade!SchemaKnown
    \/ Upgrade!SchemaIncompatible
    \/ Upgrade!ResetDemo
    \/ Upgrade!ForeignKeysOff
    \/ Upgrade!NothingToApply
    \/ Upgrade!ApplySingle
    \/ Upgrade!BatchEnds
    \/ Upgrade!CycleForeignKeys
    \/ Upgrade!MigrationFails
    \/ Upgrade!ShopMigration
    \/ Upgrade!ShopDone
    \/ Upgrade!SecondPass
    \/ Upgrade!Work
    \/ Upgrade!Crash
    \/ Upgrade!BackupCommand
    \/ Upgrade!RestoreCommand

MigrationNext ==
    \/ Migration!StartUp
    \/ Migration!NextPass
    \/ Migration!Crash
    \/ \E m \in plan :
          \/ Migration!Apply(m)
          \/ Migration!Fail(m)

CopyNext ==
    \/ Copy!Start
    \/ Copy!Checkpoint
    \/ Copy!Stop
    \/ \E e \in Exts : Copy!Upload(e)
    \/ Copy!DeleteLogo
    \/ Copy!Edit
    \/ \E n \in Names :
          \/ Copy!CliBackup(n)
          \/ Copy!SocketBackup(n)
    \/ Copy!CliBackupLogo
    \/ \E p \in Copy!Copies \cup {Copy!Alias} : Copy!RestoreBegin(p)
    \/ Copy!SafetyBackup
    \/ Copy!RemoveSidecars
    \/ Copy!CopyOver
    \/ Copy!SweepStaleLogos
    \/ Copy!RestoreLogo
    \/ Copy!RestoreDies

BundleNext ==
    \/ \E d \in Dbs :
          \/ Bundle!Work(d)
          \/ Bundle!Rot(d)
    \/ \E s \in Bundle!Lists :
          \/ Bundle!CreateBegin(s)
          \/ Bundle!RestoreBegin(s)
    \/ Bundle!Snapshot
    \/ Bundle!SnapshotFails
    \/ Bundle!WriteManifest
    \/ Bundle!PairTargets
    \/ Bundle!PairingRefused
    \/ Bundle!VerifySnapshot
    \/ Bundle!CorruptSnapshot
    \/ Bundle!NoDirectory
    \/ Bundle!Rename
    \/ Bundle!CopyAcross
    \/ Bundle!CopyComplete
    \/ Bundle!MoveFails
    \/ Bundle!Die

RestoreNext ==
    \/ Restore!RemoveProduction
    \/ Restore!SelectDemo
    \/ Restore!Stop
    \/ Restore!Restart
    \/ \E r \in Requests :
          \/ Restore!Send(r)
          \/ Restore!FirstLaunch(r)
          \/ Restore!SlotFree(r)
          \/ Restore!Claim(r)
          \/ Restore!StillFirstLaunch(r)
          \/ Restore!TurnedAway(r)
          \/ Restore!CopyCheck(r)
          \/ Restore!CopyOpen(r)
          \/ Restore!CopyWrite(r)
          \/ Restore!CopyFails(r)
          \/ Restore!CopyRename(r)
          \/ Restore!Copied(r)
          \/ Restore!ProfileTmp(r)
          \/ Restore!ProfileRename(r)
          \/ Restore!WriteSentinel(r)
          \/ Restore!RollBack(r)
          \/ Restore!RollBackFails(r)
          \/ Restore!HangUp(r)

LogoNext ==
    \E r \in Uploads :
        \/ \E e \in Exts : Logo!Upload(r, e)
        \/ Logo!WriteFile(r)
        \/ Logo!UpsertLogo(r)
        \/ Logo!UpsertFails(r)
        \/ Logo!UndoFile(r)
        \/ Logo!RemoveStale(r)
        \/ Logo!Delete(r)
        \/ Logo!ClearRow(r)
        \/ Logo!RemoveFile(r)
        \/ Logo!Dropped(r)

OrderNext ==
    \/ Order!Refuse
    \/ Order!BuildAdjacency
    \/ Order!Pop
    \/ Order!Finish
    \/ Order!Cyclic

CliNext ==
    \E p \in Procs :
        \/ \E c \in Cli!Commands : Cli!Start(p, c)
        \/ \E t \in Cli!Tasks :
              \/ Cli!Stall(p, t)
              \/ Cli!Unstall(p, t)
        \/ Cli!Refused(p)
        \/ Cli!LockHeld(p)
        \/ Cli!TakeLock(p)
        \/ Cli!Boot(p)
        \/ Cli!BootFails(p)
        \/ Cli!EarlyFailure(p)
        \/ Cli!Ready(p)
        \/ Cli!Signal(p)
        \/ Cli!Drained(p)
        \/ Cli!RestartRequested(p)
        \/ Cli!Join(p)
        \/ Cli!RuntimeEnds(p)
        \/ Cli!Crash(p)
        \/ Cli!Bootstrap(p)
        \/ Cli!BackupCreate(p)
        \/ Cli!ResetPassword(p)
        \/ Cli!ResetDb(p)
        \/ Cli!Restore(p)
        \/ Cli!RemoveStale(p)
        \/ Cli!Bind(p)
        \/ Cli!BindFails(p)
        \/ Cli!AdminStops(p)
        \/ Cli!Cleanup(p)
        \/ Cli!NoSocket(p)
        \/ Cli!RequestFails(p)
        \/ Cli!AskDaemon(p)
        \/ Cli!Diagnose(p)
        \/ Cli!ProfileList(p)
        \/ Cli!MigrateStatus(p)
        \/ Cli!BackupList(p)

MCNext ==
    \/ part = "legacy" /\ LegacyNext /\ Only("legacy")
    \/ part = "upgrade" /\ UpgradeNext /\ Only("upgrade")
    \/ part = "migration" /\ MigrationNext /\ Only("migration")
    \/ part = "copy" /\ CopyNext /\ Only("copy")
    \/ part = "bundle" /\ BundleNext /\ Only("bundle")
    \/ part = "restore" /\ RestoreNext /\ Only("restore")
    \/ part = "logo" /\ LogoNext /\ Only("logo")
    \/ part = "order" /\ OrderNext /\ Only("order")
    \/ part = "commands" /\ CliNext /\ Only("commands")
    \/ part = "boot" /\ Booting!Next /\ Only("boot")

allVars == <<part, vars, upgradeVars, migrationVars, copyVars, bundleVars, restoreVars,
             logoVars, orderVars, cliVars, bootVars>>

MCSpec == MCInit /\ [][MCNext]_allVars

-----------------------------------------------------------------------------
\* The order of the migrations respects dependencies and databases, and no sound set
\* of migrations is refused; no migration of a new database meets a table that is
\* missing or there already.
MigrationsRight ==
    /\ part = "order" => Order!OrderSound /\ Order!RefusedForCause
    /\ part = "migration" => Migration!SchemaThere

\* The move from the flat layout keeps the shop's data wherever the boot is cut short but
\* in the middle of the copy, and comes up in production unless it was cut short in the
\* middle of writing active_profile either; a server's pools read the files at their
\* paths, its kinds are kept apart, and a shop without an administrator asks for a token.
BootSafe == part = "boot" => Booting!BootSafe

\* One process at a time works on the files under the lock, and the admin socket is
\* that of the server that listens.
CommandsSafe == part = "commands" => (Cli!OneOwner /\ Cli!SocketIsOurs)

\* Every variable of the component in motion has its type.
TypesOK ==
    /\ part = "legacy" => TypeOK
    /\ part = "upgrade" => Upgrade!TypeOK
    /\ part = "migration" => Migration!TypeOK
    /\ part = "copy" => Copy!TypeOK
    /\ part = "bundle" => Bundle!TypeOK
    /\ part = "restore" => Restore!TypeOK
    /\ part = "logo" => Logo!TypeOK
    /\ part = "boot" => Booting!TypeOK

\* A boot that may have migrated a database leaves its content in a backup, unless
\* the rotation already holds its fill of newer ones; it applies nothing twice and
\* serves from a pool that enforces foreign keys on every connection.
UpgradeSound == Upgrade!BackedUp /\ Upgrade!NeverReapplied /\ Upgrade!PoolEnforced

\* A restore that dies anywhere has not cost the database it found, and a backup of a
\* quiet shop brings its logo back; a refused bundle restore has touched nothing, and
\* however one ends, the bundle has lost no database.
CopiesKept ==
    /\ Copy!RestoreSafe /\ Copy!LogoComesBack
    /\ Bundle!RefusedUntouched /\ Bundle!BundleNotLost

\* A restore into the empty slot is complete when it says so, undone when it fails.
SuccessOrNothing == Restore!SuccessOrNothing

\* The row names a logo file that is there, wherever a change was cut short.
RowNamesFile == Logo!RowNamesFile
=============================================================================
