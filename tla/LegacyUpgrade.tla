---------------------------- MODULE LegacyUpgrade ----------------------------
(***************************************************************************)
(* The life of one data directory: the server prepares the production        *)
(* database, decides from what it finds which kind of install it is, perhaps *)
(* moves the accounts to meta.db, and serves; it may crash at any point and  *)
(* is started again.  In between, the setup wizard, the bootstrap command    *)
(* and an administrator create accounts, and the operator may delete the     *)
(* production database.                                                      *)
(*                                                                          *)
(* The first account is the administrator and never goes away again (module *)
(* UserAdmin), so there is an admin exactly when there is an account.  A      *)
(* shop name is usable, rejected by derive_slug, or blank.                   *)
(***************************************************************************)
EXTENDS Naturals

CONSTANTS
    Emails,
    MaxResets   \* how often the operator deletes the production database

ASSUME ResetAssumption == MaxResets \in Nat

VARIABLES
    file,           \* production/mokumo.db exists
    tables,         \* ... and has the users and roles tables
    users,          \* ... with these rows
    nextId,         \* ... and this AUTOINCREMENT counter
    shopName,       \* ... shop_settings.shop_name
    setupComplete,  \* ... settings.setup_complete
    metaUsers,      \* meta.db: the users table
    profiles,       \* meta.db: rows of the profiles table
    audits,         \* meta.db: LegacyUpgradeMigrated entries of activity_log
    pc,             \* where the server process is
    refusal,        \* why the last boot was refused
    completed,      \* PlatformState::setup_completed
    naming,         \* a wizard has created its admin and not yet named the shop
    resets,         \* history: how often the production database was deleted
    accounts        \* history: the accounts of the present production database

production == <<file, tables, users, nextId, shopName, setupComplete>>
meta == <<metaUsers, profiles, audits>>
server == <<pc, refusal, completed, naming>>
history == <<resets, accounts>>
vars == <<production, meta, server, history>>

ShopNames == {"usable", "rejected", "blank"}
User == [email : Emails, id : Nat]
EmailsOf(rows) == {u.email : u \in rows}
IdsOf(rows) == {u.id : u \in rows}

TypeOK ==
    /\ file \in BOOLEAN
    /\ tables \in BOOLEAN
    /\ users \in SUBSET User
    /\ nextId \in Nat
    /\ shopName \in ShopNames
    /\ setupComplete \in BOOLEAN
    /\ metaUsers \in SUBSET User
    /\ profiles \in Nat
    /\ audits \in Nat
    /\ pc \in {"down", "prepared", "upgrade", "copied", "dropped", "serving", "refused"}
    /\ refusal \in {"none", "unreadable", "blank", "slug", "unsupported"}
    /\ completed \in BOOLEAN
    /\ naming \in BOOLEAN
    /\ resets \in Nat
    /\ accounts \in SUBSET Emails

Init ==
    /\ file = FALSE
    /\ tables = FALSE
    /\ users = {}
    /\ nextId = 1
    /\ shopName = "blank"
    /\ setupComplete = FALSE
    /\ metaUsers = {}
    /\ profiles = 0
    /\ audits = 0
    /\ pc = "down"
    /\ refusal = "none"
    /\ completed = FALSE
    /\ naming = FALSE
    /\ resets = 0
    /\ accounts = {}

-----------------------------------------------------------------------------
(* Boot *)

Stopped == pc \in {"down", "refused"}

\* A new production database gets its tables from the platform migrations. They
\* are recorded in its own history, so a users table that was dropped from an
\* existing one is not created again.
OpenProduction ==
    /\ file' = TRUE
    /\ IF file THEN UNCHANGED tables ELSE tables' = TRUE

\* prepare_database, and init_session_and_setup reading the setup state.
PrepareDatabase ==
    /\ Stopped
    /\ OpenProduction
    /\ pc' = "prepared"
    /\ refusal' = "none"
    /\ completed' = setupComplete
    /\ UNCHANGED <<users, nextId, shopName, setupComplete, meta, naming, history>>

Proceed(next) == pc' = next /\ UNCHANGED <<refusal, completed, naming>>
Refuse(why) == pc' = "refused" /\ refusal' = why /\ UNCHANGED <<completed, naming>>

\* detect_boot_state and dispatch_boot_state: registered installs and installs
\* without an admin boot on; an unreadable one and a blank name stop the boot.
DetectBootState ==
    /\ pc = "prepared"
    /\ IF profiles > 0 THEN Proceed("serving")
       ELSE IF ~tables THEN Refuse("unreadable")
       ELSE IF users = {} THEN Proceed("serving")
       ELSE IF shopName = "blank" THEN Refuse("blank")
       ELSE Proceed("upgrade")
    /\ UNCHANGED <<production, meta, history>>

\* derive_slug, before any database is touched.
SlugRejected ==
    /\ pc = "upgrade"
    /\ shopName = "rejected"
    /\ Refuse("slug")
    /\ UNCHANGED <<production, meta, history>>

Present == EmailsOf(users) \cap EmailsOf(metaUsers)
NoCollision == IdsOf(users) \cap IdsOf(metaUsers) = {}

\* classify_and_maybe_insert: nothing copied yet, and no id is taken.
Fresh == Present = {} /\ NoCollision
\* A prior run committed the copy and did not get to the drop.
CopiedBefore == Present # {} /\ Present = EmailsOf(users)

InsertLegacyIntoMeta ==
    /\ metaUsers' = metaUsers \cup users
    /\ UNCHANGED <<profiles, audits>>

\* Mutants of MoveUsers: copies the accounts one at a time, outside a transaction;
MoveUsersOneByOne ==
    /\ pc = "upgrade"
    /\ shopName = "usable"
    /\ IF users \subseteq metaUsers
       THEN Proceed("copied") /\ UNCHANGED meta
       ELSE /\ Proceed("upgrade")
            /\ \E u \in users \ metaUsers : metaUsers' = metaUsers \cup {u}
            /\ UNCHANGED <<profiles, audits>>
    /\ UNCHANGED <<production, history>>

\* takes every overlap for a finished copy;
MoveUsersTrusting ==
    /\ pc = "upgrade"
    /\ shopName = "usable"
    /\ IF Fresh THEN Proceed("copied") /\ InsertLegacyIntoMeta
       ELSE Proceed("copied") /\ UNCHANGED meta
    /\ UNCHANGED <<production, history>>

\* or runs the collision check before it looks for a finished copy.
MoveUsersCheckFirst ==
    /\ pc = "upgrade"
    /\ shopName = "usable"
    /\ IF NoCollision THEN Proceed("copied") /\ InsertLegacyIntoMeta
       ELSE Refuse("unsupported") /\ UNCHANGED meta
    /\ UNCHANGED <<production, history>>

\* run_data_move up to its commit or rollback: one transaction on meta.db, which
\* holds the write lock from its first statement.
MoveUsers ==
    /\ pc = "upgrade"
    /\ shopName = "usable"
    /\ IF Fresh THEN Proceed("copied") /\ InsertLegacyIntoMeta
       ELSE IF CopiedBefore THEN Proceed("copied") /\ UNCHANGED meta
       ELSE Refuse("unsupported") /\ UNCHANGED meta
    /\ UNCHANGED <<production, history>>

\* drop_legacy_tables: a transaction of its own, on the production database.
DropLegacyTables ==
    /\ pc = "copied"
    /\ tables' = FALSE
    /\ users' = {}
    /\ Proceed("dropped")
    /\ UNCHANGED <<file, nextId, shopName, setupComplete, meta, history>>

\* Mutant of RegisterProfile: the audit entry in a transaction of its own.
RegisterProfileAuditFirst ==
    /\ pc = "dropped"
    /\ IF audits = profiles
       THEN audits' = audits + 1 /\ UNCHANGED profiles /\ Proceed("dropped")
       ELSE profiles' = profiles + 1 /\ UNCHANGED audits /\ Proceed("serving")
    /\ UNCHANGED <<production, metaUsers, history>>

\* The meta.profiles row and its audit entry in one transaction; the per-profile
\* migrations that follow find nothing to do.
RegisterProfile ==
    /\ pc = "dropped"
    /\ profiles' = profiles + 1
    /\ audits' = audits + 1
    /\ Proceed("serving")
    /\ UNCHANGED <<production, metaUsers, history>>

\* A crash, a failed query that ends the boot, or a server that is stopped.
Crash ==
    /\ ~Stopped
    /\ pc' = "down"
    /\ naming' = FALSE
    /\ UNCHANGED <<production, meta, refusal, completed, history>>

-----------------------------------------------------------------------------
(* What happens to the production database outside the upgrade *)

\* Mutant of AddUser: the row without its id.
AddUserNoId(e) ==
    /\ users' = users \cup {[email |-> e]}
    /\ nextId' = nextId + 1
    /\ accounts' = accounts \cup {e}

\* Email is UNIQUE in the users table.
AddUser(e) ==
    /\ e \notin EmailsOf(users)
    /\ users' = users \cup {[email |-> e, id |-> nextId]}
    /\ nextId' = nextId + 1
    /\ accounts' = accounts \cup {e}

\* The wizard asks only the flag in memory; its shop name follows in a second
\* statement.
SetupAdmin(e) ==
    /\ pc = "serving"
    /\ tables
    /\ ~completed
    /\ AddUser(e)
    /\ setupComplete' = TRUE
    /\ completed' = TRUE
    /\ naming' = TRUE
    /\ UNCHANGED <<file, tables, shopName, meta, pc, refusal, resets>>

\* Best effort: a failed write is logged and setup has succeeded. Any string
\* that is not empty is accepted, blanks included.
NameShop(name) ==
    /\ naming
    /\ naming' = FALSE
    /\ shopName' \in {name, shopName}
    /\ UNCHANGED <<file, tables, users, nextId, setupComplete, meta, pc, refusal,
                   completed, history>>

\* mokumo-server bootstrap: prepares the database itself, takes no lock, and
\* never names the shop.
Bootstrap(e) ==
    /\ file => tables
    /\ users = {}
    /\ OpenProduction
    /\ AddUser(e)
    /\ setupComplete' = TRUE
    /\ UNCHANGED <<shopName, meta, server, resets>>

CreateUser(e) ==
    /\ pc = "serving"
    /\ users # {}
    /\ AddUser(e)
    /\ UNCHANGED <<file, tables, shopName, setupComplete, meta, server, resets>>

\* mokumo-server reset-db --production: refused while a server holds the lock;
\* meta.db stays.
ResetDb ==
    /\ Stopped
    /\ resets < MaxResets
    /\ file' = FALSE
    /\ tables' = FALSE
    /\ users' = {}
    /\ nextId' = 1
    /\ shopName' = "blank"
    /\ setupComplete' = FALSE
    /\ accounts' = {}
    /\ resets' = resets + 1
    /\ UNCHANGED <<meta, server>>

-----------------------------------------------------------------------------
Next ==
    \/ PrepareDatabase
    \/ DetectBootState
    \/ SlugRejected
    \/ MoveUsers
    \/ DropLegacyTables
    \/ RegisterProfile
    \/ Crash
    \/ \E e \in Emails : SetupAdmin(e) \/ Bootstrap(e) \/ CreateUser(e)
    \/ \E name \in ShopNames : NameShop(name)
    \/ ResetDb

Spec == Init /\ [][Next]_vars

-----------------------------------------------------------------------------
\* No crash and no refusal loses an account: it is in the production database or
\* in meta.db, until the operator deletes the production database.
AccountsKept == accounts \subseteq EmailsOf(users) \cup EmailsOf(metaUsers)

\* "This cannot arise from our own crash": unless the production database was
\* deleted and made anew, no boot is refused as unsupported.
OwnCrashesRecovered == refusal = "unsupported" => resets > 0

\* The install is registered at most once, with exactly one audit entry, and only
\* when its accounts have left the production database.
RegisteredOnce ==
    /\ profiles <= 1
    /\ audits = profiles
    /\ profiles = 1 /\ resets = 0 => ~tables

\* Seen from outside, the boots, crashes and refusals are a single move.
Move == INSTANCE AccountMove WITH
            source <- EmailsOf(users),
            target <- EmailsOf(metaUsers),
            registered <- profiles > 0

\* The refinement: every step of a boot is a step of AccountMove or changes
\* nothing in it.
MovesOnce == Move!Spec

\* What upgrade.rs says of a crash between the drop and the meta.profiles insert:
\* the next boot re-enters the upgrade.
UpgradeResumes == refusal # "unreadable"

\* The production database, which login reads, has every account of the install
\* whenever the server serves.
AccountsReachable == pc = "serving" => accounts \subseteq EmailsOf(users)
=============================================================================
