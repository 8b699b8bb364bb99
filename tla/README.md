# Formal models of the Mokumo server

TLA+ models of the programs in this repository, the TLC configurations that check them,
and proofs that TLAPS checks. Paths below are relative to the repository root;
`PROJECT.json` maps every definition that models code to the lines it was translated
from, lists every run with its properties and the mutants they are tested against, every
hazard with its line, and every theorem.

Contents: [1 The system](#1-the-system) · [2 Layout](#2-layout-and-conventions) ·
[3 Modules](#3-modules) · [4 Runs](#4-runs) · [5 Fairness](#5-fairness) ·
[6 Proofs](#6-proofs) · [7 Divergences](#7-where-the-code-departs-from-its-documentation) ·
[8 Observations](#8-observations) · [9 Not modelled](#9-what-is-not-modelled) ·
[10 Plan](#10-plan)

To run a model or check a proof, in this directory:

    tlc -workers 2 -config Accounts.cfg MCAccounts.tla
    tlapm AccountsProofs.tla

## 1 The system

Mokumo is a shop-management server that runs on one machine and is used over the LAN.
`kikan` is its platform layer (accounts, sessions, profiles, migrations, boot),
`mokumo-shop` the application on it; `mokumo-server` runs it headless, `mokumo-desktop`
inside a Tauri application; `kikan-cli` has the operator's commands; `scorecard` and
`docs-gen` judge the code in CI. A server is one process, an async runtime in which
handlers interleave at every `await`; operator commands are further processes on the
same files. State is in four places: memory (`PlatformState`, `ControlPlaneState`, the
run loop), SQLite databases in WAL mode (`meta.db`, `sessions.db`, and a `mokumo.db` for
each of the profiles *production* and *demo*), files (`active_profile`, recovery files,
`.restart`, backups, logos, the lock and the admin socket), and the client's cookie.

| Component | State | Operations | Hard behaviour | Correct when |
|---|---|---|---|---|
| PIN recovery (`control_plane/auth/`) | `reset_pins` in memory, a recovery file per email, the password | request, complete, legacy reset, sweep | handlers interleave between calls on a shared map; hang-ups; wall clock set back | a session sees a bounded number of PINs, is redeemed once and in time, and leaves no PIN behind |
| Accounts (`auth/service.rs`, `auth/repo.rs`) | `users`, triggers | create, change role, delete | DEFERRED transactions; one check outside and one inside | an administrator always remains; a decision holds when it is written |
| First administrator (`control_plane/users.rs`, bootstrap) | two flags in memory, the setup token, `users`, `settings` | wizard, bootstrap, restart | two processes; dropped handlers; flags that stand in for a lock | each way in creates one administrator; the flag is true |
| Login and lockout (`auth/repo.rs`) | counter and lock, activity log | login, unlock | a state read, a slow hash, a transaction | no early lock, no lost count, a true log |
| Recovery codes (`auth/repo.rs`) | hashed codes per account | use, regenerate | hashing between read and update, three attempts on busy | each code works once, replaced ones never |
| Active profile (`profiles.rs`, `profile_switch.rs`, `setup.rs`) | memory, `active_profile`, its temporary files, sessions | switch, rollback, setup, bootstrap, restart | two-step update without a lock; a shared temporary file | memory and file agree; users can go back |
| Request path (`data_plane/`, `profile_db.rs`, `auth/`) | session, accounts, active profile | host, forwarded, session, CSRF, database, demo login | layers that trust each other's order; profile and account change in between | changes are ours; a session is no better than its account |
| Names, errors (`slug.rs`, `*_error.rs`) | - | derive, validate, convert | copies of the same rules | slugs pass their own rules; answers agree and leak nothing |
| Legacy upgrade (`meta/boot_state.rs`, `meta/upgrade.rs`, `engine.rs`) | production database, `meta.db` | boot, upgrade, setup, bootstrap, `reset-db` | three transactions over two databases, crashes between | no account is lost, the install is registered once |
| Boot (`startup.rs`, `engine.rs`, `graft.rs`) | layout, pools, token | move of the flat layout, side-car, pools, repair | a crash at each step | no data lost; pools read the files at their paths |
| Migrations (`migrations/`, `backup/mod.rs`) | schema, history tables, pre-migration backups | order, back up, rotate, apply, back-fill | crash in a batch; two runners, two histories; a pragma per connection | order respected, nothing run twice, the last good content kept |
| Backup and restore (`backup/snapshot.rs`, `lifecycle.rs`), bundles (`meta/backup.rs`), import (`restore_handler.rs`) | databases and side-cars, safety backup, bundle, slot | copy, rename, roll back | crash between steps; several renames; hang-ups | old or new data, or a backup of the old; all or nothing |
| Shop logo (`shop/handler.rs`) | file, row | upload, delete | file and row written apart | the row names a file that exists |
| Processes and commands (`kikan-cli`, `mokumo-server/src/main.rs`, `kikan-socket`) | lock, socket, exit codes | serve, backup, restore, reset, bootstrap, readers | several processes; stale socket; drains | one owner of the files; the socket leads to who listens |
| Server run (`mokumo-desktop/src/lib.rs`, `demo_reset.rs`) | tokens, sentinel, demo pool | launch, reset, restart, quit | a reset under a running server, twice at once | never left without a server; no pool on a replaced file |
| Desktop shell, LAN discovery, background tasks | window, tray, status, mDNS handle | navigate, poll, quit; register, retry, withdraw | knowledge of a server that was replaced; a retry that wins while it is cancelled | the window follows; an announcement can be withdrawn |
| WebSockets (`ws/`, `kikan-events`) | channel, connection table | relay, lag, close | two tasks and a shutdown end one connection | no connection leaks; a shutdown is announced |
| Customers (`customer/`) | table, activity log | create, update, delete, restore | busy database, dropped handlers | a change and its entry go together |
| Rate limiter (`rate_limit.rs`) | attempts per key | check and record | clock read outside the lock | at most *n* in any window |
| Scorecard, documentation tools (`crates/scorecard`, `tools/docs-gen`) | - | tally, thresholds, rows, route walk, coverage join, audit | shapes of input nobody wrote a test for | the result a definition of it gives |

How they interact: every handler reaches the databases through connection pools, so all
share SQLite's locking (`SqliteWal`). The wizard writes the accounts, then the shop name,
then flips the active profile. Boot reads what all of them left behind. `bootstrap` does
the wizard's work from another process. PIN recovery and recovery codes change the
password that login verifies; profile switches and logins write the same session store;
a demo reset replaces a file under the server's pool and has the run loop build another
server, of which window, tray and announcement hear or do not.

## 2 Layout and conventions

One module per component, of its state as `VARIABLES`, `Init`, an action per step,
`Next` and its properties. Five MC modules put components side by side for one run each.
Where components share state (the accounts and the write lock, the files of the data
directory in `LegacyUpgrade`, a boot's databases) they are one module or extend one.
Where they share none, an MC module has one behaviour be of one component: the constant
variable `part` says of which, `Only(p)` keeps the others still. That loses nothing,
because components without shared state do not notice each other's steps, and it keeps
the states a sum instead of a product. The MC module extends its core component and
instantiates the others; a property that concerns one component alone is guarded by
`part` when its definition is only meant for that component's states.

One action is the code between two points where another task or process can run: an
`await`, two separate calls on a shared map, two statements of a transaction, two file
operations. A caller (request, command, task) has a `pc` or record with what its handler
remembers across them. Crashes, errors and dropped handlers are actions of their own.
Variables commented "history" record what happened and never guard an action. Operators
whose comment says "Mutant of ..." are the mutated forms that each property is tested
against; the specifications do not use them. Passwords, hashes, messages and log texts
are abstracted to what decides control: a PIN guess is right or wrong, a shop name
usable, rejected or blank. The modules *are* the code only by reading; that is why
actions keep the code's names and order.

## 3 Modules

**Requests** (`MCRequests`, core `PinRecovery`)

- `PinRecovery` - `recover.rs`, `pending_reset.rs`, `reset_password.rs`, `sweep.rs`.
  `FindUser`, `WriteArtifact`, `RetainOthers`, `InsertSession`, `DiscardArtifact` are
  `recover_request`; `RecoverComplete` takes the entry out of the map in one call, then
  `RejectSession`, `WrongPin`, `RightPin`, `UpdatePassword`, `RemoveArtifact`. The older
  route is `ResetPassword`, `ResetPasswordTake`. An entry has the age its `SystemTime`
  shows and its real age; `SetClockBack` separates them. It implements `PinTicket`, the abstract
  promise: a session is a ticket, issued once, in one place at a time, tried a bounded number of
  times, good for one change of the password, and lost when anything goes wrong.
- `ActiveProfile` - `profile_switch`, `switch_profile_admin`, `persist_and_flip`
  (`Persist`, `Flip`), `vertical_setup`, the flip in bootstrap, demo auto-login, boot.
  `OpenTmp`, `WriteTmp`, `RenameTmp`, `FileFails` are the write and rename of the shared
  `active_profile.tmp`, followed through other writers' renames.
- `RequestPath` - the layers from the host name to the handler, one pass or refusal each,
  beside profile switches, password changes and deletions.
- `Names` - slugs character by character, directory names, host patterns against the
  parser of the `Host` header. `Errors` - each conversion of an error to an answer.

**Accounts** (`MCAccounts`, core `UserAdmin`), each over `SqliteWal`, the semantics of
SQLite transactions as the repositories use them: `db` is committed, `writer` holds the
write lock, `reading[c]` says whether *c*'s snapshot is fresh; `CanWrite`/`IsBusy` are the
two ways a DEFERRED transaction's first write ends.

- `UserAdmin` - `ServiceFind`, `ServiceCount` are the service's queries, `RepoGuard`,
  `RepoWrite`, `RepoCommit` the repository's transaction, `TriggerAborts` the triggers. It
  implements `OneChange`: each happens at one moment, as the accounts of that moment allow.
- `LoginLockout` - `Check`, then `RecordRead`/`RecordUpdate`/`RecordCommit` or
  `ClearFailedAttempts`/`IssueSession`; `OtherWrite` is any commit elsewhere, which makes
  snapshots stale.
- `RecoveryCodes` - `ResetRead`, `ResetMatch`, `ResetUpdate` with its WHERE on the hash it
  read, `ResetCommit`, `ResetBusy`; `RegenVerify`, `RegenUpdate`, `RegenCommit`. It implements
  a box (`BoxNext`): opened once by each code, only over a password that was looked at, and refilled.
- `Customers` - one transaction per change with its activity entry.
- `RateLimiter` - the layer's three ways and `check_and_record`, clock and lock apart.

**Process** (`MCProcess`, core `FirstAdmin`)

- `FirstAdmin` - `setup_admin`'s three guards, transaction, `Publish` and `Release`;
  `HangUp` drops the handler at its await; `Restart` rebuilds the flags; the command is
  `BootstrapCount`, `BootstrapInsert`, `BootstrapCommit`.
- `ServerRun` - launch and boot over the demo database, `demo_reset` step by step,
  sentinel, tokens, restart loop, quit, drain and crash; `Desktop` chooses the process.
- `Connections`, `DesktopShell` - as section 1 says. `BackgroundTasks` has the tasks of a
  server, those of its announcement on the LAN included, which share its shutdown token.
- `PinRecovery` and `UserAdmin` again, for what must end.

**Data directory** (`MCDataDirectory`, core `LegacyUpgrade`)

- `LegacyUpgrade` - the life of a data directory: `PrepareDatabase`, `DetectBootState`,
  the three transactions `MoveUsers`, `DropLegacyTables`, `RegisterProfile`, `Crash`
  anywhere, and all that writes the production database between boots. It implements
  `AccountMove`, the abstract promise: accounts join, are copied all at once, are
  discarded only when every one has its copy, the install is registered once.
- `ProfileUpgrade` - a database across releases: backup, rotation, schema check,
  platform and shop migrations, the pragma of each connection. `MigrationHistory` - the
  individual migrations, two history tables, back-fill. `DependencyOrder` - `resolve`, over lists
  of dependencies that may name a migration twice and then count it twice.
- `BackupRestore`, `BundleRestore`, `RestoreSlot`, `ShopLogo` - copies by command, of
  several databases, into the empty slot, and of the logo.
- `Boot` - each step of `prepare_database` and `Engine::boot`; a copy or a `std::fs::write` has a
  state in its middle (`cut`, `torn` record a boot that was stopped there). `Commands` - the
  processes that share the directory, their lock and socket. The lock goes when `cmd_serve` returns
  (`Join`), the tasks when the runtime ends (`RuntimeEnds`), so what is left of the admin task may
  still remove the socket by its path; that it does not remove a successor's rests on time, which
  the model assumes in the guard of `Boot`: a whole boot takes longer than the end of a runtime.
  A demo reset or a restore cancels the token without a signal (`RestartRequested`): the admin
  task stops while the server serves on.

**Tools** (`MCTools`, core `RouteWalk`)

- `RouteWalk` (walk, prefixes, join), `ScenarioCoverage`, `PubApi`, `FeatureTally`,
  `Scorecard`, `RowSchema`: functions of their input, each checked against a definition
  of its result over all inputs within the bounds.

## 4 Runs

| Run | Instance | Distinct states | Shows |
|---|---|---|---|
| `requests` | 2 requests, 2 completions, limit 2, expiry 1 tick, clock set back by 1; texts of 5 characters; 1 switch, 1 on the socket, setup and bootstrap beside them, 1 cookie, 2 calls in flight | 666,116 | a PIN session is held once, tried boundedly, redeemed once and in time, and implements `PinTicket`; memory and file agree and one can go back; what changes something is ours; names and answers follow their rules |
| `accounts` | 2 clients, 3 accounts, 2 logins with threshold 2, 2 resets and 1 regeneration over 2 batches of 2 codes, 4 limited calls in a window of 2 | 294,235 | an administrator stays, a deleted account stays deleted, locks are exact, codes work once, the log tells the history, the window holds; account changes and recovery codes implement `ChangesAtOnce` and `OpensOnce` |
| `process` | 3 wizard requests, 2 bootstraps, 2 resets in the desktop process, 1 connection and 3 events, 3 instances of the server | 57,466 | one first administrator per way in; a reset always ends in a new server; the window follows; what must end, ends |
| `data_directory` | 3 accounts, 2 releases, 1 rotated backup, 2 databases, 2 restores, 2 uploads, 3 migrations of up to 2 dependencies each and 4 in all, 2 processes with 3 starts, 2 boots | 886,666 | no account or content is lost by a crash of the upgrade, a migration, a restore, a bundle or a boot; one process owns the files; the upgrade implements `AccountMove` |
| `tools` | 3 builders of 3 items, 2 crates, 2 files of 5 lines, a scale of 2, 2 rows, 2 lcov files of 4 lines, 2 arguments | 1,171,678 | what the tools compute is what a definition of it says, in the cases the comments of `ReachRight` and `ReportsRight` name |
| `upgrade_resume`, `accounts_reachable`, `headless_restart`, `history_reapplied`, `logo_lost`, `own_database`, `serve_exits` | one component each | violation | section 7 |

What each property says is in the comment before it; `TypesOK` joins the type invariants
of the components of the data directory, the others' are `TypeOK` of each module and are
proved (section 6). Each property of a passing run is also tested against mutants of the
code that break it (`PROJECT.json`, `mutants`). No run checks for deadlock: every one has
behaviours that end by design, a request that has been answered, a clock or a counter at
its bound, a process that has exited; what must not stop is stated as liveness or, in
`NeverStranded` of `ResetSafe`, as an invariant.

Every bound has a name and is a `CONSTANT` given in the `.cfg`. Why they are enough:

- *Two of each kind of caller* make every pair of handlers of that kind meet, on one
  record and on two. Where the hazard needs a third (a wizard request that comes after
  one that lost in flight, an account created while two administrators remove each other)
  there are three. Four limited calls are one more than the limit and one to come after.
- *Limits are small, not absent.* An attempt limit, threshold or capacity of two has a below, an
  at and a past; an expiry of one tick has an early, an exact and a late; ages and
  counters saturate one above the largest value a guard tells apart (`AgeCap`,
  `MaxStreak`). The code's own values (3 attempts, 10 failures, 15 minutes) reach
  no other branch. The scorecard's percentages and deltas have a `Scale` of two: a limit is below,
  at or above a measure.
- *Two batches of two codes, two attempts*: the same code twice, two codes of one batch, a
  code of a replaced batch, a retry and a last failure.
- *Two releases, two boots, three starts*: a boot after a crash, a boot of a newer release,
  a second failing boot that overwrites or rotates what the first has backed up; two processes that
  meet, and one more start after one of them has crashed, left or asked for a restart.
- *Four dependencies in all*: a ring of three with one more, and a dependency named twice beside two
  others.
- *Three instances of the server*: the first, one that a reset built, and one more, which is where
  what the first has left behind shows.
- *Texts*: six letters stand for the classes the code tells apart (lower, upper, digit,
  hyphen, dot, one beyond ASCII), five characters are one more than the longest
  pattern of the rules, the length limit is three instead of sixty.
- *Symmetry* is used in `requests` only, over requests and completions that no action,
  property or other constant names, and that run has no liveness property.

The theorems of section 6 do not depend on any of these numbers.

## 5 Fairness

Fairness is per task: the runtime polls a task that can go on, and its timers fire. So a
request, a completion, a client's transaction, a reset, the run loop, a connection's sender and each
step of its shutdown, and the retry of an announcement have weak fairness of their next step, as
have the sweep, the ticks of the clock and the background loops. Three steps have
strong fairness: `SeesShutdown`, `SeesCancel` and `RetryStops` are branches of a
`select!`, which polls its branches in random order; a branch that is ready again and again is
taken, but others may be ready each time. Nobody is assumed to send a request, hang up, open a
window, launch, reset, restart or quit.

`process` states all of it (`MCFairness`, guarded by `part`), because the liveness properties are
there: `SessionsEnd`, `RestartsAndQuits`, `ConnectionsEnd`, `LockReleased`, `TasksEnd`. The other
passing runs check safety only and state none. Of the violation runs, `headless_restart` and
`serve_exits` refute liveness under the fairness of their modules.

## 6 Proofs

TLAPS checks 16,086 obligations in eight modules. Every theorem holds for every value of the
constants; the only assumptions are the named `ASSUME`s of the modules (names of different
things differ, limits are naturals, positive where zero makes no sense), which TLC evaluates in
the runs.

Each invariant is proved in three steps: `Init => IInv`, `IInv /\ [Next]_vars => IInv'`
with a case per action, `IInv => Inv`. Five modules, one per passing run, extend that run's MC
module and lift what is proved of a component to the specification TLC checks: lemmas
state that while `part` is the component's every step of the run is a step of the component or
leaves it alone, and otherwise leaves it as it began. `UserAdmin`, `PinRecovery`,
`FirstAdmin` and `LegacyUpgrade`, the cores, are proved about in those modules
too; `RecoveryCodes`, `ActiveProfile` and `RateLimiter` are instanced
with their theorems.

Four components are shown to implement an abstract specification, two of them a module
(`AccountMove`, `PinTicket`), two a few actions over what is committed (`OneChange` in `UserAdmin`,
`BoxNext` over `boxVars` in `RecoveryCodes`): the initial states map to initial states (`OneChange`
asks for none), and under the inductive invariant every step maps to a step or a stutter. The
abstract specifications are where a reader sees in a page what the component promises as a whole;
the proofs show that no interleaving, retry or hang-up of it can be noticed from there.

Three promises are proved and have no place of their own in a run, because a refinement that is
run says the same in other words: `AttemptsBounded` (a ticket has its tries), `DeletedForGood` (no
change of a deleted account) and `CodesSpentOnce` (a code leaves the box once and never returns).

| Property (run) | Theorem | Inductive invariant, and why the property alone is not inductive |
|---|---|---|
| `SingleCustody`, `RedeemedOnce`, `RedeemedPinGone`, `NoLateRedemption` (requests); `AttemptsBounded` | `CustodySafe`, `AttemptsSafe` ... `NotTooLate`, `PinsHold` | A session record is unminted, in the map, held or spent, and what happened to it agrees with which (`HistoryOK`); a completion carries an unredeemed session with the attempts evaluated so far (`CompletionOK`), a request its user (`RequestOK`); files carry the email of who made them (`FileOK`). Putting a record back is safe only because nobody else has it. `AgeOK`: the age a record shows is off by at most what the clock was set back. |
| `SessionsAreTickets` (requests) | `TicketsSafe`, `TicketsHold` | The same invariant. Where a session is, is read off the map, the completions that hold it and the password (`TicketState`); `Places`: a session has one such place. Each step moves one ticket (`TicketMoves`), loses some (`TicketsLost`) or none (`TicketsStay`); time that passes moves none although it changes every record. |
| `ProfileKept`, `ReturnTrip` (requests) | `ProfilesKept`, `ReturnsKept` | `StepsOK`: what each writer knows between its two halves; `FileOK`: which word each open handle will leave in the file; `AgreeOK`: memory and file differ only while someone is between persist and flip, or a history variable says who disturbed them; `SessionsOK`: the email carried into a demo session is that of the account left. |
| `RequestRight` (requests) | `RequestsRight` | `PathInv` with `LayerOK`: what a request past each layer has established of host, origin, session and account, kept while profile, password and accounts change. |
| `NamesFit` (requests) | `NamesHold` | `NameInv`: `Scanned`, what is in the buffer of `derive_slug` after each byte: each letter or digit read so far is at its place (`Kept`, `Place`), with one hyphen before every word, and what is neither in front nor at the end is never a hyphen beside another. |
| `WireAgrees` (requests) | `AnswersAgree` | `WireInv`: an error on its way is the one it began as, its form in the control plane, or that one's form for the transport. |
| `LastAdminKept`, `GuardHolds` (accounts); `DeletedForGood` | `LastAdminSafe`, `DeletedSafe`, `GuardSufficient`, `DecisionSafe`, `AccountsHold` | `TransactionOK`, `SnapshotOK`: between guard and commit a client has a fresh snapshot, so what it counted is the database, or can no longer write. |
| `ChangesAtOnce` (accounts) | `ChangesSafe`, `ChangesHold` | The same, with what a pending commit is about to write (`TransactionOK`): a fresh snapshot at the commit makes the decision of the guard one about the accounts of that moment. |
| `LockoutExact` (accounts) | `Exact`, `NothingLost`, `Stable`, `LocksExact` | `LockRowOK`: the counter is never ahead of the streak of failures, and a lock means at least `Threshold` of them; `LoginOK`: with a fresh snapshot what a transaction has read is the row's counter, and what it commits is what its read led to. |
| `CodesSpentOnce` (accounts, proved only) | `SingleUse`, `Truthful`, `NothingOverwritten`, `CodesOnce` | `ResetOK`, `RegenOK`: a fresh snapshot or the write lock means that the row is the one read; `SpentDead`: a code once used is marked so or of a batch that was replaced. |
| `OpensOnce` (accounts) | `BoxOpensOnce`, `BoxHolds` | The same invariant: a reset that commits has seen the row as it is, so its code is still in the box and the password the one it looked at; what it is told is decided in that moment. |
| `LogTellsHistory` (accounts) | `HistoryTold` | `CustomersOK`; `ChangeOK`: only a fresh snapshot tells an update that its row is live (`Fits`), and a fresh id is its own; the entry pending continues the committed ones. |
| `WindowRespected` (accounts) | `WindowSafe`, `WindowKept` | `Recorded`: an admitted call's instant is in the deque or older than the window, for instants read before the lock as well. |
| `WizardOnce`, `CompletedTruthful`, `BootstrapOnlyFirst` (process) | `WizardSafe`, `CompletedSafe`, `BootstrapFirstSafe`, `WizardHolds`, `BootstrapHolds` | `FlagIsLock`: past the compare-exchange one request is in flight, and the flag is set. `WizardOK`: after an insert the completed flag is set, or the in-progress flag stays set with nobody left to insert. `BootstrapOK`: a fresh snapshot sees no administrator. `CompleteOK`: the flag follows the settings row. |
| `ResetSafe` (process) | `ResetsHold` | `ServerInv`: no token before a server (`NoToken`), the sentinel is written before the token is cancelled (`SentinelFirst`), a loop is stopped by its own token (`StoppedByToken`), a closed pool has a reset that will restart (`ResetsServed`), and where each reset is (`Phases`). |
| `ShellRight` (process) | `ShellHolds` | `ShellInv` (unless the page has strayed the window shows the port of the server built last, also while that is down) and `LanInv`: `NotAnnounced`, `RetryHandle` (who can still withdraw), `NameKnown`. |
| safety parts of `ConnectionsEnd`, `TasksEnd` (process) | `LagHolds`, `AddressHolds` | `ConnInv`: a sender past its loop has been told to shut down; the other is inductive by itself. |
| `AccountsKept`, `OwnCrashesRecovered`, `MovesOnce` (data_directory) | `AccountsSafe`, `RecoverySafe`, `RegistrationSafe`, `Refinement`, `UpgradeAmongOthers` | `UpgradeOK`: what each transaction has established before the next; `InterruptedOK`: unless the database was deleted, a cut upgrade leaves two equal copies or no legacy table; `RegisteredOK`. Each step of the boot is a step of `AccountMove` or a stutter. |
| `UpgradeSound` (data_directory) | `UpgradesSafe` | `UpInv`: `Backed` (a boot past its backup has the content it found in a backup, or the rotation is full of newer ones), `BootOK` (what a boot knows at each step: the pragmas are on again, nothing was reapplied). |
| `MigrationsRight` (data_directory) | `MigrationsHold` | `OrderInv`: `Counted` (an in-degree is the number of needs not yet placed, the heap is what misses none), `InOrder`, `MetaFirst`; so with an empty heap whatever is not placed waits for something else that is not. `MigInv`: on a database this release made, the tables are those of the migrations on record (`Recorded`), the shop's come after all of the platform's (`Shares`), and a pass has planned exactly what is missing of its share (`Planned`). |
| `CopiesKept` (data_directory) | `CopiesSafe` | `CopyInv` (`SourceOK`: the source is unchanged until it is copied, and the live files are touched only once the safety copy is whole; `WholeOK`: a complete copy has its logo) and `BundleInv` (`BundleOK`: a manifest's snapshots are those promoted unless one has rotted, nothing is touched before all are verified, and what is still to move is sound). |
| `SuccessOrNothing` (data_directory) | `RestoreComplete` | `RestoreInv`: the guard has one holder (`GuardHeld`), who alone fills the slot (`SlotOK`). |
| `RowNamesFile` (data_directory) | `LogoThere` | `LogoInv`: `ChangeOK`, what a change that runs alone has done to file and row. |
| `BootSafe` (data_directory) | `BootsSafe` | `BootInv`: `FlatOK` (flat or moved data is whole unless `cut`, and `active_profile` is written before the flat database goes unless `torn`), `VerticalOK`, `PoolsOK`. |
| `CommandsSafe` (data_directory) | `DirectoryOwned` | `CliInv`: `ProcOK`, what holds of a process by the step it is at: who has the lock, which listener the socket leads to; and while one whose main has returned is still there, no other is past its boot. |
| `ReachRight` (tools) | `ReachHolds` | `ReachInv`: names resolve to declarations (`NamesOK`), the routes and edges gathered so far are those of the files read (`RoutesOK`, `EdgesOK`), and `ClimbOK`: what is in front of the builder the climb has got to, put before what it has gathered, is in front of the one it began at. So a climb that ends at a root has gathered the whole prefix (`PrefixesOK`), and the join gives the URL it serves (`DoneOK`). What a builder is served under is a recursive function over the mounts (`ServedAt`); `Induct` and `Iteration` are the induction it needs. |
| `ReportsRight` (tools) | `ReportsHold` | `TallyInv`: `ReadSoFar` (what waits is what stands above, and the counts are those of the scenarios read), `SumsAgree` (the numbers of the crates, each told apart, are as many as the total). `CardInv`: `PublishedOK`, what is written is built from what was given and usable limits. `SchemaInv`: what was read of the arguments, and on disk no schema without its rules. `ScenInv`: each bucket has the scenarios of the rows joined so far and an unmatched row is an orphan (`JoinOK`). `AuditInv`: the reader holds what the text of its file reports under the owner of its last line (`ReaderOK`), the index what the files read whole report (`IndexOK`). `WalkInv`: sides taken and sides are equal exactly while every branch read was taken both ways. |
| `TypesOK` (data_directory) | `TypesHold` | by the invariants of the components, which hold their types. |

Only model-checked, and why:

- Liveness (`SessionsEnd`, `RestartsAndQuits`, `ConnectionsEnd`, `LockReleased`, `TasksEnd`, and
  `ResetRestarts`, `ServeExits`): fairness and `ENABLED` are out of the provers' reach. The
  parts of them that are safety are proved.

No safety property of a passing run is only model-checked. What an algorithm computes is proved by
induction over its steps where it consumes its input step by step (`derive_slug`, `resolve`, most
tools). The library's induction theorems over data take an operator as parameter, which none of
the provers can instantiate; the one proof that needs such an induction (`ReachHolds`) has it over sets and functions
(`Induct`, `Iteration` in `ToolsProofs`).

That the modules are the code is by reading.

## 7 Where the code departs from its documentation

Each is a run that TLC refutes.

1. `upgrade_resume`: `upgrade.rs:152-157` says that after a crash between the drop of the
   legacy tables and the `meta.profiles` insert the next boot re-enters the upgrade. Its
   `detect_boot_state` counts rows of `users`, which is gone, and fails
   (`boot_state.rs:181`); the migrations do not create the table again, so every later boot is refused.
2. `accounts_reachable`: the feature file says the upgrade is meta-only. An install set up by
   this version has no `meta.profiles` row, is taken for a legacy one at its first
   restart, and has its users moved to `meta.db`, while login reads the production database.
3. `headless_restart`: `demo_reset` answers "Server will restart". `mokumo-server` neither
   watches the token it cancels nor reads `.restart`; its demo pool stays closed.
4. `history_reapplied`: `m_0002` relabels rows "so the runner does not try to re-apply them", but the
   runner settles its list before it runs the first migration, and runs five of them again.
5. `logo_lost`: `settings-data-safety.feature:99` promises the logo after a restore;
   `backups_create` never calls the hook that copies it, and the restore sweeps it.
6. `own_database`: `profile_db.rs:9-11` promises the database of one's own session. Without a session the
   middleware reads the active profile, and the auto-login reads it again: after
   a switch in between, the demo administrator has the production database.
7. `serve_exits`: `graceful_shutdown.feature:4` limits a shutdown to ten seconds;
   `axum::serve` drains without a limit.

## 8 Observations

What else the modules show of the code. Each is in the model as the code has it; none is a
violation of a property: where a comment or a test promises more than the code keeps, the property says
what it does keep, and the excluded case is named here.

Accounts and sign-in

- `setup_admin`: a wizard request that loses while another is in flight, whose handler is then
  dropped, has been told `AlreadyBootstrapped` although setup is neither done nor in flight
  (`users.rs:151-152`, `:219`). The wizard and `bootstrap` can each create a first administrator
  (`repo.rs:789-792` accepts this; two bootstraps cannot).
- A failed login whose counting transaction finds the database busy is not counted (`repo.rs:600`). A login that
  passed the lockout check before another locked the account clears that lock.
- `pending_reset.rs:104-107` says that `elapsed` clamps a negative age to zero, so that "a backwards clock jump
  never extends a session beyond `PIN_EXPIRY`". It does not clamp, it fails, which `recover_complete`
  takes for expired (`recover.rs:193`; only `sweep.rs:33-37` clamps, and so keeps the record). And a clock set
  back by less than the age yields no negative age: the session looks younger and is redeemed later
  than `PIN_EXPIRY`, by as much as the clock was set back. `NoLateRedemption` allows for exactly
  that (`jumped`); without the allowance it does not hold.
- Overlapping recovery requests can leave two live sessions for one account (`recover.rs:109-115`).
- `persist_and_flip`'s comment (`profiles.rs:147-152`) speaks of a lock across rename and flip that is not
  there; the shared temporary name can publish an empty or mixed word, which boot reads as demo.
- `bootstrap` never names the shop, so the next boot refuses as `LegacyDefensiveEmpty`. It exits 1
  after the account is committed when the recovery-codes file cannot be created: the codes are lost.
- The CSRF comment says that the cookie is always `Secure`; it is not on a LAN. Text after the closing
  bracket of an IPv6 `Host` is ignored. A name announced by mDNS is refused by the host allow-list
  of a LAN unless it is listed (`data_plane/mod.rs:15`, `config.rs:103-104`, `lan_discovery.feature:3-4`).
- The admin socket words `NotFound` and `PermissionDenied` otherwise than HTTP, and only it gives the
  details of a `Validation`.
- The rate limiter reads the clock before it locks the entry, so instants enter the deque out of
  order; the window holds nevertheless. A desktop restart builds new limiters.

Boot and migrations

- Flat layout: `startup.rs:71` calls `migrate_flat_layout` "Idempotent: safe to call on every startup". A boot
  stopped in the middle of `std::fs::copy` leaves a partial `production/mokumo.db`; the next one sees
  that it exists, skips the copy and deletes the flat database: the data is lost. A boot stopped in the
  middle of the `std::fs::write` of `active_profile` leaves it empty; the next one does not write it again,
  deletes the flat database and comes up in demo (`startup.rs:54-57`), the shop's data at its new
  place. `FlatKept` says what holds otherwise: it excludes the first by the history variable `cut`,
  the second, for the profile only, by `torn`.
- `copy_sidecar_if_needed` copies in place: a crash leaves a partial demo database that every
  later boot refuses (contrary to `startup.rs:143-147`).
- The self-repair hook is unreachable: `prepare_database` has refused a foreign
  `application_id`, or made the file, before it (contrary to `CHANGELOG.md:85`, `graft.rs:161-167` and
  `profile_sidecar_self_repair_via_graft_hook.feature`). `engine.rs:239-242` says "without mutating
  per-profile state" after `Migrator::up` has run.
- A retry of a partly migrated boot overwrites the backup of the same version; rotation can remove
  the backup that the error message promises (`startup.rs:354`, `migration_safety.feature:3-4`), and the
  message also comes when none was taken.
- `PRAGMA foreign_keys = OFF` need not reach the connection that migrates
  (`migration_execution.feature:52-57`); `foreign_key_check` only warns. Newer platform migrations are accepted
  (`startup.rs:128`). Databases from before stage 3 fail in the platform pass, contrary to
  `init.rs:150-158`. `kikan_version.rs` reads `seaql_migrations`, the engine records in `kikan_migrations`.
- `find_first_cycle` may begin behind the cycle it reports.
- The upgrade takes a half-made copy for its own by comparing emails only.

Backup, restore, logo

- The restore compares paths as they were typed: the pre-restore backup named by a relative path is
  overwritten with what it was to replace. A crash
  between the removal of the side-cars and the copy, then a retry, overwrites the safety backup with
  a database without its WAL. Safety and pre-migration backups carry no logo. Two backups
  within a second share a name.
- Bundles: snapshots are taken one after the other, not at "a single point in time". A crash while a
  bundle is made again leaves the old manifest with mixed snapshots; a restore that died between renames
  is refused when repeated; the `-wal` of the live database stays. Nothing calls them yet.
- The restore slot: after a boot `mokumo.db` is always there, so the slot is never free
  (`restore_handler.rs:47-54` against `startup.rs:131-175`). A hang-up releases the guard while the copy
  goes on. The rollback removes an `active_profile` that somebody else has written.
- Overlapping logo changes, and a failed row for an upload of the same extension, can leave a row without its
  file (`shop/handler.rs:193-197`); `RowNamesFile` is about a change that runs alone.

Processes, desktop, network

- `kikan-socket` says connections are "drained for up to 5 seconds", but waits without limit; only the join in
  `main` ends it, and then the socket file stays. An admin bind that fails after 50 ms goes
  unnoticed (`main.rs:621-624`).
- A demo reset or a restore cancels the token the admin socket waits for, so a headless server goes on
  without it. `main.rs:440` speaks of the process lifetime; the lock goes when `cmd_serve` returns,
  before the runtime ends.
- `bootstrap` runs `prepare_database` beside a server or `reset-db` without the lock. The port in the
  lock file is never cleared, so a conflict can name a dead port or blame a server for a `reset-db`; `reset-db` checks
  `--force` after it has the lock. `migrate status` and `profile list` without a database report an empty
  one and exit 0. Diagnostics without a server report setup as pending.
- A stale `.restart` after a crash makes the next quit build a server and leave by the ten-second
  drain timeout. A reset whose file operation fails leaves the demo pool closed.
- The tray's poll task ends at the first restart; its port, "Open in Browser" and the count of
  clients in the quit dialog stay those of the first instance. `on_close_requested` has a branch for a missing
  tray, but a failing tray aborts the set-up. The session-expiry task ends at its first error.
- mDNS: `spawn_mdns_retry` has no caller (`mdns_retry.feature:7-11`). The headless server registers without
  consent (`main.rs:649`) and does not deregister at shutdown (`lan_discovery.feature:36-40`); the desktop
  binds loopback only, so its registration does nothing. A retry handle dropped instead of cancelled can
  leave an announcement nobody can withdraw; the collision monitor may write a host name after the
  withdrawal; the tray shows "mokumo.local.local"; the status stays the first instance's.
- WebSockets: a client that stops reading blocks its sender until the drain timeout; a missing pong has no
  consequence; `RecvError::Closed` cannot happen.

Tools

- `RouteWalk`: routes with `.layer` or `.with_state` behind the method router are skipped silently,
  `.nest(.., f().with_state())`, let-bound routers and `.merge` lose the prefix (as in
  `shop/routes.rs:43-46`), a nest inside an inline nest drops the outer prefix, a re-exported
  builder misses its edge, a `use` in another scope changes how later functions resolve, chains of builders
  without routes exceed the step cap, and a cycle is not reported. `route_walker.rs:9-12` says that failures are
  loud. `ReachRight` names the shapes for which the walk is right: plain routes whose builders
  are mounted by one `.nest` each, below a root that is no further than the climb goes.
- `ScenarioCoverage`: an unknown `status_class` is dropped, the same route in two crates credits the first,
  outputs are written in place. `PubApi`: `pub` items of private modules count, two outputs
  of one stem share a temporary name, `DA` lines before `SF` go to the record before, and `FN` after `FNDA`
  counts a function twice.
- `FeatureTally`: tags above `Examples:` count for the next scenario, tags above `Rule:` are lost.
  `Scorecard`: with a `warn_seconds_delta` of zero or less an absent wall-clock artifact is not Green, as
  its comment says, and `threshold.rs:318` has the fallback also for a file that is present and cannot be
  read, which fails instead, as `aggregate.rs:1646-1648` says. `RowSchema`: the `<script` pattern knows lower case only; with `--target both` a
  failure at the second file leaves the first.

## 9 What is not modelled

Whole components, by choice: the job scheduler and mail (nothing uses them yet), logo validation (parsing
without state), document numbers (one atomic statement), shop settings and LAN consent (single-row
reads and upserts), routes and traits of the composition (declarations), database
start-up (pragmas, application id and integrity checks are library calls; what they refuse is an input of
`ProfileUpgrade` and `Boot`), logging and the diagnostics bundle (output only), the web front end.

Of the components marked *partly*: rendering and printing everywhere; the session cookie's contents in
`LoginLockout`; `demo_install_ok` and `is_first_launch` in `ActiveProfile`; command-line parsing; security
headers, compression and the SPA in `RequestPath`; the reading of other tools' artifacts and the rendering
of the scorecard; which handler is wired to which state.

Within the others: `LoginLockout` and `RecoveryCodes` follow one account, because a row is all their
code touches; `PinRecovery` one profile database. The rate limiters in front of recovery and
login are modelled by themselves. `LegacyUpgrade` leaves out custom roles, which no code creates, installs older than the platform, and a set-up handler that no route mounts. A crash is the end of a process, not of
the power: what `rename`, `COMMIT` or `fsync` has returned is on disk. SQLite itself, Tauri,
Axum and Tokio are modelled by how the code uses them.

## 10 Plan

1. The refinement of a single promise by several components: `ResetSafe` and `BootSafe` meet at the demo
   database, `SuccessOrNothing` and `BootSafe` at the restored one.
2. More of the scorecard's aggregation and of the repository's remaining queries, where they change state.
