------------------------------ MODULE UserAdmin ------------------------------
(***************************************************************************)
(* Creating, demoting, promoting and deleting accounts, and the two guards  *)
(* that keep one administrator: ensure_not_last_admin, run by the repository *)
(* inside the transaction, and the triggers on the users table.  UserService *)
(* checks once more before, outside any transaction.                         *)
(*                                                                          *)
(* An account's row is one status: is_active is cleared only together with   *)
(* setting deleted_at, so "deleted" stands for both.                         *)
(***************************************************************************)
EXTENDS SqliteWal, FiniteSets, Naturals

CONSTANT Users
CONSTANT FirstAdmin

ASSUME FirstAdminAssumption == FirstAdmin \in Users

VARIABLES op,       \* the operation each client runs
          refused   \* history: the triggers had to stop a write

vars == <<db, writer, reading, op, refused>>

Status == {"absent", "Admin", "Staff", "deleted"}
Roles == {"Admin", "Staff"}
Steps == {"idle", "find", "count", "guard", "write", "commit"}

\* `to' is the status the operation gives its target.
Operation == [pc : Steps, target : Users, to : Status \ {"absent"}]

TypeOK ==
    /\ SqlTypeOK
    /\ db \in [Users -> Status]
    /\ op \in [Clients -> Operation]
    /\ refused \in BOOLEAN

Init ==
    /\ SqlInit
    /\ db = [u \in Users |-> IF u = FirstAdmin THEN "Admin" ELSE "absent"]
    /\ op = [c \in Clients |-> [pc |-> "idle", target |-> FirstAdmin, to |-> "Staff"]]
    /\ refused = FALSE

Live(u) == db[u] \in Roles
Admins == {u \in Users : db[u] = "Admin"}

At(c, pc) == [pc |-> pc, target |-> op[c].target, to |-> op[c].to]
Goto(c, pc) == op' = [op EXCEPT ![c] = At(c, pc)]

\* The operation would leave one administrator fewer: soft delete or demotion.
RemovesAdmin(c) == db[op[c].target] = "Admin" /\ op[c].to # "Admin"

\* "Not the last one", phrased without counting: some other live administrator.
AnotherAdmin(u) == \E v \in Users \ {u} : db[v] = "Admin"

-----------------------------------------------------------------------------
\* The control plane lets an administrator start an operation. The caller's role
\* is the one its session was loaded with.
Start(c, caller, u, to) ==
    /\ op[c].pc = "idle"
    /\ db[caller] = "Admin"
    /\ op' = [op EXCEPT ![c] = [pc |-> "find", target |-> u, to |-> to]]
    /\ UNCHANGED <<db, writer, reading, refused>>

\* UserService: find_by_id ...
ServiceFind(c) ==
    /\ op[c].pc = "find"
    /\ Goto(c, IF ~Live(op[c].target) THEN "idle"
               ELSE IF RemovesAdmin(c) THEN "count" ELSE "guard")
    /\ UNCHANGED <<db, writer, reading, refused>>

\* ... and, for an administrator, count_active_admins, a later query.
ServiceCount(c) ==
    /\ op[c].pc = "count"
    /\ Goto(c, IF Cardinality(Admins) <= 1 THEN "idle" ELSE "guard")
    /\ UNCHANGED <<db, writer, reading, refused>>

\* Mutant of RepoGuard: find_active_user_in_txn without ensure_not_last_admin.
RepoGuardFindOnly(c) ==
    /\ op[c].pc = "guard"
    /\ IF Live(op[c].target)
       THEN TakeSnapshot(c) /\ Goto(c, "write")
       ELSE Goto(c, "idle") /\ UNCHANGED sqlVars
    /\ UNCHANGED refused

\* Mutant of RepoGuard: the row is read without the deleted_at filter.
RepoGuardAnyRow(c) ==
    /\ op[c].pc = "guard"
    /\ TakeSnapshot(c)
    /\ Goto(c, "write")
    /\ UNCHANGED refused

\* The repository's transaction reads the row and counts administrators in one
\* snapshot; a refusal rolls back.
RepoGuard(c) ==
    /\ op[c].pc = "guard"
    /\ IF Live(op[c].target) /\ (RemovesAdmin(c) => AnotherAdmin(op[c].target))
       THEN TakeSnapshot(c) /\ Goto(c, "write")
       ELSE Goto(c, "idle") /\ UNCHANGED sqlVars
    /\ UNCHANGED refused

\* Mutant of RepoWrite: the row is written outside the transaction that counted,
\* through a column no trigger watches.
RepoWriteDetached(c) ==
    /\ op[c].pc = "write"
    /\ writer = NoClient
    /\ writer' = c
    /\ reading' = [reading EXCEPT ![c] = "fresh"]
    /\ Goto(c, "commit")
    /\ UNCHANGED <<db, refused>>

\* The triggers: refuse to take the last active administrator away.
TriggerAborts(c) == RemovesAdmin(c) /\ ~AnotherAdmin(op[c].target)

\* The UPDATE takes the write lock; the triggers see the row it replaces.
RepoWrite(c) ==
    /\ op[c].pc = "write"
    /\ CanWrite(c)
    /\ IF TriggerAborts(c)
       THEN Rollback(c) /\ Goto(c, "idle") /\ refused' = TRUE
       ELSE TakeWriteLock(c) /\ Goto(c, "commit") /\ UNCHANGED refused

\* The reload, the activity entry and the commit.
RepoCommit(c) ==
    /\ op[c].pc = "commit"
    /\ Commit(c, [db EXCEPT ![op[c].target] = op[c].to])
    /\ Goto(c, "idle")
    /\ UNCHANGED refused

\* SQLITE_BUSY is not retried here: the operation fails.
RepoBusy(c) ==
    /\ op[c].pc = "write"
    /\ IsBusy(c)
    /\ Rollback(c)
    /\ Goto(c, "idle")
    /\ UNCHANGED refused

\* Mutant of Abandon: the connection goes back to the pool with its transaction.
AbandonOpen(c) ==
    /\ op[c].pc # "idle"
    /\ Goto(c, "idle")
    /\ UNCHANGED <<db, writer, reading, refused>>

\* A failed query, or a client that hangs up: the open transaction rolls back.
Abandon(c) ==
    /\ op[c].pc # "idle"
    /\ Rollback(c)
    /\ Goto(c, "idle")
    /\ UNCHANGED refused

\* Mutant of CreateUser: a role outside the roles table.
CreateUserAnyRole(c, u, role) ==
    /\ op[c].pc = "idle"
    /\ db[u] = "absent"
    /\ TakeWriteLock(c)
    /\ op' = [op EXCEPT ![c] = [pc |-> "commit", target |-> u, to |-> "Owner"]]
    /\ UNCHANGED refused

\* create: one insert and its activity entry; nothing to guard.
CreateUser(c, u, role) ==
    /\ op[c].pc = "idle"
    /\ db[u] = "absent"
    /\ TakeWriteLock(c)
    /\ op' = [op EXCEPT ![c] = [pc |-> "commit", target |-> u, to |-> role]]
    /\ UNCHANGED refused

-----------------------------------------------------------------------------
Step(c) ==
    \/ ServiceFind(c)
    \/ ServiceCount(c)
    \/ RepoGuard(c)
    \/ RepoWrite(c)
    \/ RepoCommit(c)
    \/ RepoBusy(c)
    \/ Abandon(c)

Next ==
    \E c \in Clients :
        \/ \E caller, u \in Users, to \in Status \ {"absent"} : Start(c, caller, u, to)
        \/ \E u \in Users, role \in Roles : CreateUser(c, u, role)
        \/ Step(c)

\* A request that can go on is polled until it ends.
Spec == Init /\ [][Next]_vars /\ \A c \in Clients : WF_vars(Step(c))

-----------------------------------------------------------------------------
\* There is always an administrator, whatever demotions and deletions overlap.
LastAdminKept == Admins # {}

\* The guard inside the transaction is enough: under snapshot isolation the
\* triggers never have to stop a write of the application.
GuardSuffices == ~refused

\* The decision the guard took still holds when the write begins: a writer that
\* is about to commit removes an administrator only while another one exists.
DecisionStillGood ==
    \A c \in Clients : op[c].pc = "commit" /\ RemovesAdmin(c) => AnotherAdmin(op[c].target)

\* A deleted account never comes back and keeps its row.
DeletedForGood == [][\A u \in Users : db[u] = "deleted" => db'[u] = "deleted"]_vars

\* What the administration promises, seen from outside and without services, queries and
\* transactions: each change happens at one moment, is decided on the accounts of that
\* moment, and leaves an administrator.
Created(u) ==
    /\ db[u] = "absent"
    /\ \E role \in Roles : db' = [db EXCEPT ![u] = role]

Changed(u, to) ==
    /\ db[u] \in Roles
    /\ to = "Admin" \/ \E v \in Users \ {u} : db[v] = "Admin"
    /\ db' = [db EXCEPT ![u] = to]

OneChange ==
    \E u \in Users : Created(u) \/ \E to \in Roles \cup {"deleted"} : Changed(u, to)

\* Whatever overlaps, each commit is a change that the accounts of that moment allow.
ChangesAtOnce == [][OneChange]_db

\* Contention never wedges the users table: the write lock is always given back.
LockReleased == \A c \in Clients : writer = c ~> writer # c
=============================================================================
