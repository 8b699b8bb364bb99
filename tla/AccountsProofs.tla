---------------------------- MODULE AccountsProofs ----------------------------
(* An administrator always remains, for any accounts and any number of         *)
(* concurrent clients, and the triggers never have to step in; a lock is       *)
(* earned and no counted failure lost; a customer's log tells its history;     *)
(* codes and windows keep their promises beside the others.                    *)
EXTENDS MCAccounts, Sequences, TLAPS

\* What a client may rely on at each step of its transaction.
TransactionOK ==
    \A c \in Clients :
        /\ op[c].pc \in {"idle", "find", "count", "guard"} =>
              reading[c] = "none" /\ writer # c
        /\ op[c].pc = "write" =>
              /\ writer # c
              /\ reading[c] = "fresh" =>
                    Live(op[c].target) /\ (RemovesAdmin(c) => AnotherAdmin(op[c].target))
        /\ op[c].pc = "commit" =>
              /\ writer = c
              /\ db[op[c].target] # "deleted"
              /\ db[op[c].target] = "absent" => op[c].to \in Roles
              /\ RemovesAdmin(c) => AnotherAdmin(op[c].target)

\* A waiting write still has its snapshot.
SnapshotOK == \A c \in Clients : op[c].pc = "write" => reading[c] # "none"

IInv == TypeOK /\ LastAdminKept /\ GuardSuffices /\ TransactionOK /\ SnapshotOK

USE NoClientAssumption, FirstAdminAssumption

\* The first account is an administrator and nothing is in flight.
LEMMA InitInv == Init => IInv
<1> SUFFICES ASSUME Init PROVE IInv
  OBVIOUS
<1>1. TypeOK
  BY DEF Init, SqlInit, TypeOK, SqlTypeOK, Operation, Status, Steps
<1>2. LastAdminKept
  <2>1. db[FirstAdmin] = "Admin" BY DEF Init
  <2> QED BY <2>1 DEF LastAdminKept, Admins
<1>3. GuardSuffices BY DEF Init, GuardSuffices
<1>4. \A c \in Clients : op[c].pc = "idle" /\ reading[c] = "none" /\ writer # c
  BY DEF Init, SqlInit
<1>5. TransactionOK /\ SnapshotOK BY <1>4 DEF TransactionOK, SnapshotOK
<1> QED BY <1>1, <1>2, <1>3, <1>5 DEF IInv

\* Steps that leave the rows alone and open or close only their own transaction.
LEMMA LocalStep ==
    ASSUME IInv, NEW c \in Clients, NEW o \in Operation,
           op' = [op EXCEPT ![c] = o],
           o.pc \in {"idle", "find", "count", "guard"},
           db' = db, refused' = refused,
           \/ Rollback(c)
           \/ op[c].pc \in {"idle", "find", "count", "guard"} /\ UNCHANGED sqlVars
    PROVE  IInv'
<1> USE DEF IInv, TypeOK, SqlTypeOK, sqlVars, Rollback
<1>1. TypeOK' BY DEF Operation
<1>2. LastAdminKept' /\ GuardSuffices' BY DEF LastAdminKept, Admins, GuardSuffices
<1>3. writer' # c /\ reading'[c] = "none"
  BY DEF TransactionOK
<1>4. \A d \in Clients \ {c} :
         /\ op'[d] = op[d]
         /\ reading'[d] = reading[d]
         /\ writer' = d <=> writer = d
  OBVIOUS
<1>5. op'[c] = o OBVIOUS
<1>6. TransactionOK'
  BY <1>3, <1>4, <1>5 DEF TransactionOK, RemovesAdmin, AnotherAdmin, Live
<1>7. SnapshotOK' BY <1>4, <1>5 DEF SnapshotOK
<1> QED BY <1>1, <1>2, <1>6, <1>7

\* Taking a snapshot or the write lock disturbs nobody else.
LEMMA OthersKeep ==
    ASSUME IInv, NEW c \in Clients, NEW o \in Operation,
           op' = [op EXCEPT ![c] = o], db' = db,
           reading' = [reading EXCEPT ![c] = "fresh"],
           writer' = writer \/ (writer = NoClient /\ writer' = c)
    PROVE  /\ \A d \in Clients \ {c} :
                 /\ op'[d] = op[d]
                 /\ reading'[d] = reading[d]
                 /\ writer' = d <=> writer = d
           /\ op'[c] = o
           /\ reading'[c] = "fresh"
BY DEF IInv, TypeOK, SqlTypeOK

\* A commit under a good decision leaves an administrator and makes every other
\* snapshot stale.
LEMMA CommitStep == ASSUME IInv, NEW c \in Clients, RepoCommit(c) PROVE IInv'
<1> USE DEF IInv, TypeOK, SqlTypeOK, RepoCommit, Commit, Goto, At
<1>1. TypeOK' BY DEF Operation, Steps, Status
<1>2. LastAdminKept'
  <2>1. CASE RemovesAdmin(c)
    <3>1. PICK v \in Users \ {op[c].target} : db[v] = "Admin"
      BY <2>1 DEF TransactionOK, AnotherAdmin
    <3>2. db'[v] = "Admin" BY <3>1
    <3> QED BY <3>2 DEF LastAdminKept, Admins
  <2>2. CASE ~RemovesAdmin(c)
    <3>1. PICK v \in Users : db[v] = "Admin" BY DEF LastAdminKept, Admins
    <3>2. db'[v] = "Admin" BY <2>2, <3>1 DEF RemovesAdmin, Operation
    <3> QED BY <3>2 DEF LastAdminKept, Admins
  <2> QED BY <2>1, <2>2
<1>3. GuardSuffices' BY DEF GuardSuffices
<1>4. \A d \in Clients \ {c} : op'[d] = op[d] /\ reading'[d] # "fresh" /\ writer' # d
                               /\ (reading[d] # "none" => reading'[d] # "none")
                               /\ (reading[d] = "none" => reading'[d] = "none")
  OBVIOUS
<1>5. op'[c].pc = "idle" /\ reading'[c] = "none" /\ writer' # c OBVIOUS
<1>6. TransactionOK' BY <1>4, <1>5 DEF TransactionOK
<1>7. SnapshotOK' BY <1>4, <1>5 DEF SnapshotOK
<1> QED BY <1>1, <1>2, <1>3, <1>6, <1>7

\* Every step preserves the inductive invariant.
LEMMA StepInv == IInv /\ [Next]_vars => IInv'
<1> SUFFICES ASSUME IInv, [Next]_vars PROVE IInv'
  OBVIOUS
<1>1. ASSUME NEW c \in Clients, NEW caller \in Users, NEW u \in Users,
             NEW to \in Status \ {"absent"}, Start(c, caller, u, to)
      PROVE IInv'
  BY <1>1, LocalStep DEF Start, Operation, Steps, sqlVars
<1>2. ASSUME NEW c \in Clients, NEW u \in Users, NEW role \in Roles, CreateUser(c, u, role)
      PROVE IInv'
  <2> DEFINE o == [pc |-> "commit", target |-> u, to |-> role]
  <2>1. o \in Operation BY DEF Operation, Steps, Roles, Status
  <2>2. /\ op' = [op EXCEPT ![c] = o] /\ db' = db /\ writer = NoClient /\ writer' = c
        /\ reading' = [reading EXCEPT ![c] = "fresh"] /\ refused' = refused
        /\ db[u] = "absent"
    BY <1>2 DEF CreateUser, TakeWriteLock, CanWrite
  <2>3. \A d \in Clients \ {c} :
            op'[d] = op[d] /\ reading'[d] = reading[d] /\ (writer' = d <=> writer = d)
    BY <2>1, <2>2, OthersKeep
  <2>4. op'[c] = o BY <2>2 DEF IInv, TypeOK
  <2> HIDE DEF o
  <2>5. o.pc = "commit" /\ o.target = u /\ o.to \in Roles BY DEF o
  <2>6. TypeOK' BY <2>1, <2>2 DEF IInv, TypeOK, SqlTypeOK
  <2>7. LastAdminKept' /\ GuardSuffices' BY <2>2 DEF IInv, LastAdminKept, Admins, GuardSuffices
  <2>8. TransactionOK'
    BY <2>2, <2>3, <2>4, <2>5 DEF IInv, TransactionOK, RemovesAdmin, AnotherAdmin, Live
  <2>9. SnapshotOK' BY <2>3, <2>4, <2>5 DEF IInv, SnapshotOK
  <2> QED BY <2>6, <2>7, <2>8, <2>9 DEF IInv
<1>3. ASSUME NEW c \in Clients, Step(c) PROVE IInv'
  <2>0. \A pc \in Steps : At(c, pc) \in Operation
    BY DEF IInv, TypeOK, Operation, At
  <2>1. CASE ServiceFind(c)
    BY <2>0, <2>1, LocalStep DEF ServiceFind, Goto, Steps, At, sqlVars
  <2>2. CASE ServiceCount(c)
    BY <2>0, <2>2, LocalStep DEF ServiceCount, Goto, Steps, At, sqlVars
  <2>3. CASE RepoGuard(c)
    <3>1. CASE Live(op[c].target) /\ (RemovesAdmin(c) => AnotherAdmin(op[c].target))
      <4>1. /\ op' = [op EXCEPT ![c] = At(c, "write")] /\ db' = db /\ writer' = writer
            /\ reading' = [reading EXCEPT ![c] = "fresh"] /\ refused' = refused
            /\ op[c].pc = "guard"
        BY <2>3, <3>1 DEF RepoGuard, TakeSnapshot, Goto
      <4>2. At(c, "write") \in Operation BY <2>0 DEF Steps
      <4>3. /\ \A d \in Clients \ {c} :
                   op'[d] = op[d] /\ reading'[d] = reading[d] /\ (writer' = d <=> writer = d)
            /\ op'[c] = At(c, "write") /\ reading'[c] = "fresh"
        BY <4>1, <4>2, OthersKeep
      <4>4. TypeOK' BY <4>1, <4>2 DEF IInv, TypeOK, SqlTypeOK
      <4>5. LastAdminKept' /\ GuardSuffices'
        BY <4>1 DEF IInv, LastAdminKept, Admins, GuardSuffices
      <4>6. TransactionOK'
        BY <3>1, <4>1, <4>3 DEF IInv, TransactionOK, RemovesAdmin, AnotherAdmin, Live, At
      <4>7. SnapshotOK' BY <4>3 DEF IInv, SnapshotOK
      <4> QED BY <4>4, <4>5, <4>6, <4>7 DEF IInv
    <3>2. CASE ~(Live(op[c].target) /\ (RemovesAdmin(c) => AnotherAdmin(op[c].target)))
      BY <2>0, <2>3, <3>2, LocalStep DEF RepoGuard, Goto, Steps, At, sqlVars
    <3> QED BY <3>1, <3>2
  <2>4. CASE RepoWrite(c)
    <3>1. reading[c] = "fresh"
      BY <2>4 DEF RepoWrite, CanWrite, IInv, SnapshotOK, TypeOK, SqlTypeOK
    <3>2. ~TriggerAborts(c)
      BY <2>4, <3>1 DEF RepoWrite, TriggerAborts, IInv, TransactionOK
    <3>3. /\ op' = [op EXCEPT ![c] = At(c, "commit")] /\ db' = db
          /\ writer = NoClient /\ writer' = c
          /\ reading' = [reading EXCEPT ![c] = "fresh"] /\ refused' = refused
          /\ op[c].pc = "write"
      BY <2>4, <3>2 DEF RepoWrite, TakeWriteLock, CanWrite, Goto
    <3>4. At(c, "commit") \in Operation BY <2>0 DEF Steps
    <3>5. /\ \A d \in Clients \ {c} :
                 op'[d] = op[d] /\ reading'[d] = reading[d] /\ (writer' = d <=> writer = d)
          /\ op'[c] = At(c, "commit")
      BY <3>3, <3>4, OthersKeep
    <3>6. TypeOK' BY <3>3, <3>4 DEF IInv, TypeOK, SqlTypeOK
    <3>7. LastAdminKept' /\ GuardSuffices'
      BY <3>3 DEF IInv, LastAdminKept, Admins, GuardSuffices
    <3>8. TransactionOK'
      BY <3>1, <3>3, <3>5 DEF IInv, TransactionOK, RemovesAdmin, AnotherAdmin, Live, Roles, At
    <3>9. SnapshotOK' BY <3>5 DEF IInv, SnapshotOK, At
    <3> QED BY <3>6, <3>7, <3>8, <3>9 DEF IInv
  <2>5. CASE RepoCommit(c) BY <2>5, CommitStep
  <2>6. CASE RepoBusy(c)
    BY <2>0, <2>6, LocalStep DEF RepoBusy, Rollback, Goto, Steps, At
  <2>7. CASE Abandon(c)
    BY <2>0, <2>7, LocalStep DEF Abandon, Rollback, Goto, Steps, At
  <2> QED BY <1>3, <2>1, <2>2, <2>3, <2>4, <2>5, <2>6, <2>7 DEF Step
<1>4. CASE UNCHANGED vars
  BY <1>4 DEF vars, IInv, TypeOK, SqlTypeOK, LastAdminKept, Admins, GuardSuffices,
     TransactionOK, SnapshotOK, RemovesAdmin, AnotherAdmin, Live
<1> QED BY <1>1, <1>2, <1>3, <1>4 DEF Next

\* IInv holds in every reachable state, whatever is fair.
LEMMA Safety == Init /\ [][Next]_vars => []IInv
BY InitInv, StepInv, PTL

\* IInv holds in every reachable state.
THEOREM InductiveInvariant == Spec => []IInv
BY Safety, PTL DEF Spec

\* Type correctness.
THEOREM TypeCorrect == Spec => []TypeOK
<1>1. IInv => TypeOK BY DEF IInv
<1> QED BY InductiveInvariant, <1>1, PTL

\* There is always an administrator.
THEOREM LastAdminSafe == Spec => []LastAdminKept
<1>1. IInv => LastAdminKept BY DEF IInv
<1> QED BY InductiveInvariant, <1>1, PTL

\* The in-transaction guard never lets a write through that the triggers refuse.
THEOREM GuardSufficient == Spec => []GuardSuffices
<1>1. IInv => GuardSuffices BY DEF IInv
<1> QED BY InductiveInvariant, <1>1, PTL

\* The guard's decision is still good when the write commits.
THEOREM DecisionSafe == Spec => []DecisionStillGood
<1>1. IInv => DecisionStillGood BY DEF IInv, TransactionOK, DecisionStillGood
<1> QED BY InductiveInvariant, <1>1, PTL

\* No transaction touches the row of a deleted account.
LEMMA DeletedStep == IInv /\ [Next]_vars => [\A u \in Users : db[u] = "deleted" => db'[u] = "deleted"]_vars
<1> SUFFICES ASSUME IInv, Next, NEW u \in Users, db[u] = "deleted"
             PROVE  db'[u] = "deleted"
  OBVIOUS
<1>1. CASE db' = db BY <1>1
<1>2. ASSUME NEW c \in Clients, RepoCommit(c) PROVE db'[u] = "deleted"
  BY <1>2 DEF RepoCommit, Commit, IInv, TypeOK, TransactionOK
<1> QED BY <1>1, <1>2 DEF Next, Step, Start, CreateUser, ServiceFind, ServiceCount, RepoGuard,
           RepoWrite, RepoBusy, Abandon, TakeSnapshot, TakeWriteLock, Rollback, sqlVars

\* A deleted account stays deleted.
THEOREM DeletedSafe == Spec => DeletedForGood
BY InductiveInvariant, DeletedStep, PTL DEF Spec, DeletedForGood

\* Every step of a service call is one change, or none: what the transaction has read
\* and counted is what there is when it commits.
LEMMA OneChangeStep == IInv /\ [Next]_vars => [OneChange]_db
<1> SUFFICES ASSUME IInv, Next PROVE OneChange \/ db' = db
  BY DEF vars
<1>1. ASSUME NEW c \in Clients, RepoCommit(c) PROVE OneChange
  <2>1. PICK u \in Users, to \in Status \ {"absent"} : op[c].target = u /\ op[c].to = to
    BY DEF IInv, TypeOK, Operation
  <2>2. /\ db' = [db EXCEPT ![u] = to]
        /\ db[u] \in {"absent", "Admin", "Staff"}
        /\ db[u] = "absent" => to \in Roles
        /\ db[u] = "Admin" /\ to # "Admin" => \E v \in Users \ {u} : db[v] = "Admin"
    BY <1>1, <2>1 DEF RepoCommit, Commit, IInv, TypeOK, Status, TransactionOK, RemovesAdmin,
        AnotherAdmin
  <2>3. CASE db[u] = "absent"
    <3>1. Created(u) BY <2>2, <2>3 DEF Created
    <3> QED BY <3>1 DEF OneChange
  <2>4. CASE db[u] \in {"Admin", "Staff"}
    <3>1. to = "Admin" \/ \E v \in Users \ {u} : db[v] = "Admin"
      BY <2>2, <2>4 DEF IInv, LastAdminKept, Admins
    <3>2. Changed(u, to) BY <2>2, <2>4, <3>1 DEF Changed, Roles
    <3>3. to \in Roles \cup {"deleted"} BY DEF Status, Roles
    <3> QED BY <3>2, <3>3 DEF OneChange
  <2> QED BY <2>2, <2>3, <2>4
<1> QED BY <1>1 DEF Next, Step, Start, CreateUser, ServiceFind, ServiceCount, RepoGuard,
           RepoWrite, RepoBusy, Abandon, TakeSnapshot, TakeWriteLock, Rollback, sqlVars

\* Overlapping creations, changes of role and deletions take effect at one moment each.
THEOREM ChangesSafe == Spec => ChangesAtOnce
BY InductiveInvariant, OneChangeStep, PTL DEF Spec, ChangesAtOnce

-----------------------------------------------------------------------------
\* The lockout of an account is exact, for any number of overlapping logins, any
\* threshold and any length of the lock.

\* A counter that is ahead of nothing: a lock was earned by as many failures.
LockRowOK ==
    /\ lockRow.failed_login_attempts <= streak
    /\ lockRow.locked_until # 0 => lockRow.failed_login_attempts >= Threshold

\* The row a transaction is about to commit, made of the row that is still there: the
\* same one if it was locked, or one more failure, which locks it or does not.
Pending(r) ==
    \/ r.row = lockRow
    \/ /\ ~Lockout!StillLocked(lockRow)
       /\ r.row.failed_login_attempts = lockRow.failed_login_attempts + 1
       /\ IF r.row.failed_login_attempts >= Threshold
          THEN r.row.locked_until > lockRow.locked_until
          ELSE r.row.locked_until = 0

LoginOK(c) ==
    /\ login[c].pc \notin {"update", "commit"} => lockReading[c] = "none" /\ lockWriter # c
    /\ login[c].pc = "update" =>
          /\ lockReading[c] # "none" /\ lockWriter # c
          /\ lockReading[c] = "fresh" => login[c].before = lockRow.failed_login_attempts
    /\ login[c].pc = "commit" =>
          lockWriter = c /\ login[c].before = lockRow.failed_login_attempts /\ Pending(login[c])

LoginInv ==
    /\ Lockout!TypeOK
    /\ LockRowOK
    /\ \A c \in Logins : LoginOK(c)

\* What the assumptions on the constants give.
LEMMA LoginBounds ==
    /\ Threshold \in Nat /\ Threshold > 0 /\ LockTicks \in Nat /\ LockTicks > 0
    /\ MaxNow \in Nat /\ MaxStreak \in Nat /\ NoClient \notin Logins
BY ClientConstants, LoginConstants
   DEF Lockout!ThresholdAssumption, Lockout!LockTicksAssumption, Lockout!BoundsAssumption

\* Nobody has failed yet.
LEMMA LoginInit == ASSUME Lockout!Init PROVE LoginInv
<1> USE LoginBounds
<1>1. Lockout!TypeOK
  BY DEF Lockout!Init, Lockout!SqlInit, Lockout!TypeOK, Lockout!SqlTypeOK,
      Lockout!Row, Lockout!Cleared, Lockout!Request, Lockout!Steps
<1>2. LockRowOK BY DEF Lockout!Init, LockRowOK, Lockout!Cleared
<1>3. \A c \in Logins : LoginOK(c) BY DEF Lockout!Init, Lockout!SqlInit, LoginOK
<1> QED BY <1>1, <1>2, <1>3 DEF LoginInv

\* A step of c that leaves the row alone and lets no time pass.
LEMMA QuietStep ==
    ASSUME LoginInv, NEW c \in Logins, NEW q \in Lockout!Request,
           login' = [login EXCEPT ![c] = q], lockRow' = lockRow, time' = time, audit' = audit,
           streak' \in {streak, streak + 1}, Lockout!SqlTypeOK',
           \A d \in Logins \ {c} :
              lockReading'[d] = lockReading[d] /\ (lockWriter' = d <=> lockWriter = d),
           LoginOK(c)'
    PROVE  LoginInv'
<1> USE LoginBounds
<1>1. Lockout!TypeOK' BY DEF LoginInv, Lockout!TypeOK
<1>2. LockRowOK' BY DEF LoginInv, LockRowOK, Lockout!TypeOK, Lockout!Row
<1>3. \A d \in Logins \ {c} : login'[d] = login[d] BY DEF LoginInv, Lockout!TypeOK
<1>4. \A d \in Logins \ {c} : LoginOK(d)'
  BY <1>3 DEF LoginInv, LoginOK, Pending, Lockout!StillLocked
<1> QED BY <1>1, <1>2, <1>4 DEF LoginInv

\* What the others find after the row was written: nobody of them was about to.
LEMMA OthersAfterWrite ==
    ASSUME LoginInv, NEW c \in Logins \cup {NoClient}, lockWriter = c, lockWriter' = NoClient,
           \A d \in Logins \ {c} :
              /\ login'[d] = login[d]
              /\ lockReading'[d] = IF lockReading[d] = "fresh" THEN "stale" ELSE lockReading[d]
    PROVE  \A d \in Logins \ {c} : LoginOK(d)'
BY LoginBounds DEF LoginInv, LoginOK

\* Checking the password and the lockout state writes nothing.
LEMMA SubmitInv ==
    ASSUME LoginInv, NEW c \in Logins, NEW valid \in BOOLEAN, Lockout!Submit(c, valid)
    PROVE  LoginInv'
<1> USE LoginBounds
<1> DEFINE q == [pc |-> "check", valid |-> valid, before |-> 0, row |-> Lockout!Cleared]
<1>1. q \in Lockout!Request /\ login' = [login EXCEPT ![c] = q] /\ login'[c] = q
  BY DEF LoginInv, Lockout!TypeOK, Lockout!Submit, Lockout!Request, Lockout!Steps, Lockout!Row,
      Lockout!Cleared
<1>2. UNCHANGED <<lockRow, lockWriter, lockReading, time, audit, streak>>
  BY DEF Lockout!Submit, Lockout!sqlVars
<1>3. Lockout!SqlTypeOK' BY <1>2 DEF LoginInv, Lockout!TypeOK, Lockout!SqlTypeOK
<1>4. LoginOK(c)' BY <1>1, <1>2 DEF LoginInv, LoginOK, Lockout!Submit
<1> HIDE DEF q
<1> QED BY <1>1, <1>2, <1>3, <1>4, QuietStep

\* The check of the lock and of the password, which writes nothing.
LEMMA CheckInv == ASSUME LoginInv, NEW c \in Logins, Lockout!Check(c) PROVE LoginInv'
<1> USE LoginBounds
<1> DEFINE pc == IF Lockout!StillLocked(lockRow) THEN "idle"
                 ELSE IF login[c].valid THEN "clear" ELSE "record"
           q == Lockout!At(c, pc)
<1>1. q \in Lockout!Request /\ login' = [login EXCEPT ![c] = q] /\ login'[c] = q /\ q.pc = pc
  BY DEF LoginInv, Lockout!TypeOK, Lockout!Check, Lockout!Goto, Lockout!At, Lockout!Request,
      Lockout!Steps
<1>2. UNCHANGED <<lockRow, lockWriter, lockReading, time, audit, streak>>
  BY DEF Lockout!Check, Lockout!sqlVars
<1>3. Lockout!SqlTypeOK' BY <1>2 DEF LoginInv, Lockout!TypeOK, Lockout!SqlTypeOK
<1>4. LoginOK(c)' BY <1>1, <1>2 DEF LoginInv, LoginOK, Lockout!Check
<1> HIDE DEF q
<1> QED BY <1>1, <1>2, <1>3, <1>4, QuietStep

\* A failed attempt reads the counter in its transaction.
LEMMA RecordReadInv == ASSUME LoginInv, NEW c \in Logins, Lockout!RecordRead(c) PROVE LoginInv'
<1> USE LoginBounds
<1> DEFINE q == [pc |-> "update", valid |-> login[c].valid,
                 before |-> lockRow.failed_login_attempts, row |-> Lockout!Cleared]
<1>1. q \in Lockout!Request /\ login' = [login EXCEPT ![c] = q] /\ login'[c] = q
  BY DEF LoginInv, Lockout!TypeOK, Lockout!RecordRead, Lockout!Request, Lockout!Steps,
      Lockout!Row, Lockout!Cleared
<1>2. /\ UNCHANGED <<lockRow, lockWriter, time, audit, streak>>
      /\ Lockout!SqlTypeOK' /\ lockReading'[c] = "fresh"
      /\ \A d \in Logins \ {c} : lockReading'[d] = lockReading[d]
  BY DEF LoginInv, Lockout!TypeOK, Lockout!SqlTypeOK, Lockout!RecordRead, Lockout!TakeSnapshot
<1>3. LoginOK(c)' BY <1>1, <1>2 DEF LoginInv, LoginOK, Lockout!RecordRead
<1> HIDE DEF q
<1> QED BY <1>1, <1>2, <1>3, QuietStep

\* What Counted makes of a row.
LEMMA CountedPending ==
    ASSUME Lockout!TypeOK, LockRowOK
    PROVE  /\ Lockout!Counted(lockRow) \in Lockout!Row
           /\ \/ Lockout!Counted(lockRow) = lockRow
              \/ /\ ~Lockout!StillLocked(lockRow)
                 /\ Lockout!Counted(lockRow).failed_login_attempts
                      = lockRow.failed_login_attempts + 1
                 /\ IF Lockout!Counted(lockRow).failed_login_attempts >= Threshold
                    THEN Lockout!Counted(lockRow).locked_until > lockRow.locked_until
                    ELSE Lockout!Counted(lockRow).locked_until = 0
<1> USE LoginBounds
<1>1. CASE Lockout!StillLocked(lockRow) BY <1>1 DEF Lockout!Counted, Lockout!TypeOK
<1>2. CASE ~Lockout!StillLocked(lockRow)
  <2>1. lockRow.locked_until <= time BY <1>2 DEF Lockout!StillLocked, Lockout!TypeOK, Lockout!Row
  <2>2. Lockout!Counted(lockRow) = [failed_login_attempts |-> lockRow.failed_login_attempts + 1,
                       locked_until |-> IF lockRow.failed_login_attempts + 1 >= Threshold
                                        THEN time + LockTicks ELSE 0]
    BY <1>2 DEF Lockout!Counted
  <2> QED BY <1>2, <2>1, <2>2 DEF Lockout!TypeOK, Lockout!Row
<1> QED BY <1>1, <1>2

\* A failed attempt writes the counter and perhaps the lock.
LEMMA RecordUpdateInv ==
    ASSUME LoginInv, NEW c \in Logins, Lockout!RecordUpdate(c)
    PROVE LoginInv'
<1> USE LoginBounds
<1> DEFINE q == [pc |-> "commit", valid |-> login[c].valid, before |-> login[c].before,
                 row |-> Lockout!Counted(lockRow)]
<1>1. /\ q \in Lockout!Request /\ login' = [login EXCEPT ![c] = q] /\ login'[c] = q
      /\ login[c].before = lockRow.failed_login_attempts
  BY CountedPending
  DEF LoginInv, Lockout!TypeOK, Lockout!SqlTypeOK, LoginOK, Lockout!RecordUpdate,
      Lockout!TakeWriteLock, Lockout!CanWrite, Lockout!Request, Lockout!Steps
<1>2. /\ UNCHANGED <<lockRow, time, audit, streak>> /\ Lockout!SqlTypeOK' /\ lockWriter' = c
      /\ \A d \in Logins \ {c} :
            lockReading'[d] = lockReading[d] /\ (lockWriter' = d <=> lockWriter = d)
  BY DEF LoginInv, Lockout!TypeOK, Lockout!SqlTypeOK, Lockout!RecordUpdate,
      Lockout!TakeWriteLock, Lockout!CanWrite
<1>3. LoginOK(c)'
  <2>1. Pending(login[c])'
    BY <1>1, <1>2, CountedPending DEF LoginInv, Pending, Lockout!StillLocked
  <2> QED BY <1>1, <1>2, <2>1 DEF LoginOK
<1> HIDE DEF q
<1> QED BY <1>1, <1>2, <1>3, QuietStep

\* The commit of a failure, and what it does to the row.
LEMMA RecordCommitInv ==
    ASSUME LoginInv, NEW c \in Logins, Lockout!RecordCommit(c)
    PROVE  /\ LoginInv'
           /\ lockRow.failed_login_attempts = login[c].before
           /\ lockRow'.failed_login_attempts \in {login[c].before, login[c].before + 1}
           /\ audit' = "AccountLocked" <=> lockRow'.locked_until # lockRow.locked_until
           /\ Lockout!Locked => lockRow' = lockRow
<1> USE LoginBounds
<1> DEFINE q == Lockout!At(c, "idle")
<1>1. /\ q \in Lockout!Request /\ login' = [login EXCEPT ![c] = q] /\ login'[c] = q /\ q.pc = "idle"
      /\ login[c].row \in Lockout!Row /\ lockRow \in Lockout!Row
      /\ lockRow' = login[c].row /\ login[c].pc = "commit"
  BY DEF LoginInv, Lockout!TypeOK, Lockout!RecordCommit, Lockout!Commit, Lockout!Goto,
      Lockout!At, Lockout!Request, Lockout!Steps
<1>2. lockWriter = c /\ login[c].before = lockRow.failed_login_attempts /\ Pending(login[c])
  BY <1>1 DEF LoginInv, LoginOK
<1>3. Lockout!SqlTypeOK' /\ lockWriter' = NoClient /\ lockReading'[c] = "none"
  BY DEF LoginInv, Lockout!TypeOK, Lockout!SqlTypeOK, Lockout!RecordCommit, Lockout!Commit
<1>4. audit' = Lockout!AuditEntry(login[c]) /\ streak' = streak + 1 /\ time' = time
  BY DEF Lockout!RecordCommit
<1>5. Lockout!TypeOK' BY <1>1, <1>3, <1>4 DEF LoginInv, Lockout!TypeOK, Lockout!AuditEntry
<1>6. LockRowOK'
  BY <1>1, <1>2, <1>4 DEF LoginInv, LockRowOK, Lockout!TypeOK, Pending, Lockout!Row
<1>7. \A d \in Logins \ {c} :
         /\ login'[d] = login[d]
         /\ lockReading'[d] = IF lockReading[d] = "fresh" THEN "stale" ELSE lockReading[d]
  BY <1>1 DEF LoginInv, Lockout!TypeOK, Lockout!RecordCommit, Lockout!Commit
<1>8. \A d \in Logins \ {c} : LoginOK(d)' BY <1>2, <1>3, <1>7, OthersAfterWrite
<1>9. LoginOK(c)' BY <1>1, <1>3 DEF LoginOK
<1>10. LoginInv' BY <1>5, <1>6, <1>8, <1>9 DEF LoginInv
<1>11. lockRow'.failed_login_attempts \in {login[c].before, login[c].before + 1}
  BY <1>1, <1>2 DEF Pending
<1>12. audit' = "AccountLocked" <=> lockRow'.locked_until # lockRow.locked_until
  BY <1>1, <1>2, <1>4 DEF LoginInv, LockRowOK, Pending, Lockout!AuditEntry, Lockout!Row
<1>13. Lockout!Locked => lockRow' = lockRow BY <1>1, <1>2 DEF Lockout!Locked, Pending
<1> QED BY <1>2, <1>10, <1>11, <1>12, <1>13

\* A transaction, or a request without one, ends without a commit.
LEMMA EndStep ==
    ASSUME LoginInv, NEW c \in Logins, Lockout!Rollback(c), Lockout!Goto(c, "idle"),
           UNCHANGED <<time, audit>>, streak' \in {streak, streak + 1}
    PROVE  LoginInv'
<1> USE LoginBounds
<1> DEFINE q == Lockout!At(c, "idle")
<1>1. q \in Lockout!Request /\ login' = [login EXCEPT ![c] = q] /\ login'[c] = q /\ q.pc = "idle"
  BY DEF LoginInv, Lockout!TypeOK, Lockout!Goto, Lockout!At, Lockout!Request, Lockout!Steps
<1>2. /\ Lockout!SqlTypeOK' /\ lockRow' = lockRow /\ lockWriter' # c /\ lockReading'[c] = "none"
      /\ \A d \in Logins \ {c} :
            lockReading'[d] = lockReading[d] /\ (lockWriter' = d <=> lockWriter = d)
  BY DEF LoginInv, Lockout!TypeOK, Lockout!SqlTypeOK, Lockout!Rollback
<1>3. LoginOK(c)' BY <1>1, <1>2 DEF LoginOK
<1> HIDE DEF q
<1> QED BY <1>1, <1>2, <1>3, QuietStep

\* A right password is answered with a session.
LEMMA IssueSessionInv ==
    ASSUME LoginInv, NEW c \in Logins, Lockout!IssueSession(c)
    PROVE LoginInv'
<1> USE LoginBounds
<1> DEFINE q == Lockout!At(c, "idle")
<1>1. q \in Lockout!Request /\ login' = [login EXCEPT ![c] = q] /\ login'[c] = q /\ q.pc = "idle"
  BY DEF LoginInv, Lockout!TypeOK, Lockout!IssueSession, Lockout!Goto, Lockout!At,
      Lockout!Request, Lockout!Steps
<1>2. UNCHANGED <<lockRow, lockWriter, lockReading, time, audit, streak>>
  BY DEF Lockout!IssueSession, Lockout!sqlVars
<1>3. Lockout!SqlTypeOK' BY <1>2 DEF LoginInv, Lockout!TypeOK, Lockout!SqlTypeOK
<1>4. LoginOK(c)' BY <1>1, <1>2 DEF LoginInv, LoginOK, Lockout!IssueSession
<1> HIDE DEF q
<1> QED BY <1>1, <1>2, <1>3, <1>4, QuietStep

\* A statement of its own never meets a transaction that holds the write lock.
LEMMA AutocommitOthers ==
    ASSUME LoginInv, NEW contents, Lockout!Autocommit(contents)
    PROVE  /\ Lockout!SqlTypeOK' /\ lockRow' = contents
           /\ \A d \in Logins : login'[d] = login[d] => LoginOK(d)'
<1> USE LoginBounds
<1>1. Lockout!SqlTypeOK' BY DEF LoginInv, Lockout!TypeOK, Lockout!SqlTypeOK, Lockout!Autocommit
<1>2. ASSUME NEW d \in Logins, login'[d] = login[d] PROVE LoginOK(d)'
  BY <1>2 DEF LoginInv, LoginOK, Lockout!Autocommit
<1> QED BY <1>1, <1>2 DEF Lockout!Autocommit

\* The reset of the counter before a session is issued.
LEMMA ClearFailedAttemptsInv ==
    ASSUME LoginInv, NEW c \in Logins, Lockout!ClearFailedAttempts(c) PROVE LoginInv'
<1> USE LoginBounds
<1> DEFINE q == Lockout!At(c, "session")
<1>1. q \in Lockout!Request /\ login' = [login EXCEPT ![c] = q] /\ login'[c] = q /\ q.pc = "session"
  BY DEF LoginInv, Lockout!TypeOK, Lockout!ClearFailedAttempts, Lockout!Goto, Lockout!At,
      Lockout!Request, Lockout!Steps
<1>2. /\ Lockout!SqlTypeOK' /\ lockRow' = Lockout!Cleared /\ streak' = 0
      /\ time' = time /\ audit' = audit
      /\ \A d \in Logins : login'[d] = login[d] => LoginOK(d)'
  BY AutocommitOthers DEF Lockout!ClearFailedAttempts
<1>3. Lockout!TypeOK' BY <1>1, <1>2 DEF LoginInv, Lockout!TypeOK, Lockout!Row, Lockout!Cleared
<1>4. LockRowOK' BY <1>2 DEF LockRowOK, Lockout!Cleared
<1>5. \A d \in Logins \ {c} : LoginOK(d)' BY <1>1, <1>2 DEF LoginInv, Lockout!TypeOK
<1>6. lockReading'[c] = "none" /\ lockWriter' # c
  BY DEF LoginInv, Lockout!TypeOK, Lockout!SqlTypeOK, LoginOK, Lockout!ClearFailedAttempts,
      Lockout!Autocommit
<1>7. LoginOK(c)' BY <1>1, <1>6 DEF LoginOK
<1> QED BY <1>3, <1>4, <1>5, <1>7 DEF LoginInv

\* An administrator unlocks the account, or somebody else writes to the database.
LEMMA OthersInv == ASSUME LoginInv, Lockout!UnlockUser \/ Lockout!OtherWrite PROVE LoginInv'
<1> USE LoginBounds
<1>1. /\ Lockout!SqlTypeOK' /\ UNCHANGED <<time, login, audit>>
      /\ \A d \in Logins : LoginOK(d)'
  BY AutocommitOthers DEF Lockout!UnlockUser, Lockout!OtherWrite
<1>2. (lockRow' = Lockout!Cleared /\ streak' = 0) \/ (lockRow' = lockRow /\ streak' = streak)
  BY DEF Lockout!UnlockUser, Lockout!OtherWrite, Lockout!Autocommit
<1>3. Lockout!TypeOK' BY <1>1, <1>2 DEF LoginInv, Lockout!TypeOK, Lockout!Row, Lockout!Cleared
<1>4. LockRowOK' BY <1>2 DEF LoginInv, LockRowOK, Lockout!Cleared
<1> QED BY <1>1, <1>3, <1>4 DEF LoginInv

\* Time only lets a lock end.
LEMMA TickInv == ASSUME LoginInv, Lockout!Tick PROVE LoginInv'
<1> USE LoginBounds
<1>1. /\ time' = time + 1 /\ time \in Nat
      /\ UNCHANGED <<lockRow, lockWriter, lockReading, login, audit, streak>>
  BY DEF LoginInv, Lockout!TypeOK, Lockout!Tick, Lockout!sqlVars
<1>2. Lockout!TypeOK' BY <1>1 DEF LoginInv, Lockout!TypeOK, Lockout!SqlTypeOK
<1>3. LockRowOK' BY <1>1 DEF LoginInv, LockRowOK
<1>4. ~Lockout!StillLocked(lockRow) => ~Lockout!StillLocked(lockRow)' BY <1>1
  DEF Lockout!StillLocked, LoginInv, Lockout!TypeOK, Lockout!Row
<1>5. \A c \in Logins : LoginOK(c)' BY <1>1, <1>4 DEF LoginInv, LoginOK, Pending
<1> QED BY <1>2, <1>3, <1>5 DEF LoginInv

\* Every step keeps the invariant.
LEMMA LoginStepInv == ASSUME LoginInv, [Lockout!Next]_Lockout!vars PROVE LoginInv'
<1> USE LoginBounds
<1>1. ASSUME NEW c \in Logins, Lockout!Step(c) PROVE LoginInv'
  <2>1. CASE Lockout!RecordBusy(c) BY <2>1, EndStep DEF Lockout!RecordBusy
  <2>2. CASE Lockout!Abandon(c) BY <2>2, EndStep DEF Lockout!Abandon
  <2> QED BY <1>1, <2>1, <2>2, CheckInv, RecordReadInv, RecordUpdateInv, RecordCommitInv,
             ClearFailedAttemptsInv, IssueSessionInv DEF Lockout!Step
<1>2. CASE UNCHANGED Lockout!vars
  <2>1. Lockout!TypeOK' BY <1>2 DEF LoginInv, Lockout!TypeOK, Lockout!SqlTypeOK, Lockout!vars
  <2>2. LockRowOK' BY <1>2 DEF LoginInv, LockRowOK, Lockout!vars
  <2>3. \A c \in Logins : LoginOK(c)'
    BY <1>2 DEF LoginInv, LoginOK, Pending, Lockout!StillLocked, Lockout!vars
  <2> QED BY <2>1, <2>2, <2>3 DEF LoginInv
<1> QED BY <1>1, <1>2, SubmitInv, OthersInv, TickInv DEF Lockout!Next

\* What a step does to the row: nothing, clear it, or count a failure.
LEMMA Effects ==
    ASSUME LoginInv, [Lockout!Next]_Lockout!vars
    PROVE  \/ lockRow' = lockRow \/ lockRow' = Lockout!Cleared
           \/ \E c \in Logins : Lockout!RecordCommit(c)
BY DEF Lockout!Next, Lockout!Step, Lockout!Submit, Lockout!Check, Lockout!RecordRead,
    Lockout!RecordUpdate, Lockout!RecordBusy, Lockout!ClearFailedAttempts,
       Lockout!IssueSession, Lockout!Abandon, Lockout!UnlockUser, Lockout!OtherWrite,
       Lockout!Tick, Lockout!TakeSnapshot, Lockout!TakeWriteLock, Lockout!Rollback,
       Lockout!Autocommit, Lockout!sqlVars, Lockout!vars

-----------------------------------------------------------------------------
\* The invariant holds in every behaviour.
THEOREM LoginInvariant == Lockout!Spec => []LoginInv
BY LoginInit, LoginStepInv, PTL DEF Lockout!Spec

\* Every reachable state is of its type: the row counts from zero, and each login is at
\* a step of its handler.
THEOREM LoginTypeCorrect == Lockout!Spec => []Lockout!TypeOK
<1>1. LoginInv => Lockout!TypeOK BY DEF LoginInv
<1> QED BY <1>1, LoginInvariant, PTL

\* Whatever logins overlap, an account is locked only after Threshold wrong passwords
\* since its counter was cleared (record_failed_attempt, is_still_locked).
THEOREM Earned == Lockout!Spec => []Lockout!LockEarned
<1>1. ASSUME LoginInv PROVE Lockout!LockEarned
  BY <1>1, LoginBounds DEF LoginInv, LockRowOK, Lockout!TypeOK, Lockout!Row,
      Lockout!LockEarned, Lockout!Locked, Lockout!StillLocked
<1> QED BY <1>1, LoginInvariant, PTL

\* A failure that is counted adds one to the counter that its transaction has read.
THEOREM NothingLost == Lockout!Spec => Lockout!NoLostCount
<1>1. ASSUME LoginInv
      PROVE  \A c \in Logins : Lockout!RecordCommit(c) =>
                lockRow'.failed_login_attempts \in {login[c].before, login[c].before + 1}
                /\ lockRow.failed_login_attempts = login[c].before
  BY <1>1, RecordCommitInv
<1> QED BY <1>1, LoginInvariant, PTL DEF Lockout!Spec, Lockout!NoLostCount

\* The activity log says AccountLocked for the failure that locked the account only.
THEOREM LogTruthful == Lockout!Spec => Lockout!AuditTruthful
<1>1. ASSUME LoginInv
      PROVE  \A c \in Logins : Lockout!RecordCommit(c) =>
                (audit' = "AccountLocked" <=> lockRow'.locked_until # lockRow.locked_until)
  BY <1>1, RecordCommitInv
<1> QED BY <1>1, LoginInvariant, PTL DEF Lockout!Spec, Lockout!AuditTruthful

\* Failures that were already on their way when the account was locked leave the end of
\* the lock where it is.
THEOREM Stable == Lockout!Spec => Lockout!LockStable
<1>1. ASSUME LoginInv, [Lockout!Next]_Lockout!vars
      PROVE  Lockout!Locked => lockRow'.locked_until \in {lockRow.locked_until, 0}
  BY <1>1, Effects, RecordCommitInv DEF Lockout!Cleared
<1> QED BY <1>1, LoginInvariant, PTL DEF Lockout!Spec, Lockout!LockStable

\* The promise of the lockout as a whole.
THEOREM Exact == Lockout!Spec => Lockout!LockoutExact
BY Earned, NothingLost, LogTruthful, Stable, PTL DEF Lockout!LockoutExact

-----------------------------------------------------------------------------
\* The components side by side: one is in motion, and a step of the whole is a step of
\* each component or leaves it alone.

\* The users move by steps of UserAdmin.
LEMMA UserStep == [MCNext]_allVars => [Next]_vars
<1> SUFFICES ASSUME [MCNext]_allVars PROVE [Next]_vars
  OBVIOUS
<1>1. CASE UNCHANGED allVars BY <1>1 DEF allVars
<1>2. CASE part = "user" /\ UserNext BY <1>2 DEF UserNext, Next, Step
<1>3. CASE UNCHANGED vars BY <1>3
<1> QED BY <1>1, <1>2, <1>3 DEF MCNext, Only

\* The counter of failed logins moves by steps of LoginLockout.
LEMMA LoginStep == [MCNext]_allVars => [Lockout!Next]_Lockout!vars
<1> SUFFICES ASSUME [MCNext]_allVars PROVE [Lockout!Next]_Lockout!vars
  OBVIOUS
<1>1. CASE UNCHANGED allVars BY <1>1 DEF allVars
<1>2. CASE part = "login" /\ LoginNext BY <1>2 DEF LoginNext, Lockout!Next, Lockout!Step
<1>3. CASE UNCHANGED <<lockRow, lockWriter, lockReading, time, login, audit, streak>>
  BY <1>3 DEF Lockout!vars
<1> QED BY <1>1, <1>2, <1>3 DEF MCNext, Only

\* The recovery codes move by steps of RecoveryCodes.
LEMMA CodeStep == [MCNext]_allVars => [Codes!Next]_Codes!vars
<1> SUFFICES ASSUME [MCNext]_allVars PROVE [Codes!Next]_Codes!vars
  OBVIOUS
<1>1. CASE UNCHANGED allVars BY <1>1 DEF allVars
<1>2. CASE part = "code" /\ CodeNext
  BY <1>2 DEF CodeNext, Codes!Next, Codes!ResetStep, Codes!RegenStep
<1>3. CASE UNCHANGED <<codeRow, codeWriter, codeReading, use, answer, spent, passwords>>
  BY <1>3 DEF Codes!vars
<1> QED BY <1>1, <1>2, <1>3 DEF MCNext, Only

\* Side by side with the other components, there is always an administrator and a
\* deleted account stays deleted.
THEOREM AccountsHold == MCSpec => []LastAdminKept /\ DeletedForGood
<1>1. MCInit => Init BY DEF MCInit
<1>2. IInv => LastAdminKept BY DEF IInv
<1> QED BY <1>1, <1>2, UserStep, Safety, DeletedStep, PTL DEF MCSpec, DeletedForGood

\* Side by side with the other components, the guard of a transaction suffices and its
\* decision is still good at the write.
THEOREM GuardsHold == MCSpec => []GuardHolds
<1>1. MCInit => Init BY DEF MCInit
<1>2. IInv => GuardHolds
  BY DEF IInv, TransactionOK, GuardHolds, GuardSuffices, DecisionStillGood
<1> QED BY <1>1, <1>2, UserStep, Safety, PTL DEF MCSpec

\* A lock is earned by Threshold wrong passwords in a row, no counted failure is lost,
\* the log names the failure that locked the account, and later ones leave it alone.
THEOREM LocksExact == MCSpec => LockoutExact
<1>1. MCInit => Lockout!Init BY DEF MCInit
<1> QED BY <1>1, LoginStep, Exact, PTL DEF MCSpec, LockoutExact, Lockout!Spec

\* A recovery code changes the password at most once and overwrites no password the
\* reset has not seen; used and replaced codes stay dead; answers are true.
THEOREM CodesOnce == MCSpec => CodesSpentOnce
<1>1. NoClient \notin Resets \cup Regenerations BY ClientConstants
<1>2. MCInit => Codes!Init BY DEF MCInit
<1>3. Codes!Constants BY CodeConstants
<1> QED BY <1>1, <1>2, <1>3, CodeStep, Codes!SpentOnce, PTL DEF MCSpec, CodesSpentOnce, Codes!Spec

\* Overlapping creations, changes of role and deletions take effect at one moment each,
\* beside the other components.
THEOREM ChangesHold == MCSpec => ChangesAtOnce
<1>1. MCInit => Init BY DEF MCInit
<1> QED BY <1>1, UserStep, Safety, OneChangeStep, PTL DEF MCSpec, ChangesAtOnce

\* Uses of recovery codes and regenerations implement the box of codes.
THEOREM BoxHolds == MCSpec => OpensOnce
<1>1. NoClient \notin Resets \cup Regenerations BY ClientConstants
<1>2. MCInit => Codes!Init BY DEF MCInit
<1>3. Codes!Constants BY CodeConstants
<1> QED BY <1>1, <1>2, <1>3, CodeStep, Codes!BoxOpensOnce, PTL DEF MCSpec, OpensOnce, Codes!Spec

\* The limiter moves by steps of RateLimiter.
LEMMA LimitStep == [MCNext]_allVars => [Limit!Next]_Limit!vars
<1> SUFFICES ASSUME [MCNext]_allVars PROVE [Limit!Next]_Limit!vars
  OBVIOUS
<1>1. CASE UNCHANGED allVars BY <1>1 DEF allVars
<1>2. CASE part = "limit" /\ LimitNext BY <1>2 DEF LimitNext, Limit!Next
<1>3. CASE UNCHANGED <<mode, clock, step, key, now, attempts, blockers>>
  BY <1>3 DEF Limit!vars
<1> QED BY <1>1, <1>2, <1>3 DEF MCNext, Only

\* At no moment are more than MaxAttempts admitted calls of a key younger than the
\* window, however calls overtake each other between clock and lock; and no call is
\* refused for less.
THEOREM WindowKept == MCSpec => []WindowRespected
<1>1. MCInit => Limit!Init BY DEF MCInit
<1>2. Limit!NumbersAssumption BY LimitConstants
<1> QED BY <1>1, <1>2, LimitStep, Limit!WindowSafe, PTL DEF MCSpec, WindowRespected, Limit!Spec

-----------------------------------------------------------------------------
\* The customers and their activity log.

Entry == [action : Customer!Actions, row : Customer!Row]
Change == [pc : {"idle", "find", "write", "log"}, action : Customer!Actions,
           id : Ids, req : Customer!Request]

CustomersOK ==
    /\ customers \in [row : [Ids -> Customer!Row \cup {Absent}], log : [Ids -> Seq(Entry)]]
    /\ custWriter \in Clients \cup {NoClient}
    /\ custReading \in [Clients -> {"none", "fresh", "stale"}]
    /\ custOp \in [Clients -> Change]

\* The row is as the action of c needs it.
Fits(c) ==
    LET r == customers.row[custOp[c].id] IN
    /\ custOp[c].action = "created" => r = Absent
    /\ custOp[c].action \in {"updated", "soft_deleted"} => r # Absent /\ r.live
    /\ custOp[c].action = "restored" => r # Absent /\ ~ r.live

Creates(c) == custOp[c].pc # "idle" /\ custOp[c].action = "created"

\* What a client may rely on at each step of its transaction. Only a snapshot tells an
\* update that its row is live, and a fresh id is a client's own.
ClientOK(c) ==
    /\ custOp[c].pc = "find" => custOp[c].action = "updated"
    /\ custOp[c].pc = "write" /\ custOp[c].action = "updated" =>
          custReading[c] # "none" /\ (custReading[c] = "fresh" => Fits(c))
    /\ custOp[c].pc = "log" => custWriter = c /\ Fits(c)
    /\ Creates(c) =>
          /\ Fits(c) /\ custOp[c].req.name \in Values
          /\ \A d \in Clients \ {c} : Creates(d) => custOp[d].id # custOp[c].id

ChangeOK == \A c \in Clients : ClientOK(c)

CustInv == CustomersOK /\ ChangeOK /\ LogTellsHistory

\* No row is a missing one, and no field is cleared by the value it gets.
LEMMA CustomerFacts ==
    /\ Ids # {} /\ NoClient \notin Clients
    /\ Absent \notin Customer!Row /\ "clear" \notin Values \cup {Absent}
BY CustomerConstants, NoClientAssumption DEF Customer!ConstantsAssumption, Customer!Row

\* There is no customer yet.
LEMMA CustomerInit == Customer!Init => CustInv
<1> SUFFICES ASSUME Customer!Init PROVE CustInv
  OBVIOUS
<1> USE DEF Customer!Init, Customer!SqlInit
<1>1. CustomersOK
  <2>1. customers = [row |-> [i \in Ids |-> Absent], log |-> [i \in Ids |-> <<>>]]
    OBVIOUS
  <2>2. [i \in Ids |-> Absent] \in [Ids -> Customer!Row \cup {Absent}]
    OBVIOUS
  <2>3. [i \in Ids |-> <<>>] \in [Ids -> Seq(Entry)]
    OBVIOUS
  <2>4. custOp \in [Clients -> Change]
    <3> SUFFICES ASSUME NEW c \in Clients PROVE custOp[c] \in Change
      OBVIOUS
    <3>1. custOp[c] \in [pc: {"idle"}, action: {"created"}, id: {CHOOSE i \in Ids : TRUE},
                         req: {[name |-> Absent, phone |-> Absent]}]
      OBVIOUS
    <3> QED BY <3>1, CustomerFacts DEF Change, Customer!Actions, Customer!Request
  <2> QED BY <2>1, <2>2, <2>3, <2>4 DEF CustomersOK
<1>2. \A c \in Clients : custOp[c].pc = "idle" OBVIOUS
<1>3. ChangeOK BY <1>2 DEF ChangeOK, ClientOK, Creates
<1>4. LogTellsHistory BY DEF LogTellsHistory, Customer!LogTellsHistory
<1> QED BY <1>1, <1>3, <1>4 DEF CustInv

\* A step of c that commits nothing.
LEMMA CustomerLocal ==
    ASSUME CustInv, NEW c \in Clients, NEW o \in Change,
           custOp' = [custOp EXCEPT ![c] = o], customers' = customers,
           custReading' \in [Clients -> {"none", "fresh", "stale"}],
           custWriter' \in Clients \cup {NoClient},
           \A d \in Clients \ {c} :
               custReading'[d] = custReading[d] /\ (custWriter = d => custWriter' = d),
           ClientOK(c)'
    PROVE  CustInv'
<1> USE DEF CustInv
<1>1. CustomersOK' BY DEF CustomersOK
<1>2. LogTellsHistory' BY DEF LogTellsHistory, Customer!LogTellsHistory
<1>3. ASSUME NEW d \in Clients \ {c} PROVE ClientOK(d)'
  <2>1. custOp'[d] = custOp[d] /\ (Fits(d) => Fits(d)') /\ (Creates(d)' <=> Creates(d))
    BY DEF CustomersOK, Fits, Creates
  <2>2. \A e \in Clients \ {c, d} : custOp'[e] = custOp[e] /\ (Creates(e)' <=> Creates(e))
    BY DEF CustomersOK, Creates
  <2>3. Creates(d) /\ Creates(c)' => custOp'[c].id # custOp'[d].id
    BY <2>1 DEF ClientOK
  <2>4. ClientOK(d) BY DEF ChangeOK
  <2> QED BY <2>1, <2>2, <2>3, <2>4 DEF ClientOK
<1>4. ChangeOK' BY <1>3 DEF ChangeOK
<1> QED BY <1>1, <1>2, <1>4

\* A request begins.
LEMMA CustomerBegin ==
    ASSUME CustInv, NEW c \in Clients, NEW i \in Ids,
           \/ \E v \in Values, p \in Values \cup {Absent} : Customer!BeginCreate(c, i, v, p)
           \/ \E r \in Customer!Request : Customer!BeginUpdate(c, i, r)
           \/ \E a \in {"soft_deleted", "restored"} : Customer!BeginSetDeleted(c, i, a)
    PROVE  CustInv'
<1> USE DEF CustInv
<1>0. UNCHANGED <<customers, custWriter, custReading>>
  BY DEF Customer!BeginCreate, Customer!BeginUpdate, Customer!BeginSetDeleted, Customer!Begin,
         Customer!sqlVars
<1> DEFINE Begun(o) ==
        /\ custOp' = [custOp EXCEPT ![c] = o]
        /\ o.id = i
        /\ \/ /\ o.pc = "write" /\ o.action = "created" /\ o.req.name \in Values
              /\ customers.row[i] = Absent
              /\ \A d \in Clients \ {c} : custOp[d].pc = "idle" \/ custOp[d].id # i
           \/ o.pc = "find" /\ o.action = "updated"
           \/ o.pc = "write" /\ o.action \in {"soft_deleted", "restored"}
<1>1. PICK o \in Change : Begun(o)
  <2>1. ASSUME NEW v \in Values, NEW p \in Values \cup {Absent}, Customer!BeginCreate(c, i, v, p)
        PROVE  \E o \in Change : Begun(o)
    <3> DEFINE q == [pc |-> "write", action |-> "created", id |-> i,
                     req |-> [name |-> v, phone |-> p]]
    <3>1. q \in Change BY DEF Change, Customer!Actions, Customer!Request
    <3>2. Begun(q) BY <2>1 DEF Customer!BeginCreate, Customer!Begin
    <3> QED BY <3>1, <3>2
  <2>2. ASSUME NEW r \in Customer!Request, Customer!BeginUpdate(c, i, r) PROVE \E o \in Change : Begun(o)
    <3> DEFINE q == [pc |-> "find", action |-> "updated", id |-> i, req |-> r]
    <3>1. q \in Change BY DEF Change, Customer!Actions
    <3>2. Begun(q) BY <2>2 DEF Customer!BeginUpdate, Customer!Begin
    <3> QED BY <3>1, <3>2
  <2>3. ASSUME NEW a \in {"soft_deleted", "restored"}, Customer!BeginSetDeleted(c, i, a)
        PROVE  \E o \in Change : Begun(o)
    <3> DEFINE q == [pc |-> "write", action |-> a, id |-> i, req |-> Customer!NoFields]
    <3>1. q \in Change
      BY DEF Change, Customer!Actions, Customer!Request, Customer!NoFields
    <3>2. Begun(q) BY <2>3 DEF Customer!BeginSetDeleted, Customer!Begin
    <3> QED BY <3>1, <3>2
  <2> QED BY <2>1, <2>2, <2>3
<1>2. custOp'[c] = o /\ \A d \in Clients \ {c} : custOp'[d] = custOp[d]
  BY <1>1 DEF CustomersOK
<1>3. ClientOK(c)' BY <1>0, <1>1, <1>2 DEF ClientOK, Creates, Fits
<1> QED BY <1>0, <1>1, <1>3, CustomerLocal DEF CustomersOK

\* An update looks whether its customer is there and live.
LEMMA CustomerExists == ASSUME CustInv, NEW c \in Clients, Customer!Exists(c) PROVE CustInv'
<1> USE DEF CustInv
<1> DEFINE live == Customer!IsLive(custOp[c].id)
           o == [custOp[c] EXCEPT !.pc = IF live THEN "write" ELSE "idle"]
<1>1. /\ custOp[c] \in Change /\ custOp[c].pc = "find" /\ custOp[c].action = "updated"
      /\ o \in Change /\ o.action = "updated" /\ o.id = custOp[c].id
      /\ o.pc = IF live THEN "write" ELSE "idle"
  BY DEF Customer!Exists, CustomersOK, Change, ChangeOK, ClientOK
<1>2. custOp' = [custOp EXCEPT ![c] = o]
  BY DEF Customer!Exists, Customer!Goto
<1> HIDE DEF o
<1>3. custOp'[c] = o BY <1>1, <1>2 DEF CustomersOK
<1>4. /\ customers' = customers /\ custWriter' = custWriter
      /\ live => custReading' = [custReading EXCEPT ![c] = "fresh"]
      /\ ~live => custReading' = custReading
  BY DEF Customer!Exists, Customer!TakeSnapshot, Customer!sqlVars
<1>5. live => custReading'[c] = "fresh" BY <1>4 DEF CustomersOK
<1>6. ClientOK(c)'
  BY <1>1, <1>3, <1>4, <1>5 DEF ClientOK, Creates, Fits, Customer!IsLive
<1> QED BY <1>1, <1>2, <1>4, <1>6, CustomerLocal DEF CustomersOK

\* The first write takes the lock where the row fits the action; an update's snapshot
\* is fresh then, so that what it has read is the row.
LEMMA CustomerWrite == ASSUME CustInv, NEW c \in Clients, Customer!Write(c) PROVE CustInv'
<1> USE DEF CustInv
<1> DEFINE fits == Customer!Matches(c)
           o == [custOp[c] EXCEPT !.pc = IF fits THEN "log" ELSE "idle"]
<1>1. /\ custOp[c] \in Change /\ custOp[c].pc = "write"
      /\ o \in Change /\ o.action = custOp[c].action /\ o.id = custOp[c].id
      /\ o.req = custOp[c].req /\ o.pc = IF fits THEN "log" ELSE "idle"
  BY DEF Customer!Write, CustomersOK, Change
<1>2. custOp' = [custOp EXCEPT ![c] = o]
  BY DEF Customer!Write, Customer!Goto
<1>3. /\ customers' = customers /\ custWriter = NoClient
      /\ custWriter' = IF fits THEN c ELSE NoClient
      /\ custReading' = [custReading EXCEPT ![c] = IF fits THEN "fresh" ELSE "none"]
  BY CustomerFacts DEF Customer!Write, Customer!CanWrite, Customer!TakeWriteLock, Customer!Rollback
<1>4. fits => Fits(c)
  <2>1. custOp[c].action \in {"created", "updated", "soft_deleted", "restored"}
    BY <1>1 DEF Change, Customer!Actions
  <2>2. CASE custOp[c].action = "created"
    BY <1>1, <2>2 DEF ChangeOK, ClientOK, Creates
  <2>3. CASE custOp[c].action = "updated"
    <3>1. custReading[c] = "fresh"
      BY <1>1, <2>3 DEF ChangeOK, ClientOK, Customer!Write, Customer!CanWrite, CustomersOK
    <3> QED BY <1>1, <2>3, <3>1 DEF ChangeOK, ClientOK
  <2>4. CASE custOp[c].action = "soft_deleted"
    BY <2>4 DEF Customer!Matches, Customer!IsLive, Fits
  <2>5. CASE custOp[c].action = "restored"
    BY <2>5 DEF Customer!Matches, Fits
  <2> QED BY <2>1, <2>2, <2>3, <2>4, <2>5
<1> HIDE DEF o, fits
<1>5. custOp'[c] = o /\ \A d \in Clients \ {c} : custOp'[d] = custOp[d]
  BY <1>1, <1>2 DEF CustomersOK
<1>6. ClientOK(c)
  BY DEF ChangeOK
<1>7. (Fits(c) => Fits(c)') /\ (Creates(c)' => Creates(c))
      /\ \A d \in Clients \ {c} : Creates(d)' <=> Creates(d)
  BY <1>1, <1>3, <1>5 DEF Fits, Creates
<1>8. ClientOK(c)'
  BY <1>1, <1>3, <1>4, <1>5, <1>6, <1>7 DEF ClientOK
<1> QED BY <1>1, <1>2, <1>3, <1>8, CustomerLocal DEF CustomersOK

\* The transaction is rolled back.
LEMMA CustomerEnds ==
    ASSUME CustInv, NEW c \in Clients, Customer!Busy(c) \/ Customer!Abandon(c)
    PROVE  CustInv'
<1> USE DEF CustInv
<1> DEFINE o == [custOp[c] EXCEPT !.pc = "idle"]
<1>1. custOp[c] \in Change /\ o \in Change /\ o.pc = "idle"
  BY DEF CustomersOK, Change
<1>2. /\ custOp' = [custOp EXCEPT ![c] = o] /\ customers' = customers
      /\ custWriter' = IF custWriter = c THEN NoClient ELSE custWriter
      /\ custReading' = [custReading EXCEPT ![c] = "none"]
  BY DEF Customer!Busy, Customer!Abandon, Customer!Goto, Customer!Rollback
<1> HIDE DEF o
<1>3. custOp'[c].pc = "idle" BY <1>1, <1>2 DEF CustomersOK
<1>4. ClientOK(c)' BY <1>3 DEF ClientOK, Creates
<1> QED BY <1>1, <1>2, <1>4, CustomerLocal DEF CustomersOK

\* The row a change leaves is a row, and follows from the one before.
LEMMA ChangedRow ==
    ASSUME CustInv, NEW c \in Clients, custOp[c].pc = "log"
    PROVE  /\ Customer!Changed(c) \in Customer!Row
           /\ custOp[c].action = "created" => Customer!Changed(c).live
           /\ custOp[c].action # "created" =>
                 Customer!Follows(customers.row[custOp[c].id],
                                  [action |-> custOp[c].action, row |-> Customer!Changed(c)])
<1> USE CustomerFacts DEF CustInv
<1> DEFINE r == customers.row[custOp[c].id]
           q == custOp[c].req
<1>1. custOp[c] \in Change /\ Fits(c) /\ r \in Customer!Row \cup {Absent}
      /\ (custOp[c].action = "created" => q.name \in Values)
  BY DEF CustomersOK, Change, ChangeOK, ClientOK, Creates
<1>2. q.name \in Values \cup {Absent} /\ q.phone \in Values \cup {Absent, "clear"}
  BY <1>1 DEF Change, Customer!Request
<1>3. \A old \in Values : Customer!Field(old, q.name) \in Values
  BY <1>2 DEF Customer!Field
<1>4. \A old \in Values \cup {Absent} : Customer!Field(old, q.phone) \in Values \cup {Absent}
  BY <1>2 DEF Customer!Field
<1>5. CASE custOp[c].action = "created"
  BY <1>1, <1>4, <1>5 DEF Customer!Changed, Customer!Row
<1>6. CASE custOp[c].action = "updated"
  <2>1. r \in Customer!Row /\ r.live BY <1>1, <1>6 DEF Fits
  <2>2. Customer!Changed(c) = [name |-> Customer!Field(r.name, q.name),
                               phone |-> Customer!Field(r.phone, q.phone), live |-> r.live]
    BY <1>6, <2>1 DEF Customer!Changed, Customer!Row
  <2>3. r.name \in Values /\ r.phone \in Values \cup {Absent} BY <2>1 DEF Customer!Row
  <2>4. Customer!Changed(c) \in Customer!Row
    BY <1>3, <1>4, <2>1, <2>2, <2>3 DEF Customer!Row
  <2> QED BY <1>6, <2>1, <2>2, <2>4 DEF Customer!Follows
<1>7. CASE custOp[c].action = "soft_deleted"
  <2>1. r \in Customer!Row /\ r.live BY <1>1, <1>7 DEF Fits
  <2>2. Customer!Changed(c) = [r EXCEPT !.live = FALSE] BY <1>7 DEF Customer!Changed
  <2> QED BY <1>7, <2>1, <2>2 DEF Customer!Follows, Customer!Row
<1>8. CASE custOp[c].action = "restored"
  <2>1. r \in Customer!Row /\ ~r.live BY <1>1, <1>8 DEF Fits
  <2>2. Customer!Changed(c) = [r EXCEPT !.live = TRUE] BY <1>8 DEF Customer!Changed
  <2> QED BY <1>8, <2>1, <2>2 DEF Customer!Follows, Customer!Row
<1> QED BY <1>1, <1>5, <1>6, <1>7, <1>8 DEF Change, Customer!Actions

\* A history and the next entry.
LEMMA Extended ==
    ASSUME NEW s \in Seq(Entry), NEW e \in Entry
    PROVE  /\ Append(s, e) \in Seq(Entry) /\ Append(s, e) # <<>>
           /\ Len(Append(s, e)) = Len(s) + 1
           /\ Append(s, e)[Len(s) + 1] = e
           /\ \A n \in 1 .. Len(s) : Append(s, e)[n] = s[n]
           /\ s = <<>> <=> Len(s) = 0
           /\ Len(s) \in Nat
OBVIOUS

\* The row and its entry are committed together. Nobody else has written since the
\* lock was taken, so the row is still as the action needs it; other snapshots go stale.
LEMMA CustomerCommit ==
    ASSUME CustInv, NEW c \in Clients, Customer!LogAndCommit(c)
    PROVE  CustInv'
<1> USE CustomerFacts DEF CustInv
<1> DEFINE i == custOp[c].id
           row == Customer!Changed(c)
           entry == [action |-> custOp[c].action, row |-> row]
           o == [custOp[c] EXCEPT !.pc = "idle"]
           log == customers.log[i]
<1>1. /\ custOp[c] \in Change /\ custOp[c].pc = "log" /\ i \in Ids
      /\ custOp[c].action \in Customer!Actions
      /\ o \in Change /\ o.pc = "idle" /\ custOp' = [custOp EXCEPT ![c] = o]
      /\ custWriter = c /\ Fits(c) /\ log \in Seq(Entry)
  BY DEF Customer!LogAndCommit, Customer!Goto, CustomersOK, Change, ChangeOK, ClientOK
<1>2. /\ customers' = [row |-> [customers.row EXCEPT ![i] = row],
                       log |-> [customers.log EXCEPT ![i] = Append(log, entry)]]
      /\ custWriter' = NoClient
      /\ custReading' = [d \in Clients |->
             IF d = c THEN "none"
             ELSE IF custReading[d] = "fresh" THEN "stale" ELSE custReading[d]]
  BY DEF Customer!LogAndCommit, Customer!Commit
<1>3. /\ row \in Customer!Row /\ entry \in Entry
      /\ custOp[c].action = "created" => row.live
      /\ custOp[c].action # "created" => Customer!Follows(customers.row[i], entry)
  BY <1>1, ChangedRow DEF Entry
<1>4. /\ entry.action = custOp[c].action /\ entry.row = row
  OBVIOUS
<1>5. i \in Ids /\ Fits(c) /\ log \in Seq(Entry) /\ custOp[c].id = i /\ log = customers.log[i]
  BY <1>1
<1> HIDE DEF row, entry, o, log, i
<1>6. CustomersOK'
  <2>1. customers.row \in [Ids -> Customer!Row \cup {Absent}] /\ customers.log \in [Ids -> Seq(Entry)]
    BY DEF CustomersOK
  <2>2. Append(log, entry) \in Seq(Entry) BY <1>3, <1>5, Extended
  <2>3. customers' \in [row : [Ids -> Customer!Row \cup {Absent}], log : [Ids -> Seq(Entry)]]
    BY <1>2, <1>3, <2>1, <2>2
  <2> QED BY <1>1, <1>2, <2>3 DEF CustomersOK
<1>7. /\ customers'.row[i] = row /\ customers'.log[i] = Append(log, entry)
      /\ \A j \in Ids \ {i} : customers'.row[j] = customers.row[j] /\ customers'.log[j] = customers.log[j]
  BY <1>2, <1>5 DEF CustomersOK
<1>8. LogTellsHistory'
  <2> SUFFICES ASSUME NEW j \in Ids
               PROVE  LET after == customers'.log[j] IN
                      IF after = <<>> THEN customers'.row[j] = Absent
                      ELSE /\ after[Len(after)].row = customers'.row[j]
                           /\ after[1].action = "created" /\ after[1].row.live
                           /\ \A n \in 2 .. Len(after) : Customer!Follows(after[n - 1].row, after[n])
    BY DEF LogTellsHistory, Customer!LogTellsHistory, Customer!Follows
  <2>1. CASE j # i
    BY <1>7, <2>1 DEF LogTellsHistory, Customer!LogTellsHistory
  <2>2. CASE j = i
    <3> DEFINE after == Append(log, entry)
    <3>1. /\ after # <<>> /\ Len(after) = Len(log) + 1 /\ after[Len(log) + 1] = entry
          /\ \A n \in 1 .. Len(log) : after[n] = log[n]
          /\ (log = <<>> <=> Len(log) = 0) /\ Len(log) \in Nat
      BY <1>3, <1>5, Extended
    <3>2. IF log = <<>> THEN customers.row[i] = Absent
          ELSE /\ log[Len(log)].row = customers.row[i]
               /\ log[1].action = "created" /\ log[1].row.live
               /\ \A n \in 2 .. Len(log) : Customer!Follows(log[n - 1].row, log[n])
      BY <1>5 DEF LogTellsHistory, Customer!LogTellsHistory
    <3> HIDE DEF after
    <3>3. after[Len(after)].row = row BY <1>4, <3>1
    <3>4. CASE custOp[c].action = "created"
      <4>1. customers.row[i] = Absent BY <1>5, <3>4 DEF Fits
      <4>2. log = <<>>
        <5> SUFFICES ASSUME log # <<>> PROVE FALSE
          OBVIOUS
        <5>1. log[Len(log)] \in Entry BY <1>5, <3>1
        <5> QED BY <3>2, <4>1, <5>1 DEF Entry
      <4>3. Len(after) = 1 /\ after[1] = entry /\ 2 .. Len(after) = {} BY <3>1, <4>2
      <4>4. after[1].action = "created" /\ after[1].row.live BY <1>3, <1>4, <3>4, <4>3
      <4>5. customers'.log[j] = after BY <1>7, <2>2 DEF after
      <4> QED BY <1>7, <2>2, <3>1, <3>3, <4>3, <4>4, <4>5
    <3>5. CASE custOp[c].action # "created"
      <4>1. customers.row[i] # Absent
        BY <1>1, <1>5, <3>5 DEF Fits, Customer!Actions
      <4>2. log # <<>> /\ Len(log) >= 1 BY <3>1, <3>2, <4>1
      <4>3. ASSUME NEW n \in 2 .. Len(after) PROVE Customer!Follows(after[n - 1].row, after[n])
        <5>1. CASE n = Len(log) + 1
          <6>1. after[n - 1] = log[Len(log)] BY <3>1, <4>2, <5>1
          <6>2. after[n - 1].row = customers.row[i] /\ after[n] = entry
            BY <3>1, <3>2, <4>2, <5>1, <6>1
          <6> QED BY <1>3, <3>5, <6>2
        <5>2. CASE n # Len(log) + 1
          <6>1. n \in 2 .. Len(log) /\ n - 1 \in 1 .. Len(log) /\ n \in 1 .. Len(log)
            BY <3>1, <5>2
          <6>2. after[n] = log[n] /\ after[n - 1] = log[n - 1] BY <3>1, <6>1
          <6> QED BY <3>2, <4>2, <6>1, <6>2
        <5> QED BY <5>1, <5>2
      <4>4. after[1] = log[1] BY <3>1, <4>2
      <4> QED BY <1>7, <2>2, <3>1, <3>2, <3>3, <4>2, <4>3, <4>4 DEF after
    <3> QED BY <3>4, <3>5
  <2> QED BY <2>1, <2>2
<1>9. ChangeOK'
  <2>0. custOp'[c].pc = "idle" /\ \A d \in Clients \ {c} : custOp'[d] = custOp[d]
    BY <1>1 DEF CustomersOK, o
  <2>1. ASSUME NEW d \in Clients \ {c} PROVE ClientOK(d)'
    <3>1. custOp[d] \in Change /\ custOp[d].pc # "log" /\ ClientOK(d)
      BY <1>1 DEF CustomersOK, ChangeOK, ClientOK
    <3>2. custReading'[d] # "fresh" /\ (custReading[d] # "none" => custReading'[d] # "none")
      BY <1>2 DEF CustomersOK
    <3>3. Creates(d) => custOp[d].id # i
      BY <1>1, <1>5, <3>1 DEF ClientOK, ChangeOK, Creates, Fits, Customer!Actions
    <3>4. Creates(d)' => Creates(d) /\ Fits(d)'
      BY <1>7, <2>0, <3>1, <3>3 DEF ClientOK, Creates, Fits, Change
    <3>5. ASSUME Creates(d)', NEW e \in Clients \ {d}, Creates(e)'
          PROVE  custOp'[e].id # custOp'[d].id
      BY <2>0, <3>1, <3>5 DEF ClientOK, Creates
    <3> QED BY <2>0, <3>1, <3>2, <3>4, <3>5 DEF ClientOK
  <2>2. ClientOK(c)' BY <2>0 DEF ClientOK, Creates
  <2> QED BY <2>1, <2>2 DEF ChangeOK
<1> QED BY <1>6, <1>8, <1>9

\* CustInv holds along every behaviour of the customers.
LEMMA CustomerSafety == Customer!Init /\ [][Customer!Next]_Customer!vars => []CustInv
<1>1. CustInv /\ [Customer!Next]_Customer!vars => CustInv'
  <2> SUFFICES ASSUME CustInv, [Customer!Next]_Customer!vars PROVE CustInv'
    OBVIOUS
  <2>1. CASE UNCHANGED Customer!vars
    BY <2>1 DEF Customer!vars, CustInv, CustomersOK, ChangeOK, ClientOK, Fits, Creates,
       LogTellsHistory, Customer!LogTellsHistory
  <2>2. ASSUME NEW c \in Clients, NEW i \in Ids,
               \/ \E v \in Values, p \in Values \cup {Absent} : Customer!BeginCreate(c, i, v, p)
               \/ \E r \in Customer!Request : Customer!BeginUpdate(c, i, r)
               \/ Customer!BeginSetDeleted(c, i, "soft_deleted")
               \/ Customer!BeginSetDeleted(c, i, "restored")
        PROVE  CustInv'
    BY <2>2, CustomerBegin
  <2>3. ASSUME NEW c \in Clients,
               \/ Customer!Exists(c) \/ Customer!Write(c) \/ Customer!LogAndCommit(c)
               \/ Customer!Busy(c) \/ Customer!Abandon(c)
        PROVE  CustInv'
    BY <2>3, CustomerExists, CustomerWrite, CustomerCommit, CustomerEnds
  <2> QED BY <2>1, <2>2, <2>3 DEF Customer!Next
<1> QED BY CustomerInit, <1>1, PTL

\* The customers move by steps of Customers.
LEMMA CustomerStep == [MCNext]_allVars => [Customer!Next]_Customer!vars
<1> SUFFICES ASSUME [MCNext]_allVars PROVE [Customer!Next]_Customer!vars
  OBVIOUS
<1>1. CASE UNCHANGED allVars BY <1>1 DEF allVars
<1>2. CASE part = "customer" /\ CustomerNext BY <1>2 DEF CustomerNext, Customer!Next
<1>3. CASE UNCHANGED <<customers, custWriter, custReading, custOp, commits>>
  BY <1>3 DEF Customer!vars
<1> QED BY <1>1, <1>2, <1>3 DEF MCNext, Only

\* The entries of a customer tell its history from its creation to the row as it
\* stands, whatever requests overlap, fail or are dropped.
THEOREM HistoryTold == MCSpec => []LogTellsHistory
<1>1. MCInit => Customer!Init BY DEF MCInit
<1>2. CustInv => LogTellsHistory BY DEF CustInv
<1> QED BY <1>1, <1>2, CustomerStep, CustomerSafety, PTL DEF MCSpec
=============================================================================
