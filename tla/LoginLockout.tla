---------------------------- MODULE LoginLockout ----------------------------
(***************************************************************************)
(* POST /login against one account: overlapping requests verify the password,  *)
(* read the lockout state, and then either count a failure (one DEFERRED       *)
(* transaction) or clear the counter and open a session.  An administrator may *)
(* unlock the account, and other code writes to the same database.             *)
(***************************************************************************)
EXTENDS SqliteWal, Naturals

CONSTANTS Threshold,    \* LOGIN_LOCKOUT_THRESHOLD
          LockTicks,    \* LOGIN_LOCKOUT_SECS
          MaxNow,       \* bound on the clock
          MaxStreak     \* bound on wrong passwords in a row

ThresholdAssumption == Threshold \in Nat \ {0}
LockTicksAssumption == LockTicks \in Nat \ {0}
BoundsAssumption == MaxNow \in Nat /\ MaxStreak \in Nat

VARIABLES now,     \* wall clock
          req,     \* each login request
          audit,   \* the last activity entry of a failed attempt
          streak   \* history: wrong passwords answered since the counter was cleared

vars == <<db, writer, reading, now, req, audit, streak>>

\* locked_until = 0 stands for NULL.
Row == [failed_login_attempts : Nat, locked_until : Nat]
Steps == {"idle", "check", "record", "update", "commit", "clear", "session"}

\* before: failed_login_attempts as the transaction first read it; row: what its
\* UPDATE made of the row.
Request == [pc : Steps, valid : BOOLEAN, before : Nat, row : Row]

Cleared == [failed_login_attempts |-> 0, locked_until |-> 0]

TypeOK ==
    /\ SqlTypeOK
    /\ db \in Row
    /\ now \in Nat
    /\ req \in [Clients -> Request]
    /\ audit \in {"none", "LoginFailed", "AccountLocked"}
    /\ streak \in Nat

Init ==
    /\ SqlInit
    /\ db = Cleared
    /\ now = 0
    /\ req = [c \in Clients |-> [pc |-> "idle", valid |-> FALSE, before |-> 0, row |-> Cleared]]
    /\ audit = "none"
    /\ streak = 0

\* is_still_locked, and the same test in SQL.
StillLocked(row) == row.locked_until # 0 /\ now < row.locked_until

At(c, pc) == [pc |-> pc, valid |-> req[c].valid, before |-> req[c].before, row |-> req[c].row]
Goto(c, pc) == req' = [req EXCEPT ![c] = At(c, pc)]

-----------------------------------------------------------------------------
\* A request the rate limiter lets through, with a right or a wrong password.
Submit(c, valid) ==
    /\ req[c].pc = "idle"
    /\ streak < MaxStreak
    /\ req' = [req EXCEPT ![c] = [pc |-> "check", valid |-> valid, before |-> 0, row |-> Cleared]]
    /\ UNCHANGED <<sqlVars, now, audit, streak>>

\* find_lockout_state_by_email, after verify_credentials: a locked account is
\* refused whatever the password.
Check(c) ==
    /\ req[c].pc = "check"
    /\ Goto(c, IF StillLocked(db) THEN "idle"
               ELSE IF req[c].valid THEN "clear" ELSE "record")
    /\ UNCHANGED <<sqlVars, now, audit, streak>>

\* record_failed_attempt reads the row first ...
RecordRead(c) ==
    /\ req[c].pc = "record"
    /\ TakeSnapshot(c)
    /\ req' = [req EXCEPT ![c] = [pc |-> "update", valid |-> req[c].valid,
                                  before |-> db.failed_login_attempts, row |-> Cleared]]
    /\ UNCHANGED <<now, audit, streak>>

\* Mutant of Counted: the lock is set one failure early.
CountedEarly(row) ==
    IF StillLocked(row) THEN row
    ELSE [failed_login_attempts |-> row.failed_login_attempts + 1,
          locked_until |-> IF row.failed_login_attempts + 2 >= Threshold
                           THEN now + LockTicks ELSE 0]

\* Mutant of Counted: a failure against a locked account starts the lock anew.
CountedAnew(row) ==
    [failed_login_attempts |-> row.failed_login_attempts + 1,
     locked_until |-> IF row.failed_login_attempts + 1 >= Threshold THEN now + LockTicks ELSE 0]

\* ... and lets one UPDATE count the failure, unless the account is locked.
Counted(row) ==
    IF StillLocked(row) THEN row
    ELSE [failed_login_attempts |-> row.failed_login_attempts + 1,
          locked_until |-> IF row.failed_login_attempts + 1 >= Threshold
                           THEN now + LockTicks ELSE 0]

\* Mutant of RecordUpdate: the transaction does not notice that its snapshot is old.
RecordUpdateStale(c) ==
    /\ req[c].pc = "update"
    /\ writer = NoClient
    /\ writer' = c
    /\ reading' = [reading EXCEPT ![c] = "fresh"]
    /\ req' = [req EXCEPT ![c] = [pc |-> "commit", valid |-> req[c].valid,
                                  before |-> req[c].before, row |-> Counted(db)]]
    /\ UNCHANGED <<db, now, audit, streak>>

RecordUpdate(c) ==
    /\ req[c].pc = "update"
    /\ TakeWriteLock(c)
    /\ req' = [req EXCEPT ![c] = [pc |-> "commit", valid |-> req[c].valid,
                                  before |-> req[c].before, row |-> Counted(db)]]
    /\ UNCHANGED <<now, audit, streak>>

\* Mutant of AuditEntry: without counter_advanced.
AuditEntryEager(r) ==
    IF r.row.failed_login_attempts >= Threshold /\ r.row.locked_until # 0
    THEN "AccountLocked" ELSE "LoginFailed"

\* Mutant of AuditEntry: the entry of a login that succeeded.
AuditEntrySuccess(r) == "LoginSuccess"

AuditEntry(r) ==
    IF /\ r.before # r.row.failed_login_attempts
       /\ r.row.failed_login_attempts >= Threshold
       /\ r.row.locked_until # 0
    THEN "AccountLocked" ELSE "LoginFailed"

\* The activity entry and the commit; the answer is 401, or 423 when locked.
RecordCommit(c) ==
    /\ req[c].pc = "commit"
    /\ Commit(c, req[c].row)
    /\ audit' = AuditEntry(req[c])
    /\ streak' = streak + 1
    /\ Goto(c, "idle")
    /\ UNCHANGED now

\* Another commit came between read and update, or the lock is taken: the failure
\* is answered 401 and not counted.
RecordBusy(c) ==
    /\ req[c].pc = "update"
    /\ IsBusy(c)
    /\ Rollback(c)
    /\ streak' = streak + 1
    /\ Goto(c, "idle")
    /\ UNCHANGED <<now, audit>>

\* One statement on its own, not inside a transaction.
Autocommit(contents) ==
    /\ writer = NoClient
    /\ db' = contents
    /\ reading' = [d \in Clients |-> IF reading[d] = "fresh" THEN "stale" ELSE reading[d]]
    /\ UNCHANGED writer

\* clear_failed_attempts: the row is not read again, so a lock set since Check
\* is cleared too.
ClearFailedAttempts(c) ==
    /\ req[c].pc = "clear"
    /\ Autocommit(Cleared)
    /\ streak' = 0
    /\ Goto(c, "session")
    /\ UNCHANGED <<now, audit>>

IssueSession(c) ==
    /\ req[c].pc = "session"
    /\ Goto(c, "idle")
    /\ UNCHANGED <<sqlVars, now, audit, streak>>

\* A failed query, or a client that hangs up.
Abandon(c) ==
    /\ req[c].pc # "idle"
    /\ Rollback(c)
    /\ Goto(c, "idle")
    /\ UNCHANGED <<now, audit, streak>>

\* unlock_user writes before it reads.
UnlockUser ==
    /\ Autocommit(Cleared)
    /\ streak' = 0
    /\ UNCHANGED <<now, req, audit>>

\* Any other write to the database: nothing here changes, but snapshots go stale.
OtherWrite ==
    /\ Autocommit(db)
    /\ UNCHANGED <<now, req, audit, streak>>

Tick ==
    /\ now < MaxNow
    /\ now' = now + 1
    /\ UNCHANGED <<sqlVars, req, audit, streak>>

-----------------------------------------------------------------------------
Step(c) ==
    \/ Check(c)
    \/ RecordRead(c)
    \/ RecordUpdate(c)
    \/ RecordCommit(c)
    \/ RecordBusy(c)
    \/ ClearFailedAttempts(c)
    \/ IssueSession(c)
    \/ Abandon(c)

Next ==
    \/ \E c \in Clients : Step(c) \/ \E valid \in BOOLEAN : Submit(c, valid)
    \/ UnlockUser
    \/ OtherWrite
    \/ Tick

Spec == Init /\ [][Next]_vars

-----------------------------------------------------------------------------
Locked == StillLocked(db)

\* Nobody is locked out for fewer than Threshold wrong passwords in a row.
LockEarned == Locked => streak >= Threshold

\* Failures that overlap the one that locks the account neither extend the lock nor
\* shorten it.
LockStable == [][Locked => db'.locked_until \in {db.locked_until, 0}]_vars

\* A transaction that counts a failure never overwrites a counter it did not see:
\* a clear or another failure committed meanwhile is not lost.
NoLostCount ==
    [][\A c \in Clients : RecordCommit(c) =>
          db'.failed_login_attempts \in {req[c].before, req[c].before + 1}
          /\ db.failed_login_attempts = req[c].before]_vars

\* The activity log says AccountLocked exactly for the failure that locked the
\* account, however many overlapping failures find it locked.
AuditTruthful ==
    [][\A c \in Clients : RecordCommit(c) =>
          (audit' = "AccountLocked" <=> db'.locked_until # db.locked_until)]_vars

\* Nobody is locked out for fewer than Threshold wrong passwords in a row; no counted
\* failure overwrites a counter it has not seen, the activity log names the one that
\* locked the account, and further ones leave a lock alone.
LockoutExact == []LockEarned /\ NoLostCount /\ AuditTruthful /\ LockStable

\* The counter's documentation: it counts the consecutive failed logins.
EveryFailureCounted == streak >= Threshold => db.failed_login_attempts >= Threshold
=============================================================================
