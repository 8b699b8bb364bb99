------------------------------ MODULE MCAccounts ------------------------------
\* The accounts and customers of the shop, and the requests around them: roles and
\* deletion, logins, recovery codes, rate limits. No two share state, so each
\* behaviour is one of a single component; part says of which.
EXTENDS UserAdmin

CONSTANTS Ids, Values, MaxChanges, Absent

CONSTANTS Logins, Threshold, LockTicks, MaxNow, MaxStreak

CONSTANTS Resets, Regenerations, CodesPerBatch, MaxAttempts, MaxBatch, MaxPasswords

CONSTANTS Calls, Keys, Window, MaxClock

VARIABLES part,
          customers, custWriter, custReading, custOp, commits,
          lockRow, lockWriter, lockReading, time, login, audit, streak,
          codeRow, codeWriter, codeReading, use, answer, spent, passwords,
          mode, clock, step, key, now, attempts, blockers

Customer == INSTANCE Customers WITH
    db <- customers, writer <- custWriter, reading <- custReading, op <- custOp

Lockout == INSTANCE LoginLockout WITH
    Clients <- Logins, db <- lockRow, writer <- lockWriter, reading <- lockReading,
    req <- login, now <- time

Codes == INSTANCE RecoveryCodes WITH
    Clients <- Resets \cup Regenerations, db <- codeRow, writer <- codeWriter,
    reading <- codeReading, req <- use

Limit == INSTANCE RateLimiter

ASSUME ClientConstants == NoClient \notin Logins \cup Resets \cup Regenerations
ASSUME CustomerConstants == Customer!ConstantsAssumption
ASSUME LoginConstants ==
    Lockout!ThresholdAssumption /\ Lockout!LockTicksAssumption /\ Lockout!BoundsAssumption
ASSUME CodeConstants == Codes!Constants
ASSUME LimitConstants == Limit!NumbersAssumption

allVars == <<part, vars, Customer!vars, Lockout!vars, Codes!vars, Limit!vars>>

MCInit ==
    /\ part \in {"user", "customer", "login", "code", "limit"}
    /\ part # "code" =>
          use = [c \in Resets \cup Regenerations |->
                   [pc |-> "begin", code |-> Codes!AnyCode,
                    seen |-> Codes!InitialRow, attempt |-> 0]]
    /\ part # "limit" => mode = "lan" /\ key = [c \in Calls |-> CHOOSE k \in Keys : TRUE]
    /\ Init /\ Customer!Init /\ Lockout!Init /\ Codes!Init /\ Limit!Init

Only(p) ==
    /\ UNCHANGED part
    /\ p # "user" => UNCHANGED vars
    /\ p # "customer" => UNCHANGED <<customers, custWriter, custReading, custOp, commits>>
    /\ p # "login" => UNCHANGED <<lockRow, lockWriter, lockReading, time, login, audit, streak>>
    /\ p # "code" => UNCHANGED <<codeRow, codeWriter, codeReading, use, answer, spent, passwords>>
    /\ p # "limit" => UNCHANGED <<mode, clock, step, key, now, attempts, blockers>>

UserNext ==
    \E c \in Clients :
        \/ \E caller, u \in Users, to \in Status \ {"absent"} :
              Start(c, caller, u, to)
        \/ \E u \in Users, role \in Roles : CreateUser(c, u, role)
        \/ ServiceFind(c)
        \/ ServiceCount(c)
        \/ RepoGuard(c)
        \/ RepoWrite(c)
        \/ RepoCommit(c)
        \/ RepoBusy(c)
        \/ Abandon(c)

CustomerNext ==
    \E c \in Clients :
        \/ \E i \in Ids :
              \/ \E v \in Values, p \in Values \cup {Absent} :
                    Customer!BeginCreate(c, i, v, p)
              \/ \E req \in Customer!Request :
                    Customer!BeginUpdate(c, i, req)
              \/ \E to \in {"soft_deleted", "restored"} :
                    Customer!BeginSetDeleted(c, i, to)
        \/ Customer!Exists(c)
        \/ Customer!Write(c)
        \/ Customer!LogAndCommit(c)
        \/ Customer!Busy(c)
        \/ Customer!Abandon(c)

LoginNext ==
    \/ \E c \in Logins :
          \/ \E valid \in BOOLEAN : Lockout!Submit(c, valid)
          \/ Lockout!Check(c)
          \/ Lockout!RecordRead(c)
          \/ Lockout!RecordUpdate(c)
          \/ Lockout!RecordCommit(c)
          \/ Lockout!RecordBusy(c)
          \/ Lockout!ClearFailedAttempts(c)
          \/ Lockout!IssueSession(c)
          \/ Lockout!Abandon(c)
    \/ Lockout!UnlockUser
    \/ Lockout!OtherWrite
    \/ Lockout!Tick

CodeNext ==
    \/ \E r \in Resets :
          \/ Codes!ResetRead(r)
          \/ Codes!ResetMatch(r)
          \/ Codes!ResetUpdate(r)
          \/ Codes!ResetCommit(r)
          \/ Codes!ResetBusy(r)
    \/ \E g \in Regenerations :
          \/ Codes!RegenVerify(g)
          \/ Codes!RegenUpdate(g)
          \/ Codes!RegenCommit(g)
    \/ \E c \in Resets \cup Regenerations :
          \/ Codes!Fail(c)
          \/ Codes!HangUp(c)
    \/ Codes!ChangePassword

LimitNext ==
    \/ Limit!Tick
    \/ \E c \in Calls :
          \/ Limit!PassThrough(c)
          \/ Limit!RejectUnkeyed(c)
          \/ Limit!ReadClock(c)
          \/ Limit!Check(c)

MCNext ==
    \/ part = "user" /\ UserNext /\ Only("user")
    \/ part = "customer" /\ CustomerNext /\ Only("customer")
    \/ part = "login" /\ LoginNext /\ Only("login")
    \/ part = "code" /\ CodeNext /\ Only("code")
    \/ part = "limit" /\ LimitNext /\ Only("limit")

MCSpec == MCInit /\ [][MCNext]_allVars

-----------------------------------------------------------------------------
\* The guard of a transaction suffices: its decision still holds when the row is
\* written, and the triggers never have to stop it.
GuardHolds == GuardSuffices /\ DecisionStillGood

\* A customer's activity entries tell its whole history, and nothing else.
LogTellsHistory == Customer!LogTellsHistory

\* Nobody is locked out for fewer than Threshold wrong passwords in a row; no counted
\* failure overwrites a counter it has not seen, the activity log names the one that
\* locked the account, and further ones leave a lock alone.
LockoutExact == Lockout!LockoutExact

\* At no moment are more than MaxAttempts admitted calls of a key in its window, and
\* a call is refused for no less.
WindowRespected == Limit!WindowRespected /\ Limit!RefusalEarned

\* A recovery code changes the password at most once, used codes and those of a
\* replaced batch stay dead; what a reset is told is what happened to the code and the
\* password, and it overwrites no password it has not seen.
CodesSpentOnce == Codes!CodesSpentOnce

\* Each step of a reset or a regeneration opens or refills the box of codes, ends a
\* request, or changes nothing in it.
OpensOnce == Codes!OpensOnce
=============================================================================
