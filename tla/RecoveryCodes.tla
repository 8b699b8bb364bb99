--------------------------- MODULE RecoveryCodes ---------------------------
(***************************************************************************)
(* One account's recovery codes: verify_and_use_recovery_code (three attempts *)
(* at a transaction that reads the codes, hashes for long, then updates only   *)
(* where recovery_code_hash still equals what it read) against                 *)
(* regenerate_recovery_codes (a password check, ten slow hashes, then one       *)
(* unconditional update) and changes of the password elsewhere.                *)
(***************************************************************************)
EXTENDS SqliteWal, Naturals, FiniteSets, TLAPS

CONSTANTS Resets,        \* uses of a recovery code
          Regenerations, \* requests for new codes
          CodesPerBatch, \* codes in a batch
          MaxAttempts,   \* attempts at a busy database
          MaxBatch,      \* bound on regenerations
          MaxPasswords   \* bound on passwords set elsewhere

ClientsAssumption == Clients = Resets \cup Regenerations
DisjointAssumption == Resets \cap Regenerations = {}
NumbersAssumption ==
    {CodesPerBatch, MaxAttempts, MaxBatch, MaxPasswords} \subseteq Nat \ {0}

VARIABLES req,    \* each request
          answer, \* what each request was told; "lost" when its client hung up
          spent,  \* history: the codes that changed the password, by request
          passwords \* history: how many passwords were set elsewhere

vars == <<db, writer, reading, req, answer, spent, passwords>>

\* A code is its batch and its place in the batch. A password is named after the
\* reset that set it, or numbered.
Code == [batch : 1..MaxBatch, place : 1..CodesPerBatch]
Password == Resets \cup (0..MaxPasswords)

\* recovery_code_hash holds the batch and the places marked used; the row also
\* holds the password.
RecoveryCodeHash == [batch : 1..MaxBatch, used : SUBSET (1..CodesPerBatch)]
Row == [hash : RecoveryCodeHash, password : Password]

Steps == {"begin", "hash", "update", "commit", "generate", "replace", "done"}

\* code: the code of a reset; seen: the row as the request read it.
Request == [pc : Steps, code : Code, seen : Row, attempt : 0..(MaxAttempts - 1)]

InitialRow == [hash |-> [batch |-> 1, used |-> {}], password |-> 0]

TypeOK ==
    /\ SqlTypeOK
    /\ db \in Row
    /\ req \in [Clients -> Request]
    /\ answer \in [Clients -> {"none", "ok", "rejected", "error", "lost"}]
    /\ spent \in [Resets -> Code \cup {NoClient}]
    /\ passwords \in 0..MaxPasswords

AnyCode == [batch |-> 1, place |-> 1]

\* Every reset was given some code, guessed or issued, now or later.
Init ==
    /\ SqlInit
    /\ db = InitialRow
    /\ req \in [Clients -> {[pc |-> "begin", code |-> k, seen |-> InitialRow, attempt |-> 0] :
                               k \in Code}]
    /\ \A g \in Regenerations : req[g].code = AnyCode
    /\ answer = [c \in Clients |-> "none"]
    /\ spent = [r \in Resets |-> NoClient]
    /\ passwords = 0

Moved(c, pc, seen, attempt) ==
    req' = [req EXCEPT ![c] = [pc |-> pc, code |-> req[c].code, seen |-> seen, attempt |-> attempt]]
Goto(c, pc) == Moved(c, pc, req[c].seen, req[c].attempt)

Finish(c, told) ==
    /\ Goto(c, "done")
    /\ answer' = [answer EXCEPT ![c] = told]

\* An unused code of the batch in the row matches.
Matches(code, hash) == code.batch = hash.batch /\ code.place \notin hash.used

-----------------------------------------------------------------------------
\* The transaction's snapshot; the codes are then compared one slow hash at a time.
ResetRead(r) ==
    /\ req[r].pc = "begin"
    /\ TakeSnapshot(r)
    /\ Moved(r, "hash", db, req[r].attempt)
    /\ UNCHANGED <<answer, spent, passwords>>

ResetMatch(r) ==
    /\ req[r].pc = "hash"
    /\ IF Matches(req[r].code, req[r].seen.hash)
       THEN Goto(r, "update") /\ UNCHANGED <<sqlVars, answer>>
       ELSE Rollback(r) /\ Finish(r, "rejected")
    /\ UNCHANGED <<spent, passwords>>

\* Mutant of ResetUpdate: written outside the transaction that read the codes, and
\* without the filter on recovery_code_hash.
ResetUpdateBlind(r) ==
    /\ req[r].pc = "update"
    /\ writer = NoClient
    /\ writer' = r
    /\ reading' = [reading EXCEPT ![r] = "fresh"]
    /\ Goto(r, "commit")
    /\ UNCHANGED <<db, answer, spent, passwords>>

\* The optimistic update; it takes the write lock, so its snapshot is current.
ResetUpdate(r) ==
    /\ req[r].pc = "update"
    /\ CanWrite(r)
    /\ IF db.hash = req[r].seen.hash
       THEN TakeWriteLock(r) /\ Goto(r, "commit") /\ UNCHANGED answer
       ELSE Rollback(r) /\ Finish(r, "rejected")
    /\ UNCHANGED <<spent, passwords>>

\* The row the update writes: the matched code marked used, the new password.
UsedUp(r) ==
    [hash |-> [batch |-> req[r].seen.hash.batch,
               used  |-> req[r].seen.hash.used \cup {req[r].code.place}],
     password |-> r]

ResetCommit(r) ==
    /\ req[r].pc = "commit"
    /\ r \in Resets
    /\ Commit(r, UsedUp(r))
    /\ Finish(r, "ok")
    /\ spent' = [spent EXCEPT ![r] = req[r].code]
    /\ UNCHANGED passwords

\* Mutant of ResetBusy: the retry goes on with what the first attempt read.
ResetBusyResume(r) ==
    /\ req[r].pc = "update"
    /\ IsBusy(r)
    /\ writer' = writer
    /\ reading' = [reading EXCEPT ![r] = "fresh"]
    /\ Goto(r, "update")
    /\ UNCHANGED <<db, answer, spent, passwords>>

\* Mutant of ResetBusy: the attempts are not counted.
ResetBusyUnlimited(r) ==
    /\ req[r].pc = "update"
    /\ IsBusy(r)
    /\ Rollback(r)
    /\ Moved(r, "begin", req[r].seen, req[r].attempt + 1)
    /\ UNCHANGED <<answer, spent, passwords>>

\* Mutant of ResetBusy: running out of attempts falls through to Ok.
ResetBusyOk(r) ==
    /\ req[r].pc = "update"
    /\ IsBusy(r)
    /\ Rollback(r)
    /\ Finish(r, "ok")
    /\ UNCHANGED <<spent, passwords>>

\* SQLITE_BUSY: roll back, and begin again unless this was the last attempt.
ResetBusy(r) ==
    /\ req[r].pc = "update"
    /\ IsBusy(r)
    /\ Rollback(r)
    /\ IF req[r].attempt < MaxAttempts - 1
       THEN Moved(r, "begin", req[r].seen, req[r].attempt + 1) /\ UNCHANGED answer
       ELSE Finish(r, "error")
    /\ UNCHANGED <<spent, passwords>>

\* Regeneration checks the current password ...
RegenVerify(g) ==
    /\ req[g].pc = "begin"
    /\ Moved(g, "generate", db, 0)
    /\ UNCHANGED <<sqlVars, answer, spent, passwords>>

\* ... hashes ten new codes, and only then opens its transaction.
RegenUpdate(g) ==
    /\ req[g].pc = "generate"
    /\ db.hash.batch < MaxBatch
    /\ TakeWriteLock(g)
    /\ Goto(g, "replace")
    /\ UNCHANGED <<answer, spent, passwords>>

NewBatch == [hash |-> [batch |-> db.hash.batch + 1, used |-> {}], password |-> db.password]

RegenCommit(g) ==
    /\ req[g].pc = "replace"
    /\ Commit(g, NewBatch)
    /\ Finish(g, "ok")
    /\ UNCHANGED <<spent, passwords>>

\* A query fails.
Fail(c) ==
    /\ req[c].pc \notin {"begin", "done"}
    /\ Rollback(c)
    /\ Finish(c, "error")
    /\ UNCHANGED <<spent, passwords>>

\* The client hangs up; a commit it was waiting for may still go through.
HangUp(c) ==
    /\ req[c].pc \notin {"begin", "done"}
    /\ Finish(c, "lost")
    /\ \/ Rollback(c) /\ UNCHANGED spent
       \/ /\ req[c].pc = "commit"
          /\ Commit(c, UsedUp(c))
          /\ spent' = [spent EXCEPT ![c] = req[c].code]
       \/ /\ req[c].pc = "replace"
          /\ Commit(c, NewBatch)
          /\ UNCHANGED spent
    /\ UNCHANGED passwords

\* update_password by the PIN flow or the command line.
ChangePassword ==
    /\ passwords < MaxPasswords
    /\ writer = NoClient
    /\ passwords' = passwords + 1
    /\ db' = [hash |-> db.hash, password |-> passwords']
    /\ reading' = [d \in Clients |-> IF reading[d] = "fresh" THEN "stale" ELSE reading[d]]
    /\ UNCHANGED <<writer, req, answer, spent>>

-----------------------------------------------------------------------------
ResetStep(r) ==
    \/ ResetRead(r)
    \/ ResetMatch(r)
    \/ ResetUpdate(r)
    \/ ResetCommit(r)
    \/ ResetBusy(r)
    \/ Fail(r)
    \/ HangUp(r)

RegenStep(g) ==
    \/ RegenVerify(g)
    \/ RegenUpdate(g)
    \/ RegenCommit(g)
    \/ Fail(g)
    \/ HangUp(g)

Next ==
    \/ \E r \in Resets : ResetStep(r)
    \/ \E g \in Regenerations : RegenStep(g)
    \/ ChangePassword

Spec == Init /\ [][Next]_vars

-----------------------------------------------------------------------------
\* A recovery code changes the password at most once, however many requests bring
\* it, retry it, or race a regeneration.
CodeSingleUse == \A q, r \in Resets : spent[q] # NoClient /\ spent[q] = spent[r] => q = r

\* A code of an earlier batch never works after the batch was replaced, and a used
\* code of the current batch is never unmarked.
OldCodesDead ==
    [][/\ db'.hash.batch >= db.hash.batch
       /\ db'.hash.batch = db.hash.batch => db.hash.used \subseteq db'.hash.used
       /\ \A r \in Resets : spent'[r] # spent[r] => Matches(spent'[r], db.hash)]_vars

\* The answer is the truth: after ok the code is spent and the password set, after
\* any other answer neither, also when the busy database was given up on.
AnswerTruthful ==
    \A r \in Resets :
        /\ answer[r] = "ok" => spent[r] = req[r].code
        /\ answer[r] \in {"rejected", "error"} => spent[r] = NoClient

\* A password set by a reset that used a current code never overwrites one it has
\* not seen.
NoLostPassword ==
    [][\A r \in Resets : spent'[r] # spent[r] => db = req[r].seen]_vars

\* A recovery code changes the password at most once, used codes and those of a
\* replaced batch stay dead; what a reset is told is what happened to the code and the
\* password, and it overwrites no password it has not seen.
CodesSpentOnce ==
    [](CodeSingleUse /\ AnswerTruthful) /\ OldCodesDead /\ NoLostPassword

\* What the codes promise, seen from outside and without transactions, slow hashes and
\* attempts: a box of codes, of which some work and some did and never will again.
Good(hash) == {k \in Code : Matches(k, hash)}
Marked(hash) ==
    {k \in Code : k.batch < hash.batch \/ (k.batch = hash.batch /\ k.place \in hash.used)}

\* The password each reset has looked at, and what it was told.
BoxSeen == [r \in Resets |-> req[r].seen.password]
BoxTold == [r \in Resets |-> answer[r]]

boxVars == <<Good(db.hash), Marked(db.hash), spent, db.password, BoxSeen, BoxTold>>

BoxInit ==
    /\ Good(db.hash) \subseteq Code
    /\ Marked(db.hash) = {}
    /\ spent = [r \in Resets |-> NoClient]
    /\ db.password \in 0..MaxPasswords
    /\ BoxSeen = [r \in Resets |-> db.password]
    /\ BoxTold = [r \in Resets |-> "none"]

BoxLook(r) ==
    /\ BoxTold[r] = "none"
    /\ BoxSeen' = [BoxSeen EXCEPT ![r] = db.password]
    /\ UNCHANGED <<Good(db.hash), Marked(db.hash), spent, db.password, BoxTold>>

\* Opening takes the code out and sets the password, over the one looked at only.
BoxOpen(r, k) ==
    /\ BoxTold[r] = "none"
    /\ k \in Good(db.hash)
    /\ BoxSeen[r] = db.password
    /\ Good(db'.hash) = Good(db.hash) \ {k}
    /\ Marked(db'.hash) = Marked(db.hash) \cup {k}
    /\ spent' = [spent EXCEPT ![r] = k]
    /\ db'.password = r
    /\ \E t \in {"ok", "lost"} : BoxTold' = [BoxTold EXCEPT ![r] = t]
    /\ UNCHANGED BoxSeen

BoxGiveUp(r) ==
    /\ BoxTold[r] = "none"
    /\ \E t \in {"rejected", "error", "lost"} : BoxTold' = [BoxTold EXCEPT ![r] = t]
    /\ UNCHANGED <<Good(db.hash), Marked(db.hash), spent, db.password, BoxSeen>>

BoxRefill ==
    /\ Good(db'.hash) \subseteq Code \ (Good(db.hash) \cup Marked(db.hash))
    /\ Marked(db'.hash) = Marked(db.hash) \cup Good(db.hash)
    /\ UNCHANGED <<spent, db.password, BoxSeen, BoxTold>>

BoxSetElsewhere ==
    /\ db'.password \in 0..MaxPasswords
    /\ UNCHANGED <<Good(db.hash), Marked(db.hash), spent, BoxSeen, BoxTold>>

BoxNext ==
    \/ \E r \in Resets :
        \/ BoxLook(r)
        \/ \E k \in Code : BoxOpen(r, k)
        \/ BoxGiveUp(r)
    \/ BoxRefill
    \/ BoxSetElsewhere

\* The refinement: every step of a reset or a regeneration looks into, opens or refills
\* the box, ends a request, or changes nothing in it.
OpensOnce == BoxInit /\ [][BoxNext]_boxVars

------------------------------------------------------------------------------
(* A recovery code changes the password at most once, and what a reset is told  *)
(* is true, for any number of requests, codes, batches and attempts.            *)

\* What a request may rely on at each of its steps: as long as its snapshot is
\* fresh, or it holds the write lock, the row is the one it has read.
ResetOK(r) ==
    /\ req[r].pc \in {"begin", "hash", "update", "commit", "done"}
    /\ req[r].pc \in {"begin", "done"} => reading[r] = "none" /\ writer # r
    /\ req[r].pc \in {"hash", "update"} =>
          reading[r] # "none" /\ writer # r /\ (reading[r] = "fresh" => db = req[r].seen)
    /\ req[r].pc = "commit" => writer = r /\ db = req[r].seen
    /\ req[r].pc \in {"update", "commit"} => Matches(req[r].code, req[r].seen.hash)
    /\ req[r].pc # "done" => answer[r] = "none" /\ spent[r] = NoClient

RegenOK(g) ==
    /\ req[g].pc \in {"begin", "generate", "replace", "done"}
    /\ req[g].pc # "replace" => writer # g
    /\ req[g].pc \in {"begin", "generate"} => reading[g] = "none"
    /\ req[g].pc = "replace" => writer = g /\ db.hash.batch < MaxBatch

\* A spent code is marked used, or of a batch that was replaced.
SpentDead ==
    \A r \in Resets : spent[r] # NoClient =>
        /\ spent[r] \in Code
        /\ spent[r].batch <= db.hash.batch
        /\ spent[r].batch = db.hash.batch => spent[r].place \in db.hash.used

IInv ==
    /\ TypeOK
    /\ \A r \in Resets : ResetOK(r)
    /\ \A g \in Regenerations : RegenOK(g)
    /\ SpentDead
    /\ CodeSingleUse
    /\ AnswerTruthful

Constants == ClientsAssumption /\ DisjointAssumption /\ NumbersAssumption

\* What the assumptions on the constants give.
LEMMA Bounds ==
    ASSUME Constants
    PROVE  /\ Clients = Resets \cup Regenerations /\ Resets \cap Regenerations = {}
           /\ MaxBatch \in Nat /\ CodesPerBatch \in Nat /\ MaxAttempts \in Nat
           /\ MaxPasswords \in Nat
           /\ MaxBatch > 0 /\ CodesPerBatch > 0 /\ MaxAttempts > 0
           /\ NoClient \notin Clients
BY NoClientAssumption DEF Constants, ClientsAssumption, DisjointAssumption, NumbersAssumption

\* Nothing is in flight and the first batch is unused.
LEMMA InitInv == ASSUME Constants, Init PROVE IInv
<1> USE Bounds
<1>1. InitialRow \in Row BY DEF InitialRow, Row, RecoveryCodeHash, Password
<1>2. \A c \in Clients :
         /\ req[c].pc = "begin" /\ req[c].code \in Code /\ req[c].seen = InitialRow
         /\ req[c].attempt = 0 /\ req[c] \in Request
  <2> TAKE c \in Clients
  <2>1. PICK k \in Code :
           req[c] = [pc |-> "begin", code |-> k, seen |-> InitialRow, attempt |-> 0]
    BY DEF Init
  <2>2. 0 \in 0..(MaxAttempts - 1) OBVIOUS
  <2> QED BY <1>1, <2>1, <2>2 DEF Request, Steps
<1>3. TypeOK
  BY <1>1, <1>2 DEF Init, SqlInit, TypeOK, SqlTypeOK
<1>4. \A r \in Resets : ResetOK(r)
  BY <1>2 DEF Init, SqlInit, ResetOK
<1>5. \A g \in Regenerations : RegenOK(g)
  BY <1>2 DEF Init, SqlInit, RegenOK
<1>6. SpentDead /\ CodeSingleUse /\ AnswerTruthful
  BY DEF Init, SpentDead, CodeSingleUse, AnswerTruthful
<1> QED BY <1>3, <1>4, <1>5, <1>6 DEF IInv

\* What a step of c leaves alone keeps its part of the invariant.
LEMMA OthersKeep ==
    ASSUME Constants, IInv, NEW c \in Clients, NEW q,
           req' = [req EXCEPT ![c] = q],
           \A d \in Clients \ {c} :
              /\ reading'[d] = reading[d] /\ (writer' = d <=> writer = d)
              /\ answer'[d] = answer[d],
           \A r \in Resets \ {c} : spent'[r] = spent[r],
           db' = db
    PROVE  /\ \A r \in Resets \ {c} : ResetOK(r)'
           /\ \A g \in Regenerations \ {c} : RegenOK(g)'
<1>1. \A d \in Clients \ {c} : req'[d] = req[d] BY DEF IInv, TypeOK
<1> QED BY <1>1, Bounds DEF IInv, ResetOK, RegenOK

\* A step of c that writes neither the row nor the history.
LEMMA QuietStep ==
    ASSUME Constants, IInv, NEW c \in Clients, NEW q \in Request,
           NEW a \in {"none", "ok", "rejected", "error", "lost"},
           req' = [req EXCEPT ![c] = q], q.code = req[c].code,
           answer' = [answer EXCEPT ![c] = a],
           UNCHANGED <<db, spent, passwords>>,
           SqlTypeOK',
           \A d \in Clients \ {c} : reading'[d] = reading[d] /\ (writer' = d <=> writer = d),
           c \in Resets => /\ ResetOK(c)'
                           /\ a = "ok" => spent[c] = req[c].code
                           /\ a \in {"rejected", "error"} => spent[c] = NoClient,
           c \in Regenerations => RegenOK(c)'
    PROVE  IInv'
<1>1. TypeOK' BY DEF IInv, TypeOK
<1>2. /\ \A r \in Resets \ {c} : ResetOK(r)'
      /\ \A g \in Regenerations \ {c} : RegenOK(g)'
  <2>1. \A d \in Clients \ {c} : answer'[d] = answer[d] BY DEF IInv, TypeOK
  <2> QED BY <2>1, OthersKeep
<1>3. SpentDead' /\ CodeSingleUse' BY DEF IInv, SpentDead, CodeSingleUse
<1>4. AnswerTruthful'
  <2>1. \A r \in Resets \ {c} : req'[r] = req[r] /\ answer'[r] = answer[r]
    BY Bounds DEF IInv, TypeOK
  <2>2. req'[c] = q /\ answer'[c] = a BY DEF IInv, TypeOK
  <2> QED BY <2>1, <2>2 DEF IInv, AnswerTruthful
<1> QED BY <1>1, <1>2, <1>3, <1>4 DEF IInv

\* The row after a commit, and what the others find then.
LEMMA CommitOthers ==
    ASSUME Constants, IInv, NEW c \in Clients, NEW q, NEW row, Commit(c, row),
           req' = [req EXCEPT ![c] = q],
           \A d \in Clients \ {c} : answer'[d] = answer[d],
           \A r \in Resets \ {c} : spent'[r] = spent[r]
    PROVE  /\ \A r \in Resets \ {c} : ResetOK(r)'
           /\ \A g \in Regenerations \ {c} : RegenOK(g)'
           /\ SqlTypeOK' /\ db' = row /\ writer' = NoClient /\ reading'[c] = "none"
<1>1. \A d \in Clients \ {c} :
         /\ req'[d] = req[d] /\ writer # d /\ writer' # d /\ reading'[d] # "fresh"
         /\ reading[d] = "none" <=> reading'[d] = "none"
  BY Bounds DEF IInv, TypeOK, SqlTypeOK, Commit
<1>2. \A r \in Resets \ {c} : ResetOK(r)' BY <1>1, Bounds DEF IInv, ResetOK
<1>3. \A g \in Regenerations \ {c} : RegenOK(g)' BY <1>1, Bounds DEF IInv, RegenOK
<1>4. SqlTypeOK' /\ db' = row /\ writer' = NoClient /\ reading'[c] = "none"
  BY Bounds DEF IInv, TypeOK, SqlTypeOK, Commit
<1> QED BY <1>2, <1>3, <1>4

\* A reset commits: its code was good until now and is dead from here on.
LEMMA SpendStep ==
    ASSUME Constants, IInv, NEW c \in Resets, NEW told \in {"ok", "lost"},
           req[c].pc = "commit", Commit(c, UsedUp(c)), Finish(c, told),
           spent' = [spent EXCEPT ![c] = req[c].code], UNCHANGED passwords
    PROVE  IInv' /\ Matches(req[c].code, db.hash) /\ db = req[c].seen
<1> USE Bounds
<1> DEFINE k == req[c].code
           q == [pc |-> "done", code |-> k, seen |-> req[c].seen, attempt |-> req[c].attempt]
<1>1. /\ req[c] \in Request /\ k \in Code /\ db \in Row /\ q \in Request
      /\ req' = [req EXCEPT ![c] = q] /\ req'[c] = q
      /\ answer' = [answer EXCEPT ![c] = told] /\ answer'[c] = told
      /\ spent'[c] = k
  BY DEF IInv, TypeOK, Request, Steps, Finish, Goto, Moved
<1>2. writer = c /\ db = req[c].seen /\ Matches(k, db.hash)
  BY DEF IInv, ResetOK
<1>3. /\ db'.hash.batch = db.hash.batch /\ db'.hash.used = db.hash.used \cup {k.place}
      /\ db' \in Row
  BY <1>1, <1>2 DEF Commit, UsedUp, Row, RecoveryCodeHash, Password, Code
<1>4. /\ \A d \in Clients \ {c} : answer'[d] = answer[d] /\ req'[d] = req[d]
      /\ \A r \in Resets \ {c} : spent'[r] = spent[r]
  BY <1>1 DEF IInv, TypeOK
<1>5. /\ \A r \in Resets \ {c} : ResetOK(r)'
      /\ \A g \in Regenerations : RegenOK(g)'
      /\ SqlTypeOK' /\ writer' = NoClient /\ reading'[c] = "none"
  BY <1>1, <1>4, CommitOthers
<1>6. TypeOK' BY <1>1, <1>3, <1>5 DEF IInv, TypeOK
<1>7. ResetOK(c)' BY <1>1, <1>5 DEF ResetOK
<1>8. SpentDead'
  <2>1. ASSUME NEW r \in Resets \ {c}, spent'[r] # NoClient
        PROVE  /\ spent'[r] \in Code /\ spent'[r].batch <= db'.hash.batch
               /\ spent'[r].batch = db'.hash.batch => spent'[r].place \in db'.hash.used
    BY <2>1, <1>3, <1>4 DEF IInv, SpentDead
  <2>2. k.batch = db.hash.batch /\ k.batch \in Nat
    BY <1>1, <1>2 DEF Matches, Code
  <2> QED BY <1>1, <1>3, <2>1, <2>2 DEF SpentDead
<1>9. CodeSingleUse'
  <2>1. ASSUME NEW r \in Resets \ {c}, spent[r] # NoClient PROVE spent[r] # k
    BY <2>1, <1>2 DEF IInv, SpentDead, Matches
  <2> QED BY <1>1, <1>4, <2>1 DEF IInv, CodeSingleUse
<1>10. AnswerTruthful' BY <1>1, <1>4 DEF IInv, AnswerTruthful
<1> QED BY <1>2, <1>5, <1>6, <1>7, <1>8, <1>9, <1>10 DEF IInv

\* A regeneration commits: every code of the batch before is dead.
LEMMA ReplaceStep ==
    ASSUME Constants, IInv, NEW c \in Regenerations, NEW told \in {"ok", "lost"},
           req[c].pc = "replace", Commit(c, NewBatch), Finish(c, told),
           UNCHANGED <<spent, passwords>>
    PROVE  IInv' /\ db'.hash.batch = db.hash.batch + 1 /\ db.hash.batch \in Nat
<1> USE Bounds
<1> DEFINE q == [pc |-> "done", code |-> req[c].code, seen |-> req[c].seen,
                 attempt |-> req[c].attempt]
<1>1. /\ req[c] \in Request /\ db \in Row /\ q \in Request
      /\ req' = [req EXCEPT ![c] = q] /\ req'[c] = q
      /\ answer' = [answer EXCEPT ![c] = told] /\ answer'[c] = told
  BY DEF IInv, TypeOK, Request, Steps, Finish, Goto, Moved
<1>2. writer = c /\ db.hash.batch < MaxBatch BY DEF IInv, RegenOK
<1>3. /\ db'.hash.batch = db.hash.batch + 1 /\ db'.hash.used = {} /\ db' \in Row
      /\ db.hash.batch \in Nat
  BY <1>1, <1>2 DEF Commit, NewBatch, Row, RecoveryCodeHash
<1>4. \A d \in Clients \ {c} : answer'[d] = answer[d] /\ req'[d] = req[d]
  BY <1>1 DEF IInv, TypeOK
<1>5. /\ \A r \in Resets : ResetOK(r)'
      /\ \A g \in Regenerations \ {c} : RegenOK(g)'
      /\ SqlTypeOK' /\ writer' = NoClient /\ reading'[c] = "none"
  BY <1>1, <1>4, CommitOthers
<1>6. TypeOK' BY <1>1, <1>3, <1>5 DEF IInv, TypeOK
<1>7. RegenOK(c)' BY <1>1, <1>5 DEF RegenOK
<1>8. SpentDead'
  <2>1. ASSUME NEW r \in Resets, spent[r] # NoClient
        PROVE  spent[r] \in Code /\ spent[r].batch < db'.hash.batch
    BY <2>1, <1>3 DEF IInv, SpentDead, Code
  <2>2. ASSUME NEW r \in Resets, spent[r] # NoClient
        PROVE  spent[r].batch <= db'.hash.batch /\ spent[r].batch # db'.hash.batch
    BY <2>1, <2>2, <1>3 DEF Code
  <2> QED BY <2>1, <2>2 DEF SpentDead
<1>9. CodeSingleUse' /\ AnswerTruthful'
  BY <1>4 DEF IInv, CodeSingleUse, AnswerTruthful
<1> QED BY <1>3, <1>5, <1>6, <1>7, <1>8, <1>9 DEF IInv

\* A transaction that ends without a commit.
LEMMA EndStep ==
    ASSUME Constants, IInv, NEW c \in Clients, NEW told \in {"rejected", "error", "lost"},
           req[c].pc # "done", c \in Regenerations => req[c].pc # "begin",
           Rollback(c), Finish(c, told), UNCHANGED <<spent, passwords>>
    PROVE  IInv'
<1> USE Bounds
<1> DEFINE q == [pc |-> "done", code |-> req[c].code, seen |-> req[c].seen,
                 attempt |-> req[c].attempt]
<1>1. /\ q \in Request /\ q.code = req[c].code
      /\ req' = [req EXCEPT ![c] = q] /\ req'[c] = q
      /\ answer' = [answer EXCEPT ![c] = told] /\ answer'[c] = told
  BY DEF IInv, TypeOK, Request, Steps, Finish, Goto, Moved
<1>2. /\ SqlTypeOK' /\ db' = db /\ writer' # c /\ reading'[c] = "none"
      /\ \A d \in Clients \ {c} : reading'[d] = reading[d] /\ (writer' = d <=> writer = d)
  BY DEF IInv, TypeOK, SqlTypeOK, Rollback
<1>3. c \in Resets => ResetOK(c)' /\ spent[c] = NoClient
  BY <1>1, <1>2 DEF IInv, ResetOK
<1>4. c \in Regenerations => RegenOK(c)' BY <1>1, <1>2 DEF IInv, RegenOK
<1> HIDE DEF q
<1> QED BY <1>1, <1>2, <1>3, <1>4, QuietStep

\* A reset's or a regeneration's step, and a password set elsewhere, one by one.
LEMMA ResetReadInv == ASSUME Constants, IInv, NEW r \in Resets, ResetRead(r) PROVE IInv'
<1> USE Bounds
<1> DEFINE q == [pc |-> "hash", code |-> req[r].code, seen |-> db, attempt |-> req[r].attempt]
<1>1. /\ r \in Clients /\ q \in Request /\ q.code = req[r].code
      /\ req' = [req EXCEPT ![r] = q] /\ req'[r] = q
      /\ answer' = [answer EXCEPT ![r] = "none"] /\ answer'[r] = "none" /\ spent' = spent
      /\ spent[r] = NoClient
  BY DEF IInv, TypeOK, ResetOK, Request, Steps, ResetRead, Moved
<1>2. /\ SqlTypeOK' /\ db' = db /\ writer' # r /\ reading'[r] = "fresh"
      /\ \A d \in Clients \ {r} : reading'[d] = reading[d] /\ (writer' = d <=> writer = d)
  BY DEF IInv, TypeOK, SqlTypeOK, ResetOK, ResetRead, TakeSnapshot
<1>3. ResetOK(r)' BY <1>1, <1>2 DEF ResetOK
<1>4. r \notin Regenerations OBVIOUS
<1> HIDE DEF q
<1> QED BY <1>1, <1>2, <1>3, <1>4, QuietStep DEF ResetRead

\* A reset looks for its code among those it read.
LEMMA ResetMatchInv == ASSUME Constants, IInv, NEW r \in Resets, ResetMatch(r) PROVE IInv'
<1> USE Bounds
<1>1. CASE Matches(req[r].code, req[r].seen.hash)
  <2> DEFINE q == [pc |-> "update", code |-> req[r].code, seen |-> req[r].seen,
                   attempt |-> req[r].attempt]
  <2>1. /\ r \in Clients /\ q \in Request /\ q.code = req[r].code
        /\ req' = [req EXCEPT ![r] = q] /\ req'[r] = q
        /\ answer' = [answer EXCEPT ![r] = "none"] /\ answer'[r] = "none" /\ spent' = spent
        /\ spent[r] = NoClient
    BY <1>1 DEF IInv, TypeOK, ResetOK, Request, Steps, ResetMatch, Goto, Moved
  <2>2. SqlTypeOK' /\ db' = db /\ writer' = writer /\ reading' = reading
    BY <1>1 DEF IInv, TypeOK, SqlTypeOK, ResetMatch, sqlVars
  <2>3. ResetOK(r)' BY <1>1, <2>1, <2>2 DEF IInv, ResetOK, ResetMatch
  <2>4. r \notin Regenerations OBVIOUS
  <2> HIDE DEF q
  <2> QED BY <2>1, <2>2, <2>3, <2>4, QuietStep DEF ResetMatch
<1>2. CASE ~Matches(req[r].code, req[r].seen.hash)
  BY <1>2, EndStep DEF ResetMatch
<1> QED BY <1>1, <1>2

\* A reset writes the password and the codes without the one it used.
LEMMA ResetUpdateInv == ASSUME Constants, IInv, NEW r \in Resets, ResetUpdate(r) PROVE IInv'
<1> USE Bounds
<1>1. CASE db.hash = req[r].seen.hash
  <2> DEFINE q == [pc |-> "commit", code |-> req[r].code, seen |-> req[r].seen,
                   attempt |-> req[r].attempt]
  <2>1. /\ r \in Clients /\ q \in Request /\ q.code = req[r].code
        /\ req' = [req EXCEPT ![r] = q] /\ req'[r] = q
        /\ answer' = [answer EXCEPT ![r] = "none"] /\ answer'[r] = "none" /\ spent' = spent
        /\ spent[r] = NoClient
    BY <1>1 DEF IInv, TypeOK, ResetOK, Request, Steps, ResetUpdate, Goto, Moved
  <2>2. /\ SqlTypeOK' /\ db' = db /\ writer' = r /\ writer = NoClient
        /\ \A d \in Clients \ {r} : reading'[d] = reading[d] /\ (writer' = d <=> writer = d)
        /\ db = req[r].seen
    BY <1>1 DEF IInv, TypeOK, SqlTypeOK, ResetOK, ResetUpdate, TakeWriteLock, CanWrite
  <2>3. ResetOK(r)' BY <2>1, <2>2 DEF IInv, ResetOK, ResetUpdate
  <2>4. r \notin Regenerations OBVIOUS
  <2> HIDE DEF q
  <2> QED BY <2>1, <2>2, <2>3, <2>4, QuietStep DEF ResetUpdate
<1>2. CASE db.hash # req[r].seen.hash
  BY <1>2, EndStep DEF ResetUpdate
<1> QED BY <1>1, <1>2

\* A reset finds the database locked.
LEMMA ResetBusyInv == ASSUME Constants, IInv, NEW r \in Resets, ResetBusy(r) PROVE IInv'
<1> USE Bounds
<1>1. CASE req[r].attempt < MaxAttempts - 1
  <2> DEFINE q == [pc |-> "begin", code |-> req[r].code, seen |-> req[r].seen,
                   attempt |-> req[r].attempt + 1]
  <2>1. /\ r \in Clients /\ q \in Request /\ q.code = req[r].code
        /\ req' = [req EXCEPT ![r] = q] /\ req'[r] = q
        /\ answer' = [answer EXCEPT ![r] = "none"] /\ answer'[r] = "none" /\ spent' = spent
        /\ spent[r] = NoClient
    BY <1>1 DEF IInv, TypeOK, ResetOK, Request, Steps, ResetBusy, Goto, Moved
  <2>2. /\ SqlTypeOK' /\ db' = db /\ writer' # r /\ reading'[r] = "none"
        /\ \A d \in Clients \ {r} : reading'[d] = reading[d] /\ (writer' = d <=> writer = d)
    BY DEF IInv, TypeOK, SqlTypeOK, ResetBusy, Rollback
  <2>3. ResetOK(r)' BY <2>1, <2>2 DEF ResetOK
  <2>4. r \notin Regenerations OBVIOUS
  <2> HIDE DEF q
  <2> QED BY <2>1, <2>2, <2>3, <2>4, QuietStep DEF ResetBusy
<1>2. CASE ~(req[r].attempt < MaxAttempts - 1)
  BY <1>2, EndStep DEF ResetBusy
<1> QED BY <1>1, <1>2

\* A regeneration verifies the password.
LEMMA RegenVerifyInv == ASSUME Constants, IInv, NEW g \in Regenerations, RegenVerify(g) PROVE IInv'
<1> USE Bounds
<1> DEFINE q == [pc |-> "generate", code |-> req[g].code, seen |-> db, attempt |-> 0]
<1>1. 0 \in 0..(MaxAttempts - 1) OBVIOUS
<1>2. /\ g \in Clients /\ q \in Request /\ q.code = req[g].code
      /\ req' = [req EXCEPT ![g] = q] /\ req'[g] = q
      /\ answer' = [answer EXCEPT ![g] = answer[g]]
      /\ answer[g] \in {"none", "ok", "rejected", "error", "lost"}
  BY <1>1 DEF IInv, TypeOK, RegenVerify, Request, Steps, Moved
<1>3. SqlTypeOK' /\ db' = db /\ writer' = writer /\ reading' = reading
  BY DEF IInv, TypeOK, SqlTypeOK, RegenVerify, sqlVars
<1>4. RegenOK(g)' BY <1>2, <1>3 DEF IInv, RegenOK, RegenVerify
<1>5. g \notin Resets OBVIOUS
<1> HIDE DEF q
<1> QED BY <1>2, <1>3, <1>4, <1>5, QuietStep DEF RegenVerify

\* A regeneration replaces the codes.
LEMMA RegenUpdateInv == ASSUME Constants, IInv, NEW g \in Regenerations, RegenUpdate(g) PROVE IInv'
<1> USE Bounds
<1> DEFINE q == [pc |-> "replace", code |-> req[g].code, seen |-> req[g].seen,
                 attempt |-> req[g].attempt]
<1>1. /\ g \in Clients /\ q \in Request /\ q.code = req[g].code
      /\ req' = [req EXCEPT ![g] = q] /\ req'[g] = q
      /\ answer' = [answer EXCEPT ![g] = answer[g]]
      /\ answer[g] \in {"none", "ok", "rejected", "error", "lost"}
  BY DEF IInv, TypeOK, RegenUpdate, Request, Steps, Goto, Moved
<1>2. /\ SqlTypeOK' /\ db' = db /\ writer' = g /\ writer = NoClient
      /\ \A d \in Clients \ {g} : reading'[d] = reading[d] /\ (writer' = d <=> writer = d)
  BY DEF IInv, TypeOK, SqlTypeOK, RegenUpdate, TakeWriteLock, CanWrite
<1>3. RegenOK(g)' BY <1>1, <1>2 DEF RegenOK, RegenUpdate
<1>4. g \notin Resets OBVIOUS
<1> HIDE DEF q
<1> QED BY <1>1, <1>2, <1>3, <1>4, QuietStep DEF RegenUpdate

\* A request fails and its transaction is rolled back.
LEMMA FailInv == ASSUME Constants, IInv, NEW c \in Clients, Fail(c) PROVE IInv'
BY EndStep DEF Fail

\* A client hangs up and its request is dropped.
LEMMA HangUpInv == ASSUME Constants, IInv, NEW c \in Clients, HangUp(c) PROVE IInv'
<1> USE Bounds
<1>1. CASE Rollback(c) /\ UNCHANGED spent BY <1>1, EndStep DEF HangUp
<1>2. CASE req[c].pc = "commit" /\ Commit(c, UsedUp(c)) /\ spent' = [spent EXCEPT ![c] = req[c].code]
  <2>1. c \in Resets BY <1>2 DEF IInv, RegenOK
  <2> QED BY <1>2, <2>1, SpendStep DEF HangUp
<1>3. CASE req[c].pc = "replace" /\ Commit(c, NewBatch) /\ UNCHANGED spent
  <2>1. c \in Regenerations BY <1>3 DEF IInv, ResetOK
  <2> QED BY <1>3, <2>1, ReplaceStep DEF HangUp
<1> QED BY <1>1, <1>2, <1>3 DEF HangUp

\* The password changes by another way.
LEMMA ChangePasswordInv == ASSUME Constants, IInv, ChangePassword PROVE IInv'
<1> USE Bounds
<1>1. db' \in Row /\ db'.hash = db.hash /\ passwords' \in 0..MaxPasswords
  BY DEF IInv, TypeOK, ChangePassword, Row, Password
<1>2. /\ writer = NoClient /\ writer' = NoClient /\ SqlTypeOK'
      /\ \A d \in Clients : /\ reading'[d] # "fresh"
                            /\ reading[d] = "none" <=> reading'[d] = "none"
  BY DEF IInv, TypeOK, SqlTypeOK, ChangePassword
<1>3. UNCHANGED <<req, answer, spent>> BY DEF ChangePassword
<1>4. TypeOK' BY <1>1, <1>2, <1>3 DEF IInv, TypeOK
<1>5. \A r \in Resets : ResetOK(r)' BY <1>2, <1>3 DEF IInv, ResetOK
<1>6. \A g \in Regenerations : RegenOK(g)' BY <1>1, <1>2, <1>3 DEF IInv, RegenOK
<1>7. SpentDead' /\ CodeSingleUse' /\ AnswerTruthful'
  BY <1>1, <1>3 DEF IInv, SpentDead, CodeSingleUse, AnswerTruthful
<1> QED BY <1>4, <1>5, <1>6, <1>7 DEF IInv

\* Every step keeps the invariant.
LEMMA StepInv == ASSUME Constants, IInv, [Next]_vars PROVE IInv'
<1> USE Bounds
<1>1. ASSUME NEW r \in Resets, ResetStep(r) PROVE IInv'
  <2>1. CASE ResetCommit(r) BY <2>1, SpendStep DEF ResetCommit
  <2> QED BY <1>1, <2>1, ResetReadInv, ResetMatchInv, ResetUpdateInv, ResetBusyInv, FailInv,
             HangUpInv DEF ResetStep
<1>2. ASSUME NEW g \in Regenerations, RegenStep(g) PROVE IInv'
  <2>1. CASE RegenCommit(g) BY <2>1, ReplaceStep DEF RegenCommit
  <2> QED BY <1>2, <2>1, RegenVerifyInv, RegenUpdateInv, FailInv, HangUpInv DEF RegenStep
<1>3. CASE UNCHANGED vars
  <2>1. TypeOK' BY <1>3 DEF IInv, TypeOK, SqlTypeOK, vars
  <2>2. (\A r \in Resets : ResetOK(r)') /\ (\A g \in Regenerations : RegenOK(g)')
    BY <1>3 DEF IInv, ResetOK, RegenOK, vars
  <2>3. SpentDead' /\ CodeSingleUse' /\ AnswerTruthful'
    BY <1>3 DEF IInv, SpentDead, CodeSingleUse, AnswerTruthful, vars
  <2> QED BY <2>1, <2>2, <2>3 DEF IInv
<1> QED BY <1>1, <1>2, <1>3, ChangePasswordInv DEF Next

\* What a step does to the codes: nothing, spend one, or replace the batch.
LEMMA Effects ==
    ASSUME Constants, IInv, [Next]_vars
    PROVE  \/ db'.hash = db.hash /\ spent' = spent
           \/ \E r \in Resets : /\ req[r].pc = "commit" /\ Commit(r, UsedUp(r))
                                /\ spent' = [spent EXCEPT ![r] = req[r].code]
           \/ \E g \in Regenerations : /\ req[g].pc = "replace" /\ Commit(g, NewBatch)
                                       /\ spent' = spent
<1> USE Bounds DEF Rollback, TakeSnapshot, TakeWriteLock, sqlVars
<1>1. ASSUME NEW c \in Clients, HangUp(c), UNCHANGED db PROVE db'.hash = db.hash
  BY <1>1
<1>2. ASSUME NEW c \in Clients, HangUp(c), req[c].pc = "commit" PROVE c \in Resets
  BY <1>2 DEF IInv, RegenOK
<1>3. ASSUME NEW c \in Clients, HangUp(c), req[c].pc = "replace" PROVE c \in Regenerations
  BY <1>3 DEF IInv, ResetOK
<1>4. ASSUME NEW c \in Clients, HangUp(c)
      PROVE  \/ db'.hash = db.hash /\ spent' = spent
             \/ /\ c \in Resets /\ req[c].pc = "commit" /\ Commit(c, UsedUp(c))
                /\ spent' = [spent EXCEPT ![c] = req[c].code]
             \/ /\ c \in Regenerations /\ req[c].pc = "replace" /\ Commit(c, NewBatch)
                /\ spent' = spent
  BY <1>2, <1>3, <1>4 DEF HangUp
<1>5. ASSUME NEW r \in Resets, ResetStep(r)
      PROVE  \/ db'.hash = db.hash /\ spent' = spent
             \/ ResetCommit(r) \/ HangUp(r)
  BY <1>5 DEF ResetStep, ResetRead, ResetMatch, ResetUpdate, ResetBusy, Fail
<1>6. ASSUME NEW g \in Regenerations, RegenStep(g)
      PROVE  \/ db'.hash = db.hash /\ spent' = spent
             \/ RegenCommit(g) \/ HangUp(g)
  BY <1>6 DEF RegenStep, RegenVerify, RegenUpdate, Fail
<1>7. ChangePassword => db'.hash = db.hash /\ spent' = spent BY DEF ChangePassword
<1> QED BY <1>4, <1>5, <1>6, <1>7 DEF Next, ResetCommit, RegenCommit, vars

\* A batch is replaced by a later one only, and a mark is never taken away; the code
\* that is spent was good until then.
LEMMA DeadStaysDead ==
    ASSUME Constants, IInv, [Next]_vars
    PROVE  /\ db'.hash.batch >= db.hash.batch
           /\ db'.hash.batch = db.hash.batch => db.hash.used \subseteq db'.hash.used
           /\ \A r \in Resets : spent'[r] # spent[r] => Matches(spent'[r], db.hash)
<1> USE Bounds
<1>1. db.hash.batch \in Nat BY DEF IInv, TypeOK, Row, RecoveryCodeHash
<1>2. CASE db'.hash = db.hash /\ spent' = spent BY <1>1, <1>2
<1>3. ASSUME NEW r \in Resets, req[r].pc = "commit", Commit(r, UsedUp(r)),
             spent' = [spent EXCEPT ![r] = req[r].code]
      PROVE  /\ db'.hash.batch = db.hash.batch /\ db.hash.used \subseteq db'.hash.used
             /\ \A q \in Resets : spent'[q] # spent[q] => Matches(spent'[q], db.hash)
  <2>1. db = req[r].seen /\ Matches(req[r].code, db.hash) BY <1>3 DEF IInv, ResetOK
  <2>2. db' = UsedUp(r) BY <1>3 DEF Commit
  <2>3. \A q \in Resets : spent'[q] # spent[q] => spent'[q] = req[r].code
    BY <1>3 DEF IInv, TypeOK
  <2> QED BY <2>1, <2>2, <2>3 DEF UsedUp
<1>4. ASSUME NEW g \in Regenerations, Commit(g, NewBatch), spent' = spent
      PROVE  db'.hash.batch = db.hash.batch + 1
  BY <1>4 DEF Commit, NewBatch
<1> QED BY <1>1, <1>2, <1>3, <1>4, Effects

-----------------------------------------------------------------------------
\* The invariant holds in every behaviour.
THEOREM Invariant == ASSUME Constants PROVE Spec => []IInv
BY InitInv, StepInv, PTL DEF Spec

\* Every reachable state is of its type: a row holds a batch and the places marked in
\* it, a request one step of its transaction and the row it has read.
THEOREM TypeCorrect == ASSUME Constants PROVE Spec => []TypeOK
<1>1. IInv => TypeOK BY DEF IInv
<1> QED BY <1>1, Invariant, PTL

\* However many requests bring a code, retry it after SQLITE_BUSY, are dropped while
\* they commit or race a regeneration, it changes the password at most once
\* (verify_and_use_recovery_code).
THEOREM SingleUse == ASSUME Constants PROVE Spec => []CodeSingleUse
<1>1. IInv => CodeSingleUse BY DEF IInv
<1> QED BY <1>1, Invariant, PTL

\* Whoever is told ok has changed the password with its code, whoever is told anything
\* else has not, also after the last attempt at a busy database.
THEOREM Truthful == ASSUME Constants PROVE Spec => []AnswerTruthful
<1>1. IInv => AnswerTruthful BY DEF IInv
<1> QED BY <1>1, Invariant, PTL

\* Used codes and codes of a replaced batch stay dead.
THEOREM DeadForGood == ASSUME Constants PROVE Spec => OldCodesDead
BY Invariant, DeadStaysDead, PTL DEF Spec, OldCodesDead

\* The optimistic update never overwrites a password that the reset has not seen.
THEOREM NothingOverwritten == ASSUME Constants PROVE Spec => NoLostPassword
<1>1. ASSUME IInv, [Next]_vars PROVE \A r \in Resets : spent'[r] # spent[r] => db = req[r].seen
  <2>1. ASSUME NEW c \in Resets, req[c].pc = "commit", spent' = [spent EXCEPT ![c] = req[c].code]
        PROVE  \A r \in Resets : spent'[r] # spent[r] => db = req[r].seen
    BY <1>1, <2>1 DEF IInv, TypeOK, ResetOK
  <2> QED BY <1>1, <2>1, Effects
<1> QED BY <1>1, Invariant, PTL DEF Spec, NoLostPassword

\* The promise of the recovery codes as a whole.
THEOREM SpentOnce == ASSUME Constants PROVE Spec => CodesSpentOnce
BY SingleUse, Truthful, DeadForGood, NothingOverwritten, PTL DEF CodesSpentOnce

-----------------------------------------------------------------------------
\* A code is good or marked, or of a batch to come; never two of these.
LEMMA GoodOrMarked ==
    ASSUME Constants, IInv
    PROVE  /\ Good(db.hash) \cap Marked(db.hash) = {}
           /\ Good(NewBatch.hash) \subseteq Code \ (Good(db.hash) \cup Marked(db.hash))
           /\ db.hash.batch < MaxBatch => Marked(NewBatch.hash) = Marked(db.hash) \cup Good(db.hash)
<1> USE Bounds
<1>1. /\ db.hash.batch \in Nat
      /\ \A k \in Code : k.batch \in Nat
  BY DEF IInv, TypeOK, Row, RecoveryCodeHash, Code
<1>2. /\ NewBatch.hash.batch = db.hash.batch + 1 /\ NewBatch.hash.used = {}
  BY DEF NewBatch
<1> QED BY <1>1, <1>2 DEF Good, Marked, Matches

\* At first the first batch is in the box and nobody has been told anything.
LEMMA InitBox == ASSUME Constants, Init PROVE BoxInit
<1> USE Bounds
<1>1. db = InitialRow /\ db.password = 0 BY DEF Init, InitialRow
<1>2. \A r \in Resets : req[r].seen = InitialRow /\ answer[r] = "none"
  <2> TAKE r \in Resets
  <2>1. r \in Clients OBVIOUS
  <2>2. PICK k \in Code :
           req[r] = [pc |-> "begin", code |-> k, seen |-> InitialRow, attempt |-> 0]
    BY <2>1 DEF Init
  <2> QED BY <2>1, <2>2 DEF Init
<1>3. Marked(db.hash) = {} /\ Good(db.hash) \subseteq Code
  <2>1. db.hash.batch = 1 /\ db.hash.used = {} BY <1>1 DEF InitialRow
  <2>2. \A k \in Code : k.batch \in 1..MaxBatch BY DEF Code
  <2> QED BY <2>1, <2>2 DEF Marked, Good
<1>4. [r \in Resets |-> req[r].seen.password] = [r \in Resets |-> db.password]
  BY <1>1, <1>2 DEF InitialRow
<1>5. [r \in Resets |-> answer[r]] = [r \in Resets |-> "none"] BY <1>2
<1>6. spent = [r \in Resets |-> NoClient] BY DEF Init
<1>7. db.password \in 0..MaxPasswords BY <1>1
<1> QED BY <1>3, <1>4, <1>5, <1>6, <1>7 DEF BoxInit, BoxSeen, BoxTold

\* A request that ends without a change gives up, and a regeneration is not noticed.
LEMMA EndBox ==
    ASSUME Constants, IInv, NEW c \in Clients, NEW a \in {"rejected", "error", "lost"},
           req[c].pc # "done", Finish(c, a), UNCHANGED <<db, spent>>
    PROVE  [BoxNext]_boxVars
<1> USE Bounds
<1>1. \A d \in Clients : req'[d].seen = req[d].seen
  BY DEF IInv, TypeOK, Request, Finish, Goto, Moved
<1>2. [r \in Resets |-> req'[r].seen.password] = [r \in Resets |-> req[r].seen.password]
  BY <1>1
<1>3. CASE c \in Resets
  <2>1. answer[c] = "none" BY <1>3 DEF IInv, ResetOK
  <2>2. [r \in Resets |-> answer'[r]] = [[r \in Resets |-> answer[r]] EXCEPT ![c] = a]
    BY <1>3 DEF IInv, TypeOK, Finish
  <2>3. BoxGiveUp(c) BY <1>2, <1>3, <2>1, <2>2 DEF BoxGiveUp, BoxSeen, BoxTold
  <2> QED BY <1>3, <2>3 DEF BoxNext
<1>4. CASE c \notin Resets
  <2>1. [r \in Resets |-> answer'[r]] = [r \in Resets |-> answer[r]]
    BY <1>4 DEF IInv, TypeOK, Finish
  <2> QED BY <1>2, <2>1 DEF boxVars, BoxSeen, BoxTold
<1> QED BY <1>3, <1>4

\* A request that goes on after what it has read leaves the box alone.
LEMMA GoOnBox ==
    ASSUME Constants, IInv, NEW c \in Clients, NEW pc, NEW n,
           Moved(c, pc, req[c].seen, n), UNCHANGED <<db, spent, answer>>
    PROVE  UNCHANGED boxVars
<1> USE Bounds
<1>1. \A r \in Resets : req'[r].seen = req[r].seen
  BY DEF IInv, TypeOK, Request, Moved
<1>2. [r \in Resets |-> req'[r].seen.password] = [r \in Resets |-> req[r].seen.password]
  BY <1>1
<1> QED BY <1>2 DEF boxVars, BoxSeen, BoxTold

\* The commit of a reset opens the box with its code.
LEMMA SpendBox ==
    ASSUME Constants, IInv, NEW c \in Resets, NEW a \in {"ok", "lost"},
           req[c].pc = "commit", Commit(c, UsedUp(c)), Finish(c, a),
           spent' = [spent EXCEPT ![c] = req[c].code]
    PROVE  BoxNext
<1> USE Bounds
<1>0. PICK k \in Code : k = req[c].code BY DEF IInv, TypeOK, Request
<1>1. /\ db = req[c].seen /\ Matches(k, db.hash) /\ answer[c] = "none" /\ db' = UsedUp(c)
  BY <1>0 DEF IInv, TypeOK, ResetOK, Request, Commit
<1>2. /\ db'.hash.batch = db.hash.batch /\ db'.hash.used = db.hash.used \cup {k.place}
      /\ db'.password = c /\ db.hash.batch \in Nat
  BY <1>0, <1>1 DEF UsedUp, IInv, TypeOK, Row, RecoveryCodeHash
<1>3. \A j \in Code : j.batch \in Nat /\ (j.batch = k.batch /\ j.place = k.place => j = k)
  BY <1>1 DEF Code
<1>4. Good(db'.hash) = Good(db.hash) \ {k} /\ k \in Good(db.hash)
  BY <1>1, <1>2, <1>3 DEF Good, Matches
<1>5. Marked(db'.hash) = Marked(db.hash) \cup {k}
  BY <1>1, <1>2, <1>3 DEF Marked, Matches
<1>6. [r \in Resets |-> req'[r].seen.password] = [r \in Resets |-> req[r].seen.password]
  <2>1. \A r \in Resets : req'[r].seen = req[r].seen
    BY DEF IInv, TypeOK, Request, Finish, Goto, Moved
  <2> QED BY <2>1
<1>7. [r \in Resets |-> answer'[r]] = [[r \in Resets |-> answer[r]] EXCEPT ![c] = a]
  BY DEF IInv, TypeOK, Finish
<1>8. BoxOpen(c, k)
  <2>1. [r \in Resets |-> answer[r]][c] = "none" /\ [r \in Resets |-> req[r].seen.password][c] = db.password
    BY <1>1
  <2>2. spent' = [spent EXCEPT ![c] = k] BY <1>0
  <2> QED BY <1>2, <1>4, <1>5, <1>6, <1>7, <2>1, <2>2 DEF BoxOpen, BoxSeen, BoxTold
<1> QED BY <1>8 DEF BoxNext

\* The commit of a regeneration refills it.
LEMMA ReplaceBox ==
    ASSUME Constants, IInv, NEW c \in Regenerations, NEW a,
           req[c].pc = "replace", Commit(c, NewBatch), Finish(c, a), UNCHANGED spent
    PROVE  BoxNext
<1> USE Bounds
<1>1. db' = NewBatch /\ db.hash.batch < MaxBatch /\ c \notin Resets
  BY DEF Commit, IInv, RegenOK
<1>2. db'.password = db.password BY <1>1 DEF NewBatch
<1>3. [r \in Resets |-> req'[r].seen.password] = [r \in Resets |-> req[r].seen.password]
  <2>1. \A r \in Resets : req'[r].seen = req[r].seen
    BY <1>1 DEF IInv, TypeOK, Request, Finish, Goto, Moved
  <2> QED BY <2>1
<1>4. [r \in Resets |-> answer'[r]] = [r \in Resets |-> answer[r]]
  BY <1>1 DEF IInv, TypeOK, Finish
<1>5. BoxRefill BY <1>1, <1>2, <1>3, <1>4, GoodOrMarked DEF BoxRefill, BoxSeen, BoxTold
<1> QED BY <1>5 DEF BoxNext

\* Every step of the specification is a step of the box of codes or none.
LEMMA StepBox == ASSUME Constants, IInv, [Next]_vars PROVE [BoxNext]_boxVars
<1> USE Bounds
<1>1. ASSUME NEW c \in Clients, Fail(c) PROVE [BoxNext]_boxVars
  BY <1>1, EndBox DEF Fail, Rollback
<1>2. ASSUME NEW c \in Clients, HangUp(c) PROVE [BoxNext]_boxVars
  <2>1. CASE Rollback(c) /\ UNCHANGED spent
    BY <1>2, <2>1, EndBox DEF HangUp, Rollback
  <2>2. CASE /\ req[c].pc = "commit" /\ Commit(c, UsedUp(c))
             /\ spent' = [spent EXCEPT ![c] = req[c].code]
    <3>1. c \in Resets BY <2>2 DEF IInv, RegenOK
    <3> QED BY <1>2, <2>2, <3>1, SpendBox DEF HangUp
  <2>3. CASE req[c].pc = "replace" /\ Commit(c, NewBatch) /\ UNCHANGED spent
    <3>1. c \in Regenerations BY <2>3 DEF IInv, ResetOK
    <3> QED BY <1>2, <2>3, <3>1, ReplaceBox DEF HangUp
  <2> QED BY <1>2, <2>1, <2>2, <2>3 DEF HangUp
<1>3. ASSUME NEW r \in Resets, ResetRead(r) PROVE [BoxNext]_boxVars
  <2>1. answer[r] = "none" /\ UNCHANGED <<db, spent, answer>>
    BY <1>3 DEF IInv, ResetOK, ResetRead, TakeSnapshot
  <2>2. \A d \in Resets : req'[d].seen = IF d = r THEN db ELSE req[d].seen
    BY <1>3 DEF IInv, TypeOK, Request, ResetRead, Moved
  <2>3. [d \in Resets |-> req'[d].seen.password]
           = [[d \in Resets |-> req[d].seen.password] EXCEPT ![r] = db.password]
    BY <2>2
  <2>4. BoxLook(r) BY <2>1, <2>3 DEF BoxLook, BoxSeen, BoxTold
  <2> QED BY <2>4 DEF BoxNext
<1>4. ASSUME NEW r \in Resets, ResetMatch(r) PROVE [BoxNext]_boxVars
  <2>1. CASE Matches(req[r].code, req[r].seen.hash)
    BY <1>4, <2>1, GoOnBox DEF ResetMatch, Goto, sqlVars
  <2>2. CASE ~Matches(req[r].code, req[r].seen.hash)
    BY <1>4, <2>2, EndBox DEF ResetMatch, Rollback
  <2> QED BY <2>1, <2>2
<1>5. ASSUME NEW r \in Resets, ResetUpdate(r) PROVE [BoxNext]_boxVars
  <2>1. CASE db.hash = req[r].seen.hash
    BY <1>5, <2>1, GoOnBox DEF ResetUpdate, Goto, TakeWriteLock
  <2>2. CASE db.hash # req[r].seen.hash
    BY <1>5, <2>2, EndBox DEF ResetUpdate, Rollback
  <2> QED BY <2>1, <2>2
<1>6. ASSUME NEW r \in Resets, ResetCommit(r) PROVE [BoxNext]_boxVars
  BY <1>6, SpendBox DEF ResetCommit
<1>7. ASSUME NEW r \in Resets, ResetBusy(r) PROVE [BoxNext]_boxVars
  <2>1. CASE req[r].attempt < MaxAttempts - 1
    BY <1>7, <2>1, GoOnBox DEF ResetBusy, Rollback
  <2>2. CASE ~(req[r].attempt < MaxAttempts - 1)
    BY <1>7, <2>2, EndBox DEF ResetBusy, Rollback
  <2> QED BY <2>1, <2>2
<1>8. ASSUME NEW g \in Regenerations, RegenVerify(g) PROVE UNCHANGED boxVars
  <2>1. \A r \in Resets : req'[r] = req[r] BY <1>8 DEF IInv, TypeOK, RegenVerify, Moved
  <2>2. [r \in Resets |-> req'[r].seen.password] = [r \in Resets |-> req[r].seen.password]
    BY <2>1
  <2> QED BY <1>8, <2>2 DEF RegenVerify, sqlVars, boxVars, BoxSeen, BoxTold
<1>9. ASSUME NEW g \in Regenerations, RegenUpdate(g) PROVE UNCHANGED boxVars
  BY <1>9, GoOnBox DEF RegenUpdate, Goto, TakeWriteLock
<1>10. ASSUME NEW g \in Regenerations, RegenCommit(g) PROVE [BoxNext]_boxVars
  BY <1>10, ReplaceBox DEF RegenCommit
<1>11. CASE ChangePassword
  <2>1. db'.hash = db.hash /\ db'.password = passwords' /\ passwords' \in 0..MaxPasswords
    BY <1>11 DEF IInv, TypeOK, ChangePassword
  <2>2. BoxSetElsewhere BY <1>11, <2>1 DEF ChangePassword, BoxSetElsewhere, BoxSeen, BoxTold
  <2> QED BY <2>2 DEF BoxNext
<1>12. CASE UNCHANGED vars BY <1>12 DEF vars, boxVars, BoxSeen, BoxTold
<1> QED BY <1>1, <1>2, <1>3, <1>4, <1>5, <1>6, <1>7, <1>8, <1>9, <1>10, <1>11, <1>12
        DEF Next, ResetStep, RegenStep

\* Transactions that read, hash and try again, regenerations between them and clients
\* that hang up implement the box of codes.
THEOREM BoxOpensOnce == ASSUME Constants PROVE Spec => OpensOnce
BY Invariant, InitBox, StepBox, PTL DEF Spec, OpensOnce
=============================================================================
