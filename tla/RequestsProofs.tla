---------------------------- MODULE RequestsProofs ----------------------------
(* What holds of a request on its way, for any number of requests, users and   *)
(* changes and any limits: PinRecovery, the types of ActiveProfile's variables *)
(* and its properties, RequestPath, Names and Errors.                          *)
EXTENDS MCRequests, FiniteSetTheorems, SequenceTheorems, TLAPS

\* Where a session is agrees with what happened to it: unminted, in the map,
\* held by one completion, or spent.
HistoryOK ==
    \A s \in Requests :
        /\ req[s].pc # "done" => tries[s] = 0 /\ redeemed[s] = 0
        /\ resetPins[s] # Absent =>
              redeemed[s] = 0 /\ resetPins[s].attempts = tries[s]
        /\ redeemed[s] <= 1
        /\ tries[s] <= MaxPinAttempts

\* What a completion carries from one step to the next.
CompletionOK ==
    \A c \in Completions :
        /\ comp[c].pc \in {"idle", "resolved"} => comp[c].entry = Absent
        /\ comp[c].pc \in {"update", "cleanup"} => comp[c].entry # Absent
        /\ comp[c].entry # Absent =>
              /\ comp[c].sid \in Requests
              /\ comp[c].pc \in {"held", "update"} => redeemed[comp[c].sid] = 0
              /\ comp[c].pc = "held" => comp[c].entry.attempts = tries[comp[c].sid]

RequestOK == \A r \in Requests : req[r].pc = "retained" => req[r].user # Absent

\* Files and records carry the email of the request that made them.
FileOK ==
    /\ \A r \in Requests :
          /\ req[r].user # Absent => req[r].user = req[r].email
          /\ resetPins[r] # Absent => resetPins[r].user = req[r].email
          /\ \A c \in Completions : Holds(c, r) => comp[c].entry.user = req[r].email
    /\ \A e \in Emails : artifact[e] # Absent =>
          /\ e = req[artifact[e]].email
          /\ req[artifact[e]].pc \notin {"idle", "found"}
    /\ \A s \in tidied : req[s].pc = "done"

\* Real time is ahead of what elapsed reports by no more than the clock was set back.
AgeOK ==
    /\ \A s \in Requests : resetPins[s] # Absent =>
          resetPins[s].real <= resetPins[s].age + jumped
    /\ \A c \in Completions : comp[c].pc = "held" /\ comp[c].entry # Absent =>
          comp[c].entry.real <= comp[c].entry.age + jumped

IInv ==
    /\ TypeOK
    /\ SingleCustody
    /\ HistoryOK
    /\ CompletionOK
    /\ RequestOK
    /\ FileOK
    /\ RedeemedPinGone
    /\ AgeOK
    /\ NoLateRedemption

USE SentinelAssumption, BoundAssumption

\* Every step of the specification keeps the state well typed: TypeOK alone is
\* not inductive, because an update step reads the record its caller holds.
LEMMA TypeStep == IInv /\ [Next]_vars => TypeOK'
<1> SUFFICES ASSUME IInv, [Next]_vars PROVE TypeOK'
  OBVIOUS
<1> USE DEF IInv, TypeOK, Entry, PendingReset, Call, Redemption, Emails, history, CallAt, RedemptionAt, OneMoreAttempt
<1>1. ASSUME NEW r \in Requests, NEW e \in Emails, FindUser(r, e) PROVE TypeOK'
  BY <1>1 DEF FindUser
<1>2. ASSUME NEW r \in Requests, RequestStep(r) PROVE TypeOK'
  <2>1. CASE WriteArtifact(r) BY <2>1 DEF WriteArtifact
  <2>2. CASE RetainOthers(r) BY <2>2 DEF RetainOthers
  <2>3. CASE InsertSession(r) BY <2>3 DEF InsertSession, RequestOK
  <2>4. CASE DiscardArtifact(r) BY <2>4 DEF DiscardArtifact
  <2>5. CASE RequestFails(r) BY <2>5 DEF RequestFails
  <2> QED BY <1>2, <2>1, <2>2, <2>3, <2>4, <2>5 DEF RequestStep
<1>3. ASSUME NEW c \in Completions, NEW s \in Requests \cup {NoSession},
             NEW right \in BOOLEAN, TakeEntry(c, s, right)
      PROVE TypeOK'
  BY <1>3 DEF TakeEntry
<1>4. ASSUME NEW c \in Completions, NEW e \in Emails, NEW right \in BOOLEAN,
             ResetPassword(c, e, right)
      PROVE TypeOK'
  BY <1>4 DEF ResetPassword
<1>5. ASSUME NEW c \in Completions, CompletionStep(c) PROVE TypeOK'
  <2>0. IdleRedemption \in Redemption BY DEF IdleRedemption
  <2>1. CASE ResetPasswordTake(c) BY <2>1 DEF ResetPasswordTake, TakeEntry
  <2>2. CASE RejectSession(c) BY <2>0, <2>2 DEF RejectSession, Finish
  <2>3. CASE WrongPin(c) BY <2>0, <2>3 DEF WrongPin, Finish, Usable, CompletionOK
  <2>4. CASE RightPin(c) BY <2>4 DEF RightPin, Usable, CompletionOK
  <2>5. CASE UpdatePassword(c) BY <2>0, <2>5 DEF UpdatePassword, Finish, CompletionOK
  <2>6. CASE RemoveArtifact(c) BY <2>0, <2>6 DEF RemoveArtifact, Finish, CompletionOK
  <2>7. CASE CompletionFails(c) BY <2>0, <2>7 DEF CompletionFails, Finish, CompletionOK
  <2> QED BY <1>5, <2>1, <2>2, <2>3, <2>4, <2>5, <2>6, <2>7 DEF CompletionStep
<1>6. CASE Sweep BY <1>6 DEF Sweep
<1>7. CASE Tick BY <1>7 DEF Tick, Age, Aged, Capped, AgeCap
<1>8. CASE SetClockBack BY <1>8 DEF SetClockBack, Age, Aged, Capped, AgeCap
<1>9. ASSUME NEW u \in Users, SoftDelete(u) PROVE TypeOK'
  BY <1>9 DEF SoftDelete
<1>10. CASE UNCHANGED vars BY <1>10 DEF vars
<1> HIDE DEF IInv, TypeOK, Entry, PendingReset, Call, Redemption, Emails
<1> QED BY <1>1, <1>2, <1>3, <1>4, <1>5, <1>6, <1>7, <1>8, <1>9, <1>10
       DEF Next, RecoverComplete

\* No step puts a record in two places.
LEMMA CustodyStep == IInv /\ [Next]_vars => (SingleCustody)'
<1> SUFFICES ASSUME IInv, [Next]_vars PROVE (SingleCustody)'
  OBVIOUS
<1>0. TypeOK' BY TypeStep
<1> USE <1>0 DEF IInv, TypeOK, Entry, PendingReset, Call, Redemption, Emails, history,
            CallAt, RedemptionAt, Holds, SingleCustody, CompletionOK
<1>1. ASSUME NEW r \in Requests, NEW e \in Emails, FindUser(r, e) PROVE (SingleCustody)'
  BY <1>1 DEF FindUser
<1>2. ASSUME NEW r \in Requests, RequestStep(r) PROVE (SingleCustody)'
  <2>1. CASE WriteArtifact(r) BY <2>1 DEF WriteArtifact
  <2>2. CASE RetainOthers(r) BY <2>2 DEF RetainOthers
  <2>3. CASE InsertSession(r) BY <2>3 DEF InsertSession
  <2>4. CASE DiscardArtifact(r) BY <2>4 DEF DiscardArtifact
  <2>5. CASE RequestFails(r) BY <2>5 DEF RequestFails
  <2> QED BY <1>2, <2>1, <2>2, <2>3, <2>4, <2>5 DEF RequestStep
<1>3. ASSUME NEW c \in Completions, NEW s \in Requests \cup {NoSession},
             NEW right \in BOOLEAN, comp[c].pc \in {"idle", "resolved"},
             TakeEntry(c, s, right)
      PROVE (SingleCustody)'
  BY <1>3 DEF TakeEntry
<1>4. ASSUME NEW c \in Completions, NEW e \in Emails, NEW right \in BOOLEAN,
             ResetPassword(c, e, right)
      PROVE (SingleCustody)'
  BY <1>4 DEF ResetPassword
<1>5. ASSUME NEW c \in Completions, CompletionStep(c) PROVE (SingleCustody)'
  <2>1. CASE ResetPasswordTake(c) BY <2>1 DEF ResetPasswordTake, TakeEntry
  <2>2. CASE RejectSession(c) BY <2>2 DEF RejectSession, Finish, IdleRedemption
  <2>3. CASE WrongPin(c) BY <2>3 DEF WrongPin, Finish, IdleRedemption, Usable, OneMoreAttempt
  <2>4. CASE RightPin(c) BY <2>4 DEF RightPin, Usable
  <2>5. CASE UpdatePassword(c)
    <3>1. CASE comp[c].entry.user \in deleted
      <4>1. /\ comp' = [comp EXCEPT ![c] = IdleRedemption]
            /\ UNCHANGED <<resetPins, req>>
        BY <2>5, <3>1 DEF UpdatePassword, Finish
      <4>2. \A d \in Completions, s \in Requests : Holds(d, s)' => Holds(d, s)
        BY <4>1 DEF IdleRedemption
      <4> QED BY <4>1, <4>2
    <3>2. CASE comp[c].entry.user \notin deleted
      <4>1. comp[c].sid \in Requests BY <2>5 DEF UpdatePassword
      <4>2. /\ comp' = [comp EXCEPT ![c] = RedemptionAt(c, "cleanup")]
            /\ UNCHANGED <<resetPins, req>>
        BY <2>5, <3>2 DEF UpdatePassword
      <4>3. \A d \in Completions :
               comp'[d].sid = comp[d].sid /\ comp'[d].entry = comp[d].entry
        BY <4>2
      <4> QED BY <2>5, <3>2, <4>1, <4>2, <4>3 DEF UpdatePassword
    <3> QED BY <3>1, <3>2
  <2>6. CASE RemoveArtifact(c) BY <2>6 DEF RemoveArtifact, Finish, IdleRedemption
  <2>7. CASE CompletionFails(c) BY <2>7 DEF CompletionFails, Finish, IdleRedemption
  <2> QED BY <1>5, <2>1, <2>2, <2>3, <2>4, <2>5, <2>6, <2>7 DEF CompletionStep
<1>6. CASE Sweep BY <1>6 DEF Sweep
<1>7. CASE Tick BY <1>7 DEF Tick, Age, Aged
<1>8. CASE SetClockBack BY <1>8 DEF SetClockBack, Age, Aged
<1>9. ASSUME NEW u \in Users, SoftDelete(u) PROVE (SingleCustody)'
  BY <1>9 DEF SoftDelete
<1>10. CASE UNCHANGED vars BY <1>10 DEF vars
<1> HIDE DEF IInv, TypeOK, Entry, PendingReset, Call, Redemption, Emails, Holds,
            SingleCustody, CompletionOK
<1> QED BY <1>1, <1>2, <1>3, <1>4, <1>5, <1>6, <1>7, <1>8, <1>9, <1>10
       DEF Next, RecoverComplete

\* The counters follow the record from place to place.
LEMMA HistoryStep == IInv /\ [Next]_vars => (HistoryOK)'
<1> SUFFICES ASSUME IInv, [Next]_vars PROVE (HistoryOK)'
  OBVIOUS
<1>0. TypeOK' BY TypeStep
<1> USE <1>0 DEF IInv, TypeOK, Entry, PendingReset, Call, Redemption, Emails, history,
            CallAt, RedemptionAt, Holds, SingleCustody, CompletionOK, HistoryOK
<1>1. ASSUME NEW r \in Requests, NEW e \in Emails, FindUser(r, e) PROVE (HistoryOK)'
  BY <1>1 DEF FindUser
<1>2. ASSUME NEW r \in Requests, RequestStep(r) PROVE (HistoryOK)'
  <2>1. CASE WriteArtifact(r) BY <2>1 DEF WriteArtifact
  <2>2. CASE RetainOthers(r) BY <2>2 DEF RetainOthers
  <2>3. CASE InsertSession(r) BY <2>3 DEF InsertSession
  <2>4. CASE DiscardArtifact(r) BY <2>4 DEF DiscardArtifact
  <2>5. CASE RequestFails(r) BY <2>5 DEF RequestFails
  <2> QED BY <1>2, <2>1, <2>2, <2>3, <2>4, <2>5 DEF RequestStep
<1>3. ASSUME NEW c \in Completions, NEW s \in Requests \cup {NoSession},
             NEW right \in BOOLEAN, comp[c].pc \in {"idle", "resolved"},
             TakeEntry(c, s, right)
      PROVE (HistoryOK)'
  BY <1>3 DEF TakeEntry
<1>4. ASSUME NEW c \in Completions, NEW e \in Emails, NEW right \in BOOLEAN,
             ResetPassword(c, e, right)
      PROVE (HistoryOK)'
  BY <1>4 DEF ResetPassword
<1>5. ASSUME NEW c \in Completions, CompletionStep(c) PROVE (HistoryOK)'
  <2>1. CASE ResetPasswordTake(c) BY <2>1 DEF ResetPasswordTake, TakeEntry
  <2>2. CASE RejectSession(c) BY <2>2 DEF RejectSession, Finish, IdleRedemption
  <2>3. CASE WrongPin(c) BY <2>3 DEF WrongPin, Finish, IdleRedemption, Usable, OneMoreAttempt
  <2>4. CASE RightPin(c) BY <2>4 DEF RightPin, Usable
  <2>5. CASE UpdatePassword(c) BY <2>5 DEF UpdatePassword, Finish, IdleRedemption
  <2>6. CASE RemoveArtifact(c) BY <2>6 DEF RemoveArtifact, Finish, IdleRedemption
  <2>7. CASE CompletionFails(c) BY <2>7 DEF CompletionFails, Finish, IdleRedemption
  <2> QED BY <1>5, <2>1, <2>2, <2>3, <2>4, <2>5, <2>6, <2>7 DEF CompletionStep
<1>6. CASE Sweep BY <1>6 DEF Sweep
<1>7. CASE Tick BY <1>7 DEF Tick, Age, Aged
<1>8. CASE SetClockBack BY <1>8 DEF SetClockBack, Age, Aged
<1>9. ASSUME NEW u \in Users, SoftDelete(u) PROVE (HistoryOK)'
  BY <1>9 DEF SoftDelete
<1>10. CASE UNCHANGED vars BY <1>10 DEF vars
<1> HIDE DEF IInv, TypeOK, Entry, PendingReset, Call, Redemption, Emails, Holds,
            SingleCustody, CompletionOK, HistoryOK
<1> QED BY <1>1, <1>2, <1>3, <1>4, <1>5, <1>6, <1>7, <1>8, <1>9, <1>10
       DEF Next, RecoverComplete

\* What a completion carries stays true until it uses it.
LEMMA CompletionStepOK == IInv /\ [Next]_vars => (CompletionOK)'
<1> SUFFICES ASSUME IInv, [Next]_vars PROVE (CompletionOK)'
  OBVIOUS
<1>0. TypeOK' BY TypeStep
<1> USE <1>0 DEF IInv, TypeOK, Entry, PendingReset, Call, Redemption, Emails, history,
            CallAt, RedemptionAt, Holds, SingleCustody, CompletionOK, HistoryOK
<1>1. ASSUME NEW r \in Requests, NEW e \in Emails, FindUser(r, e) PROVE (CompletionOK)'
  BY <1>1 DEF FindUser
<1>2. ASSUME NEW r \in Requests, RequestStep(r) PROVE (CompletionOK)'
  <2>1. CASE WriteArtifact(r) BY <2>1 DEF WriteArtifact
  <2>2. CASE RetainOthers(r) BY <2>2 DEF RetainOthers
  <2>3. CASE InsertSession(r) BY <2>3 DEF InsertSession
  <2>4. CASE DiscardArtifact(r) BY <2>4 DEF DiscardArtifact
  <2>5. CASE RequestFails(r) BY <2>5 DEF RequestFails
  <2> QED BY <1>2, <2>1, <2>2, <2>3, <2>4, <2>5 DEF RequestStep
<1>3. ASSUME NEW c \in Completions, NEW s \in Requests \cup {NoSession},
             NEW right \in BOOLEAN, comp[c].pc \in {"idle", "resolved"},
             TakeEntry(c, s, right)
      PROVE (CompletionOK)'
  BY <1>3 DEF TakeEntry
<1>4. ASSUME NEW c \in Completions, NEW e \in Emails, NEW right \in BOOLEAN,
             ResetPassword(c, e, right)
      PROVE (CompletionOK)'
  BY <1>4 DEF ResetPassword
<1>5. ASSUME NEW c \in Completions, CompletionStep(c) PROVE (CompletionOK)'
  <2>1. CASE ResetPasswordTake(c) BY <2>1 DEF ResetPasswordTake, TakeEntry
  <2>2. CASE RejectSession(c) BY <2>2 DEF RejectSession, Finish, IdleRedemption
  <2>3. CASE WrongPin(c) BY <2>3 DEF WrongPin, Finish, IdleRedemption, Usable, OneMoreAttempt
  <2>4. CASE RightPin(c) BY <2>4 DEF RightPin, Usable
  <2>5. CASE UpdatePassword(c)
    <3>1. CASE comp[c].entry.user \in deleted
      <4>1. /\ comp' = [comp EXCEPT ![c] = IdleRedemption]
            /\ UNCHANGED <<redeemed, tries>>
        BY <2>5, <3>1 DEF UpdatePassword, Finish
      <4>2. comp'[c] = IdleRedemption /\ \A d \in Completions \ {c} : comp'[d] = comp[d]
        BY <4>1
      <4> QED BY <4>1, <4>2 DEF IdleRedemption
    <3>2. CASE comp[c].entry.user \notin deleted
      <4>1. comp[c].sid \in Requests BY <2>5 DEF UpdatePassword
      <4>2. /\ comp' = [comp EXCEPT ![c] = RedemptionAt(c, "cleanup")]
            /\ UNCHANGED <<resetPins, req>>
        BY <2>5, <3>2 DEF UpdatePassword
      <4>3. \A d \in Completions :
               comp'[d].sid = comp[d].sid /\ comp'[d].entry = comp[d].entry
        BY <4>2
      <4> QED BY <2>5, <3>2, <4>1, <4>2, <4>3 DEF UpdatePassword
    <3> QED BY <3>1, <3>2
  <2>6. CASE RemoveArtifact(c) BY <2>6 DEF RemoveArtifact, Finish, IdleRedemption
  <2>7. CASE CompletionFails(c) BY <2>7 DEF CompletionFails, Finish, IdleRedemption
  <2> QED BY <1>5, <2>1, <2>2, <2>3, <2>4, <2>5, <2>6, <2>7 DEF CompletionStep
<1>6. CASE Sweep BY <1>6 DEF Sweep
<1>7. CASE Tick BY <1>7 DEF Tick, Age, Aged
<1>8. CASE SetClockBack BY <1>8 DEF SetClockBack, Age, Aged
<1>9. ASSUME NEW u \in Users, SoftDelete(u) PROVE (CompletionOK)'
  BY <1>9 DEF SoftDelete
<1>10. CASE UNCHANGED vars BY <1>10 DEF vars
<1> HIDE DEF IInv, TypeOK, Entry, PendingReset, Call, Redemption, Emails, Holds,
            SingleCustody, CompletionOK, HistoryOK
<1> QED BY <1>1, <1>2, <1>3, <1>4, <1>5, <1>6, <1>7, <1>8, <1>9, <1>10
       DEF Next, RecoverComplete

\* Only a request with an account gets as far as the insert.
LEMMA RequestStepOK == IInv /\ [Next]_vars => (RequestOK)'
<1> SUFFICES ASSUME IInv, [Next]_vars PROVE (RequestOK)'
  OBVIOUS
<1>0. TypeOK' BY TypeStep
<1> USE <1>0 DEF IInv, TypeOK, Entry, PendingReset, Call, Redemption, Emails, history,
            CallAt, RedemptionAt, Holds, RequestOK
<1>1. ASSUME NEW r \in Requests, NEW e \in Emails, FindUser(r, e) PROVE (RequestOK)'
  BY <1>1 DEF FindUser
<1>2. ASSUME NEW r \in Requests, RequestStep(r) PROVE (RequestOK)'
  <2>1. CASE WriteArtifact(r) BY <2>1 DEF WriteArtifact
  <2>2. CASE RetainOthers(r) BY <2>2 DEF RetainOthers
  <2>3. CASE InsertSession(r) BY <2>3 DEF InsertSession
  <2>4. CASE DiscardArtifact(r) BY <2>4 DEF DiscardArtifact
  <2>5. CASE RequestFails(r) BY <2>5 DEF RequestFails
  <2> QED BY <1>2, <2>1, <2>2, <2>3, <2>4, <2>5 DEF RequestStep
<1>3. ASSUME NEW c \in Completions, NEW s \in Requests \cup {NoSession},
             NEW right \in BOOLEAN, comp[c].pc \in {"idle", "resolved"},
             TakeEntry(c, s, right)
      PROVE (RequestOK)'
  BY <1>3 DEF TakeEntry
<1>4. ASSUME NEW c \in Completions, NEW e \in Emails, NEW right \in BOOLEAN,
             ResetPassword(c, e, right)
      PROVE (RequestOK)'
  BY <1>4 DEF ResetPassword
<1>5. ASSUME NEW c \in Completions, CompletionStep(c) PROVE (RequestOK)'
  <2>1. CASE ResetPasswordTake(c) BY <2>1 DEF ResetPasswordTake, TakeEntry
  <2>2. CASE RejectSession(c) BY <2>2 DEF RejectSession, Finish, IdleRedemption
  <2>3. CASE WrongPin(c) BY <2>3 DEF WrongPin, Finish, IdleRedemption, Usable, OneMoreAttempt
  <2>4. CASE RightPin(c) BY <2>4 DEF RightPin, Usable
  <2>5. CASE UpdatePassword(c) BY <2>5 DEF UpdatePassword, Finish, IdleRedemption
  <2>6. CASE RemoveArtifact(c) BY <2>6 DEF RemoveArtifact, Finish, IdleRedemption
  <2>7. CASE CompletionFails(c) BY <2>7 DEF CompletionFails, Finish, IdleRedemption
  <2> QED BY <1>5, <2>1, <2>2, <2>3, <2>4, <2>5, <2>6, <2>7 DEF CompletionStep
<1>6. CASE Sweep BY <1>6 DEF Sweep
<1>7. CASE Tick BY <1>7 DEF Tick, Age, Aged
<1>8. CASE SetClockBack BY <1>8 DEF SetClockBack, Age, Aged
<1>9. ASSUME NEW u \in Users, SoftDelete(u) PROVE (RequestOK)'
  BY <1>9 DEF SoftDelete
<1>10. CASE UNCHANGED vars BY <1>10 DEF vars
<1> HIDE DEF IInv, TypeOK, Entry, PendingReset, Call, Redemption, Emails, Holds,
            RequestOK
<1> QED BY <1>1, <1>2, <1>3, <1>4, <1>5, <1>6, <1>7, <1>8, <1>9, <1>10
       DEF Next, RecoverComplete

\* A file and a record always belong to the email of their request.
LEMMA FileStep == IInv /\ [Next]_vars => (FileOK)'
<1> SUFFICES ASSUME IInv, [Next]_vars PROVE (FileOK)'
  OBVIOUS
<1>0. TypeOK' BY TypeStep
<1> USE <1>0 DEF IInv, TypeOK, Entry, PendingReset, Call, Redemption, Emails, history,
            CallAt, RedemptionAt, Holds, FileOK, CompletionOK, RequestOK, SingleCustody
<1>1. ASSUME NEW r \in Requests, NEW e \in Emails, FindUser(r, e) PROVE (FileOK)'
  BY <1>1 DEF FindUser
<1>2. ASSUME NEW r \in Requests, RequestStep(r) PROVE (FileOK)'
  <2>1. CASE WriteArtifact(r) BY <2>1 DEF WriteArtifact
  <2>2. CASE RetainOthers(r) BY <2>2 DEF RetainOthers
  <2>3. CASE InsertSession(r) BY <2>3 DEF InsertSession
  <2>4. CASE DiscardArtifact(r) BY <2>4 DEF DiscardArtifact
  <2>5. CASE RequestFails(r) BY <2>5 DEF RequestFails
  <2> QED BY <1>2, <2>1, <2>2, <2>3, <2>4, <2>5 DEF RequestStep
<1>3. ASSUME NEW c \in Completions, NEW s \in Requests \cup {NoSession},
             NEW right \in BOOLEAN, comp[c].pc \in {"idle", "resolved"},
             TakeEntry(c, s, right)
      PROVE (FileOK)'
  BY <1>3 DEF TakeEntry
<1>4. ASSUME NEW c \in Completions, NEW e \in Emails, NEW right \in BOOLEAN,
             ResetPassword(c, e, right)
      PROVE (FileOK)'
  BY <1>4 DEF ResetPassword
<1>5. ASSUME NEW c \in Completions, CompletionStep(c) PROVE (FileOK)'
  <2>1. CASE ResetPasswordTake(c) BY <2>1 DEF ResetPasswordTake, TakeEntry
  <2>2. CASE RejectSession(c) BY <2>2 DEF RejectSession, Finish, IdleRedemption
  <2>3. CASE WrongPin(c) BY <2>3 DEF WrongPin, Finish, IdleRedemption, Usable, OneMoreAttempt
  <2>4. CASE RightPin(c) BY <2>4 DEF RightPin, Usable
  <2>5. CASE UpdatePassword(c) BY <2>5 DEF UpdatePassword, Finish, IdleRedemption
  <2>6. CASE RemoveArtifact(c) BY <2>6 DEF RemoveArtifact, Finish, IdleRedemption
  <2>7. CASE CompletionFails(c) BY <2>7 DEF CompletionFails, Finish, IdleRedemption
  <2> QED BY <1>5, <2>1, <2>2, <2>3, <2>4, <2>5, <2>6, <2>7 DEF CompletionStep
<1>6. CASE Sweep BY <1>6 DEF Sweep
<1>7. CASE Tick BY <1>7 DEF Tick, Age, Aged
<1>8. CASE SetClockBack BY <1>8 DEF SetClockBack, Age, Aged
<1>9. ASSUME NEW u \in Users, SoftDelete(u) PROVE (FileOK)'
  BY <1>9 DEF SoftDelete
<1>10. CASE UNCHANGED vars BY <1>10 DEF vars
<1> HIDE DEF IInv, TypeOK, Entry, PendingReset, Call, Redemption, Emails, Holds,
            FileOK, CompletionOK, RequestOK, SingleCustody
<1> QED BY <1>1, <1>2, <1>3, <1>4, <1>5, <1>6, <1>7, <1>8, <1>9, <1>10
       DEF Next, RecoverComplete

\* No later write brings a removed PIN back.
LEMMA PinGoneStep == IInv /\ [Next]_vars => (RedeemedPinGone)'
<1> SUFFICES ASSUME IInv, [Next]_vars PROVE (RedeemedPinGone)'
  OBVIOUS
<1>0. TypeOK' BY TypeStep
<1> USE <1>0 DEF IInv, TypeOK, Entry, PendingReset, Call, Redemption, Emails, history,
            CallAt, RedemptionAt, Holds, FileOK, RedeemedPinGone, CompletionOK, SingleCustody
<1>1. ASSUME NEW r \in Requests, NEW e \in Emails, FindUser(r, e) PROVE (RedeemedPinGone)'
  BY <1>1 DEF FindUser
<1>2. ASSUME NEW r \in Requests, RequestStep(r) PROVE (RedeemedPinGone)'
  <2>1. CASE WriteArtifact(r) BY <2>1 DEF WriteArtifact
  <2>2. CASE RetainOthers(r) BY <2>2 DEF RetainOthers
  <2>3. CASE InsertSession(r) BY <2>3 DEF InsertSession
  <2>4. CASE DiscardArtifact(r) BY <2>4 DEF DiscardArtifact
  <2>5. CASE RequestFails(r) BY <2>5 DEF RequestFails
  <2> QED BY <1>2, <2>1, <2>2, <2>3, <2>4, <2>5 DEF RequestStep
<1>3. ASSUME NEW c \in Completions, NEW s \in Requests \cup {NoSession},
             NEW right \in BOOLEAN, comp[c].pc \in {"idle", "resolved"},
             TakeEntry(c, s, right)
      PROVE (RedeemedPinGone)'
  BY <1>3 DEF TakeEntry
<1>4. ASSUME NEW c \in Completions, NEW e \in Emails, NEW right \in BOOLEAN,
             ResetPassword(c, e, right)
      PROVE (RedeemedPinGone)'
  BY <1>4 DEF ResetPassword
<1>5. ASSUME NEW c \in Completions, CompletionStep(c) PROVE (RedeemedPinGone)'
  <2>1. CASE ResetPasswordTake(c) BY <2>1 DEF ResetPasswordTake, TakeEntry
  <2>2. CASE RejectSession(c) BY <2>2 DEF RejectSession, Finish, IdleRedemption
  <2>3. CASE WrongPin(c) BY <2>3 DEF WrongPin, Finish, IdleRedemption, Usable, OneMoreAttempt
  <2>4. CASE RightPin(c) BY <2>4 DEF RightPin, Usable
  <2>5. CASE UpdatePassword(c) BY <2>5 DEF UpdatePassword, Finish, IdleRedemption
  <2>6. CASE RemoveArtifact(c) BY <2>6 DEF RemoveArtifact, Finish, IdleRedemption
  <2>7. CASE CompletionFails(c) BY <2>7 DEF CompletionFails, Finish, IdleRedemption
  <2> QED BY <1>5, <2>1, <2>2, <2>3, <2>4, <2>5, <2>6, <2>7 DEF CompletionStep
<1>6. CASE Sweep BY <1>6 DEF Sweep
<1>7. CASE Tick BY <1>7 DEF Tick, Age, Aged
<1>8. CASE SetClockBack BY <1>8 DEF SetClockBack, Age, Aged
<1>9. ASSUME NEW u \in Users, SoftDelete(u) PROVE (RedeemedPinGone)'
  BY <1>9 DEF SoftDelete
<1>10. CASE UNCHANGED vars BY <1>10 DEF vars
<1> HIDE DEF IInv, TypeOK, Entry, PendingReset, Call, Redemption, Emails, Holds,
            FileOK, RedeemedPinGone, CompletionOK, SingleCustody
<1> QED BY <1>1, <1>2, <1>3, <1>4, <1>5, <1>6, <1>7, <1>8, <1>9, <1>10
       DEF Next, RecoverComplete
\* Time passes for a record wherever it waits, and the only way to make it look younger
\* is to set the clock back.
LEMMA AgedOK ==
    ASSUME NEW entry \in PendingReset, NEW j \in Nat, entry.real <= entry.age + j
    PROVE  /\ Aged(entry, 1, 1).real <= Aged(entry, 1, 1).age + j
           /\ Aged(entry, -1, 0).real <= Aged(entry, -1, 0).age + (j + 1)
<1>1. AgeCap \in Nat BY DEF AgeCap
<1>2. entry # Absent /\ entry.age \in Int /\ entry.real \in Nat BY DEF PendingReset
<1> QED BY <1>1, <1>2 DEF Aged, Capped

\* A record is only used while elapsed reports no more than PIN_EXPIRY.
LEMMA AgeStep == IInv /\ [Next]_vars => (AgeOK /\ NoLateRedemption)'
<1> SUFFICES ASSUME IInv, [Next]_vars PROVE (AgeOK /\ NoLateRedemption)'
  OBVIOUS
<1>0. /\ TypeOK /\ TypeOK' /\ CompletionOK /\ AgeOK /\ NoLateRedemption
      /\ jumped \in Nat
  BY TypeStep DEF IInv, TypeOK
<1>00. /\ resetPins \in [Requests -> Entry] /\ comp \in [Completions -> Redemption]
       /\ \A s \in Requests : resetPins[s] # Absent => resetPins[s] \in PendingReset
       /\ \A c \in Completions : comp[c].entry # Absent => comp[c].entry \in PendingReset
  BY <1>0 DEF TypeOK, Entry, Redemption
<1> USE <1>0, <1>00 DEF history, AgeOK, NoLateRedemption
<1>1. ASSUME NEW r \in Requests, NEW e \in Emails, FindUser(r, e)
      PROVE  (AgeOK /\ NoLateRedemption)'
  BY <1>1 DEF FindUser
<1>2. ASSUME NEW r \in Requests, RequestStep(r) PROVE (AgeOK /\ NoLateRedemption)'
  <2>1. CASE WriteArtifact(r) BY <2>1 DEF WriteArtifact
  <2>2. CASE RetainOthers(r) BY <2>2 DEF RetainOthers
  <2>3. CASE InsertSession(r) BY <2>3 DEF InsertSession
  <2>4. CASE DiscardArtifact(r) BY <2>4 DEF DiscardArtifact
  <2>5. CASE RequestFails(r) BY <2>5 DEF RequestFails
  <2> QED BY <1>2, <2>1, <2>2, <2>3, <2>4, <2>5 DEF RequestStep
<1>3. ASSUME NEW c \in Completions, NEW s \in Requests \cup {NoSession},
             NEW right \in BOOLEAN, TakeEntry(c, s, right)
      PROVE  (AgeOK /\ NoLateRedemption)'
  BY <1>3 DEF TakeEntry
<1>4. ASSUME NEW c \in Completions, NEW e \in Emails, NEW right \in BOOLEAN,
             ResetPassword(c, e, right)
      PROVE  (AgeOK /\ NoLateRedemption)'
  BY <1>4 DEF ResetPassword
<1>5. ASSUME NEW c \in Completions, CompletionStep(c)
      PROVE  (AgeOK /\ NoLateRedemption)'
  <2>1. CASE ResetPasswordTake(c) BY <2>1 DEF ResetPasswordTake, TakeEntry
  <2>2. CASE RejectSession(c) BY <2>2 DEF RejectSession, Finish, IdleRedemption
  <2>3. CASE WrongPin(c)
    <3>1. comp' = [comp EXCEPT ![c] = IdleRedemption] /\ jumped' = jumped
      BY <2>3 DEF WrongPin, Finish
    <3>2. \A s \in Requests : resetPins'[s] # resetPins[s] =>
             /\ comp[c].pc = "held" /\ comp[c].entry # Absent
             /\ resetPins'[s] = OneMoreAttempt(comp[c].entry)
      BY <2>3 DEF WrongPin, Usable
    <3> QED BY <3>1, <3>2 DEF IdleRedemption, OneMoreAttempt
  <2>4. CASE RightPin(c)
    <3>1. /\ comp' = [comp EXCEPT ![c] = RedemptionAt(c, "update")]
          /\ UNCHANGED <<resetPins, jumped>>
          /\ comp[c].pc = "held" /\ comp[c].entry # Absent /\ comp[c].entry.age <= PinExpiry
      BY <2>4 DEF RightPin, Usable
    <3>2. comp[c].entry.real <= PinExpiry + jumped
      BY <3>1 DEF PendingReset
    <3> QED BY <3>1, <3>2 DEF RedemptionAt
  <2>5. CASE UpdatePassword(c) BY <2>5 DEF UpdatePassword, Finish, IdleRedemption, RedemptionAt
  <2>6. CASE RemoveArtifact(c) BY <2>6 DEF RemoveArtifact, Finish, IdleRedemption
  <2>7. CASE CompletionFails(c) BY <2>7 DEF CompletionFails, Finish, IdleRedemption
  <2> QED BY <1>5, <2>1, <2>2, <2>3, <2>4, <2>5, <2>6, <2>7 DEF CompletionStep
<1>6. CASE Sweep BY <1>6 DEF Sweep
<1>7. ASSUME NEW wall \in {-1, 1}, NEW real \in {0, 1}, Age(wall, real),
             \/ wall = 1 /\ real = 1 /\ jumped' = jumped
             \/ wall = -1 /\ real = 0 /\ jumped' = jumped + 1
      PROVE  (AgeOK /\ NoLateRedemption)'
  <2>1. \A entry \in PendingReset : entry.real <= entry.age + jumped =>
           Aged(entry, wall, real).real <= Aged(entry, wall, real).age + jumped'
    BY <1>7, AgedOK
  <2>2. \A s \in Requests : resetPins'[s] = Aged(resetPins[s], wall, real)
    BY <1>7 DEF Age
  <2>3. \A c \in Completions :
           /\ comp'[c].pc = comp[c].pc
           /\ comp'[c].entry = IF comp[c].pc = "held" THEN Aged(comp[c].entry, wall, real)
                               ELSE comp[c].entry
    BY <1>7 DEF Age
  <2>4. Aged(Absent, wall, real) = Absent BY DEF Aged
  <2>5. AgeOK' BY <2>1, <2>2, <2>3, <2>4
  <2>6. \A c \in Completions : comp[c].pc = "update" => comp[c].entry.real \in Nat
    BY DEF CompletionOK, PendingReset
  <2>7. NoLateRedemption' BY <1>7, <2>3, <2>6
  <2> QED BY <2>5, <2>7
<1>8. CASE Tick BY <1>7, <1>8 DEF Tick
<1>9. CASE SetClockBack BY <1>7, <1>9 DEF SetClockBack
<1>10. ASSUME NEW u \in Users, SoftDelete(u) PROVE (AgeOK /\ NoLateRedemption)'
  BY <1>10 DEF SoftDelete
<1>11. CASE UNCHANGED vars BY <1>11 DEF vars
<1> HIDE DEF AgeOK, NoLateRedemption
<1> QED BY <1>1, <1>2, <1>3, <1>4, <1>5, <1>6, <1>8, <1>9, <1>10, <1>11
       DEF Next, RecoverComplete

\* The initial state satisfies the inductive invariant.
LEMMA IInvInit == Init => IInv
BY DEF Init, IInv, TypeOK, Entry, PendingReset, Call, Redemption, IdleRedemption, Emails,
       Holds, SingleCustody, HistoryOK, CompletionOK, RequestOK, FileOK, RedeemedPinGone,
       AgeOK, NoLateRedemption

\* IInv holds in every reachable state, whatever is fair.
LEMMA Safety == Init /\ [][Next]_vars => []IInv
<1>1. IInv /\ [Next]_vars => IInv'
  <2> SUFFICES ASSUME IInv, [Next]_vars PROVE IInv'
    OBVIOUS
  <2> QED BY TypeStep, CustodyStep, HistoryStep, CompletionStepOK, RequestStepOK, FileStep,
             PinGoneStep, AgeStep DEF IInv
<1> QED BY IInvInit, <1>1, PTL

\* IInv is an inductive invariant of the specification.
THEOREM InductiveInvariant == Spec => []IInv
BY Safety, PTL DEF Spec

\* Type correctness.
THEOREM TypeCorrect == Spec => []TypeOK
<1>1. IInv => TypeOK BY DEF IInv
<1> QED BY InductiveInvariant, <1>1, PTL

\* The record of a session is in the map or in the hands of one recover_complete
\* call, whatever overlaps.
THEOREM CustodySafe == Spec => []SingleCustody
<1>1. IInv => SingleCustody BY DEF IInv
<1> QED BY InductiveInvariant, <1>1, PTL

\* At most MAX_PIN_ATTEMPTS evaluations of a PIN for one session.
THEOREM AttemptsSafe == Spec => []AttemptsBounded
<1>1. IInv => AttemptsBounded BY DEF IInv, HistoryOK, AttemptsBounded
<1> QED BY InductiveInvariant, <1>1, PTL

\* At most one password change for one session.
THEOREM RedemptionSafe == Spec => []RedeemedOnce
<1>1. IInv => RedeemedOnce BY DEF IInv, TypeOK, HistoryOK, RedeemedOnce
<1> QED BY InductiveInvariant, <1>1, PTL

\* The file of a redeemed and tidied session never shows its PIN again.
THEOREM PinGoneSafe == Spec => []RedeemedPinGone
<1>1. IInv => RedeemedPinGone BY DEF IInv
<1> QED BY InductiveInvariant, <1>1, PTL

\* No password is changed for a session older than PIN_EXPIRY, but for what the wall
\* clock was set back.
THEOREM NotTooLate == Spec => []NoLateRedemption
<1>1. IInv => NoLateRedemption BY DEF IInv
<1> QED BY InductiveInvariant, <1>1, PTL

-----------------------------------------------------------------------------
\* A session is a ticket: before and after a step.
Was(s) == TicketState(resetPins[s], redeemed[s], HeldAt(s, comp), req[s].pc)
Becomes(s) == TicketState(resetPins'[s], redeemed'[s], HeldAt(s, comp'), req'[s].pc)

\* A step that changes no ticket, loses some, or moves one.
LEMMA TicketsStay ==
    ASSUME \A s \in Requests : Becomes(s) = Was(s), UNCHANGED tries
    PROVE  UNCHANGED Ticket!vars
BY DEF Ticket!vars, Was, Becomes

\* What the sweep, a newer request or a failure does.
LEMMA TicketsLost ==
    ASSUME NEW lost \in SUBSET Requests, UNCHANGED tries,
           \A s \in lost : Was(s) # "used" /\ Becomes(s) = "void",
           \A s \in Requests \ lost : Becomes(s) = Was(s)
    PROVE  Ticket!Next
<1>1. Ticket!Void(lost) BY DEF Ticket!Void, Was, Becomes
<1> QED BY <1>1 DEF Ticket!Next

\* A step that loses one.
LEMMA TicketLost ==
    ASSUME NEW s \in Requests, UNCHANGED tries, Was(s) # "used", Becomes(s) = "void",
           \A t \in Requests \ {s} : Becomes(t) = Was(t)
    PROVE  Ticket!Next
<1>1. {s} \in SUBSET Requests OBVIOUS
<1>2. \A t \in {s} : Was(t) # "used" /\ Becomes(t) = "void" OBVIOUS
<1> QED BY <1>1, <1>2, TicketsLost

\* What a step with one session does.
LEMMA TicketMoves ==
    ASSUME NEW s \in Requests, \A t \in Requests \ {s} : Becomes(t) = Was(t),
           \/ /\ UNCHANGED tries
              /\ \/ Was(s) = "unissued" /\ Becomes(s) = "offered"
                 \/ Was(s) = "offered" /\ Becomes(s) = "taken"
                 \/ Was(s) = "accepted" /\ Becomes(s) = "used"
           \/ /\ Was(s) = "taken" /\ tries[s] < MaxPinAttempts
              /\ tries' = [tries EXCEPT ![s] = @ + 1]
              /\ \/ Becomes(s) = "accepted"
                 \/ tries'[s] < MaxPinAttempts /\ Becomes(s) = "offered"
                 \/ tries'[s] = MaxPinAttempts /\ Becomes(s) = "void"
    PROVE  Ticket!Next
<1>1. \A to : Becomes(s) = to => Ticket!Becomes(s, to) BY DEF Ticket!Becomes, Was, Becomes
<1>2. Ticket!Issue(s) \/ Ticket!Take(s) \/ Ticket!Use(s) \/ Ticket!Try(s)
  BY <1>1 DEF Ticket!Issue, Ticket!Take, Ticket!Use, Ticket!Try, Was
<1> QED BY <1>2 DEF Ticket!Next

\* The state of a ticket, by where the record of its session is.
LEMMA Places ==
    ASSUME IInv, NEW s \in Requests
    PROVE  /\ resetPins[s] # Absent => HeldAt(s, comp) = {} /\ redeemed[s] = 0 /\ req[s].pc = "done"
           /\ req[s].pc # "done" => HeldAt(s, comp) = {} /\ redeemed[s] = 0 /\ resetPins[s] = Absent
           /\ \A c \in Completions : Holds(c, s) => HeldAt(s, comp) = {comp[c].pc} /\ req[s].pc = "done"
BY DEF IInv, SingleCustody, HistoryOK, HeldAt, Holds

\* A step of a completion is no concern of a session it has nothing to do with.
LEMMA HeldElsewhere ==
    ASSUME IInv, NEW c \in Completions, NEW q, comp' = [comp EXCEPT ![c] = q], NEW s \in Requests,
           comp[c].sid # s \/ comp[c].entry = Absent, q.sid # s \/ q.entry = Absent
    PROVE  HeldAt(s, comp') = HeldAt(s, comp)
<1>1. comp'[c] = q /\ \A d \in Completions \ {c} : comp'[d] = comp[d] BY DEF IInv, TypeOK
<1> QED BY <1>1 DEF HeldAt

\* Who holds a session's record may keep it or let it go.
LEMMA HeldHere ==
    ASSUME IInv, NEW c \in Completions, NEW q, comp' = [comp EXCEPT ![c] = q], NEW s \in Requests,
           Holds(c, s)
    PROVE  HeldAt(s, comp') = IF q.sid = s /\ q.entry # Absent THEN {q.pc} ELSE {}
<1>1. comp'[c] = q /\ \A d \in Completions \ {c} : comp'[d] = comp[d] BY DEF IInv, TypeOK
<1>2. \A d \in Completions \ {c} : ~Holds(d, s) BY DEF IInv, SingleCustody
<1> QED BY <1>1, <1>2 DEF HeldAt, Holds

\* An entry that ages is still an entry.
LEMMA AgedStays ==
    ASSUME NEW entry \in Entry, NEW w \in {1, -1}, NEW r \in {0, 1}
    PROVE  Aged(entry, w, r) = Absent <=> entry = Absent
<1>1. CASE entry = Absent BY <1>1 DEF Aged
<1>2. CASE entry # Absent
  <2>1. entry \in PendingReset BY <1>2 DEF Entry
  <2>2. /\ entry.user \in Users /\ entry.attempts \in 0 .. MaxPinAttempts - 1
        /\ entry.age \in Int /\ entry.real \in Nat
    BY <2>1 DEF PendingReset
  <2>3. Capped(entry.age + w) \in Int /\ Capped(entry.real + r) \in Nat
    BY <2>2 DEF Capped, AgeCap
  <2>4. Aged(entry, w, r) \in PendingReset BY <1>2, <2>2, <2>3 DEF Aged, PendingReset
  <2> QED BY <1>2, <2>4
<1> QED BY <1>1, <1>2

\* The next two say it of the entries and calls as they stand.
LEMMA AgedKeeps ==
    ASSUME IInv, NEW w \in {1, -1}, NEW r \in {0, 1}, Age(w, r), NEW s \in Requests
    PROVE  (resetPins'[s] = Absent <=> resetPins[s] = Absent) /\ HeldAt(s, comp') = HeldAt(s, comp)
<1>1. resetPins'[s] = Absent <=> resetPins[s] = Absent
  BY AgedStays DEF IInv, TypeOK, Age
<1>2. ASSUME NEW d \in Completions
      PROVE  /\ comp'[d].pc = comp[d].pc /\ comp'[d].sid = comp[d].sid
             /\ comp'[d].entry = Absent <=> comp[d].entry = Absent
  <2>1. comp[d].entry \in Entry BY DEF IInv, TypeOK, Redemption
  <2> QED BY <2>1, AgedStays DEF Age
<1> QED BY <1>1, <1>2 DEF HeldAt

\* Taking the entry out of the map takes the ticket, if there is one.
LEMMA TicketTaken ==
    ASSUME IInv, NEW c \in Completions, NEW s \in Requests \cup {NoSession}, NEW right \in BOOLEAN,
           comp[c].pc \in {"idle", "resolved"}, TakeEntry(c, s, right)
    PROVE  [Ticket!Next]_Ticket!vars
<1> DEFINE e == IF s \in Requests THEN resetPins[s] ELSE Absent
           q == [pc |-> "held", sid |-> s, right |-> right, entry |-> e]
<1>1. comp' = [comp EXCEPT ![c] = q] /\ comp[c].entry = Absent /\ UNCHANGED <<req, tries, redeemed>>
  BY DEF TakeEntry, IInv, CompletionOK, history
<1>2. q.sid = s /\ q.entry = e /\ q.pc = "held" OBVIOUS
<1> HIDE DEF q
<1>3. ASSUME NEW t \in Requests, t # s PROVE Becomes(t) = Was(t)
  <2>1. resetPins'[t] = resetPins[t] BY <1>3 DEF TakeEntry
  <2>2. HeldAt(t, comp') = HeldAt(t, comp) BY <1>1, <1>3, <1>2, HeldElsewhere
  <2> QED BY <1>1, <2>1, <2>2 DEF Was, Becomes
<1>4. CASE s \in Requests /\ resetPins[s] # Absent
  <2>1. Was(s) = "offered" BY <1>4 DEF Was, TicketState
  <2>2. HeldAt(s, comp) = {} /\ redeemed[s] = 0 BY <1>4, Places
  <2>3. "held" \in HeldAt(s, comp')
    <3>1. comp'[c] = q BY <1>1 DEF IInv, TypeOK
    <3> QED BY <1>4, <1>2, <3>1 DEF HeldAt
  <2>4. resetPins'[s] = Absent BY <1>4 DEF TakeEntry
  <2>5. Becomes(s) = "taken" BY <1>1, <2>2, <2>3, <2>4 DEF Becomes, TicketState
  <2> QED BY <1>1, <1>3, <1>4, <2>1, <2>5, TicketMoves
<1>5. CASE s \in Requests /\ resetPins[s] = Absent
  <2>0. s \in Requests /\ q.entry = Absent BY <1>5, <1>2
  <2>1. HeldAt(s, comp') = HeldAt(s, comp) BY <1>1, <2>0, HeldElsewhere
  <2>2. resetPins'[s] = Absent BY <1>5 DEF TakeEntry
  <2>3. Becomes(s) = Was(s) BY <1>1, <1>5, <2>1, <2>2 DEF Was, Becomes
  <2> QED BY <1>1, <1>3, <2>3, TicketsStay
<1>6. CASE s \notin Requests BY <1>1, <1>3, <1>6, TicketsStay
<1> QED BY <1>4, <1>5, <1>6

\* Each step of a request.
LEMMA TicketRequest ==
    ASSUME IInv, NEW r \in Requests,
           (\E e \in Emails : FindUser(r, e)) \/ RequestStep(r)
    PROVE  [Ticket!Next]_Ticket!vars
<1> USE DEF history
<1>1. ASSUME NEW to, to # "done", req[r].pc # "done", req'[r].pc = to,
             \A t \in Requests \ {r} : req'[t] = req[t],
             UNCHANGED <<resetPins, comp, tries, redeemed>>
      PROVE  [Ticket!Next]_Ticket!vars
  <2>1. \A t \in Requests : Becomes(t) = Was(t) BY <1>1 DEF Was, Becomes, TicketState
  <2> QED BY <1>1, <2>1, TicketsStay
<1>2. ASSUME NEW to \in {"retained", "done"}, req' = [req EXCEPT ![r] = CallAt(r, to)]
      PROVE  req'[r].pc = to /\ \A t \in Requests \ {r} : req'[t] = req[t]
  BY <1>2 DEF IInv, TypeOK, CallAt
<1>3. ASSUME NEW e \in Emails, FindUser(r, e) PROVE [Ticket!Next]_Ticket!vars
  <2>1. req'[r].pc = "found" /\ \A t \in Requests \ {r} : req'[t] = req[t]
    BY <1>3 DEF IInv, TypeOK, FindUser
  <2> QED BY <1>1, <1>3, <2>1 DEF FindUser
<1>4. CASE WriteArtifact(r)
  <2>1. req'[r].pc = "written" /\ \A t \in Requests \ {r} : req'[t] = req[t]
    BY <1>4 DEF IInv, TypeOK, WriteArtifact, CallAt
  <2> QED BY <1>1, <1>4, <2>1 DEF WriteArtifact
<1>5. CASE RequestFails(r)
  <2>1. req'[r].pc = "failed" /\ \A t \in Requests \ {r} : req'[t] = req[t]
    BY <1>5 DEF IInv, TypeOK, RequestFails, CallAt
  <2> QED BY <1>1, <1>5, <2>1 DEF RequestFails
<1>6. CASE RetainOthers(r)
  <2> DEFINE lost == {s \in Requests : resetPins[s] # Absent /\ resetPins[s].user = req[r].user}
  <2>1. /\ req'[r].pc = "retained" /\ \A t \in Requests \ {r} : req'[t] = req[t]
        /\ req[r].pc # "done" /\ UNCHANGED <<comp, tries, redeemed>>
        /\ \A s \in Requests : resetPins'[s] = IF s \in lost THEN Absent ELSE resetPins[s]
    BY <1>2, <1>6 DEF RetainOthers
  <2>2. ASSUME NEW s \in lost PROVE Was(s) # "used" /\ Becomes(s) = "void"
    <3>1. s \in Requests /\ resetPins[s] # Absent OBVIOUS
    <3>2. HeldAt(s, comp) = {} /\ redeemed[s] = 0 /\ req[s].pc = "done" BY <3>1, Places
    <3>3. s # r /\ req'[s].pc = "done" BY <2>1, <3>1, <3>2
    <3> QED BY <2>1, <3>1, <3>2, <3>3 DEF Was, Becomes, TicketState
  <2>3. ASSUME NEW s \in Requests \ lost PROVE Becomes(s) = Was(s)
    BY <2>1 DEF Was, Becomes, TicketState
  <2> HIDE DEF lost
  <2>4. lost \in SUBSET Requests BY DEF lost
  <2> QED BY <2>1, <2>2, <2>3, <2>4, TicketsLost
<1>7. CASE InsertSession(r)
  <2>1. /\ req'[r].pc = "done" /\ \A t \in Requests \ {r} : req'[t] = req[t]
        /\ req[r].pc = "retained" /\ UNCHANGED <<comp, tries, redeemed>>
        /\ \A t \in Requests \ {r} : resetPins'[t] = resetPins[t]
        /\ resetPins'[r] = [user |-> req[r].user, attempts |-> 0, age |-> 0, real |-> 0]
    BY <1>2, <1>7 DEF InsertSession, IInv, TypeOK
  <2>2. \A t \in Requests \ {r} : Becomes(t) = Was(t) BY <2>1 DEF Was, Becomes
  <2>3. Was(r) = "unissued" BY <2>1, Places DEF Was, TicketState
  <2>4. resetPins'[r] # Absent
    <3>1. req[r].user \in Users BY <2>1 DEF IInv, TypeOK, Call, RequestOK
    <3>2. resetPins'[r] \in PendingReset BY <2>1, <3>1 DEF PendingReset
    <3> QED BY <3>2
  <2>5. Becomes(r) = "offered" BY <2>4 DEF Becomes, TicketState
  <2> QED BY <2>1, <2>2, <2>3, <2>5, TicketMoves
<1>8. CASE DiscardArtifact(r)
  <2>1. /\ req'[r].pc = "done" /\ \A t \in Requests \ {r} : req'[t] = req[t]
        /\ req[r].pc = "written" /\ UNCHANGED <<comp, tries, redeemed, resetPins>>
    BY <1>2, <1>8 DEF DiscardArtifact
  <2>2. \A t \in Requests \ {r} : Becomes(t) = Was(t) BY <2>1 DEF Was, Becomes
  <2>3. Was(r) = "unissued" /\ Becomes(r) = "void" BY <2>1, Places DEF Was, Becomes, TicketState
  <2>4. Was(r) # "used" BY <2>3
  <2> QED BY <2>1, <2>2, <2>3, <2>4, TicketLost
<1> QED BY <1>3, <1>4, <1>5, <1>6, <1>7, <1>8 DEF RequestStep

\* A completion lets go of what it holds.
LEMMA TicketLetGo ==
    ASSUME IInv, NEW c \in Completions, Finish(c), UNCHANGED <<resetPins, req, tries>>,
           comp[c].pc \in {"held", "update", "cleanup"},
           \/ UNCHANGED redeemed
           \/ comp[c].pc = "update" /\ redeemed' = [redeemed EXCEPT ![comp[c].sid] = @ + 1]
    PROVE  [Ticket!Next]_Ticket!vars
<1>1. comp' = [comp EXCEPT ![c] = IdleRedemption] /\ IdleRedemption.entry = Absent
  BY DEF Finish, IdleRedemption
<1>2. CASE comp[c].entry = Absent
  <2>1. \A t \in Requests : HeldAt(t, comp') = HeldAt(t, comp) BY <1>1, <1>2, HeldElsewhere
  <2>2. UNCHANGED redeemed BY <1>2 DEF IInv, CompletionOK
  <2>3. \A t \in Requests : Becomes(t) = Was(t) BY <2>1, <2>2 DEF Was, Becomes
  <2> QED BY <2>3, TicketsStay
<1>3. CASE comp[c].entry # Absent
  <2>1. PICK s \in Requests : s = comp[c].sid BY <1>3 DEF IInv, CompletionOK
  <2>2. Holds(c, s) BY <1>3, <2>1 DEF Holds
  <2>3. HeldAt(s, comp) = {comp[c].pc} /\ req[s].pc = "done" /\ resetPins[s] = Absent
    BY <2>2, Places DEF IInv, SingleCustody
  <2>4. HeldAt(s, comp') = {} BY <1>1, <2>2, HeldHere
  <2>5. ASSUME NEW t \in Requests \ {s} PROVE Becomes(t) = Was(t)
    <3>1. HeldAt(t, comp') = HeldAt(t, comp) BY <1>1, <2>1, HeldElsewhere
    <3>2. redeemed'[t] = redeemed[t] BY <2>1 DEF IInv, TypeOK
    <3> QED BY <3>1, <3>2 DEF Was, Becomes
  <2>6. CASE UNCHANGED redeemed /\ redeemed[s] > 0
    <3>1. Becomes(s) = Was(s) BY <2>3, <2>6 DEF Was, Becomes, TicketState
    <3> QED BY <2>5, <3>1, TicketsStay
  <2>7. CASE UNCHANGED redeemed /\ ~(redeemed[s] > 0)
    <3>1. Was(s) # "used" /\ Becomes(s) = "void"
      BY <2>3, <2>4, <2>7 DEF Was, Becomes, TicketState
    <3> QED BY <2>5, <3>1, TicketLost
  <2>8. CASE comp[c].pc = "update" /\ redeemed' = [redeemed EXCEPT ![comp[c].sid] = @ + 1]
    <3>1. redeemed[s] = 0 /\ redeemed'[s] = 1
      BY <1>3, <2>1, <2>8 DEF IInv, TypeOK, CompletionOK
    <3>2. Was(s) = "accepted" /\ Becomes(s) = "used"
      BY <2>3, <2>8, <3>1 DEF Was, Becomes, TicketState
    <3> QED BY <2>5, <3>2, TicketMoves
  <2> QED BY <2>6, <2>7, <2>8
<1> QED BY <1>2, <1>3

\* Each step of a completion.
LEMMA TicketCompletion ==
    ASSUME IInv, NEW c \in Completions, CompletionStep(c)
    PROVE  [Ticket!Next]_Ticket!vars
<1> USE DEF history
<1>1. CASE ResetPasswordTake(c)
  <2>1. /\ comp[c].sid \in Requests \cup {NoSession} /\ comp[c].right \in BOOLEAN
        /\ comp[c].pc = "resolved" /\ TakeEntry(c, comp[c].sid, comp[c].right)
    BY <1>1 DEF ResetPasswordTake, IInv, TypeOK, Redemption
  <2>2. PICK s \in Requests \cup {NoSession}, right \in BOOLEAN : TakeEntry(c, s, right)
    BY <2>1
  <2> QED BY <2>1, <2>2, TicketTaken
<1>2. CASE RejectSession(c) BY <1>2, TicketLetGo DEF RejectSession
<1>3. CASE WrongPin(c)
  <2>1. /\ comp[c].pc = "held" /\ comp[c].entry # Absent /\ Finish(c) /\ UNCHANGED <<req, redeemed>>
        /\ tries' = [tries EXCEPT ![comp[c].sid] = @ + 1]
    BY <1>3 DEF WrongPin, Usable
  <2>2. PICK s \in Requests : s = comp[c].sid BY <2>1 DEF IInv, CompletionOK
  <2>3. Holds(c, s) BY <2>1, <2>2 DEF Holds
  <2>4. HeldAt(s, comp) = {"held"} /\ req[s].pc = "done" /\ resetPins[s] = Absent /\ redeemed[s] = 0
    BY <2>1, <2>2, <2>3, Places DEF IInv, SingleCustody, CompletionOK
  <2>5. Was(s) = "taken" BY <2>4 DEF Was, TicketState
  <2>6. comp' = [comp EXCEPT ![c] = IdleRedemption] /\ IdleRedemption.entry = Absent
    BY <2>1 DEF Finish, IdleRedemption
  <2>7. HeldAt(s, comp') = {} BY <2>3, <2>6, HeldHere
  <2>8. ASSUME NEW t \in Requests \ {s} PROVE Becomes(t) = Was(t)
    <3>1. HeldAt(t, comp') = HeldAt(t, comp) BY <2>2, <2>6, HeldElsewhere
    <3>2. resetPins'[t] = resetPins[t] BY <1>3, <2>2 DEF WrongPin, IInv, TypeOK
    <3> QED BY <2>1, <3>1, <3>2 DEF Was, Becomes
  <2>9. /\ comp[c].entry.attempts = tries[s] /\ tries[s] \in Nat
        /\ comp[c].entry \in PendingReset /\ tries[s] < MaxPinAttempts
    BY <2>1, <2>2 DEF IInv, CompletionOK, TypeOK, Redemption, Entry, PendingReset
  <2>10. tries' = [tries EXCEPT ![s] = @ + 1] /\ tries'[s] = tries[s] + 1
    BY <2>1, <2>2 DEF IInv, TypeOK
  <2>11. CASE tries[s] + 1 < MaxPinAttempts
    <3>1. resetPins'[s] = OneMoreAttempt(comp[c].entry)
      BY <1>3, <2>2, <2>9, <2>11 DEF WrongPin, IInv, TypeOK
    <3>2. OneMoreAttempt(comp[c].entry) \in PendingReset
      BY <2>9, <2>11 DEF OneMoreAttempt, PendingReset
    <3>3. Becomes(s) = "offered" BY <3>1, <3>2 DEF Becomes, TicketState
    <3> QED BY <2>5, <2>8, <2>9, <2>10, <2>11, <3>3, TicketMoves
  <2>12. CASE ~(tries[s] + 1 < MaxPinAttempts)
    <3>1. resetPins'[s] = Absent BY <1>3, <2>4, <2>9, <2>12 DEF WrongPin
    <3>2. Becomes(s) = "void" BY <2>1, <2>4, <2>7, <3>1 DEF Becomes, TicketState
    <3>3. tries'[s] = MaxPinAttempts BY <2>9, <2>10, <2>12
    <3> QED BY <2>5, <2>8, <2>9, <2>10, <3>2, <3>3, TicketMoves
  <2> QED BY <2>11, <2>12
<1>4. CASE RightPin(c)
  <2>1. /\ comp[c].pc = "held" /\ comp[c].entry # Absent /\ UNCHANGED <<resetPins, req, redeemed>>
        /\ tries' = [tries EXCEPT ![comp[c].sid] = @ + 1]
        /\ comp' = [comp EXCEPT ![c] = RedemptionAt(c, "update")]
    BY <1>4 DEF RightPin, Usable
  <2>2. PICK s \in Requests : s = comp[c].sid BY <2>1 DEF IInv, CompletionOK
  <2>3. Holds(c, s) BY <2>1, <2>2 DEF Holds
  <2>4. HeldAt(s, comp) = {"held"} /\ req[s].pc = "done" /\ resetPins[s] = Absent /\ redeemed[s] = 0
    BY <2>1, <2>2, <2>3, Places DEF IInv, SingleCustody, CompletionOK
  <2>5. Was(s) = "taken" BY <2>4 DEF Was, TicketState
  <2>6. PICK q : q = RedemptionAt(c, "update") OBVIOUS
  <2>7. comp' = [comp EXCEPT ![c] = q] /\ q.sid = s /\ q.entry # Absent /\ q.pc = "update"
    BY <2>1, <2>2, <2>6 DEF RedemptionAt
  <2>8. HeldAt(s, comp') = {"update"} BY <2>3, <2>7, HeldHere
  <2>9. Becomes(s) = "accepted"
    <3>1. "held" \notin HeldAt(s, comp') /\ "update" \in HeldAt(s, comp') BY <2>8
    <3>2. req'[s].pc = "done" /\ resetPins'[s] = Absent /\ redeemed'[s] = 0 BY <2>1, <2>4
    <3> QED BY <3>1, <3>2 DEF Becomes, TicketState
  <2>10. ASSUME NEW t \in Requests \ {s} PROVE Becomes(t) = Was(t)
    <3>1. HeldAt(t, comp') = HeldAt(t, comp) BY <2>2, <2>7, HeldElsewhere
    <3> QED BY <2>1, <3>1 DEF Was, Becomes
  <2>11. tries[s] < MaxPinAttempts
    BY <2>1, <2>2 DEF IInv, CompletionOK, TypeOK, Redemption, Entry, PendingReset
  <2> QED BY <2>1, <2>2, <2>5, <2>9, <2>10, <2>11, TicketMoves
<1>5. CASE UpdatePassword(c)
  <2>1. CASE comp[c].entry.user \in deleted
    BY <1>5, <2>1, TicketLetGo DEF UpdatePassword
  <2>2. CASE comp[c].entry.user \notin deleted
    <3>1. /\ comp[c].pc = "update" /\ UNCHANGED <<resetPins, req, tries>>
          /\ redeemed' = [redeemed EXCEPT ![comp[c].sid] = @ + 1]
          /\ comp' = [comp EXCEPT ![c] = RedemptionAt(c, "cleanup")]
      BY <1>5, <2>2 DEF UpdatePassword
    <3>2. comp[c].entry # Absent BY <3>1 DEF IInv, CompletionOK
    <3>3. PICK s \in Requests : s = comp[c].sid BY <3>2 DEF IInv, CompletionOK
    <3>4. Holds(c, s) BY <3>2, <3>3 DEF Holds
    <3>5. HeldAt(s, comp) = {"update"} /\ resetPins[s] = Absent /\ redeemed[s] = 0
      BY <3>1, <3>2, <3>3, <3>4, Places DEF IInv, SingleCustody, CompletionOK
    <3>6. redeemed'[s] = 1 BY <3>1, <3>3, <3>5 DEF IInv, TypeOK
    <3>7. Was(s) = "accepted" /\ Becomes(s) = "used"
      BY <3>1, <3>5, <3>6 DEF Was, Becomes, TicketState
    <3>8. PICK q : q = RedemptionAt(c, "cleanup") OBVIOUS
    <3>9. comp' = [comp EXCEPT ![c] = q] /\ q.sid = s BY <3>1, <3>3, <3>8 DEF RedemptionAt
    <3>10. ASSUME NEW t \in Requests \ {s} PROVE Becomes(t) = Was(t)
      <4>1. HeldAt(t, comp') = HeldAt(t, comp) BY <3>3, <3>9, HeldElsewhere
      <4>2. redeemed'[t] = redeemed[t] BY <3>1, <3>3 DEF IInv, TypeOK
      <4> QED BY <3>1, <4>1, <4>2 DEF Was, Becomes
    <3> QED BY <3>1, <3>7, <3>10, TicketMoves
  <2> QED BY <2>1, <2>2
<1>6. CASE RemoveArtifact(c) BY <1>6, TicketLetGo DEF RemoveArtifact
<1>7. CASE CompletionFails(c) BY <1>7, TicketLetGo DEF CompletionFails
<1> QED BY <1>1, <1>2, <1>3, <1>4, <1>5, <1>6, <1>7 DEF CompletionStep

\* Every step of the specification is a step of PinTicket, or none.
LEMMA TicketStep == IInv /\ [Next]_vars => [Ticket!Next]_Ticket!vars
<1> SUFFICES ASSUME IInv, [Next]_vars PROVE [Ticket!Next]_Ticket!vars
  OBVIOUS
<1> USE DEF history
<1>1. ASSUME NEW c \in Completions, NEW e \in Emails, NEW right \in BOOLEAN,
             ResetPassword(c, e, right)
      PROVE  [Ticket!Next]_Ticket!vars
  <2>1. PICK s : comp' = [comp EXCEPT ![c] = [pc |-> "resolved", sid |-> s, right |-> right, entry |-> Absent]]
    BY <1>1 DEF ResetPassword
  <2>2. PICK q : q = [pc |-> "resolved", sid |-> s, right |-> right, entry |-> Absent] OBVIOUS
  <2>3. comp' = [comp EXCEPT ![c] = q] /\ q.entry = Absent BY <2>1, <2>2
  <2>4. comp[c].entry = Absent BY <1>1 DEF ResetPassword, IInv, CompletionOK
  <2>5. \A t \in Requests : HeldAt(t, comp') = HeldAt(t, comp) BY <2>3, <2>4, HeldElsewhere
  <2>6. \A t \in Requests : Becomes(t) = Was(t) BY <1>1, <2>5 DEF ResetPassword, Was, Becomes
  <2> QED BY <1>1, <2>6, TicketsStay DEF ResetPassword
<1>2. ASSUME NEW c \in Completions, NEW s \in Requests \cup {NoSession}, NEW right \in BOOLEAN,
             RecoverComplete(c, s, right)
      PROVE  [Ticket!Next]_Ticket!vars
  BY <1>2, TicketTaken DEF RecoverComplete
<1>3. CASE Sweep
  <2> DEFINE lost == {s \in Requests : resetPins[s] # Absent /\ ElapsedOrZero(resetPins[s]) >= PinExpiry}
  <2>1. /\ UNCHANGED <<comp, req, tries, redeemed>>
        /\ \A s \in Requests : resetPins'[s] = IF s \in lost THEN Absent ELSE resetPins[s]
    <3>1. ASSUME NEW s \in Requests, resetPins[s] # Absent PROVE ElapsedOrZero(resetPins[s]) \in Int
      BY <3>1 DEF IInv, TypeOK, Entry, PendingReset, ElapsedOrZero
    <3> QED BY <1>3, <3>1 DEF Sweep
  <2>2. ASSUME NEW s \in lost PROVE Was(s) # "used" /\ Becomes(s) = "void"
    <3>1. s \in Requests /\ resetPins[s] # Absent OBVIOUS
    <3>2. HeldAt(s, comp) = {} /\ redeemed[s] = 0 /\ req[s].pc = "done" BY <3>1, Places
    <3> QED BY <2>1, <3>1, <3>2 DEF Was, Becomes, TicketState
  <2>3. ASSUME NEW s \in Requests \ lost PROVE Becomes(s) = Was(s)
    BY <2>1 DEF Was, Becomes
  <2> HIDE DEF lost
  <2>4. lost \in SUBSET Requests BY DEF lost
  <2> QED BY <2>1, <2>2, <2>3, <2>4, TicketsLost
<1>4. ASSUME NEW w \in {1, -1}, NEW r \in {0, 1}, Age(w, r) PROVE [Ticket!Next]_Ticket!vars
  <2>1. \A s \in Requests : /\ resetPins'[s] = Absent <=> resetPins[s] = Absent
                            /\ HeldAt(s, comp') = HeldAt(s, comp)
    BY <1>4, AgedKeeps
  <2>2. \A s \in Requests : Becomes(s) = Was(s) BY <1>4, <2>1 DEF Age, Was, Becomes, TicketState
  <2> QED BY <1>4, <2>2, TicketsStay DEF Age
<1>5. Tick => [Ticket!Next]_Ticket!vars BY <1>4 DEF Tick
<1>6. SetClockBack => [Ticket!Next]_Ticket!vars BY <1>4 DEF SetClockBack
<1>7. ASSUME UNCHANGED <<resetPins, comp, req, tries, redeemed>> PROVE [Ticket!Next]_Ticket!vars
  <2>1. \A s \in Requests : Becomes(s) = Was(s) BY <1>7 DEF Was, Becomes
  <2> QED BY <1>7, <2>1, TicketsStay
<1>8. ASSUME NEW u \in Users, SoftDelete(u) PROVE [Ticket!Next]_Ticket!vars
  BY <1>7, <1>8 DEF SoftDelete
<1>9. CASE UNCHANGED vars BY <1>7, <1>9 DEF vars
<1> QED BY <1>1, <1>2, <1>3, <1>5, <1>6, <1>8, <1>9, TicketRequest, TicketCompletion DEF Next

\* At first no ticket is issued.
LEMMA TicketInit == Init => Ticket!Init
<1> SUFFICES ASSUME Init PROVE Ticket!Init OBVIOUS
<1>1. ASSUME NEW s \in Requests PROVE Was(s) = "unissued"
  <2>1. HeldAt(s, comp) = {} BY DEF Init, IdleRedemption, HeldAt
  <2> QED BY <2>1 DEF Init, Was, TicketState
<1> QED BY <1>1 DEF Init, Ticket!Init, Was

\* Handlers that interleave on the map, hang up and race the sweep and the clock implement
\* PinTicket: a session is issued once, in one place, tried boundedly and used once.
THEOREM TicketsSafe == Spec => SessionsAreTickets
BY TicketInit, TicketStep, InductiveInvariant, PTL DEF Spec, SessionsAreTickets, Ticket!Spec

-----------------------------------------------------------------------------
\* The components side by side: a step of the whole is a step of each or leaves it.

\* The active profile moves by steps of ActiveProfile.
LEMMA ProfileMoves == [MCNext]_allVars => [Profile!Next]_Profile!vars
<1> SUFFICES ASSUME [MCNext]_allVars PROVE [Profile!Next]_Profile!vars
  OBVIOUS
<1>1. CASE UNCHANGED allVars
  BY <1>1 DEF allVars, profileVars, Profile!vars, Profile!files, Profile!users, Profile!history
<1>2. CASE part = "profile" /\ ProfileNext
  BY <1>2 DEF ProfileNext, Profile!Next, Profile!SwitchStep, Profile!PersistStep, Profile!FileStep
<1>3. CASE UNCHANGED profileVars BY <1>3 DEF profileVars, Profile!vars, Profile!files, Profile!users,
     Profile!history
<1> QED BY <1>1, <1>2, <1>3 DEF MCNext, Only

\* The PIN sessions move by steps of PinRecovery.
LEMMA PinMoves == [MCNext]_allVars => [Next]_vars
<1>1. CASE UNCHANGED allVars BY <1>1 DEF allVars
<1>2. CASE part = "pin" /\ PinNext BY <1>2 DEF PinNext, Next
<1> QED BY <1>1, <1>2 DEF MCNext, Only

\* Side by side with the other components, a session is in one place, sees at most
\* MAX_PIN_ATTEMPTS PINs, changes one password, in time, and leaves no PIN behind.
THEOREM PinsHold ==
    MCSpec => [](SingleCustody /\ AttemptsBounded /\ RedeemedOnce /\ RedeemedPinGone
                 /\ NoLateRedemption)
<1>1. MCInit => Init BY DEF MCInit
<1>2. IInv => SingleCustody /\ AttemptsBounded /\ RedeemedOnce /\ RedeemedPinGone
              /\ NoLateRedemption
  BY DEF IInv, TypeOK, HistoryOK, AttemptsBounded, RedeemedOnce
<1> QED BY <1>1, <1>2, PinMoves, Safety, PTL DEF MCSpec

\* Side by side with the other components, a session is a ticket.
THEOREM TicketsHold == MCSpec => SessionsAreTickets
<1>1. MCInit => Init BY DEF MCInit
<1> QED BY <1>1, PinMoves, Safety, TicketInit, TicketStep, PTL
        DEF MCSpec, SessionsAreTickets, Ticket!Spec

\* Side by side with the other components, memory and file agree unless something
\* disturbed them, and the file is whole.
THEOREM ProfilesKept == MCSpec => []ProfileKept
<1>1. MCInit => Profile!Init BY DEF MCInit
<1>2. Profile!CallersAssumption BY ProfileConstants
<1>3. Profile!ProfileKept => ProfileKept BY DEF ProfileKept
<1> QED BY <1>1, <1>2, <1>3, ProfileMoves, Profile!Kept, PTL DEF MCSpec, Profile!Spec

\* Side by side with the other components, whoever signed in to production and went to
\* the demo profile can go back.
THEOREM ReturnsKept == MCSpec => []ReturnTrip
<1>1. MCInit => Profile!Init BY DEF MCInit
<1>2. Profile!CallersAssumption BY ProfileConstants
<1>3. Profile!ReturnTrip => ReturnTrip BY DEF ReturnTrip
<1> QED BY <1>1, <1>2, <1>3, ProfileMoves, Profile!Returned, PTL DEF MCSpec, Profile!Spec

-----------------------------------------------------------------------------
\* The request path.

Extensions == [user : Path!Session \cup {Nobody}, from : {"session", "auto"},
               db : Path!Profiles \cup {Nobody}, ip : {"peer", "client"},
               then : Path!Accounts \cup {Nobody}]

PathTypeOK ==
    /\ active \in Path!Profiles
    /\ account \in Path!Accounts
    /\ session \in Path!Session \cup {Nobody}
    /\ DOMAIN layer = Path!Incoming
    /\ seen \in [Path!Incoming -> Extensions]

Gated == {"gate", "login", "find_admin", "auto_login", "handler", "handled"}

\* What a layer may rely on of those before it: the host is admitted, the accounts were
\* at least as they are when it came, its user was signed in with them, the CSRF check
\* is passed, the database is that of its session.
LayerOK(r) ==
    /\ layer[r] \in {"forwarded", "auth", "csrf", "database"} \cup Gated =>
          /\ request[r].host \in Path!Admitted
          /\ seen[r].then # Nobody
          /\ \A p \in Path!Profiles :
                /\ account[p].there => seen[r].then[p].there
                /\ seen[r].then[p].hash <= account[p].hash
    /\ layer[r] \in {"host", "forwarded", "auth"} =>
          seen[r].user = Nobody /\ seen[r].from = "session"
    /\ seen[r].user # Nobody /\ seen[r].from = "session" =>
          /\ seen[r].then # Nobody
          /\ seen[r].then[seen[r].user.profile].there
          /\ seen[r].user.hash >= seen[r].then[seen[r].user.profile].hash
    /\ layer[r] \in {"database"} \cup Gated => Path!CsrfOk(request[r])
    /\ layer[r] \in {"csrf", "database", "gate", "login"} => seen[r].from = "session"
    /\ layer[r] \in Gated /\ seen[r].user # Nobody /\ seen[r].from = "session" =>
          seen[r].db = seen[r].user.profile
    /\ layer[r] = "find_admin" => seen[r].user = Nobody
    /\ layer[r] = "auto_login" => seen[r].user # Nobody /\ seen[r].from = "auto"
    /\ layer[r] \in {"handler", "handled"} =>
          /\ request[r].path = "protected" => seen[r].user # Nobody
          /\ request[r].path = "demo_reset" /\ demo_install_ok => seen[r].user # Nobody
    /\ seen[r].ip = "client" =>
          config.mode = "reverse-proxy" /\ request[r].forwarded = "client"

PathInv == PathTypeOK /\ \A r \in Path!Incoming : LayerOK(r)

\* Nobody is not a user, a profile or a table of accounts.
LEMMA NobodyIsNobody ==
    Nobody \notin Path!Session \cup Path!Profiles \cup Path!Accounts
BY PathConstants DEF Path!NobodyAssumption

\* Every request is at the first layer and carries nothing.
LEMMA PathInit == Path!Init => PathInv
<1> SUFFICES ASSUME Path!Init PROVE PathInv
  OBVIOUS
<1> USE NobodyIsNobody
<1>1. /\ active \in Path!Profiles
      /\ account = [p \in Path!Profiles |-> [there |-> TRUE, hash |-> 0]]
      /\ session \in {Nobody} \cup [profile : Path!Profiles, hash : {0}]
      /\ seen = [r \in Path!Incoming |-> Path!Start]
      /\ DOMAIN layer = Path!Incoming
      /\ \A r \in Path!Incoming : layer[r] \in {"host", "never"}
  BY DEF Path!Init, Path!Profiles
<1>2. PathTypeOK
  BY <1>1 DEF PathTypeOK, Path!Accounts, Path!Session, Extensions, Path!Start
<1>3. ASSUME NEW r \in Path!Incoming PROVE LayerOK(r)
  <2>1. seen[r] = Path!Start /\ layer[r] \in {"host", "never"} BY <1>1
  <2> QED BY <2>1 DEF LayerOK, Path!Start, Gated
<1> QED BY <1>2, <1>3 DEF PathInv

\* A layer answers or lets the request go on: only what is true of that request has to
\* be looked at again.
LEMMA PathLocal ==
    ASSUME PathInv, NEW r \in Path!Incoming, NEW next, NEW s \in Extensions,
           layer' = [layer EXCEPT ![r] = next], seen' = [seen EXCEPT ![r] = s],
           UNCHANGED <<config, active, demo_install_ok, account, request>>,
           session' \in Path!Session \cup {Nobody},
           LayerOK(r)'
    PROVE  PathInv'
<1> USE DEF PathInv
<1>1. PathTypeOK' BY DEF PathTypeOK
<1>2. ASSUME NEW q \in Path!Incoming \ {r} PROVE LayerOK(q)'
  <2>1. layer'[q] = layer[q] /\ seen'[q] = seen[q] BY DEF PathTypeOK
  <2>2. LayerOK(q) OBVIOUS
  <2> QED BY <2>1, <2>2 DEF LayerOK, Path!Admitted, Path!CsrfOk, Path!OriginOk, Path!TokensMatch
<1> QED BY <1>1, <1>2

\* An answer.
LEMMA PathAnswer ==
    ASSUME PathInv, NEW r \in Path!Incoming, NEW a, Path!Answer(r, a),
           a \notin {"host", "forwarded", "auth", "csrf", "database", "gate", "login",
                     "find_admin", "auto_login", "handler", "handled"}
    PROVE  PathInv'
<1> USE DEF PathInv
<1>1. /\ layer' = [layer EXCEPT ![r] = a] /\ seen' = seen
      /\ UNCHANGED <<config, active, demo_install_ok, account, request, session>>
  BY DEF Path!Answer, Path!world
<1>2. layer'[r] = a /\ seen' = [seen EXCEPT ![r] = seen[r]] /\ seen[r] \in Extensions
  BY <1>1 DEF PathTypeOK
<1>3. LayerOK(r)'
  <2>1. LayerOK(r) OBVIOUS
  <2> QED BY <1>1, <1>2, <2>1 DEF LayerOK, Gated
<1> QED BY <1>1, <1>2, <1>3, PathLocal DEF PathTypeOK

\* The layers in front of the handlers.
LEMMA PathHost ==
    ASSUME PathInv, NEW r \in Path!Incoming, Path!RefuseHost(r) \/ Path!PassHost(r)
    PROVE  PathInv'
<1> USE DEF PathInv
<1>1. CASE Path!RefuseHost(r) BY <1>1, PathAnswer DEF Path!RefuseHost
<1>2. CASE Path!PassHost(r)
  <2> DEFINE s == [seen[r] EXCEPT !.then = account]
  <2>1. /\ layer[r] = "host" /\ request[r].host \in Path!Admitted
        /\ layer' = [layer EXCEPT ![r] = "forwarded"] /\ seen' = [seen EXCEPT ![r] = s]
        /\ UNCHANGED <<config, active, demo_install_ok, account, request, session>>
    BY <1>2 DEF Path!PassHost, Path!Goes, Path!world
  <2>2. /\ s \in Extensions /\ s.then = account /\ s.user = Nobody /\ s.from = "session"
        /\ s.ip = seen[r].ip
    BY <2>1 DEF PathTypeOK, Extensions, LayerOK
  <2> HIDE DEF s
  <2>3. layer'[r] = "forwarded" /\ seen'[r] = s BY <2>1, <2>2 DEF PathTypeOK
  <2>4. account # Nobody /\ \A p \in Path!Profiles : account[p].hash <= account[p].hash
    BY NobodyIsNobody DEF PathTypeOK, Path!Accounts
  <2>5. LayerOK(r) OBVIOUS
  <2>6. LayerOK(r)'
    BY <2>1, <2>2, <2>3, <2>4, <2>5 DEF LayerOK, Gated, Path!Admitted
  <2> QED BY <2>1, <2>2, <2>6, PathLocal DEF PathTypeOK
<1> QED BY <1>1, <1>2

\* The address behind a proxy.
LEMMA PathForwarded ==
    ASSUME PathInv, NEW r \in Path!Incoming,
           Path!RefuseForwarded(r) \/ Path!PassForwarded(r)
    PROVE  PathInv'
<1> USE DEF PathInv
<1>1. CASE Path!RefuseForwarded(r) BY <1>1, PathAnswer DEF Path!RefuseForwarded
<1>2. CASE Path!PassForwarded(r)
  <2> DEFINE proxied == config.mode = "reverse-proxy" /\ request[r].forwarded = "client"
             s == [seen[r] EXCEPT !.ip = IF proxied THEN "client" ELSE "peer"]
  <2>1. /\ layer[r] = "forwarded"
        /\ layer' = [layer EXCEPT ![r] = "auth"] /\ seen' = [seen EXCEPT ![r] = s]
        /\ UNCHANGED <<config, active, demo_install_ok, account, request, session>>
    BY <1>2 DEF Path!PassForwarded, Path!Goes, Path!world
  <2>2. /\ s \in Extensions /\ s.then = seen[r].then /\ s.user = Nobody /\ s.from = "session"
        /\ s.ip = "client" => proxied
    BY <2>1 DEF PathTypeOK, Extensions, LayerOK
  <2> HIDE DEF s
  <2>3. layer'[r] = "auth" /\ seen'[r] = s BY <2>1, <2>2 DEF PathTypeOK
  <2>4. LayerOK(r) OBVIOUS
  <2>5. LayerOK(r)' BY <2>1, <2>2, <2>3, <2>4 DEF LayerOK, Gated, Path!Admitted
  <2> QED BY <2>1, <2>2, <2>5, PathLocal DEF PathTypeOK
<1> QED BY <1>1, <1>2

\* A session is taken for what its account is now, so it is no better than that account
\* was when the request came.
LEMMA PathAuth == ASSUME PathInv, NEW r \in Path!Incoming, Path!LoadUser(r) PROVE PathInv'
<1> USE DEF PathInv
<1> DEFINE u == IF Path!Valid(session) THEN session ELSE Nobody
           s == [seen[r] EXCEPT !.user = u]
<1>1. /\ layer[r] = "auth"
      /\ layer' = [layer EXCEPT ![r] = "csrf"] /\ seen' = [seen EXCEPT ![r].user = u]
      /\ UNCHANGED <<config, active, demo_install_ok, account, request>>
      /\ session' \in Path!Session \cup {Nobody}
  BY DEF Path!LoadUser, Path!world, PathTypeOK
<1>2. LayerOK(r) OBVIOUS
<1>3. /\ s \in Extensions /\ s.then = seen[r].then /\ s.user = u /\ s.from = "session"
      /\ s.ip = seen[r].ip
  BY <1>1, <1>2 DEF PathTypeOK, Extensions, LayerOK
<1>4. seen' = [seen EXCEPT ![r] = s] BY <1>1 DEF PathTypeOK
<1>5. seen[r].then \in Path!Accounts
  BY <1>1, <1>2 DEF PathTypeOK, Extensions, LayerOK
<1>6. ASSUME u # Nobody
      PROVE  seen[r].then[u.profile].there /\ u.hash >= seen[r].then[u.profile].hash
  <2>1. /\ u = session /\ session \in Path!Session
        /\ account[u.profile].there /\ account[u.profile].hash = u.hash
    BY <1>6 DEF Path!Valid, PathTypeOK
  <2>2. u.profile \in Path!Profiles /\ u.hash \in Nat BY <2>1 DEF Path!Session
  <2>3. /\ account[u.profile].there => seen[r].then[u.profile].there
        /\ seen[r].then[u.profile].hash <= account[u.profile].hash
    BY <1>1, <1>2, <2>2 DEF LayerOK
  <2>4. seen[r].then[u.profile].hash \in Nat BY <1>5, <2>2 DEF Path!Accounts
  <2> QED BY <2>1, <2>2, <2>3, <2>4
<1> HIDE DEF s, u
<1>7. layer'[r] = "csrf" /\ seen'[r] = s BY <1>1, <1>3, <1>4 DEF PathTypeOK
<1>8. LayerOK(r)'
  BY <1>1, <1>2, <1>3, <1>6, <1>7 DEF LayerOK, Gated, Path!Admitted
<1> QED BY <1>1, <1>3, <1>4, <1>8, PathLocal

\* The CSRF check and the database, which is that of the session.
LEMMA PathCsrf ==
    ASSUME PathInv, NEW r \in Path!Incoming,
           Path!RefuseCsrf(r) \/ Path!PassCsrf(r) \/ Path!PickDatabase(r)
    PROVE  PathInv'
<1> USE DEF PathInv
<1>0. LayerOK(r) OBVIOUS
<1>1. CASE Path!RefuseCsrf(r) BY <1>1, PathAnswer DEF Path!RefuseCsrf
<1>2. CASE Path!PassCsrf(r)
  <2>1. /\ layer[r] = "csrf" /\ Path!CsrfOk(request[r])
        /\ layer' = [layer EXCEPT ![r] = "database"] /\ seen' = [seen EXCEPT ![r] = seen[r]]
        /\ UNCHANGED <<config, active, demo_install_ok, account, request, session>>
    BY <1>2 DEF Path!PassCsrf, Path!Goes, Path!world
  <2>2. layer'[r] = "database" /\ seen'[r] = seen[r] /\ seen[r] \in Extensions
    BY <2>1 DEF PathTypeOK
  <2>3. LayerOK(r)'
    BY <1>0, <2>1, <2>2 DEF LayerOK, Gated, Path!Admitted, Path!CsrfOk, Path!OriginOk,
       Path!TokensMatch
  <2> QED BY <2>1, <2>2, <2>3, PathLocal DEF PathTypeOK
<1>3. CASE Path!PickDatabase(r)
  <2> DEFINE next == CASE request[r].path \in {"protected", "demo_reset"} -> "gate"
                       [] request[r].path = "public" -> "handler"
                       [] request[r].path = "unknown_api" -> "not_found"
                       [] OTHER -> "shell"
             s == [seen[r] EXCEPT !.db = Path!DatabaseFor(seen[r].user)]
  <2>1. /\ layer[r] = "database"
        /\ layer' = [layer EXCEPT ![r] = next] /\ seen' = [seen EXCEPT ![r] = s]
        /\ UNCHANGED <<config, active, demo_install_ok, account, request, session>>
    BY <1>3 DEF Path!PickDatabase, Path!Goes, Path!world
  <2>2. /\ next \in {"gate", "handler", "not_found", "shell"}
        /\ next = "handler" => request[r].path = "public"
    OBVIOUS
  <2>3. /\ s.then = seen[r].then /\ s.user = seen[r].user /\ s.from = seen[r].from
        /\ s.ip = seen[r].ip
        /\ s.user # Nobody => s.db = s.user.profile
        /\ s \in Extensions
    BY DEF PathTypeOK, Extensions, Path!DatabaseFor, Path!Session
  <2> HIDE DEF s, next
  <2>4. layer'[r] = next /\ seen'[r] = s BY <2>1, <2>3 DEF PathTypeOK
  <2>5. LayerOK(r)'
    BY <1>0, <2>1, <2>2, <2>3, <2>4 DEF LayerOK, Gated, Path!Admitted, Path!CsrfOk,
       Path!OriginOk, Path!TokensMatch
  <2> QED BY <2>1, <2>3, <2>5, PathLocal DEF PathTypeOK
<1> QED BY <1>1, <1>2, <1>3

\* The gate: no protected handler without a user, except the reset of a demo that is not
\* installed.
LEMMA PathGate ==
    ASSUME PathInv, NEW r \in Path!Incoming, Path!GuardInstall(r) \/ Path!Login(r)
    PROVE  PathInv'
<1> USE DEF PathInv
<1> DEFINE next == IF layer[r] = "gate"
                   THEN IF active = "demo" /\ ~ demo_install_ok
                        THEN IF request[r].path = "demo_reset"
                             THEN "handler" ELSE "setup_required"
                        ELSE "login"
                   ELSE IF seen[r].user # Nobody THEN "handler"
                        ELSE IF active = "demo" THEN "find_admin" ELSE "unauthorized"
<1>0. LayerOK(r) OBVIOUS
<1>1. /\ layer[r] \in {"gate", "login"}
      /\ layer' = [layer EXCEPT ![r] = next] /\ seen' = [seen EXCEPT ![r] = seen[r]]
      /\ UNCHANGED <<config, active, demo_install_ok, account, request, session>>
  BY DEF Path!GuardInstall, Path!Login, Path!Goes, Path!world
<1>2. /\ next \in {"handler", "setup_required", "login", "find_admin", "unauthorized"}
      /\ next = "handler" => \/ seen[r].user # Nobody
                             \/ ~ demo_install_ok /\ request[r].path = "demo_reset"
      /\ next = "find_admin" => seen[r].user = Nobody
  BY <1>1
<1> HIDE DEF next
<1>3. layer'[r] = next /\ seen'[r] = seen[r] /\ seen[r] \in Extensions
  BY <1>1 DEF PathTypeOK
<1>4. LayerOK(r)'
  BY <1>0, <1>1, <1>2, <1>3 DEF LayerOK, Gated, Path!Admitted, Path!CsrfOk,
     Path!OriginOk, Path!TokensMatch
<1> QED BY <1>1, <1>3, <1>4, PathLocal DEF PathTypeOK

\* The demo login gives the request a user who did not come with a session.
LEMMA PathFindAdmin ==
    ASSUME PathInv, NEW r \in Path!Incoming, Path!FindAdmin(r) PROVE PathInv'
<1> USE DEF PathInv
<1>0. LayerOK(r) OBVIOUS
<1>1. CASE ~ account["demo"].there BY <1>1, PathAnswer DEF Path!FindAdmin
<1>2. CASE account["demo"].there
  <2> DEFINE u == [profile |-> "demo", hash |-> account["demo"].hash]
             s == [seen[r] EXCEPT !.from = "auto", !.user = u]
  <2>1. /\ layer[r] = "find_admin"
        /\ layer' = [layer EXCEPT ![r] = "auto_login"] /\ seen' = [seen EXCEPT ![r] = s]
        /\ UNCHANGED <<config, active, demo_install_ok, account, request, session>>
    BY <1>2 DEF Path!FindAdmin, Path!Goes, Path!world
  <2>2. u \in Path!Session
    BY DEF PathTypeOK, Path!Accounts, Path!Session, Path!Profiles
  <2>3. u # Nobody BY <2>2, NobodyIsNobody
  <2> HIDE DEF u
  <2>4. /\ s \in Extensions /\ s.then = seen[r].then /\ s.user = u /\ s.from = "auto"
        /\ s.ip = seen[r].ip
    BY <2>2 DEF PathTypeOK, Extensions
  <2> HIDE DEF s
  <2>5. layer'[r] = "auto_login" /\ seen'[r] = s BY <2>1, <2>4 DEF PathTypeOK
  <2>6. LayerOK(r)'
    BY <1>0, <2>1, <2>3, <2>4, <2>5 DEF LayerOK, Gated, Path!Admitted, Path!CsrfOk,
       Path!OriginOk, Path!TokensMatch
  <2> QED BY <2>1, <2>4, <2>6, PathLocal DEF PathTypeOK
<1> QED BY <1>1, <1>2

\* The session of that login is stored, or the user is taken back.
LEMMA PathAutoLogin ==
    ASSUME PathInv, NEW r \in Path!Incoming,
           Path!AutoLogin(r) \/ Path!AutoLoginFails(r) \/ Path!Handle(r)
    PROVE  PathInv'
<1> USE DEF PathInv
<1>0. LayerOK(r) /\ seen[r] \in Extensions BY DEF PathTypeOK
<1>1. CASE Path!AutoLogin(r)
  <2>1. /\ layer[r] = "auto_login" /\ session' = seen[r].user
        /\ layer' = [layer EXCEPT ![r] = "handler"] /\ seen' = [seen EXCEPT ![r] = seen[r]]
        /\ UNCHANGED <<config, active, demo_install_ok, account, request>>
    BY <1>1 DEF Path!AutoLogin, Path!world, PathTypeOK
  <2>2. layer'[r] = "handler" /\ seen'[r] = seen[r] BY <2>1, <1>0 DEF PathTypeOK
  <2>3. session' \in Path!Session \cup {Nobody} BY <2>1, <1>0 DEF Extensions
  <2>4. LayerOK(r)'
    BY <1>0, <2>1, <2>2 DEF LayerOK, Gated, Path!Admitted, Path!CsrfOk, Path!OriginOk,
       Path!TokensMatch
  <2> QED BY <1>0, <2>1, <2>3, <2>4, PathLocal
<1>2. CASE Path!AutoLoginFails(r)
  <2> DEFINE s == [seen[r] EXCEPT !.user = Nobody]
  <2>1. /\ layer[r] = "auto_login"
        /\ layer' = [layer EXCEPT ![r] = "unauthorized"] /\ seen' = [seen EXCEPT ![r] = s]
        /\ UNCHANGED <<config, active, demo_install_ok, account, request, session>>
    BY <1>2 DEF Path!AutoLoginFails, Path!Goes, Path!world
  <2>2. /\ s \in Extensions /\ s.user = Nobody /\ s.ip = seen[r].ip
    BY <1>0 DEF Extensions
  <2> HIDE DEF s
  <2>3. layer'[r] = "unauthorized" /\ seen'[r] = s BY <2>1, <2>2 DEF PathTypeOK
  <2>4. LayerOK(r)' BY <1>0, <2>1, <2>2, <2>3 DEF LayerOK, Gated
  <2> QED BY <2>1, <2>2, <2>4, PathLocal DEF PathTypeOK
<1>3. CASE Path!Handle(r)
  <2>1. /\ layer[r] = "handler"
        /\ layer' = [layer EXCEPT ![r] = "handled"] /\ seen' = [seen EXCEPT ![r] = seen[r]]
        /\ UNCHANGED <<config, active, demo_install_ok, account, request, session>>
    BY <1>3 DEF Path!Handle, Path!Answer, Path!world, PathTypeOK
  <2>2. layer'[r] = "handled" /\ seen'[r] = seen[r] BY <2>1, <1>0 DEF PathTypeOK
  <2>3. LayerOK(r)'
    BY <1>0, <2>1, <2>2 DEF LayerOK, Gated, Path!Admitted, Path!CsrfOk, Path!OriginOk,
       Path!TokensMatch
  <2> QED BY <1>0, <2>1, <2>3, PathLocal DEF PathTypeOK
<1> QED BY <1>1, <1>2, <1>3

\* Meanwhile passwords only get newer and accounts only go: what was true of the
\* accounts when a request came stays true of them.
LEMMA PathWorld ==
    ASSUME PathInv, active' \in Path!Profiles, account' \in Path!Accounts,
           \A p \in Path!Profiles : /\ account'[p].there => account[p].there
                                    /\ account[p].hash <= account'[p].hash,
           UNCHANGED <<config, demo_install_ok, session, request, layer, seen>>
    PROVE  PathInv'
<1> USE DEF PathInv
<1>1. PathTypeOK' BY DEF PathTypeOK
<1>2. ASSUME NEW r \in Path!Incoming PROVE LayerOK(r)'
  <2>0. LayerOK(r) OBVIOUS
  <2>1. ASSUME layer[r] \in {"forwarded", "auth", "csrf", "database"} \cup Gated,
               NEW p \in Path!Profiles
        PROVE  /\ account'[p].there => seen[r].then[p].there
               /\ seen[r].then[p].hash <= account'[p].hash
    <3>1. /\ seen[r].then # Nobody
          /\ account[p].there => seen[r].then[p].there
          /\ seen[r].then[p].hash <= account[p].hash
      BY <2>0, <2>1 DEF LayerOK
    <3>2. seen[r].then \in Path!Accounts BY <3>1 DEF PathTypeOK, Extensions
    <3>3. /\ seen[r].then[p].hash \in Nat /\ account[p].hash \in Nat
          /\ account'[p].hash \in Nat
      BY <3>2 DEF PathTypeOK, Path!Accounts
    <3> QED BY <3>1, <3>3
  <2> QED BY <2>0, <2>1 DEF LayerOK, Path!Admitted, Path!CsrfOk, Path!OriginOk, Path!TokensMatch
<1> QED BY <1>1, <1>2

\* A switch of the active profile keeps what the request path relies on.
LEMMA PathSwitch == ASSUME PathInv, Path!Switch PROVE PathInv'
<1>1. \A p \in Path!Profiles : account[p].hash \in Nat
  BY DEF PathInv, PathTypeOK, Path!Accounts
<1> QED BY <1>1, PathWorld DEF Path!Switch, PathInv, PathTypeOK

\* So does a change of a password or the deletion of an account.
LEMMA PathAccounts ==
    ASSUME PathInv, NEW p \in Path!Profiles, Path!ChangePassword(p) \/ Path!SoftDelete(p)
    PROVE  PathInv'
<1> DEFINE a == IF Path!ChangePassword(p)
                THEN [there |-> account[p].there, hash |-> account[p].hash + 1]
                ELSE [there |-> FALSE, hash |-> account[p].hash]
<1>0. account \in Path!Accounts /\ active \in Path!Profiles BY DEF PathInv, PathTypeOK
<1>1. account[p] = [there |-> account[p].there, hash |-> account[p].hash]
  BY <1>0 DEF Path!Accounts
<1>2. /\ account' = [account EXCEPT ![p] = a] /\ active' = active
      /\ UNCHANGED <<config, demo_install_ok, session, request, layer, seen>>
  <2>1. CASE Path!ChangePassword(p) BY <1>0, <2>1 DEF Path!ChangePassword, Path!Accounts
  <2>2. CASE ~ Path!ChangePassword(p) /\ Path!SoftDelete(p)
    BY <1>0, <2>2 DEF Path!SoftDelete, Path!Accounts
  <2> QED BY <2>1, <2>2
<1>3. /\ a \in [there : BOOLEAN, hash : Nat]
      /\ a.there => account[p].there
      /\ account[p].hash <= a.hash
  BY <1>0 DEF Path!Accounts
<1> HIDE DEF a
<1>4. account' \in Path!Accounts BY <1>0, <1>2, <1>3 DEF Path!Accounts
<1>5. ASSUME NEW q \in Path!Profiles
      PROVE  /\ account'[q].there => account[q].there
             /\ account[q].hash <= account'[q].hash
  <2>1. account[q].hash \in Nat BY <1>0 DEF Path!Accounts
  <2>2. account'[q] = IF q = p THEN a ELSE account[q] BY <1>0, <1>2 DEF Path!Accounts
  <2> QED BY <1>3, <2>1, <2>2
<1> QED BY <1>0, <1>2, <1>4, <1>5, PathWorld

\* A step of the run is one of the path's or leaves the path alone.
LEMMA PathStep ==
    ASSUME part = "path" => PathInv, [MCNext]_allVars
    PROVE  (part = "path" => PathInv)'
<1>1. CASE UNCHANGED <<part, pathVars>>
  BY <1>1 DEF pathVars, PathInv, PathTypeOK, LayerOK, Path!Admitted, Path!CsrfOk,
     Path!OriginOk, Path!TokensMatch
<1>2. CASE part = "path" /\ PathNext /\ Only("path")
  <2> USE <1>2
  <2>1. ASSUME NEW r \in Path!Incoming, Path!RefuseHost(r) \/ Path!PassHost(r)
        PROVE  PathInv'
    BY <2>1, PathHost
  <2>2. ASSUME NEW r \in Path!Incoming, Path!RefuseForwarded(r) \/ Path!PassForwarded(r)
        PROVE  PathInv'
    BY <2>2, PathForwarded
  <2>3. ASSUME NEW r \in Path!Incoming, Path!LoadUser(r) PROVE PathInv'
    BY <2>3, PathAuth
  <2>4. ASSUME NEW r \in Path!Incoming,
               Path!RefuseCsrf(r) \/ Path!PassCsrf(r) \/ Path!PickDatabase(r)
        PROVE  PathInv'
    BY <2>4, PathCsrf
  <2>5. ASSUME NEW r \in Path!Incoming, Path!GuardInstall(r) \/ Path!Login(r)
        PROVE  PathInv'
    BY <2>5, PathGate
  <2>6. ASSUME NEW r \in Path!Incoming, Path!FindAdmin(r) PROVE PathInv'
    BY <2>6, PathFindAdmin
  <2>7. ASSUME NEW r \in Path!Incoming,
               Path!AutoLogin(r) \/ Path!AutoLoginFails(r) \/ Path!Handle(r)
        PROVE  PathInv'
    BY <2>7, PathAutoLogin
  <2>8. ASSUME Path!Switch PROVE PathInv' BY <2>8, PathSwitch
  <2>9. ASSUME NEW p \in Path!Profiles, Path!ChangePassword(p) \/ Path!SoftDelete(p)
        PROVE  PathInv'
    BY <2>9, PathAccounts
  <2> QED BY <2>1, <2>2, <2>3, <2>4, <2>5, <2>6, <2>7, <2>8, <2>9 DEF PathNext
<1>3. CASE \/ part = "pin" /\ PinNext /\ Only("pin")
           \/ part = "name" /\ NameNext /\ Only("name")
           \/ part = "error" /\ ErrorNext /\ Only("error")
           \/ part = "profile" /\ ProfileNext /\ Only("profile")
  <2>1. UNCHANGED <<part, pathVars>> BY <1>3 DEF Only
  <2> QED BY <2>1, <1>1
<1>4. CASE UNCHANGED allVars
  <2>1. UNCHANGED <<part, pathVars>> BY <1>4 DEF allVars
  <2> QED BY <2>1, <1>1
<1> QED BY <1>2, <1>3, <1>4 DEF MCNext

\* What is true of a request on its way is what the property asks of a handled one.
LEMMA PathRight == PathInv => Path!ChangesAreOurs /\ Path!AddressTrusted
                              /\ Path!CredentialsCurrent /\ Path!SessionsDatabase
<1> SUFFICES ASSUME PathInv
             PROVE  Path!ChangesAreOurs /\ Path!AddressTrusted
                    /\ Path!CredentialsCurrent /\ Path!SessionsDatabase
  OBVIOUS
<1> USE DEF PathInv, LayerOK, Gated, Path!Served
<1>1. Path!ChangesAreOurs
  BY DEF Path!ChangesAreOurs, Path!Admitted, Path!CsrfOk, Path!OriginOk, Path!TokensMatch
<1>2. Path!AddressTrusted BY DEF Path!AddressTrusted
<1>3. Path!CredentialsCurrent BY DEF Path!CredentialsCurrent
<1>4. Path!SessionsDatabase BY DEF Path!SessionsDatabase
<1> QED BY <1>1, <1>2, <1>3, <1>4

\* RequestRight, for any number of requests and changes (RequestPath): a handler outside a
\* LAN was reached under a configured host, a change by a page of ours with our token; a
\* session is no better than its account when the request came, and works on its own
\* profile's database; nobody gets to a protected handler without a user; the client's
\* address comes from a proxy's header only.
THEOREM RequestsRight == MCSpec => []RequestRight
<1>1. MCInit => (part = "path" => PathInv) BY PathInit DEF MCInit
<1>2. (part = "path" => PathInv) /\ [MCNext]_allVars => (part = "path" => PathInv)'
  BY PathStep
<1>3. (part = "path" => PathInv) => RequestRight BY PathRight DEF RequestRight
<1> QED BY <1>1, <1>2, <1>3, PTL DEF MCSpec
-----------------------------------------------------------------------------
\* Names: slugs and hosts.

SlugLetters == {"a", "1", "-"}

\* Names counts as this module does. The letters kept so far are finitely many.
LEMMA KeptFinite ==
    ASSUME NEW n \in Nat
    PROVE  /\ IsFiniteSet(Name!Kept(n)) /\ Cardinality(Name!Kept(n)) \in Nat
           /\ IsFiniteSet(Name!Begun(n)) /\ Cardinality(Name!Begun(n)) \in Nat
           /\ Name!Place(n) = Cardinality(Name!Kept(n)) + Cardinality(Name!Begun(n)) - 1
           /\ Name!Begun(n) \subseteq Name!Kept(n) /\ Name!Kept(n) \subseteq 1 .. n
<1>1. IsFiniteSet(1 .. n) BY FS_Interval
<1>2. Name!Begun(n) \subseteq Name!Kept(n) /\ Name!Kept(n) \subseteq 1 .. n
  BY DEF Name!Begun, Name!Kept
<1>3. \A S : Name!Cardinality(S) = Cardinality(S) BY DEF Name!Cardinality, Cardinality
<1>4. IsFiniteSet(Name!Kept(n)) BY <1>1, <1>2, FS_Subset
<1>5. IsFiniteSet(Name!Begun(n)) BY <1>2, <1>4, FS_Subset
<1> QED BY <1>2, <1>3, <1>4, <1>5, FS_CardinalityType DEF Name!Place

\* One character more.
LEMMA KeptGrows ==
    ASSUME NEW n \in Nat
    PROVE  /\ ~Name!AlphaNum(input[n + 1]) =>
                 Name!Kept(n + 1) = Name!Kept(n) /\ Name!Begun(n + 1) = Name!Begun(n)
                 /\ Name!Place(n + 1) = Name!Place(n)
           /\ Name!AlphaNum(input[n + 1]) => Name!Kept(n + 1) = Name!Kept(n) \cup {n + 1}
           /\ Name!AlphaNum(input[n + 1]) /\ n > 0 /\ Name!AlphaNum(input[n]) =>
                 Name!Begun(n + 1) = Name!Begun(n) /\ Name!Place(n + 1) = Name!Place(n) + 1
           /\ Name!AlphaNum(input[n + 1]) /\ (n > 0 => ~Name!AlphaNum(input[n])) =>
                 Name!Begun(n + 1) = Name!Begun(n) \cup {n + 1}
                 /\ Name!Place(n + 1) = Name!Place(n) + 2
<1>1. n + 1 \in Nat /\ 1 .. n + 1 = (1 .. n) \cup {n + 1} /\ n + 1 \notin 1 .. n
  OBVIOUS
<1>2. n + 1 \notin Name!Kept(n) /\ n + 1 \notin Name!Begun(n) BY <1>1, KeptFinite
<1>3. ASSUME ~Name!AlphaNum(input[n + 1])
      PROVE  Name!Kept(n + 1) = Name!Kept(n) /\ Name!Begun(n + 1) = Name!Begun(n)
  BY <1>1, <1>3 DEF Name!Kept, Name!Begun
<1>4. ASSUME Name!AlphaNum(input[n + 1]) PROVE Name!Kept(n + 1) = Name!Kept(n) \cup {n + 1}
  BY <1>1, <1>4 DEF Name!Kept
<1>5. ASSUME Name!AlphaNum(input[n + 1]), n > 0, Name!AlphaNum(input[n])
      PROVE  Name!Begun(n + 1) = Name!Begun(n)
  <2>1. (n + 1) - 1 = n /\ n + 1 > 1 BY <1>5
  <2>2. \A k : k \in Name!Begun(n + 1) <=> k \in Name!Begun(n)
    BY <1>4, <1>5, <2>1 DEF Name!Begun
  <2> QED BY <2>2
<1>6. ASSUME Name!AlphaNum(input[n + 1]), n > 0 => ~Name!AlphaNum(input[n])
      PROVE  Name!Begun(n + 1) = Name!Begun(n) \cup {n + 1}
  <2>1. (n + 1) - 1 = n /\ (n + 1 > 1 => n > 0) OBVIOUS
  <2>2. \A k : k \in Name!Begun(n + 1) <=> k \in Name!Begun(n) \/ k = n + 1
    BY <1>4, <1>6, <2>1 DEF Name!Begun
  <2> QED BY <2>2
<1>7. /\ Cardinality(Name!Kept(n) \cup {n + 1}) = Cardinality(Name!Kept(n)) + 1
      /\ Cardinality(Name!Begun(n) \cup {n + 1}) = Cardinality(Name!Begun(n)) + 1
  BY <1>2, KeptFinite, FS_AddElement
<1>8. /\ Name!Place(n) = Cardinality(Name!Kept(n)) + Cardinality(Name!Begun(n)) - 1
      /\ Name!Place(n + 1) = Cardinality(Name!Kept(n + 1)) + Cardinality(Name!Begun(n + 1)) - 1
      /\ Cardinality(Name!Kept(n)) \in Nat /\ Cardinality(Name!Begun(n)) \in Nat
  BY <1>1, KeptFinite
<1>9. ASSUME Name!Kept(n + 1) = Name!Kept(n), Name!Begun(n + 1) = Name!Begun(n)
      PROVE  Name!Place(n + 1) = Name!Place(n)
  BY <1>8, <1>9
<1>10. ASSUME Name!Kept(n + 1) = Name!Kept(n) \cup {n + 1}, Name!Begun(n + 1) = Name!Begun(n)
       PROVE  Name!Place(n + 1) = Name!Place(n) + 1
  <2>1. Cardinality(Name!Kept(n + 1)) = Cardinality(Name!Kept(n)) + 1 BY <1>7, <1>10
  <2>2. Cardinality(Name!Begun(n + 1)) = Cardinality(Name!Begun(n)) BY <1>10
  <2> QED BY <1>8, <2>1, <2>2
<1>11. ASSUME Name!Kept(n + 1) = Name!Kept(n) \cup {n + 1},
              Name!Begun(n + 1) = Name!Begun(n) \cup {n + 1}
       PROVE  Name!Place(n + 1) = Name!Place(n) + 2
  <2>1. Cardinality(Name!Kept(n + 1)) = Cardinality(Name!Kept(n)) + 1 BY <1>7, <1>11
  <2>2. Cardinality(Name!Begun(n + 1)) = Cardinality(Name!Begun(n)) + 1 BY <1>7, <1>11
  <2> QED BY <1>8, <2>1, <2>2
<1>12. ~Name!AlphaNum(input[n + 1]) =>
          Name!Kept(n + 1) = Name!Kept(n) /\ Name!Begun(n + 1) = Name!Begun(n)
          /\ Name!Place(n + 1) = Name!Place(n)
  BY <1>3, <1>9
<1>13. Name!AlphaNum(input[n + 1]) /\ n > 0 /\ Name!AlphaNum(input[n]) =>
          Name!Begun(n + 1) = Name!Begun(n) /\ Name!Place(n + 1) = Name!Place(n) + 1
  BY <1>4, <1>5, <1>10
<1>14. Name!AlphaNum(input[n + 1]) /\ (n > 0 => ~Name!AlphaNum(input[n])) =>
          Name!Begun(n + 1) = Name!Begun(n) \cup {n + 1}
          /\ Name!Place(n + 1) = Name!Place(n) + 2
  BY <1>4, <1>6, <1>11
<1> QED BY <1>4, <1>12, <1>13, <1>14

\* Nothing is kept of no character.
LEMMA KeptNone == Name!Kept(0) = {} /\ Name!Begun(0) = {} /\ Name!Place(0) = 0 - 1
<1>1. Name!Kept(0) = {} BY DEF Name!Kept
<1>2. Name!Begun(0) = {} BY <1>1 DEF Name!Begun
<1> QED BY <1>1, <1>2, KeptFinite, FS_EmptySet

\* The hyphen that a name which does not begin with a letter or digit has left in front.
Front == IF read > 0 /\ ~Name!AlphaNum(input[1]) THEN 1 ELSE 0

\* What derive_slug has in its buffer when it has read some of the name.
Buffered ==
    /\ Name!Kept(read) = {} => Len(buf) = Front
    /\ Name!Kept(read) # {} =>
          /\ Name!Begun(read) # {} /\ Name!Place(read) > 0
          /\ Len(buf) = Front + Name!Place(read) + (IF last_was_hyphen THEN 1 ELSE 0)
          /\ buf[Front + 1] # "-" /\ buf[Front + Name!Place(read)] # "-"
    /\ \A k \in Name!Kept(read) :
          /\ Name!Place(k) \in 1 .. Name!Place(read)
          /\ buf[Front + Name!Place(k)] = Name!Lower(input[k])
    /\ \A k \in Name!Begun(read) : Name!Place(k) > 1 => buf[Front + Name!Place(k) - 1] = "-"
Hyphens ==
    /\ Front = 1 => buf # <<>> /\ buf[1] = "-"
    /\ buf # <<>> => (last_was_hyphen <=> buf[Len(buf)] = "-")
    /\ \A i \in 1 .. Len(buf) - 1 : ~(buf[i] = "-" /\ buf[i + 1] = "-")
Scanned ==
    /\ buf \in Seq(SlugLetters)
    /\ last_was_hyphen \in BOOLEAN
    /\ last_was_hyphen <=> read > 0 /\ ~Name!AlphaNum(input[read])
    /\ Buffered /\ Hyphens
    /\ Name!SlugNew(input) = "ok" =>
          Len(buf) = read /\ \A i \in 1 .. read : buf[i] = input[i]

NameInv ==
    /\ input \in Seq(Letters \cup HostLetters)
    /\ read \in 0 .. Len(input)
    /\ use = "slug" /\ outcome = "scan" => Scanned
    /\ Name!SlugFits /\ Name!SlugStable /\ Name!ListedHostFound

\* Nothing has been read.
LEMMA NameInit == ASSUME MCInit PROVE NameInv
<1>1. /\ read = 0 /\ buf = <<>> /\ last_was_hyphen = FALSE /\ outcome = "scan"
      /\ input \in Seq(Letters \cup HostLetters)
  <2>1. CASE part = "name"
    <3>1. Name!Init BY <2>1 DEF MCInit
    <3>2. input \in Seq(Letters) \/ input \in Seq(HostLetters)
      <4>1. \A S, N : Name!SeqOf(S, N) = UNION {[1 .. m -> S] : m \in 0 .. N} BY DEF Name!SeqOf
      <4>2. \A S : input \in Name!SeqOf(S, MaxText) => input \in Seq(S)
        <5> SUFFICES ASSUME NEW S, input \in Name!SeqOf(S, MaxText) PROVE input \in Seq(S)
          OBVIOUS
        <5>1. PICK m \in 0 .. MaxText : input \in [1 .. m -> S] BY <4>1
        <5>2. m \in Nat BY NameConstants DEF Name!LengthsAssumption
        <5> QED BY <5>1, <5>2, SeqDef
      <4> QED BY <3>1, <4>2 DEF Name!Init
    <3>3. input \in Seq(Letters \cup HostLetters) BY <3>2, SeqMonotonic
    <3> QED BY <3>1, <3>3 DEF Name!Init
  <2>2. CASE part # "name" BY <2>2, EmptySeq DEF MCInit
  <2> QED BY <2>1, <2>2
<1>2. Front = 0 BY <1>1 DEF Front
<1>3. buf \in Seq(SlugLetters) /\ Len(buf) = 0 BY <1>1, EmptySeq
<1>4. Buffered BY <1>1, <1>2, <1>3, KeptNone DEF Buffered
<1>5. Hyphens BY <1>1, <1>2, <1>3 DEF Hyphens
<1>6. Scanned
  <2>1. ~last_was_hyphen /\ ~(read > 0) BY <1>1
  <2>2. Len(buf) = read /\ \A i \in 1 .. read : buf[i] = input[i] BY <1>1, <1>3
  <2>3. last_was_hyphen \in BOOLEAN BY <1>1
  <2>4. last_was_hyphen <=> read > 0 /\ ~Name!AlphaNum(input[read]) BY <2>1
  <2> QED BY <1>3, <1>4, <1>5, <2>2, <2>3, <2>4 DEF Scanned
<1>7. read \in 0 .. Len(input) BY <1>1, LenProperties
<1> QED BY <1>1, <1>6, <1>7
        DEF NameInv, Name!SlugFits, Name!SlugStable, Name!ListedHostFound

\* A buffer and the character put behind it.
LEMMA PutBehind ==
    ASSUME NEW s \in Seq(SlugLetters), NEW x \in SlugLetters
    PROVE  /\ Append(s, x) \in Seq(SlugLetters) /\ Len(Append(s, x)) = Len(s) + 1
           /\ Len(s) \in Nat /\ Append(s, x)[Len(s) + 1] = x
           /\ \A i \in 1 .. Len(s) : Append(s, x)[i] = s[i]
           /\ Append(s, x) # <<>>
  BY AppendProperties, LenProperties

\* With nothing kept, the next letter takes the first place.
LEMMA PlaceOfNone ==
    ASSUME NEW n \in Nat, Name!Kept(n) = {}
    PROVE  Name!Begun(n) = {} /\ Name!Place(n) = 0 - 1
<1>1. Name!Begun(n) = {} BY KeptFinite
<1>2. Cardinality({}) = 0 BY FS_EmptySet
<1>3. Cardinality(Name!Kept(n)) = 0 /\ Cardinality(Name!Begun(n)) = 0 BY <1>1, <1>2
<1>4. Name!Place(n) = Cardinality(Name!Kept(n)) + Cardinality(Name!Begun(n)) - 1
  BY KeptFinite
<1> QED BY <1>1, <1>3, <1>4

\* What a step of derive_slug leaves alone.
LEMMA ReadKeeps ==
    ASSUME read \in Nat, Name!ReadByte
    PROVE  /\ read' = read + 1 /\ input' = input /\ read + 1 \in Nat
           /\ \A k : (Name!Kept(k))' = Name!Kept(k) /\ (Name!Begun(k))' = Name!Begun(k)
                     /\ (Name!Place(k))' = Name!Place(k)
           /\ (Name!Kept(read))' = Name!Kept(read + 1)
           /\ (Name!Begun(read))' = Name!Begun(read + 1)
           /\ (Name!Place(read))' = Name!Place(read + 1)
           /\ Front' = (IF ~Name!AlphaNum(input[1]) THEN 1 ELSE 0)
           /\ read > 0 => Front' = Front
           /\ (last_was_hyphen)' = ~Name!AlphaNum(input[read + 1])
<1>1. read' = read + 1 /\ input' = input /\ read + 1 \in Nat /\ read + 1 > 0
      /\ (last_was_hyphen)' = ~Name!AlphaNum(input[read + 1])
  BY DEF Name!ReadByte
<1>2. \A k : (Name!Kept(k))' = Name!Kept(k) BY <1>1 DEF Name!Kept
<1>3. \A k : (Name!Begun(k))' = Name!Begun(k) BY <1>1 DEF Name!Begun, Name!Kept
<1>4. \A k : (Name!Place(k))' = Name!Place(k)
  BY <1>1 DEF Name!Place, Name!Begun, Name!Kept
<1>5. (Name!Kept(read))' = Name!Kept(read + 1) BY <1>1 DEF Name!Kept
<1>6. (Name!Begun(read))' = Name!Begun(read + 1) BY <1>1 DEF Name!Begun, Name!Kept
<1>7. (Name!Place(read))' = Name!Place(read + 1)
  BY <1>1 DEF Name!Place, Name!Begun, Name!Kept
<1>8. Front' = (IF ~Name!AlphaNum(input[1]) THEN 1 ELSE 0) BY <1>1 DEF Front
<1>9. read > 0 => Front' = Front BY <1>1 DEF Front
<1> QED BY <1>1, <1>2, <1>3, <1>4, <1>5, <1>6, <1>7, <1>8, <1>9

\* A letter or digit behind another one.
LEMMA ReadOn ==
    ASSUME read \in Nat, Scanned, Name!ReadByte, Name!AlphaNum(input[read + 1]),
           read > 0, Name!AlphaNum(input[read])
    PROVE  Buffered' /\ Hyphens'
<1> DEFINE x == Name!Lower(input[read + 1])
           p == Name!Place(read)
           l == Len(buf)
           b == Append(buf, x)
<1>1. x \in {"a", "1"} /\ x \in SlugLetters
  BY DEF Name!AlphaNum, Name!Lower, SlugLetters
<1>2. buf' = b /\ ~(last_was_hyphen)' /\ ~last_was_hyphen /\ x # "-"
  BY <1>1, ReadKeeps DEF Name!ReadByte, Scanned
<1>3. /\ b \in Seq(SlugLetters) /\ Len(b) = l + 1 /\ l \in Nat /\ b[l + 1] = x
      /\ \A i \in 1 .. l : b[i] = buf[i]
  BY <1>1, PutBehind DEF Scanned
<1>4. Front' = Front /\ Front \in {0, 1} BY ReadKeeps DEF Front
<1>5. read \in Name!Kept(read) BY DEF Name!Kept
<1>6. Name!Begun(read) # {} /\ p > 0 /\ l = Front + p /\ p \in Int
      /\ buf[Front + 1] # "-" /\ buf[Front + p] # "-"
  <2>1. p \in Int BY KeptFinite
  <2>2. Name!Kept(read) # {} BY <1>5
  <2>3. Buffered /\ ~last_was_hyphen BY <1>2 DEF Scanned
  <2>4. l = Front + p + 0 BY <2>2, <2>3 DEF Buffered
  <2>5. l = Front + p BY <2>1, <2>4, <1>4
  <2>6. Name!Begun(read) # {} /\ p > 0 /\ buf[Front + 1] # "-" /\ buf[Front + p] # "-"
    BY <2>2, <2>3 DEF Buffered
  <2> QED BY <2>1, <2>5, <2>6
<1>7. /\ (Name!Kept(read))' = Name!Kept(read) \cup {read + 1}
      /\ (Name!Begun(read))' = Name!Begun(read)
      /\ (Name!Place(read))' = p + 1 /\ Name!Place(read + 1) = p + 1
  BY ReadKeeps, KeptGrows
<1> HIDE DEF x, p, l, b
<1>8. b[Front + 1] # "-" /\ b[Front + (p + 1)] = x
  BY <1>3, <1>4, <1>6
<1>9. ASSUME NEW k \in Name!Kept(read)
      PROVE  Name!Place(k) \in 1 .. p + 1 /\ b[Front + Name!Place(k)] = Name!Lower(input[k])
  <2>1. Name!Place(k) \in 1 .. p /\ buf[Front + Name!Place(k)] = Name!Lower(input[k])
    BY <1>9 DEF Scanned, Buffered, p
  <2> QED BY <2>1, <1>3, <1>4, <1>6
<1>10. ASSUME NEW k \in Name!Begun(read), Name!Place(k) > 1
       PROVE  b[Front + Name!Place(k) - 1] = "-"
  <2>1. Name!Place(k) \in 1 .. p /\ buf[Front + Name!Place(k) - 1] = "-"
    BY <1>10, KeptFinite DEF Scanned, Buffered, p
  <2> QED BY <2>1, <1>10, <1>3, <1>4, <1>6
<1>11. Buffered'
  <2>1. \A k : (Name!Place(k))' = Name!Place(k) BY ReadKeeps
  <2>2. Len(b) = Front + (p + 1) /\ p + 1 > 0 /\ p + 1 \in 1 .. p + 1 BY <1>3, <1>6, <1>4
  <2>3. b[Front + Name!Place(read + 1)] = Name!Lower(input[read + 1])
        /\ Name!Place(read + 1) \in 1 .. p + 1
    BY <1>7, <1>8, <2>2 DEF x
  <2>4. input' = input BY ReadKeeps
  <2>5. (Name!Kept(read))' # {} /\ (Name!Begun(read))' # {} BY <1>6, <1>7
  <2>6. \A k \in (Name!Kept(read))' :
          Name!Place(k) \in 1 .. p + 1 /\ b[Front + Name!Place(k)] = Name!Lower(input[k])
    BY <1>7, <1>9, <2>3
  <2>7. \A k \in (Name!Begun(read))' : Name!Place(k) > 1 => b[Front + Name!Place(k) - 1] = "-"
    BY <1>7, <1>10
  <2> QED BY <1>1, <1>2, <1>4, <1>7, <1>8, <2>1, <2>2, <2>4, <2>5, <2>6, <2>7
          DEF Buffered, Name!Lower
<1>12. Hyphens'
  <2>1. b # <<>> BY <1>3, EmptySeq
  <2>2. \A i \in 1 .. Len(b) - 1 : ~(b[i] = "-" /\ b[i + 1] = "-")
    <3> TAKE i \in 1 .. Len(b) - 1
    <3>1. CASE i = l BY <3>1, <1>2, <1>3
    <3>2. CASE i # l
      <4>1. i \in 1 .. l - 1 /\ i \in 1 .. l /\ i + 1 \in 1 .. l BY <3>2, <1>3
      <4>2. ~(buf[i] = "-" /\ buf[i + 1] = "-") BY <4>1 DEF Scanned, Hyphens, l
      <4> QED BY <4>1, <4>2, <1>3
    <3> QED BY <3>1, <3>2
  <2>3. Front = 1 => b[1] = "-"
    <3>1. Front = 1 => buf # <<>> /\ buf[1] = "-" BY DEF Scanned, Hyphens
    <3>2. l > 0 BY <1>6, <1>4
    <3> QED BY <3>1, <3>2, <1>3
  <2> QED BY <1>2, <1>3, <1>4, <2>1, <2>2, <2>3 DEF Hyphens
<1> QED BY <1>11, <1>12

\* Characters that follow each other in a longer buffer.
LEMMA NoPair ==
    ASSUME NEW s \in Seq(SlugLetters), NEW x \in SlugLetters,
           \A i \in 1 .. Len(s) - 1 : ~(s[i] = "-" /\ s[i + 1] = "-"),
           s # <<>> => ~(s[Len(s)] = "-" /\ x = "-")
    PROVE  \A i \in 1 .. Len(Append(s, x)) - 1 :
              ~(Append(s, x)[i] = "-" /\ Append(s, x)[i + 1] = "-")
<1> DEFINE b == Append(s, x)
           l == Len(s)
<1>1. /\ Len(b) = l + 1 /\ l \in Nat /\ b[l + 1] = x
      /\ \A i \in 1 .. l : b[i] = s[i]
      /\ s = <<>> => l = 0
  BY PutBehind, EmptySeq
<1>2. \A i \in 1 .. l - 1 : ~(s[i] = "-" /\ s[i + 1] = "-") OBVIOUS
<1>3. l > 0 => ~(s[l] = "-" /\ x = "-") BY <1>1
<1> HIDE DEF b, l
<1> SUFFICES ASSUME NEW i \in 1 .. Len(b) - 1 PROVE ~(b[i] = "-" /\ b[i + 1] = "-")
  BY DEF b
<1>4. CASE i = l BY <1>1, <1>3, <1>4
<1>5. CASE i # l
  <2>1. i \in 1 .. l - 1 /\ i \in 1 .. l /\ i + 1 \in 1 .. l BY <1>5, <1>1
  <2> QED BY <2>1, <1>1, <1>2
<1> QED BY <1>4, <1>5

\* The first letter or digit of a name.
LEMMA ReadFirst ==
    ASSUME read \in Nat, Scanned, Name!ReadByte, Name!AlphaNum(input[read + 1]),
           Name!Kept(read) = {}
    PROVE  Buffered' /\ Hyphens'
<1> DEFINE x == Name!Lower(input[read + 1])
           l == Len(buf)
           b == Append(buf, x)
<1>1. x \in {"a", "1"} /\ x \in SlugLetters
  BY DEF Name!AlphaNum, Name!Lower, SlugLetters
<1>2. buf' = b /\ ~(last_was_hyphen)' /\ x # "-"
  BY <1>1, ReadKeeps DEF Name!ReadByte
<1>3. /\ b \in Seq(SlugLetters) /\ Len(b) = l + 1 /\ l \in Nat /\ b[l + 1] = x
      /\ \A i \in 1 .. l : b[i] = buf[i]
      /\ b # <<>>
  BY <1>1, PutBehind DEF Scanned
<1>4. Front' = Front /\ Front \in {0, 1}
  <2>1. read = 0 => Front = 0 /\ Front' = 0 BY ReadKeeps DEF Front
  <2> QED BY <2>1, ReadKeeps DEF Front
<1>5. read > 0 => ~Name!AlphaNum(input[read]) BY DEF Name!Kept
<1>6. l = Front BY DEF Scanned, Buffered
<1>7. /\ (Name!Kept(read))' = {read + 1} /\ (Name!Begun(read))' = {read + 1}
      /\ (Name!Place(read))' = 1 /\ Name!Place(read + 1) = 1
  <2>1. Name!Begun(read) = {} /\ Name!Place(read) = 0 - 1 BY PlaceOfNone
  <2>2. Name!Kept(read + 1) = {read + 1} BY KeptGrows
  <2>3. Name!Begun(read + 1) = {read + 1} BY <1>5, <2>1, KeptGrows
  <2>4. Name!Place(read + 1) = Name!Place(read) + 2 BY <1>5, KeptGrows
  <2>5. Name!Place(read + 1) = 1 BY <2>1, <2>4
  <2> QED BY <2>2, <2>3, <2>5, ReadKeeps
<1> HIDE DEF x, l, b
<1>8. b[Front + 1] = x /\ Len(b) = Front + 1 + 0 BY <1>3, <1>6
<1>9. Buffered'
  <2>1. \A k : (Name!Place(k))' = Name!Place(k) BY ReadKeeps
  <2>2. input' = input BY ReadKeeps
  <2>3. \A k \in (Name!Kept(read))' :
          Name!Place(k) \in 1 .. 1 /\ b[Front + Name!Place(k)] = Name!Lower(input[k])
    BY <1>7, <1>8 DEF x
  <2>4. \A k \in (Name!Begun(read))' : ~(Name!Place(k) > 1) BY <1>7
  <2>5. (Name!Kept(read))' # {} /\ (Name!Begun(read))' # {} BY <1>7
  <2> QED BY <1>2, <1>4, <1>7, <1>8, <2>1, <2>2, <2>3, <2>4, <2>5
          DEF Buffered, Name!Lower
<1>10. Hyphens'
  <2>1. \A i \in 1 .. Len(b) - 1 : ~(b[i] = "-" /\ b[i + 1] = "-")
    BY <1>1, <1>2, NoPair DEF b, Scanned, Hyphens
  <2>2. Front = 1 => b[1] = "-"
    <3>1. Front = 1 => buf[1] = "-" BY DEF Scanned, Hyphens
    <3> QED BY <3>1, <1>3, <1>6
  <2>3. b[Len(b)] # "-" BY <1>2, <1>3
  <2> QED BY <1>2, <1>3, <1>4, <2>1, <2>2, <2>3 DEF Hyphens
<1> QED BY <1>9, <1>10

\* The first letter or digit of a later word.
LEMMA ReadWord ==
    ASSUME read \in Nat, Scanned, Name!ReadByte, Name!AlphaNum(input[read + 1]),
           Name!Kept(read) # {}, ~Name!AlphaNum(input[read])
    PROVE  Buffered' /\ Hyphens'
<1> DEFINE x == Name!Lower(input[read + 1])
           p == Name!Place(read)
           l == Len(buf)
           b == Append(buf, x)
<1>1. x \in {"a", "1"} /\ x \in SlugLetters
  BY DEF Name!AlphaNum, Name!Lower, SlugLetters
<1>2. buf' = b /\ ~(last_was_hyphen)' /\ x # "-"
  BY <1>1, ReadKeeps DEF Name!ReadByte
<1>3. /\ b \in Seq(SlugLetters) /\ Len(b) = l + 1 /\ l \in Nat /\ b[l + 1] = x
      /\ \A i \in 1 .. l : b[i] = buf[i]
      /\ b # <<>>
  BY <1>1, PutBehind DEF Scanned
<1>4. read > 0
  <2>1. read = 0 => Name!Kept(read) = {} BY KeptNone
  <2> QED BY <2>1
<1>5. last_was_hyphen BY <1>4 DEF Scanned
<1>6. Front' = Front /\ Front \in {0, 1} BY <1>4, ReadKeeps DEF Front
<1>7. /\ Name!Begun(read) # {} /\ p > 0 /\ l = Front + p + 1 /\ p \in Int
      /\ buf[Front + 1] # "-" /\ buf[l] = "-"
  <2>1. p \in Int BY KeptFinite
  <2>2. Buffered /\ Hyphens BY DEF Scanned
  <2>3. l = Front + p + 1 /\ Name!Begun(read) # {} /\ p > 0 /\ buf[Front + 1] # "-"
    BY <1>5, <2>2 DEF Buffered
  <2>4. buf # <<>> BY <2>1, <2>3, <1>6, EmptySeq
  <2>5. buf[l] = "-" BY <1>5, <2>2, <2>4 DEF Hyphens
  <2> QED BY <2>1, <2>3, <2>5
<1>8. /\ (Name!Kept(read))' = Name!Kept(read) \cup {read + 1}
      /\ (Name!Begun(read))' = Name!Begun(read) \cup {read + 1}
      /\ (Name!Place(read))' = p + 2 /\ Name!Place(read + 1) = p + 2
  BY ReadKeeps, KeptGrows
<1> HIDE DEF x, p, l, b
<1>9. /\ b[Front + 1] # "-" /\ b[Front + (p + 2)] = x /\ b[Front + (p + 2) - 1] = "-"
      /\ Len(b) = Front + (p + 2) + 0 /\ p + 2 > 0 /\ p + 2 \in 1 .. p + 2
  BY <1>3, <1>6, <1>7
<1>10. ASSUME NEW k \in Name!Kept(read)
       PROVE  Name!Place(k) \in 1 .. p + 2 /\ b[Front + Name!Place(k)] = Name!Lower(input[k])
  <2>1. Name!Place(k) \in 1 .. p /\ buf[Front + Name!Place(k)] = Name!Lower(input[k])
    BY <1>10 DEF Scanned, Buffered, p
  <2> QED BY <2>1, <1>3, <1>6, <1>7
<1>11. ASSUME NEW k \in Name!Begun(read), Name!Place(k) > 1
       PROVE  b[Front + Name!Place(k) - 1] = "-"
  <2>1. Name!Place(k) \in 1 .. p /\ buf[Front + Name!Place(k) - 1] = "-"
    BY <1>11, KeptFinite DEF Scanned, Buffered, p
  <2> QED BY <2>1, <1>11, <1>3, <1>6, <1>7
<1>12. Buffered'
  <2>1. \A k : (Name!Place(k))' = Name!Place(k) BY ReadKeeps
  <2>2. input' = input BY ReadKeeps
  <2>3. b[Front + Name!Place(read + 1)] = Name!Lower(input[read + 1])
        /\ Name!Place(read + 1) \in 1 .. p + 2 /\ b[Front + Name!Place(read + 1) - 1] = "-"
    BY <1>8, <1>9 DEF x
  <2>4. (Name!Kept(read))' # {} /\ (Name!Begun(read))' # {} BY <1>8
  <2>5. \A k \in (Name!Kept(read))' :
          Name!Place(k) \in 1 .. p + 2 /\ b[Front + Name!Place(k)] = Name!Lower(input[k])
    BY <1>8, <1>10, <2>3
  <2>6. \A k \in (Name!Begun(read))' : Name!Place(k) > 1 => b[Front + Name!Place(k) - 1] = "-"
    BY <1>8, <1>11, <2>3
  <2> QED BY <1>2, <1>6, <1>8, <1>9, <2>1, <2>2, <2>4, <2>5, <2>6
          DEF Buffered, Name!Lower
<1>13. Hyphens'
  <2>1. \A i \in 1 .. Len(b) - 1 : ~(b[i] = "-" /\ b[i + 1] = "-")
    BY <1>1, <1>2, NoPair DEF b, Scanned, Hyphens
  <2>2. Front = 1 => b[1] = "-"
    <3>1. Front = 1 => buf[1] = "-" BY DEF Scanned, Hyphens
    <3> QED BY <3>1, <1>3, <1>6, <1>7
  <2>3. b[Len(b)] # "-" BY <1>2, <1>3
  <2> QED BY <1>2, <1>3, <1>6, <2>1, <2>2, <2>3 DEF Hyphens
<1> QED BY <1>12, <1>13

\* Another character of a run: the hyphen is there already.
LEMMA ReadMore ==
    ASSUME read \in Nat, Scanned, Name!ReadByte, ~Name!AlphaNum(input[read + 1]),
           last_was_hyphen
    PROVE  Buffered' /\ Hyphens'
<1>1. buf' = buf /\ (last_was_hyphen)' = TRUE /\ read > 0 /\ Front' = Front /\ input' = input
  BY ReadKeeps DEF Name!ReadByte, Scanned
<1>2. /\ (Name!Kept(read))' = Name!Kept(read) /\ (Name!Begun(read))' = Name!Begun(read)
      /\ (Name!Place(read))' = Name!Place(read)
      /\ \A k : (Name!Place(k))' = Name!Place(k)
  BY ReadKeeps, KeptGrows
<1>3. Buffered' BY <1>1, <1>2 DEF Buffered, Scanned, Name!Lower
<1>4. Hyphens'
  <2>1. Hyphens BY DEF Scanned
  <2> QED BY <1>1, <2>1 DEF Hyphens
<1> QED BY <1>3, <1>4

\* The first character of a run becomes a hyphen.
LEMMA ReadGap ==
    ASSUME read \in Nat, Scanned, Name!ReadByte, ~Name!AlphaNum(input[read + 1]),
           ~last_was_hyphen
    PROVE  Buffered' /\ Hyphens'
<1> DEFINE p == Name!Place(read)
           l == Len(buf)
           b == Append(buf, "-")
<1>1. "-" \in SlugLetters BY DEF SlugLetters
<1>2. buf' = b /\ (last_was_hyphen)' = TRUE /\ input' = input
  BY ReadKeeps DEF Name!ReadByte
<1>3. /\ b \in Seq(SlugLetters) /\ Len(b) = l + 1 /\ l \in Nat /\ b[l + 1] = "-"
      /\ \A i \in 1 .. l : b[i] = buf[i]
      /\ b # <<>>
  BY <1>1, PutBehind DEF Scanned
<1>4. /\ (Name!Kept(read))' = Name!Kept(read) /\ (Name!Begun(read))' = Name!Begun(read)
      /\ (Name!Place(read))' = p
      /\ \A k : (Name!Place(k))' = Name!Place(k)
  BY ReadKeeps, KeptGrows
<1>5. p \in Int BY KeptFinite
<1>6. Buffered /\ Hyphens BY DEF Scanned
<1>7. CASE read = 0
  <2>1. Name!Kept(read) = {} /\ Name!Begun(read) = {} BY <1>7, KeptNone
  <2>2. Front = 0 /\ Front' = 1 BY <1>7, ReadKeeps DEF Front
  <2>3. l = 0 BY <1>6, <2>1, <2>2 DEF Buffered
  <2>4. Len(b) = 1 /\ b[1] = "-" /\ b[Len(b)] = "-" BY <1>3, <2>3
  <2>5. Buffered' BY <1>2, <1>4, <2>1, <2>2, <2>4 DEF Buffered
  <2>6. Hyphens'
    <3>1. \A i \in 1 .. Len(b) - 1 : ~(b[i] = "-" /\ b[i + 1] = "-") BY <2>4
    <3> QED BY <1>2, <1>3, <2>2, <2>4, <3>1 DEF Hyphens
  <2> QED BY <2>5, <2>6
<1>8. CASE read > 0
  <2>1. Front' = Front /\ Front \in {0, 1} BY <1>8, ReadKeeps DEF Front
  <2>2. read \in Name!Kept(read) BY <1>8 DEF Scanned, Name!Kept
  <2>3. /\ l = Front + p + 0 /\ p > 0 /\ Name!Begun(read) # {}
        /\ buf[Front + 1] # "-" /\ buf[Front + p] # "-"
    BY <1>6, <2>2 DEF Buffered
  <2> HIDE DEF p, l, b
  <2>4. /\ Len(b) = Front + p + 1 /\ b[Front + 1] # "-" /\ b[Front + p] # "-"
    BY <1>3, <1>5, <2>1, <2>3
  <2>5. ASSUME NEW k \in Name!Kept(read)
        PROVE  Name!Place(k) \in 1 .. p /\ b[Front + Name!Place(k)] = Name!Lower(input[k])
    <3>1. Name!Place(k) \in 1 .. p /\ buf[Front + Name!Place(k)] = Name!Lower(input[k])
      BY <1>6, <2>5 DEF Buffered, p
    <3> QED BY <3>1, <1>3, <1>5, <2>1, <2>3
  <2>6. ASSUME NEW k \in Name!Begun(read), Name!Place(k) > 1
        PROVE  b[Front + Name!Place(k) - 1] = "-"
    <3>1. Name!Place(k) \in 1 .. p /\ buf[Front + Name!Place(k) - 1] = "-"
      BY <1>6, <2>6, KeptFinite DEF Buffered, p
    <3> QED BY <3>1, <2>6, <1>3, <1>5, <2>1, <2>3
  <2>7. Buffered'
    BY <1>2, <1>4, <2>1, <2>2, <2>3, <2>4, <2>5, <2>6 DEF Buffered, Name!Lower
  <2>8. Hyphens'
    <3>1. buf # <<>> => ~(buf[Len(buf)] = "-" /\ "-" = "-") BY <1>6 DEF Hyphens
    <3>2. \A i \in 1 .. Len(b) - 1 : ~(b[i] = "-" /\ b[i + 1] = "-")
      BY <1>1, <1>6, <3>1, NoPair DEF b, Scanned, Hyphens
    <3>3. Front = 1 => b[1] = "-"
      <4>1. Front = 1 => buf[1] = "-" BY <1>6 DEF Hyphens
      <4> QED BY <4>1, <1>3, <1>5, <2>1, <2>3
    <3>4. b[Len(b)] = "-" BY <1>3
    <3> QED BY <1>2, <1>3, <2>1, <3>2, <3>3, <3>4 DEF Hyphens
  <2> QED BY <2>7, <2>8
<1> QED BY <1>7, <1>8

\* A name that is a slug already is read as it stands.
LEMMA ReadSlug ==
    ASSUME input \in Seq(Letters \cup HostLetters), read \in Nat, read < Len(input),
           Scanned, Name!ReadByte, Name!SlugNew(input) = "ok"
    PROVE  Len(buf') = read' /\ \A i \in 1 .. read' : (buf')[i] = input[i]
<1> DEFINE c == input[read + 1]
<1>1. Len(input) \in Nat /\ read + 1 \in 1 .. Len(input) BY LenProperties
<1>2. /\ \A i \in 1 .. Len(input) : input[i] \in {"a", "1", "-"}
      /\ input[1] # "-"
      /\ \A i \in 1 .. Len(input) - 1 : ~(input[i] = "-" /\ input[i + 1] = "-")
  <2>1. input # <<>> BY <1>1, EmptySeq
  <2> QED BY <2>1 DEF Name!SlugNew, Name!StartsWith
<1>3. Len(buf) = read /\ \A i \in 1 .. read : buf[i] = input[i] BY DEF Scanned
<1>4. c \in {"a", "1", "-"} /\ c \in SlugLetters BY <1>1, <1>2 DEF SlugLetters
<1>5. buf' = Append(buf, c) /\ read' = read + 1
  <2>1. CASE Name!AlphaNum(c)
    BY <1>4, <2>1 DEF Name!ReadByte, Name!Lower, Name!AlphaNum
  <2>2. CASE ~Name!AlphaNum(c)
    <3>1. c = "-" BY <1>4, <2>2 DEF Name!AlphaNum
    <3>2. ~last_was_hyphen
      <4> SUFFICES ASSUME last_was_hyphen PROVE FALSE OBVIOUS
      <4>1. read > 0 /\ ~Name!AlphaNum(input[read]) BY DEF Scanned
      <4>2. read \in 1 .. Len(input) - 1 BY <1>1, <4>1
      <4>3. input[read] = "-" BY <1>2, <4>1, <4>2 DEF Name!AlphaNum
      <4> QED BY <1>2, <3>1, <4>2, <4>3
    <3> QED BY <2>2, <3>1, <3>2 DEF Name!ReadByte
  <2> QED BY <2>1, <2>2
<1>6. /\ Len(Append(buf, c)) = read + 1 /\ Append(buf, c)[read + 1] = c
      /\ \A i \in 1 .. read : Append(buf, c)[i] = buf[i]
  BY <1>3, <1>4, PutBehind DEF Scanned
<1> QED BY <1>3, <1>5, <1>6

\* One byte more.
LEMMA NameRead ==
    ASSUME input \in Seq(Letters \cup HostLetters), read \in 0 .. Len(input),
           Scanned, Name!ReadByte
    PROVE  Scanned'
<1>1. Len(input) \in Nat /\ read \in Nat /\ read < Len(input)
  BY LenProperties DEF Name!ReadByte
<1>2. Buffered' /\ Hyphens'
  <2>1. CASE Name!AlphaNum(input[read + 1])
    <3>1. CASE Name!Kept(read) = {} BY <1>1, <2>1, <3>1, ReadFirst
    <3>2. CASE Name!Kept(read) # {} /\ ~Name!AlphaNum(input[read])
      BY <1>1, <2>1, <3>2, ReadWord
    <3>3. CASE Name!Kept(read) # {} /\ Name!AlphaNum(input[read])
      <4>1. read > 0 BY <1>1, <3>3, KeptNone
      <4> QED BY <1>1, <2>1, <3>3, <4>1, ReadOn
    <3> QED BY <3>1, <3>2, <3>3
  <2>2. CASE ~Name!AlphaNum(input[read + 1]) /\ last_was_hyphen BY <1>1, <2>2, ReadMore
  <2>3. CASE ~Name!AlphaNum(input[read + 1]) /\ ~last_was_hyphen BY <1>1, <2>3, ReadGap
  <2> QED BY <2>1, <2>2, <2>3
<1>3. buf' \in Seq(SlugLetters)
  <2>1. Name!AlphaNum(input[read + 1]) => Name!Lower(input[read + 1]) \in SlugLetters
    BY DEF Name!AlphaNum, Name!Lower, SlugLetters
  <2>2. "-" \in SlugLetters /\ buf \in Seq(SlugLetters) BY DEF SlugLetters, Scanned
  <2> QED BY <2>1, <2>2, PutBehind DEF Name!ReadByte
<1>4. /\ (last_was_hyphen)' \in BOOLEAN
      /\ (last_was_hyphen)' <=> read' > 0 /\ ~Name!AlphaNum((input')[read'])
  <2>1. (last_was_hyphen)' = ~Name!AlphaNum(input[read + 1]) /\ read' = read + 1
        /\ input' = input
    BY <1>1, ReadKeeps
  <2>2. read + 1 > 0 BY <1>1
  <2>3. (last_was_hyphen)' \in BOOLEAN BY <2>1 DEF Name!AlphaNum
  <2> QED BY <2>1, <2>2, <2>3
<1>5. Name!SlugNew(input)' = "ok" =>
         Len(buf') = read' /\ \A i \in 1 .. read' : (buf')[i] = (input')[i]
  <2>1. input' = input BY <1>1, ReadKeeps
  <2>2. Name!SlugNew(input)' = "ok" => Name!SlugNew(input) = "ok"
    BY <2>1 DEF Name!SlugNew, Name!StartsWith, Name!EndsWith
  <2> QED BY <1>1, <2>1, <2>2, ReadSlug
<1> QED BY <1>2, <1>3, <1>4, <1>5 DEF Scanned, Name!AlphaNum

\* What trim_matches leaves of a text: all between its first and its last other character.
LEMMA TrimOf ==
    ASSUME NEW s \in Seq(SlugLetters), NEW first \in 1 .. Len(s), NEW last \in 1 .. Len(s),
           s[first] # "-", s[last] # "-",
           \A i \in 1 .. Len(s) : i < first \/ i > last => s[i] = "-"
    PROVE  Name!Trim(s) = SubSeq(s, first, last)
<1> DEFINE inner == {i \in 1 .. Len(s) : s[i] # "-"}
           low == CHOOSE i \in inner : \A j \in inner : i <= j
           high == CHOOSE i \in inner : \A j \in inner : j <= i
<1>0. Len(s) \in Nat BY LenProperties
<1>1. first \in inner /\ last \in inner OBVIOUS
<1>2. \A i \in inner : first <= i /\ i <= last BY <1>0
<1>3. low \in inner /\ \A j \in inner : low <= j BY <1>1, <1>2
<1>4. high \in inner /\ \A j \in inner : j <= high BY <1>1, <1>2
<1>5. Name!Trim(s) = (IF inner = {} THEN <<>> ELSE SubSeq(s, low, high)) BY DEF Name!Trim
<1> HIDE DEF low, high
<1>6. low = first
  <2>1. low <= first /\ first <= low BY <1>1, <1>2, <1>3
  <2>2. low \in Int /\ first \in Int BY <1>0, <1>3
  <2> QED BY <2>1, <2>2
<1>7. high = last
  <2>1. high <= last /\ last <= high BY <1>1, <1>2, <1>4
  <2>2. high \in Int /\ last \in Int BY <1>0, <1>4
  <2> QED BY <2>1, <2>2
<1> QED BY <1>1, <1>5, <1>6, <1>7

\* The slug that is left is what was read, without the hyphens around it.
LEMMA Trimmed ==
    ASSUME input \in Seq(Letters \cup HostLetters), read \in Nat, Scanned,
           Name!Kept(read) # {}
    PROVE  LET t == Name!Trim(buf) IN
           /\ t \in Seq(SlugLetters) /\ Len(t) = Name!Place(read) /\ Name!Place(read) > 0
           /\ \A i \in 1 .. Name!Place(read) : t[i] = buf[Front + i]
           /\ t[1] # "-" /\ t[Name!Place(read)] # "-"
           /\ \A i \in 1 .. Name!Place(read) - 1 : ~(t[i] = "-" /\ t[i + 1] = "-")
<1> DEFINE p == Name!Place(read)
           l == Len(buf)
           h == IF last_was_hyphen THEN 1 ELSE 0
           t == SubSeq(buf, Front + 1, Front + p)
<1>1. p \in Int /\ l \in Nat /\ Front \in {0, 1} /\ h \in {0, 1}
  <2>1. p \in Int BY KeptFinite
  <2>2. l \in Nat BY LenProperties DEF Scanned
  <2>3. Front \in {0, 1} /\ h \in {0, 1} BY DEF Front
  <2> QED BY <2>1, <2>2, <2>3
<1>2. /\ p > 0 /\ l = Front + p + h /\ buf[Front + 1] # "-" /\ buf[Front + p] # "-"
      /\ Hyphens
  BY DEF Scanned, Buffered
<1>3. l > 0 => buf # <<>> BY <1>1, EmptySeq
<1>4. h = 1 => buf[l] = "-" BY <1>1, <1>2, <1>3 DEF Hyphens
<1>5. Front = 1 => buf[1] = "-" BY <1>2 DEF Hyphens
<1>6. \A i \in 1 .. l - 1 : ~(buf[i] = "-" /\ buf[i + 1] = "-") BY <1>2 DEF Hyphens
<1>7. buf \in Seq(SlugLetters) /\ \A i \in 1 .. l : buf[i] \in SlugLetters
  BY ElementOfSeq DEF Scanned
<1> HIDE DEF p, h
<1>8. Name!Trim(buf) = t
  <2>1. Front + 1 \in 1 .. l /\ Front + p \in 1 .. l BY <1>1, <1>2
  <2>2. ASSUME NEW i \in 1 .. l, i < Front + 1 \/ i > Front + p PROVE buf[i] = "-"
    <3>1. CASE i < Front + 1
      <4>1. i = 1 /\ Front = 1 BY <3>1, <1>1
      <4> QED BY <4>1, <1>5
    <3>2. CASE i > Front + p
      <4>1. i = l /\ h = 1 BY <3>2, <1>1, <1>2
      <4> QED BY <4>1, <1>4
    <3> QED BY <2>2, <3>1, <3>2
  <2> QED BY <1>2, <1>7, <2>1, <2>2, TrimOf
<1>9. /\ t \in Seq(SlugLetters) /\ Len(t) = p
      /\ \A i \in 1 .. p : t[i] = buf[Front + i]
  <2>1. Front + 1 \in Int /\ Front + p \in Int /\ Front + 1 <= Front + p
        /\ (Front + p) - (Front + 1) + 1 = p
    BY <1>1, <1>2
  <2>2. \A i \in Front + 1 .. Front + p : buf[i] \in SlugLetters BY <1>1, <1>2, <1>7
  <2>3. /\ t \in Seq(SlugLetters) /\ Len(t) = p
        /\ \A i \in 1 .. p : t[i] = buf[(Front + 1) + i - 1]
    BY <2>1, <2>2, SubSeqProperties
  <2>4. \A i \in 1 .. p : (Front + 1) + i - 1 = Front + i BY <1>1
  <2> QED BY <2>3, <2>4
<1> HIDE DEF t
<1>10. t[1] # "-" /\ t[p] # "-" BY <1>1, <1>2, <1>9
<1>11. \A i \in 1 .. p - 1 : ~(t[i] = "-" /\ t[i + 1] = "-")
  <2> TAKE i \in 1 .. p - 1
  <2>1. i \in 1 .. p /\ i + 1 \in 1 .. p /\ Front + i \in 1 .. l - 1
        /\ Front + (i + 1) = (Front + i) + 1
    BY <1>1, <1>2
  <2> QED BY <2>1, <1>6, <1>9
<1> QED BY <1>2, <1>8, <1>9, <1>10, <1>11 DEF p

\* Only a reserved word or its length can be said against the slug that is left.
LEMMA SlugPasses ==
    ASSUME NEW t \in Seq(SlugLetters), Len(t) > 0, t[1] # "-", t[Len(t)] # "-",
           \A i \in 1 .. Len(t) - 1 : ~(t[i] = "-" /\ t[i + 1] = "-")
    PROVE  /\ Name!SlugNew(t) \in {"ok", "too_long", "reserved"}
           /\ Name!SlugNew(t) = "reserved" <=> t \in Name!Reserved
           /\ Name!DirName(t) /\ t # <<>>
<1>1. t # <<>> /\ Len(t) \in Nat BY EmptySeq, LenProperties
<1>2. \A i \in 1 .. Len(t) : t[i] \in {"a", "1", "-"} BY ElementOfSeq DEF SlugLetters
<1>3. Name!SlugNew(t) = (IF Len(t) > MaxSlugLen THEN "too_long"
                         ELSE IF t \in Name!Reserved THEN "reserved" ELSE "ok")
  BY <1>1, <1>2 DEF Name!SlugNew, Name!StartsWith, Name!EndsWith
<1>4. t \in Name!Reserved => ~(Len(t) > MaxSlugLen)
  BY <1>1, NameConstants DEF Name!LengthsAssumption
<1>5. Name!DirName(t)
  <2>1. 1 \in 1 .. Len(t) /\ t[1] # "." BY <1>1, <1>2
  <2>2. t \notin {<<".">>, <<".", ".">>} BY <2>1
  <2>3. \A c \in {"/", "\\", "0"} : ~Name!Has(t, c) BY <1>2 DEF Name!Has
  <2> QED BY <1>1, <2>1, <2>2, <2>3 DEF Name!DirName, Name!StartsWith
<1> QED BY <1>1, <1>3, <1>4, <1>5

\* The slug is made.
LEMMA NameDerive ==
    ASSUME input \in Seq(Letters \cup HostLetters), read \in 0 .. Len(input), Scanned,
           Name!Derive
    PROVE  Name!SlugFits' /\ Name!SlugStable'
<1> DEFINE t == Name!Trim(buf)
           p == Name!Place(read)
<1>1. Len(input) \in Nat /\ read = Len(input) /\ use = "slug"
  BY LenProperties DEF Name!Derive
<1>2. /\ buf' = t /\ outcome' = (IF t = <<>> THEN "unparseable" ELSE Name!SlugNew(t))
      /\ input' = input /\ use' = use
  BY DEF Name!Derive, Name!Ends
<1>3. /\ \A k : (Name!Place(k))' = Name!Place(k)
      /\ (Name!Kept(Len(input)))' = Name!Kept(read)
      /\ (Name!Begun(Len(input)))' = Name!Begun(read)
      /\ (Name!Place(Len(input)))' = p
  BY <1>1, <1>2 DEF Name!Place, Name!Begun, Name!Kept
<1>4. CASE Name!Kept(read) = {}
  <2>1. Len(buf) = Front /\ Front \in {0, 1} /\ (Front = 1 => buf[1] = "-")
    BY <1>4 DEF Scanned, Buffered, Hyphens, Front
  <2>2. t = <<>>
    <3>1. {i \in 1 .. Len(buf) : buf[i] # "-"} = {} BY <2>1
    <3> QED BY <3>1 DEF Name!Trim
  <2>3. Name!Begun(read) = {} BY <1>4, PlaceOfNone, <1>1
  <2>4. <<>> \notin Name!Reserved
    <3>1. <<>> # <<"a", "1">> OBVIOUS
    <3> QED BY <3>1 DEF Name!Reserved
  <2>5. Name!SlugFits' BY <1>2, <1>3, <1>4, <2>2, <2>3, <2>4 DEF Name!SlugFits
  <2>6. Name!SlugNew(input) # "ok"
    <3> SUFFICES ASSUME Name!SlugNew(input) = "ok" PROVE FALSE OBVIOUS
    <3>1. Len(buf) = read /\ \A i \in 1 .. read : buf[i] = input[i] BY DEF Scanned
    <3>2. input # <<>> /\ input[1] # "-" BY DEF Name!SlugNew, Name!StartsWith
    <3>3. read > 0 BY <1>1, <3>2, EmptySeq
    <3> QED BY <2>1, <3>1, <3>2, <3>3, <1>1
  <2>7. Name!SlugStable'
    BY <1>2, <2>6 DEF Name!SlugStable, Name!SlugNew, Name!StartsWith, Name!EndsWith
  <2> QED BY <2>5, <2>7
<1>5. CASE Name!Kept(read) # {}
  <2>1. /\ t \in Seq(SlugLetters) /\ Len(t) = p /\ p > 0
        /\ \A i \in 1 .. p : t[i] = buf[Front + i]
        /\ t[1] # "-" /\ t[p] # "-"
        /\ \A i \in 1 .. p - 1 : ~(t[i] = "-" /\ t[i + 1] = "-")
    BY <1>1, <1>5, Trimmed
  <2>2. p \in Int BY <1>1, KeptFinite
  <2> HIDE DEF t, p
  <2>3. /\ Name!SlugNew(t) \in {"ok", "too_long", "reserved"}
        /\ Name!SlugNew(t) = "reserved" <=> t \in Name!Reserved
        /\ Name!DirName(t) /\ t # <<>>
    BY <2>1, SlugPasses
  <2>4. outcome' = Name!SlugNew(t) BY <1>2, <2>3
  <2>5. \A k \in Name!Kept(read) : t[Name!Place(k)] = Name!Lower(input[k])
    <3> TAKE k \in Name!Kept(read)
    <3>1. Name!Place(k) \in 1 .. p /\ buf[Front + Name!Place(k)] = Name!Lower(input[k])
      BY DEF Scanned, Buffered, p
    <3> QED BY <2>1, <3>1
  <2>6. \A k \in Name!Begun(read) : Name!Place(k) > 1 => t[Name!Place(k) - 1] = "-"
    <3> SUFFICES ASSUME NEW k \in Name!Begun(read), Name!Place(k) > 1
                 PROVE  t[Name!Place(k) - 1] = "-"
      OBVIOUS
    <3>1. Name!Place(k) \in 1 .. p /\ buf[Front + Name!Place(k) - 1] = "-"
      BY <1>1, KeptFinite DEF Scanned, Buffered, p
    <3>2. Name!Place(k) - 1 \in 1 .. p /\ Front + (Name!Place(k) - 1) = Front + Name!Place(k) - 1
      BY <2>2, <3>1 DEF Front
    <3> QED BY <2>1, <3>1, <3>2
  <2>7. Name!SlugFits'
    <3>1. (Name!Kept(Len(input)))' # {} BY <1>3, <1>5
    <3>2. \A k \in (Name!Kept(Len(input)))' :
             (buf')[(Name!Place(k))'] = Name!Lower((input')[k])
      BY <1>2, <1>3, <2>5 DEF t
    <3>3. \A k \in (Name!Begun(Len(input)))' :
             (Name!Place(k))' > 1 => (buf')[(Name!Place(k))' - 1] = "-"
      BY <1>2, <1>3, <2>6 DEF t
    <3>4. Len(buf') = (Name!Place(Len(input)))' BY <1>2, <1>3, <2>1 DEF t
    <3>5. outcome' = "ok" => Name!SlugNew(buf') = "ok" /\ Name!DirName(buf')
      BY <1>2, <2>3, <2>4 DEF t
    <3>6. outcome' # "unparseable" /\ outcome' \in {"ok", "unparseable", "too_long", "reserved"}
          /\ (outcome' = "reserved" <=> buf' \in Name!Reserved)
      BY <1>2, <2>3, <2>4 DEF t
    <3> QED BY <3>1, <3>2, <3>3, <3>4, <3>5, <3>6 DEF Name!SlugFits, Name!Lower,
               Name!SlugNew, Name!DirName, Name!StartsWith, Name!EndsWith, Name!Has,
               Name!Reserved
  <2>8. Name!SlugNew(input) = "ok" => t = input /\ outcome' = "ok"
    <3> SUFFICES ASSUME Name!SlugNew(input) = "ok" PROVE t = input /\ outcome' = "ok"
      OBVIOUS
    <3>1. Len(buf) = read /\ \A i \in 1 .. read : buf[i] = input[i] BY DEF Scanned
    <3>2. /\ input # <<>> /\ input[1] # "-" /\ input[Len(input)] # "-"
          /\ \A i \in 1 .. Len(input) : input[i] \in SlugLetters
      BY DEF Name!SlugNew, Name!StartsWith, Name!EndsWith, SlugLetters
    <3>3. buf \in Seq(SlugLetters) /\ input \in Seq(SlugLetters)
      <4>1. input \in [1 .. Len(input) -> SlugLetters] BY <3>2, LenProperties
      <4>2. input \in Seq(SlugLetters) BY <1>1, <4>1, SeqDef
      <4> QED BY <4>2 DEF Scanned
    <3>4. buf = input BY <1>1, <3>1, <3>3, SeqEqual
    <3>5. Len(input) > 0 BY <1>1, <3>2, EmptySeq
    <3>6. 1 \in 1 .. Len(input) /\ Len(input) \in 1 .. Len(input) BY <1>1, <3>5
    <3>7. \A i \in 1 .. Len(input) : i < 1 \/ i > Len(input) => input[i] = "-" BY <1>1
    <3>8. t = SubSeq(input, 1, Len(input))
      BY <3>2, <3>3, <3>4, <3>6, <3>7, TrimOf DEF t
    <3>9. t = input BY <3>3, <3>8, SubSeqFull
    <3> QED BY <2>4, <3>9
  <2>9. Name!SlugStable'
    BY <1>2, <2>8 DEF Name!SlugStable, Name!SlugNew, Name!StartsWith, Name!EndsWith, t
  <2> QED BY <2>7, <2>9
<1> QED BY <1>4, <1>5

\* A name over the limit is not read at all.
LEMMA NameTooLong ==
    ASSUME input \in Seq(Letters \cup HostLetters), Name!TooLong
    PROVE  Name!SlugFits' /\ Name!SlugStable'
<1>1. Len(input) \in Nat /\ InputCap \in Nat
  BY LenProperties, NameConstants DEF Name!LengthsAssumption
<1>2. input' = input /\ ~(Len(input) <= InputCap)
  BY <1>1 DEF Name!TooLong, Name!Ends
<1>3. Name!SlugFits' BY <1>2 DEF Name!SlugFits
<1>4. Name!SlugStable' BY <1>2 DEF Name!SlugStable
<1> QED BY <1>3, <1>4

\* A Host header made of a listed host and a port, as parse_host reads it.
LEMMA HeaderText ==
    ASSUME NEW S, NEW t \in Seq(S), NEW port \in {<<>>, <<":">>, <<":", "1">>}
    PROVE  LET s == Name!LowerAll(t \o port) IN
           /\ Len(t) \in Nat /\ Len(s) = Len(t) + Len(port) /\ Len(port) \in {0, 1, 2}
           /\ \A i \in 1 .. Len(t) : s[i] = Name!Lower(t[i])
           /\ \A i \in Len(t) + 1 .. Len(s) : s[i] = (IF i = Len(t) + 1 THEN ":" ELSE "1")
           /\ SubSeq(s, 1, Len(t)) = Name!LowerAll(t)
           /\ Len(port) = 0 => s = Name!LowerAll(t)
<1> DEFINE T == S \cup {":", "1"}
           U == T \cup {"a"}
           s == Name!LowerAll(t \o port)
           n == Len(t)
<1>1. t \in Seq(T) /\ port \in Seq(T) /\ Len(port) \in {0, 1, 2} /\ n \in Nat
  <2>1. t \in Seq(T) BY SeqMonotonic
  <2>2. ":" \in T /\ "1" \in T OBVIOUS
  <2>3. CASE port = <<>> BY <2>1, <2>3, EmptySeq, LenProperties
  <2>4. CASE port = <<":">> BY <2>1, <2>2, <2>4, LenProperties
  <2>5. CASE port = <<":", "1">> BY <2>1, <2>2, <2>5, LenProperties
  <2> QED BY <2>3, <2>4, <2>5
<1>2. /\ t \o port \in Seq(T) /\ Len(t \o port) = n + Len(port)
      /\ \A i \in 1 .. n + Len(port) :
            (t \o port)[i] = IF i <= n THEN t[i] ELSE port[i - n]
  BY <1>1, ConcatProperties
<1>3. s = [i \in 1 .. n + Len(port) |-> Name!Lower((t \o port)[i])]
  BY <1>2 DEF Name!LowerAll
<1>4. \A i \in 1 .. n + Len(port) : Name!Lower((t \o port)[i]) \in U
  BY <1>2, ElementOfSeq DEF Name!Lower
<1>5. s \in Seq(U) /\ Len(s) = n + Len(port)
  <2>1. n + Len(port) \in Nat BY <1>1
  <2>2. s \in [1 .. n + Len(port) -> U] BY <1>3, <1>4
  <2>3. s \in Seq(U) BY <2>1, <2>2, SeqDef
  <2>4. DOMAIN s = 1 .. n + Len(port) /\ DOMAIN s = 1 .. Len(s) /\ Len(s) \in Nat
    BY <2>2, <2>3, LenProperties
  <2> QED BY <2>1, <2>3, <2>4
<1>6. \A i \in 1 .. n : s[i] = Name!Lower(t[i])
  <2> TAKE i \in 1 .. n
  <2>1. i \in 1 .. n + Len(port) /\ i <= n BY <1>1
  <2> QED BY <2>1, <1>2, <1>3
<1>7. \A i \in n + 1 .. Len(s) : s[i] = (IF i = n + 1 THEN ":" ELSE "1")
  <2> TAKE i \in n + 1 .. Len(s)
  <2>1. i \in 1 .. n + Len(port) /\ ~(i <= n) /\ i - n \in 1 .. Len(port) /\ i \in Int
    BY <1>1, <1>5
  <2>2. s[i] = Name!Lower(port[i - n]) BY <2>1, <1>2, <1>3
  <2>3. (i - n = 1 /\ Len(port) > 0) \/ (i - n = 2 /\ Len(port) > 1)
    <3>1. i > n /\ i <= n + Len(port) BY <2>1, <1>1
    <3>0. \A a \in Int, b \in Int, d \in {0, 1, 2} :
             a > b /\ a <= b + d => a = b + 1 \/ a = b + 2
      OBVIOUS
    <3>2. i = n + 1 \/ i = n + 2
      <4>1. n \in Int /\ i \in Int /\ Len(port) \in {0, 1, 2} BY <2>1, <1>1
      <4> QED BY <3>0, <3>1, <4>1
    <3> QED BY <3>1, <3>2, <2>1, <1>1
  <2>4. port[i - n] = (IF i - n = 1 THEN ":" ELSE "1")
    <3>1. CASE port = <<>>
      <4>1. Len(port) = 0 BY <3>1
      <4> QED BY <4>1, <2>3
    <3>2. CASE port = <<":">>
      <4>1. Len(port) = 1 BY <3>2
      <4>2. i - n = 1 BY <4>1, <2>3
      <4> QED BY <4>2, <3>2
    <3>3. CASE port = <<":", "1">> BY <3>3, <2>3
    <3> QED BY <3>1, <3>2, <3>3
  <2>5. i - n = 1 <=> i = n + 1 BY <2>1, <1>1
  <2> QED BY <2>2, <2>4, <2>5 DEF Name!Lower
<1>8. Name!LowerAll(t) = [i \in 1 .. n |-> Name!Lower(t[i])] BY DEF Name!LowerAll
<1>9. Name!LowerAll(t) \in Seq(U) /\ Len(Name!LowerAll(t)) = n
  <2>1. Name!LowerAll(t) \in [1 .. n -> U]
    <3>1. \A i \in 1 .. n : Name!Lower(t[i]) \in U BY ElementOfSeq DEF Name!Lower
    <3> QED BY <1>8, <3>1
  <2>2. Name!LowerAll(t) \in Seq(U) BY <1>1, <2>1, SeqDef
  <2>3. DOMAIN Name!LowerAll(t) = 1 .. n
        /\ DOMAIN Name!LowerAll(t) = 1 .. Len(Name!LowerAll(t))
        /\ Len(Name!LowerAll(t)) \in Nat
    BY <2>1, <2>2, LenProperties
  <2> QED BY <1>1, <2>2, <2>3
<1>10. SubSeq(s, 1, n) = Name!LowerAll(t)
  <2>1. \A i \in 1 .. n : s[i] \in U BY <1>1, <1>5, ElementOfSeq
  <2>2. /\ SubSeq(s, 1, n) \in Seq(U)
        /\ Len(SubSeq(s, 1, n)) = (IF 1 <= n THEN n - 1 + 1 ELSE 0)
        /\ \A i \in 1 .. n - 1 + 1 : SubSeq(s, 1, n)[i] = s[1 + i - 1]
    BY <2>1, <1>1, SubSeqProperties
  <2>3. Len(SubSeq(s, 1, n)) = n BY <2>2, <1>1
  <2>4. \A i \in 1 .. n : SubSeq(s, 1, n)[i] = Name!LowerAll(t)[i]
    <3> TAKE i \in 1 .. n
    <3>1. i \in 1 .. n - 1 + 1 /\ 1 + i - 1 = i BY <1>1
    <3> QED BY <2>2, <3>1, <1>6, <1>8
  <2> QED BY <1>9, <2>2, <2>3, <2>4, SeqEqual
<1>11. Len(port) = 0 => s = Name!LowerAll(t)
  <2> SUFFICES ASSUME Len(port) = 0 PROVE s = Name!LowerAll(t) OBVIOUS
  <2>1. Len(s) = n BY <1>1, <1>5
  <2>2. \A i \in 1 .. n : s[i] = Name!LowerAll(t)[i] BY <1>6, <1>8
  <2> QED BY <1>5, <1>9, <2>1, <2>2, SeqEqual
<1> QED BY <1>1, <1>5, <1>6, <1>7, <1>10, <1>11

\* A listed host is found in the header, whatever the port.
LEMMA HostFound ==
    ASSUME NEW S, NEW t \in Seq(S), Name!PatternError(t) = "ok",
           NEW port \in {<<>>, <<":">>, <<":", "1">>}
    PROVE  Name!ParseHost(t \o port) = Name!LowerAll(t)
<1> DEFINE s == Name!LowerAll(t \o port)
           n == Len(t)
           m == Len(s)
<1>1. /\ n \in Nat /\ m = n + Len(port) /\ Len(port) \in {0, 1, 2}
      /\ \A i \in 1 .. n : s[i] = Name!Lower(t[i])
      /\ \A i \in n + 1 .. m : s[i] = (IF i = n + 1 THEN ":" ELSE "1")
      /\ SubSeq(s, 1, n) = Name!LowerAll(t)
      /\ Len(port) = 0 => s = Name!LowerAll(t)
  BY HeaderText
<1>2. t # <<>> /\ n > 0
  <2>1. t # <<>> BY DEF Name!PatternError
  <2> QED BY <2>1, <1>1, EmptySeq
<1>3. Name!StartsWith(s, "[") <=> Name!StartsWith(t, "[")
  <2>1. s[1] = Name!Lower(t[1]) /\ m > 0 BY <1>1, <1>2
  <2>2. s # <<>>
    <3>1. s = <<>> => m = 0 BY EmptySeq
    <3> QED BY <2>1, <3>1
  <2>3. s[1] = "[" <=> t[1] = "[" BY <2>1 DEF Name!Lower
  <2> QED BY <1>2, <2>2, <2>3 DEF Name!StartsWith
<1>4. CASE Name!StartsWith(t, "[")
  <2>1. Name!HasPort(t) = FALSE /\ Name!Closing(t) # {} BY <1>4 DEF Name!PatternError, Name!HasPort
  <2>2. PICK i \in Name!Closing(t) : (\A j \in Name!Closing(t) : i <= j) /\ ~(i < n)
    BY <1>4, <2>1 DEF Name!HasPort
  <2>3. i = n /\ t[n] = "]" BY <2>2, <1>1 DEF Name!Closing
  <2>4. \A k \in 1 .. n : k < n => t[k] # "]" BY <2>2, <2>3, <1>1 DEF Name!Closing
  <2>5. n \in Name!Closing(s)
    <3>1. n \in 1 .. m /\ s[n] = "]" BY <1>1, <1>2, <2>3 DEF Name!Lower
    <3> QED BY <3>1 DEF Name!Closing
  <2>6. \A j \in Name!Closing(s) : n <= j
    <3> TAKE j \in Name!Closing(s)
    <3>1. j \in 1 .. m /\ s[j] = "]" BY DEF Name!Closing
    <3>2. CASE j < n
      <4>1. j \in 1 .. n /\ s[j] = Name!Lower(t[j]) BY <3>1, <3>2, <1>1
      <4> QED BY <3>1, <3>2, <4>1, <2>4 DEF Name!Lower
    <3> QED BY <3>1, <3>2, <1>1
  <2> DEFINE low == CHOOSE k \in Name!Closing(s) : \A j \in Name!Closing(s) : k <= j
  <2>7. low \in Name!Closing(s) /\ \A j \in Name!Closing(s) : low <= j BY <2>5, <2>6
  <2>8. low \in 1 .. m BY <2>7 DEF Name!Closing
  <2>9. Name!ParseHost(t \o port) = SubSeq(s, 1, low)
    BY <1>3, <1>4, <2>5 DEF Name!ParseHost
  <2> HIDE DEF low
  <2>10. low = n
    <3>1. low <= n /\ n <= low BY <2>5, <2>6, <2>7
    <3> QED BY <3>1, <2>8, <1>1
  <2> QED BY <1>1, <2>9, <2>10
<1>5. CASE ~Name!StartsWith(t, "[")
  <2>1. \A k \in 1 .. n : t[k] # ":"
    <3>1. ~Name!Has(t, ":") BY <1>5 DEF Name!PatternError, Name!HasPort
    <3> QED BY <3>1 DEF Name!Has
  <2> DEFINE colons == {i \in 1 .. Len(s) : s[i] = ":"}
             high == CHOOSE i \in colons : \A j \in colons : j <= i
  <2>2. Name!ParseHost(t \o port) = (IF colons = {} THEN s ELSE SubSeq(s, 1, high - 1))
    BY <1>3, <1>5 DEF Name!ParseHost
  <2>3. \A i \in 1 .. n : s[i] # ":" BY <1>1, <2>1 DEF Name!Lower
  <2>4. \A i \in 1 .. m : s[i] = ":" <=> i = n + 1
    <3> TAKE i \in 1 .. m
    <3>1. CASE i <= n
      <4>1. i \in 1 .. n /\ i # n + 1 BY <3>1, <1>1
      <4> QED BY <4>1, <2>3
    <3>2. CASE ~(i <= n)
      <4>1. i \in n + 1 .. m BY <3>2, <1>1
      <4> QED BY <4>1, <1>1
    <3> QED BY <3>1, <3>2
  <2>5. CASE Len(port) = 0
    <3>1. colons = {}
      <4>1. m = n BY <2>5, <1>1
      <4> QED BY <4>1, <2>3
    <3> QED BY <2>2, <2>5, <3>1, <1>1
  <2>6. CASE Len(port) # 0
    <3>1. n + 1 \in 1 .. m BY <2>6, <1>1
    <3>2. colons = {n + 1} BY <2>4, <3>1
    <3>3. n + 1 <= n + 1 BY <1>1
    <3>4. high = n + 1 BY <3>2, <3>3
    <3> HIDE DEF high
    <3>5. high - 1 = n BY <3>4, <1>1
    <3> QED BY <2>2, <3>2, <3>5, <1>1
  <2> QED BY <2>5, <2>6
<1> QED BY <1>4, <1>5

\* One step of a name.
LEMMA NameStep == ASSUME NameInv, [MCNext]_allVars PROVE NameInv'
<1>1. Len(input) \in Nat /\ read \in Nat BY LenProperties DEF NameInv
<1>2. CASE Name!TooLong
  <2>1. /\ input' = input /\ read' = read /\ use' = use /\ outcome' = "too_long"
        /\ use = "slug"
    BY <1>2 DEF Name!TooLong, Name!Ends
  <2>2. Name!SlugFits' /\ Name!SlugStable' BY <1>2, NameTooLong DEF NameInv
  <2>3. Name!ListedHostFound' BY <2>1 DEF Name!ListedHostFound
  <2> QED BY <2>1, <2>2, <2>3 DEF NameInv
<1>3. CASE Name!ReadByte
  <2>1. /\ input' = input /\ read' = read + 1 /\ use' = use /\ outcome' = "scan"
        /\ use = "slug" /\ outcome = "scan" /\ read < Len(input)
    BY <1>3 DEF Name!ReadByte
  <2>2. Scanned' BY <1>3, <2>1, NameRead DEF NameInv
  <2>3. read' \in 0 .. Len(input') BY <1>1, <2>1
  <2>4. Name!SlugFits' /\ Name!SlugStable' /\ Name!ListedHostFound'
    BY <2>1 DEF Name!SlugFits, Name!SlugStable, Name!ListedHostFound
  <2> QED BY <2>1, <2>2, <2>3, <2>4 DEF NameInv
<1>4. CASE Name!Derive
  <2>1. /\ input' = input /\ read' = read /\ use' = use /\ outcome' # "scan"
        /\ use = "slug" /\ outcome = "scan"
    BY <1>4 DEF Name!Derive, Name!Ends, Name!SlugNew
  <2>2. Name!SlugFits' /\ Name!SlugStable' BY <1>4, <2>1, NameDerive DEF NameInv
  <2>3. Name!ListedHostFound' BY <2>1 DEF Name!ListedHostFound
  <2> QED BY <2>1, <2>2, <2>3 DEF NameInv
<1>5. CASE Name!ParsePattern
  <2>1. /\ input' = input /\ read' = read /\ use' = use /\ use = "host"
        /\ outcome' = Name!PatternError(input) /\ buf' = Name!LowerAll(input)
    BY <1>5 DEF Name!ParsePattern, Name!Ends
  <2>2. Name!SlugFits' /\ Name!SlugStable'
    BY <2>1 DEF Name!SlugFits, Name!SlugStable
  <2>3. Name!ListedHostFound'
    <3>1. ASSUME Name!PatternError(input) = "ok",
                 NEW port \in {<<>>, <<":">>, <<":", "1">>}
          PROVE  Name!ParseHost(input \o port) = Name!LowerAll(input)
      BY <3>1, HostFound DEF NameInv
    <3>2. Name!PatternError(input) = "ok" =>
             \A port \in {<<>>, <<":">>, <<":", "1">>} :
                Name!ParseHost(input \o port) = Name!LowerAll(input)
      BY <3>1
    <3>3. \A port : (Name!ParseHost(input \o port))' = Name!ParseHost(input \o port)
      BY <2>1 DEF Name!ParseHost, Name!LowerAll, Name!Lower, Name!StartsWith, Name!Closing
    <3>4. ASSUME outcome' = "ok", NEW port \in {<<>>, <<":">>, <<":", "1">>}
          PROVE  (Name!ParseHost(input \o port))' = buf'
      BY <2>1, <3>2, <3>3, <3>4
    <3> QED BY <3>4 DEF Name!ListedHostFound
  <2> QED BY <2>1, <2>2, <2>3 DEF NameInv
<1>6. CASE UNCHANGED <<input, use, read, buf, last_was_hyphen, outcome>>
  <2>1. Name!SlugFits' /\ Name!SlugStable' /\ Name!ListedHostFound'
    <3>1. Name!SlugFits => Name!SlugFits'
      BY <1>6 DEF Name!SlugFits, Name!Kept, Name!Begun, Name!Place
    <3>2. Name!SlugStable => Name!SlugStable' BY <1>6 DEF Name!SlugStable
    <3>3. Name!ListedHostFound => Name!ListedHostFound' BY <1>6 DEF Name!ListedHostFound
    <3> QED BY <3>1, <3>2, <3>3 DEF NameInv
  <2>2. Scanned => Scanned'
    <3>1. /\ \A k : (Name!Place(k))' = Name!Place(k)
          /\ (Name!Kept(read))' = Name!Kept(read)
          /\ (Name!Begun(read))' = Name!Begun(read)
          /\ (Name!Place(read))' = Name!Place(read)
      BY <1>6 DEF Name!Kept, Name!Begun, Name!Place
    <3>2. Front' = Front BY <1>6 DEF Front
    <3>3. Buffered => Buffered' BY <1>6, <3>1, <3>2 DEF Buffered, Name!Lower
    <3>4. Hyphens => Hyphens' BY <1>6, <3>2 DEF Hyphens
    <3>5. (Name!SlugNew(input) = "ok")' <=> Name!SlugNew(input) = "ok"
      BY <1>6 DEF Name!SlugNew, Name!StartsWith, Name!EndsWith
    <3> QED BY <1>6, <3>3, <3>4, <3>5 DEF Scanned, Name!AlphaNum
  <2> QED BY <1>6, <2>1, <2>2 DEF NameInv
<1>7. CASE part = "name" /\ NameNext /\ Only("name")
  BY <1>7, <1>2, <1>3, <1>4, <1>5 DEF NameNext
<1>8. CASE \/ part = "pin" /\ PinNext /\ Only("pin")
           \/ part = "error" /\ ErrorNext /\ Only("error")
           \/ part = "profile" /\ ProfileNext /\ Only("profile")
           \/ part = "path" /\ PathNext /\ Only("path")
  BY <1>8, <1>6 DEF Only, Name!vars
<1>9. CASE UNCHANGED allVars BY <1>9, <1>6 DEF allVars, Name!vars
<1> QED BY <1>7, <1>8, <1>9 DEF MCNext

\* NamesFit, for any alphabets, text and limits (Names): a derived slug is the words of
\* the display name with one hyphen between, passes the rules a row is read back with and
\* names a safe directory; a name that is a slug stays itself; a listed host is found in
\* a Host header with and without a port.
THEOREM NamesHold == MCSpec => []NamesFit
<1>1. MCInit => NameInv BY NameInit
<1>2. NameInv /\ [MCNext]_allVars => NameInv' BY NameStep
<1>3. NameInv => NamesFit BY DEF NameInv, NamesFit
<1> QED BY <1>1, <1>2, <1>3, PTL DEF MCSpec
-----------------------------------------------------------------------------
\* Errors and their answers.

Transported == {"users", "last_admin", "bootstrap"}

\* What the origin is for the control plane.
AsControl == IF origin.layer = "control" THEN origin ELSE Error!DomainToControl(origin)

\* An error on its way is one of three things.
WireInv ==
    /\ via \in DOMAIN Error!Ways /\ origin \in Error!Ways[via]
    /\ via \in Transported =>
          \/ err = origin
          \/ err = AsControl
          \/ err = Error!ControlToApp(AsControl)
    /\ via \notin Transported => err = origin \/ err = Error!E("shop", "ShopUnprocessable", "told")
    /\ Error!WireAgrees

\* An error of the control plane, by its kind; an internal one came of a cause, or of a
\* conflict in the users' handlers.
LEMMA ControlKinds ==
    ASSUME via \in Transported, origin \in Error!Ways[via]
    PROVE  /\ \/ \E k \in {"NotFound", "PermissionDenied", "Validation",
                           "AlreadyBootstrapped", "LastAdminProtected"} :
                    AsControl = Error!E("control", k, "told")
              \/ /\ \E t \in {"told", "cause"} : AsControl = Error!E("control", "Internal", t)
                 /\ origin.text = "cause" \/ (origin.kind = "Conflict" /\ via = "users")
           /\ origin.layer \in {"domain", "bootstrap", "control"}
<1>1. origin \in Error!Domain \/ origin \in Error!Control \/ origin \in Error!Bootstrap
  BY DEF Transported, Error!Ways
<1>2. CASE origin \in Error!Control
  <2>1. PICK k \in {"NotFound", "PermissionDenied", "Validation"} :
           origin = Error!E("control", k, "told")
    BY <1>2 DEF Error!Control
  <2>2. origin.layer = "control" BY <2>1 DEF Error!E
  <2> QED BY <2>1, <2>2 DEF AsControl
<1>3. CASE origin \in Error!Bootstrap
  <2>1. origin = Error!E("bootstrap", "AlreadyBootstrapped", "told")
    BY <1>3 DEF Error!Bootstrap
  <2>2. origin.layer = "bootstrap" /\ origin.kind = "AlreadyBootstrapped"
    BY <2>1 DEF Error!E
  <2>3. AsControl = Error!E("control", "AlreadyBootstrapped", "told")
    BY <2>2 DEF AsControl, Error!DomainToControl
  <2> QED BY <2>2, <2>3
<1>4. CASE origin \in Error!Domain
  <2>1. /\ origin.layer = "domain" /\ origin.kind \in {"NotFound", "Conflict", "Validation", "Internal"}
        /\ origin.text = (IF origin.kind = "Internal" THEN "cause" ELSE "told")
    BY <1>4 DEF Error!Domain, Error!E
  <2>2. AsControl = Error!DomainToControl(origin) BY <2>1 DEF AsControl
  <2>3. CASE origin.kind = "NotFound"
    BY <2>1, <2>2, <2>3 DEF Error!DomainToControl
  <2>4. CASE origin.kind = "Validation"
    BY <2>1, <2>2, <2>4 DEF Error!DomainToControl
  <2>5. CASE origin.kind = "Internal"
    BY <2>1, <2>2, <2>5 DEF Error!DomainToControl
  <2>6. CASE origin.kind = "Conflict"
    <3>1. via \in {"users", "last_admin", "bootstrap"} BY DEF Transported
    <3> QED BY <2>1, <2>2, <2>6, <3>1 DEF Error!DomainToControl
  <2> QED BY <2>1, <2>3, <2>4, <2>5, <2>6
<1> QED BY <1>1, <1>2, <1>3, <1>4

\* The two answers to it: the admin socket's and the one over HTTP.
LEMMA ControlAnswers ==
    ASSUME NEW e, NEW r,
           \/ \E k \in {"NotFound", "PermissionDenied", "Validation",
                        "AlreadyBootstrapped", "LastAdminProtected"} :
                 e = Error!E("control", k, "told")
           \/ \E t \in {"told", "cause"} : e = Error!E("control", "Internal", t),
           via \in Transported,
           r = Error!RenderControl(e) \/ r = Error!RenderApp(Error!ControlToApp(e))
    PROVE  /\ <<r.status, r.code>> = Error!Pinned[e.kind] /\ r.text # "cause"
           /\ r.status = 500 => e.kind = "Internal"
<1>0. via # "plain" BY DEF Transported
<1>1. e.kind \in {"NotFound", "PermissionDenied", "Validation", "AlreadyBootstrapped",
                  "LastAdminProtected", "Internal"}
      /\ (e.kind # "Internal" => e.text = "told")
  BY DEF Error!E
<1> DEFINE a == Error!ControlToApp(e)
<1>2. CASE r = Error!RenderControl(e)
  BY <1>1, <1>2 DEF Error!RenderControl, Error!R, Error!Redacted, Error!Pinned
<1>3. CASE r = Error!RenderApp(a)
  <2>1. CASE e.kind = "NotFound"
    <3>1. a.kind = "NotFound" /\ a.text = "told" BY <2>1 DEF Error!ControlToApp, Error!E
    <3>2. r = Error!R(404, "not_found", "told")
      BY <1>3, <3>1 DEF Error!RenderApp, Error!RenderDomain
    <3> QED BY <2>1, <3>2 DEF Error!R, Error!Pinned
  <2>2. CASE e.kind = "PermissionDenied"
    <3>1. a.kind = "Forbidden" /\ a.text = "told" BY <2>2 DEF Error!ControlToApp, Error!E
    <3>2. r = Error!R(403, "forbidden", "told") BY <1>0, <1>3, <3>1 DEF Error!RenderApp
    <3> QED BY <2>2, <3>2 DEF Error!R, Error!Pinned
  <2>3. CASE e.kind = "Validation"
    <3>1. a.kind = "BadRequest" /\ a.text = "told"
      BY <1>1, <2>3 DEF Error!ControlToApp, Error!E
    <3>2. r = Error!R(400, "validation_error", "told") BY <1>0, <1>3, <3>1 DEF Error!RenderApp
    <3> QED BY <2>3, <3>2 DEF Error!R, Error!Pinned
  <2>4. CASE e.kind = "AlreadyBootstrapped"
    <3>1. a.kind = "AlreadyBootstrapped" /\ a.text = "told"
      BY <1>1, <2>4 DEF Error!ControlToApp, Error!E
    <3>2. r = Error!R(409, "already_bootstrapped", "told") BY <1>3, <3>1 DEF Error!RenderApp
    <3> QED BY <2>4, <3>2 DEF Error!R, Error!Pinned
  <2>5. CASE e.kind = "LastAdminProtected"
    <3>1. a.kind = "LastAdminProtected" /\ a.text = "told"
      BY <1>1, <2>5 DEF Error!ControlToApp, Error!E
    <3>2. r = Error!R(409, "conflict", "told") BY <1>3, <3>1 DEF Error!RenderApp
    <3> QED BY <2>5, <3>2 DEF Error!R, Error!Pinned
  <2>6. CASE e.kind = "Internal"
    <3>1. a.kind = "InternalError" BY <2>6 DEF Error!ControlToApp, Error!E
    <3>2. r = Error!Redacted BY <1>3, <3>1 DEF Error!RenderApp
    <3> QED BY <2>6, <3>2 DEF Error!Redacted, Error!R, Error!Pinned
  <2> QED BY <1>1, <2>1, <2>2, <2>3, <2>4, <2>5, <2>6
<1> QED BY <1>2, <1>3

\* The answers to what the other handlers raise.
LEMMA PlainAnswers ==
    ASSUME NEW e, NEW r,
           \/ e \in Error!Domain /\ r = Error!RenderDomain(e)
           \/ e \in Error!Sqlx /\ r = Error!RenderSqlx(e)
           \/ e \in Error!App /\ r = Error!RenderApp(e)
           \/ e \in Error!Shop \cup {Error!E("shop", "ShopUnprocessable", "told")}
                 /\ r = Error!RenderShop(e)
    PROVE  r.text # "cause" /\ (r.status = 500 => e.text = "cause")
<1>1. CASE e \in Error!Domain /\ r = Error!RenderDomain(e)
  <2>1. \/ e.kind \in {"NotFound", "Conflict", "Validation"} /\ e.text = "told"
        \/ e.kind = "Internal" /\ e.text = "cause"
    BY <1>1 DEF Error!Domain, Error!E
  <2> QED BY <1>1, <2>1 DEF Error!RenderDomain, Error!Redacted, Error!R
<1>2. CASE e \in Error!Sqlx /\ r = Error!RenderSqlx(e)
  <2>1. e.text = "cause" BY <1>2 DEF Error!Sqlx, Error!E
  <2> QED BY <1>2, <2>1 DEF Error!RenderSqlx, Error!Redacted, Error!R
<1>3. CASE e \in Error!App /\ r = Error!RenderApp(e)
  <2>1. \/ /\ e.kind \in {"Unauthorized", "Forbidden", "UnprocessableEntity", "BadRequest",
                          "TooManyRequests", "ServiceUnavailable", "StateConflict",
                          "DemoSetupRequired", "AccountLocked"}
           /\ e.text = "told"
        \/ e.kind = "InternalError" /\ e.text = "cause"
    BY <1>3 DEF Error!App, Error!E
  <2>2. CASE e.kind = "InternalError"
    <3>1. r = Error!Redacted BY <1>3, <2>2 DEF Error!RenderApp
    <3> QED BY <2>1, <2>2, <3>1 DEF Error!Redacted, Error!R
  <2>3. CASE e.kind \in {"Unauthorized", "Forbidden", "UnprocessableEntity", "BadRequest",
                         "TooManyRequests", "ServiceUnavailable", "StateConflict",
                         "DemoSetupRequired", "AccountLocked"}
    <3>1. e.text = "told" BY <2>1, <2>3
    <3>2. r = Error!RenderApp(e) BY <1>3
    <3>3. \E code : \E status \in {400, 401, 403, 409, 422, 423, 429, 503} :
             r = Error!R(status, code, "told")
      <4>1. CASE e.kind = "Unauthorized" BY <3>1, <3>2, <4>1 DEF Error!RenderApp
      <4>2. CASE e.kind = "Forbidden" BY <3>1, <3>2, <4>2 DEF Error!RenderApp
      <4>3. CASE e.kind = "UnprocessableEntity" BY <3>1, <3>2, <4>3 DEF Error!RenderApp
      <4>4. CASE e.kind = "BadRequest" BY <3>1, <3>2, <4>4 DEF Error!RenderApp
      <4>5. CASE e.kind = "TooManyRequests" BY <3>1, <3>2, <4>5 DEF Error!RenderApp
      <4>6. CASE e.kind = "ServiceUnavailable" BY <3>1, <3>2, <4>6 DEF Error!RenderApp
      <4>7. CASE e.kind = "StateConflict" BY <3>1, <3>2, <4>7 DEF Error!RenderApp
      <4>8. CASE e.kind = "DemoSetupRequired" BY <3>1, <3>2, <4>8 DEF Error!RenderApp
      <4>9. CASE e.kind = "AccountLocked" BY <3>1, <3>2, <4>9 DEF Error!RenderApp
      <4> QED BY <2>3, <4>1, <4>2, <4>3, <4>4, <4>5, <4>6, <4>7, <4>8, <4>9
    <3> QED BY <3>3 DEF Error!R
  <2> QED BY <2>1, <2>2, <2>3
<1>4. CASE e \in Error!Shop \cup {Error!E("shop", "ShopUnprocessable", "told")}
           /\ r = Error!RenderShop(e)
  <2>1. \/ /\ e.kind \in {"ShopForbidden", "Unauthorized", "TooManyRequests",
                          "ShopBadRequest", "ShopNotFound", "ShopUnprocessable"}
           /\ e.text = "told"
        \/ e.kind = "Internal" /\ e.text = "cause"
    BY <1>4 DEF Error!Shop, Error!E
  <2> QED BY <1>4, <2>1 DEF Error!RenderShop, Error!Redacted, Error!R
<1> QED BY <1>1, <1>2, <1>3, <1>4

\* What a handler without the control plane answers.
LEMMA PlainStep ==
    ASSUME WireInv, via \notin Transported, NEW side, NEW r,
           \/ side = "domain" /\ r = Error!RenderDomain(err)
           \/ side = "app" /\ r = Error!RenderApp(err)
           \/ side = "sqlx" /\ r = Error!RenderSqlx(err)
           \/ side = "shop" /\ r = Error!RenderShop(err),
           err.layer = side
    PROVE  r.text # "cause" /\ (r.status = 500 => origin.text = "cause")
<1>1. /\ err = origin \/ err = Error!E("shop", "ShopUnprocessable", "told")
      /\ origin \in Error!Domain \cup Error!Logo \cup Error!Shop \cup Error!Sqlx \cup Error!App
  <2>1. via \in {"customer", "logo", "plain"} BY DEF WireInv, Transported, Error!Ways
  <2> QED BY <2>1 DEF WireInv, Error!Ways
<1>2. \A e \in Error!Domain : e.layer = "domain" BY DEF Error!Domain, Error!E
<1>3. \A e \in Error!Sqlx : e.layer = "sqlx" BY DEF Error!Sqlx, Error!E
<1>4. \A e \in Error!App : e.layer = "app" BY DEF Error!App, Error!E
<1>5. \A e \in Error!Shop : e.layer = "shop" BY DEF Error!Shop, Error!E
<1>6. \A e \in Error!Logo : e.layer = "logo" BY DEF Error!Logo, Error!E
<1>7. Error!E("shop", "ShopUnprocessable", "told").layer = "shop"
      /\ Error!E("shop", "ShopUnprocessable", "told").text = "told"
  BY DEF Error!E
<1>8. \/ err \in Error!Domain /\ r = Error!RenderDomain(err)
      \/ err \in Error!Sqlx /\ r = Error!RenderSqlx(err)
      \/ err \in Error!App /\ r = Error!RenderApp(err)
      \/ err \in Error!Shop \cup {Error!E("shop", "ShopUnprocessable", "told")}
            /\ r = Error!RenderShop(err)
  BY <1>1, <1>2, <1>3, <1>4, <1>5, <1>6, <1>7
<1>9. r.text # "cause" /\ (r.status = 500 => err.text = "cause") BY <1>8, PlainAnswers
<1> QED BY <1>1, <1>7, <1>9

\* What a handler of the control plane answers, on either transport.
LEMMA ControlStep ==
    ASSUME WireInv, via \in Transported, NEW side, NEW r,
           \/ side = "app" /\ r = Error!RenderApp(err)
           \/ side = "sqlx" /\ r = Error!RenderSqlx(err)
           \/ side = "shop" /\ r = Error!RenderShop(err)
           \/ side = "control" /\ r = Error!RenderControl(err),
           err.layer = side
    PROVE  /\ <<r.status, r.code>> = Error!Pinned[AsControl.kind] /\ r.text # "cause"
           /\ r.status = 500 =>
                 origin.text = "cause" \/ (origin.kind = "Conflict" /\ via = "users")
<1>1. origin \in Error!Ways[via] BY DEF WireInv
<1>2. /\ \/ \E k \in {"NotFound", "PermissionDenied", "Validation",
                      "AlreadyBootstrapped", "LastAdminProtected"} :
               AsControl = Error!E("control", k, "told")
         \/ \E t \in {"told", "cause"} : AsControl = Error!E("control", "Internal", t)
      /\ origin.layer \in {"domain", "bootstrap", "control"}
      /\ AsControl.kind = "Internal" =>
            origin.text = "cause" \/ (origin.kind = "Conflict" /\ via = "users")
  BY <1>1, ControlKinds DEF Error!E
<1>3. AsControl.layer = "control" BY <1>2 DEF Error!E
<1>4. Error!ControlToApp(AsControl).layer = "app" BY DEF Error!ControlToApp, Error!E
<1>5. origin.layer = "control" => origin = AsControl BY DEF AsControl
<1>6. \/ err = AsControl /\ r = Error!RenderControl(err)
      \/ err = Error!ControlToApp(AsControl) /\ r = Error!RenderApp(err)
  BY <1>2, <1>3, <1>4, <1>5 DEF WireInv
<1>7. r = Error!RenderControl(AsControl) \/ r = Error!RenderApp(Error!ControlToApp(AsControl))
  BY <1>6
<1>8. /\ <<r.status, r.code>> = Error!Pinned[AsControl.kind] /\ r.text # "cause"
      /\ r.status = 500 => AsControl.kind = "Internal"
  BY <1>2, <1>7, ControlAnswers
<1> QED BY <1>2, <1>8


\* One step of an error.
LEMMA WireStep == ASSUME WireInv, ErrorNext PROVE WireInv'
<1>1. /\ via' = via /\ origin' = origin
      /\ (AsControl)' = AsControl
  <2>1. via' = via /\ origin' = origin
    BY DEF ErrorNext, Error!ToControl, Error!ToApp, Error!ToShop, Error!AnswerDomain,
           Error!AnswerApp, Error!AnswerSqlx, Error!AnswerShop, Error!AnswerControl,
           Error!Answer
  <2> QED BY <2>1 DEF AsControl, Error!DomainToControl
<1>2. /\ (err' = err) => (WireInv /\ Error!WireAgrees' => WireInv')
      /\ reply' = reply => Error!WireAgrees'
  <2>1. reply' = reply => Error!WireAgrees'
    BY <1>1 DEF WireInv, Error!WireAgrees, Error!DomainToControl, Error!E
  <2> QED BY <1>1, <2>1 DEF WireInv, Error!ControlToApp, Error!Ways
<1>3. CASE Error!ToControl
  <2>1. via \in Transported /\ reply' = reply /\ err' = Error!DomainToControl(err)
        /\ err.layer \in {"domain", "bootstrap"}
    BY <1>3 DEF Error!ToControl, Transported
  <2>2. err = origin
    <3>1. origin \in Error!Ways[via] BY DEF WireInv
    <3>2. AsControl.layer = "control" BY <2>1, <3>1, ControlKinds DEF Error!E
    <3>3. Error!ControlToApp(AsControl).layer = "app" BY DEF Error!ControlToApp, Error!E
    <3> QED BY <2>1, <3>2, <3>3 DEF WireInv
  <2>3. err' = AsControl BY <2>1, <2>2 DEF AsControl
  <2> QED BY <1>1, <1>2, <2>1, <2>3 DEF WireInv, Error!Ways
<1>4. CASE Error!ToApp
  <2>1. reply' = reply /\ err' = Error!ControlToApp(err) /\ err.layer = "control"
    BY <1>4 DEF Error!ToApp
  <2>2. via \in Transported /\ err = AsControl
    <3>1. CASE via \notin Transported
      <4>1. \A e \in Error!Domain \cup Error!Logo \cup Error!Shop \cup Error!Sqlx
                     \cup Error!App : e.layer # "control"
        BY DEF Error!Domain, Error!Logo, Error!Shop, Error!Sqlx, Error!App, Error!E
      <4>2. via \in {"customer", "logo", "plain"} BY <3>1 DEF WireInv, Transported, Error!Ways
      <4>3. origin \in Error!Domain \cup Error!Logo \cup Error!Shop \cup Error!Sqlx
                       \cup Error!App
        BY <4>2 DEF WireInv, Error!Ways
      <4>4. Error!E("shop", "ShopUnprocessable", "told").layer = "shop" BY DEF Error!E
      <4> QED BY <2>1, <3>1, <4>1, <4>3, <4>4 DEF WireInv
    <3>2. CASE via \in Transported
      <4>1. Error!ControlToApp(AsControl).layer = "app" BY DEF Error!ControlToApp, Error!E
      <4> QED BY <2>1, <3>2, <4>1 DEF WireInv, AsControl
    <3> QED BY <3>1, <3>2
  <2>3. err' = Error!ControlToApp(AsControl) BY <2>1, <2>2
  <2>4. (Error!ControlToApp(AsControl))' = Error!ControlToApp(AsControl)
    BY <1>1 DEF Error!ControlToApp
  <2> QED BY <1>1, <1>2, <2>1, <2>2, <2>3, <2>4 DEF WireInv, Error!Ways
<1>5. CASE Error!ToShop
  <2>1. reply' = reply /\ err' = Error!E("shop", "ShopUnprocessable", "told")
        /\ err.layer = "logo"
    BY <1>5 DEF Error!ToShop
  <2>2. via \notin Transported
    <3> SUFFICES ASSUME via \in Transported PROVE FALSE OBVIOUS
    <3>1. origin \in Error!Ways[via] BY DEF WireInv
    <3>2. AsControl.layer = "control" /\ origin.layer # "logo"
      BY <3>1, ControlKinds DEF Error!E
    <3>3. Error!ControlToApp(AsControl).layer = "app" BY DEF Error!ControlToApp, Error!E
    <3> QED BY <2>1, <3>2, <3>3 DEF WireInv
  <2> QED BY <1>1, <1>2, <2>1, <2>2 DEF WireInv, Error!Ways, Error!E
<1>6. ASSUME NEW side, NEW r, Error!Answer(side, r),
             \/ side = "domain" /\ r = Error!RenderDomain(err) /\ via \notin Transported
             \/ side = "app" /\ r = Error!RenderApp(err)
             \/ side = "sqlx" /\ r = Error!RenderSqlx(err)
             \/ side = "shop" /\ r = Error!RenderShop(err)
             \/ side = "control" /\ r = Error!RenderControl(err) /\ adapter = "uds"
      PROVE  WireInv'
  <2>1. err.layer = side /\ reply' = r /\ err' = err BY <1>6 DEF Error!Answer
  <2>2. CASE via \in Transported
    <3>1. /\ <<r.status, r.code>> = Error!Pinned[AsControl.kind] /\ r.text # "cause"
          /\ r.status = 500 =>
                origin.text = "cause" \/ (origin.kind = "Conflict" /\ via = "users")
      BY <1>6, <2>1, <2>2, ControlStep
    <3>2. AsControl.kind = (IF origin.layer = "control" THEN origin.kind
                            ELSE Error!DomainToControl(origin).kind)
      BY DEF AsControl
    <3>3. (Error!DomainToControl(origin))' = Error!DomainToControl(origin)
      BY <1>1 DEF Error!DomainToControl
    <3>4. Error!WireAgrees'
      BY <1>1, <2>1, <3>1, <3>2, <3>3 DEF Error!WireAgrees, Error!Pinned
    <3> QED BY <1>2, <2>1, <3>4
  <2>3. CASE via \notin Transported
    <3>1. side # "control"
      <4> SUFFICES ASSUME side = "control" PROVE FALSE OBVIOUS
      <4>1. \A e \in Error!Domain \cup Error!Logo \cup Error!Shop \cup Error!Sqlx
                     \cup Error!App : e.layer # "control"
        BY DEF Error!Domain, Error!Logo, Error!Shop, Error!Sqlx, Error!App, Error!E
      <4>2. via \in {"customer", "logo", "plain"} BY <2>3 DEF WireInv, Transported, Error!Ways
      <4>3. origin \in Error!Domain \cup Error!Logo \cup Error!Shop \cup Error!Sqlx
                       \cup Error!App
        BY <4>2 DEF WireInv, Error!Ways
      <4>4. Error!E("shop", "ShopUnprocessable", "told").layer = "shop" BY DEF Error!E
      <4> QED BY <2>1, <2>3, <4>1, <4>3, <4>4 DEF WireInv
    <3>2. r.text # "cause" /\ (r.status = 500 => origin.text = "cause")
      BY <1>6, <2>1, <2>3, <3>1, PlainStep
    <3>3. Error!WireAgrees' BY <1>1, <2>1, <2>3, <3>2 DEF Error!WireAgrees, Transported
    <3> QED BY <1>2, <2>1, <3>3
  <2> QED BY <2>2, <2>3
<1>7. CASE Error!AnswerDomain
  <2>1. via \notin Transported /\ Error!Answer("domain", Error!RenderDomain(err))
    BY <1>7 DEF Error!AnswerDomain, Transported
  <2> QED BY <2>1, <1>6
<1>8. CASE Error!AnswerApp BY <1>8, <1>6 DEF Error!AnswerApp
<1>9. CASE Error!AnswerSqlx BY <1>9, <1>6 DEF Error!AnswerSqlx
<1>10. CASE Error!AnswerShop BY <1>10, <1>6 DEF Error!AnswerShop
<1>11. CASE Error!AnswerControl BY <1>11, <1>6 DEF Error!AnswerControl
<1> QED BY <1>3, <1>4, <1>5, <1>7, <1>8, <1>9, <1>10, <1>11 DEF ErrorNext

\* WireAgrees (Errors), whatever stands for an answer not given yet: both transports answer
\* an error of the control plane with the status and code the feature file fixes, no answer
\* repeats what a database or a file said, and a server error has such a cause or is the
\* users' conflict.
THEOREM AnswersAgree == MCSpec => []WireAgrees
<1>1. MCInit => WireInv
  <2> SUFFICES ASSUME MCInit PROVE WireInv OBVIOUS
  <2>1. /\ via \in DOMAIN Error!Ways /\ origin \in Error!Ways[via]
        /\ err = origin /\ reply = NoReply
    <3>1. CASE part = "error" BY <3>1 DEF MCInit, Error!Init
    <3>2. CASE part # "error" BY <3>2 DEF MCInit, Error!Ways, Error!Domain
    <3> QED BY <3>1, <3>2
  <2> QED BY <2>1 DEF WireInv, Error!WireAgrees
<1>2. WireInv /\ [MCNext]_allVars => WireInv'
  <2> SUFFICES ASSUME WireInv, [MCNext]_allVars PROVE WireInv' OBVIOUS
  <2>1. CASE UNCHANGED <<origin, via, adapter, err, reply>>
    <3>1. (Error!DomainToControl(origin))' = Error!DomainToControl(origin)
      BY <2>1 DEF Error!DomainToControl
    <3>2. AsControl' = AsControl BY <2>1, <3>1 DEF AsControl
    <3>3. (Error!ControlToApp(AsControl))' = Error!ControlToApp(AsControl)
      BY <3>2 DEF Error!ControlToApp
    <3>4. Error!WireAgrees' BY <2>1, <3>1 DEF WireInv, Error!WireAgrees, Error!Pinned
    <3> QED BY <2>1, <3>2, <3>3, <3>4 DEF WireInv, Error!Ways
  <2>2. CASE part = "error" /\ ErrorNext /\ Only("error") BY <2>2, WireStep
  <2>3. CASE \/ part = "pin" /\ PinNext /\ Only("pin")
             \/ part = "name" /\ NameNext /\ Only("name")
             \/ part = "profile" /\ ProfileNext /\ Only("profile")
             \/ part = "path" /\ PathNext /\ Only("path")
    BY <2>3, <2>1 DEF Only
  <2>4. CASE UNCHANGED allVars BY <2>4, <2>1 DEF allVars, Error!vars
  <2> QED BY <2>2, <2>3, <2>4 DEF MCNext
<1>3. WireInv => WireAgrees BY DEF WireInv, WireAgrees
<1> QED BY <1>1, <1>2, <1>3, PTL DEF MCSpec
=============================================================================
