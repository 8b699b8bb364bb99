----------------------------- MODULE RateLimiter -----------------------------
(* The sliding-window limiter, alone and as the layer around a router: at most *)
(* MaxAttempts calls per key and window. The clock is read before the entry of *)
(* the key is locked, so overlapping calls may record and prune in another     *)
(* order than that of their clocks.                                            *)
EXTENDS Naturals, FiniteSetTheorems, TLAPS

CONSTANTS
  Calls,        \* calls of check_and_record, each made once
  Keys,         \* client addresses or normalised e-mail addresses
  MaxAttempts,  \* max_attempts
  Window,       \* window, in ticks
  MaxClock      \* bound: the last tick looked at

VARIABLES
  mode,         \* lan: the layer is built without a limiter
  clock,        \* the monotonic clock
  step,         \* where each call is
  key,          \* the key it has derived
  now,          \* the clock it has read
  attempts,     \* per key the calls recorded (each carries its own timestamp)
  blockers      \* for a refused call, what it found recorded (history)

NumbersAssumption == {MaxAttempts, Window, MaxClock} \subseteq Nat

vars == <<mode, clock, step, key, now, attempts, blockers>>

TypeOK ==
  /\ mode \in {"lan", "internet"}
  /\ clock \in 0 .. MaxClock
  /\ step \in [Calls -> {"idle", "read", "passed", "admitted", "refused", "unkeyed"}]
  /\ key \in [Calls -> Keys]
  /\ now \in [Calls -> 0 .. MaxClock]
  /\ attempts \in [Keys -> SUBSET Calls]
  /\ blockers \in [Calls -> SUBSET Calls]

Init ==
  /\ mode \in {"lan", "internet"}
  /\ clock = 0
  /\ step = [c \in Calls |-> "idle"]
  /\ key \in [Calls -> Keys]
  /\ now = [c \in Calls |-> 0]
  /\ attempts = [k \in Keys |-> {}]
  /\ blockers = [c \in Calls |-> {}]

Tick ==
  /\ clock < MaxClock
  /\ clock' = clock + 1
  /\ UNCHANGED <<mode, step, key, now, attempts, blockers>>

(* for_mode: a LAN deployment has no limiter at all.                           *)
PassThrough(c) ==
  /\ step[c] = "idle" /\ mode = "lan"
  /\ step' = [step EXCEPT ![c] = "passed"]
  /\ UNCHANGED <<mode, clock, key, now, attempts, blockers>>

(* No client address: the layer fails closed.                                  *)
RejectUnkeyed(c) ==
  /\ step[c] = "idle" /\ mode # "lan"
  /\ step' = [step EXCEPT ![c] = "unkeyed"]
  /\ UNCHANGED <<mode, clock, key, now, attempts, blockers>>

ReadClock(c) ==
  /\ step[c] = "idle" /\ mode # "lan"
  /\ step' = [step EXCEPT ![c] = "read"]
  /\ now' = [now EXCEPT ![c] = clock]
  /\ UNCHANGED <<mode, clock, key, attempts, blockers>>

(* Mutant of Recent: only the attempts of the same tick are kept.              *)
RecentToTheTick(c) ==
  {a \in attempts[key[c]] : now[a] = now[c]}

(* retain: the age of an attempt whose clock is later than this call's is zero *)
(* (duration_since saturates).                                                 *)
Recent(c) == {a \in attempts[key[c]] : now[c] < now[a] + Window}

(* Mutant of Check: a refused attempt is recorded as well.                     *)
CheckRecordingAll(c) ==
  /\ step[c] = "read"
  /\ LET full == Cardinality(Recent(c)) >= MaxAttempts IN
     /\ step' = [step EXCEPT ![c] = IF full THEN "refused" ELSE "admitted"]
     /\ attempts' = [attempts EXCEPT ![key[c]] = Recent(c) \cup {c}]
     /\ blockers' = [blockers EXCEPT ![c] = IF full THEN Recent(c) ELSE {}]
  /\ UNCHANGED <<mode, clock, key, now>>

(* check_and_record, under the lock of the key's entry.                        *)
Check(c) ==
  /\ step[c] = "read"
  /\ LET full == Cardinality(Recent(c)) >= MaxAttempts IN
     /\ step' = [step EXCEPT ![c] = IF full THEN "refused" ELSE "admitted"]
     /\ attempts' = [attempts EXCEPT ![key[c]] = Recent(c) \cup (IF full THEN {} ELSE {c})]
     /\ blockers' = [blockers EXCEPT ![c] = IF full THEN Recent(c) ELSE {}]
  /\ UNCHANGED <<mode, clock, key, now>>

Next ==
  \/ Tick
  \/ \E c \in Calls : PassThrough(c) \/ RejectUnkeyed(c) \/ ReadClock(c) \/ Check(c)

Spec == Init /\ [][Next]_vars

-----------------------------------------------------------------------------
(* Properties                                                                  *)

Admitted(k) == {c \in Calls : step[c] = "admitted" /\ key[c] = k}

(* At no moment are more than MaxAttempts admitted calls of one key younger    *)
(* than the window, whatever the order in which they took the lock.            *)
WindowRespected ==
  \A k \in Keys :
    Cardinality({c \in Admitted(k) : clock < now[c] + Window}) <= MaxAttempts

(* A call is refused only for MaxAttempts calls of its key that were admitted  *)
(* within the window before it: a refusal never prolongs the next one.         *)
RefusalEarned ==
  \A c \in Calls : step[c] = "refused" =>
    /\ Cardinality(blockers[c]) >= MaxAttempts
    /\ \A a \in blockers[c] : a \in Admitted(key[c]) /\ now[c] < now[a] + Window

-----------------------------------------------------------------------------
(* Proofs                                                                      *)

(* What is recorded under a key are admitted calls of that key, no more than   *)
(* MaxAttempts of them, and whoever is admitted and still in the window is     *)
(* recorded, although calls prune in another order than that of their clocks:  *)
(* no call reads a clock ahead of the time.                                    *)
Recorded ==
    \A k \in Keys :
        /\ IsFiniteSet(attempts[k]) /\ Cardinality(attempts[k]) <= MaxAttempts
        /\ attempts[k] \subseteq Admitted(k)
        /\ \A c \in Admitted(k) : clock < now[c] + Window => c \in attempts[k]

IInv ==
    /\ TypeOK
    /\ \A c \in Calls : now[c] <= clock
    /\ Recorded
    /\ RefusalEarned

\* The numbers of the limiter are natural.
LEMMA Numbers ==
    ASSUME NumbersAssumption
    PROVE  MaxAttempts \in Nat /\ Window \in Nat /\ MaxClock \in Nat
BY DEF NumbersAssumption

\* Nothing is recorded yet.
LEMMA InitInv == ASSUME NumbersAssumption PROVE Init => IInv
<1> SUFFICES ASSUME Init PROVE IInv
  OBVIOUS
<1> USE Numbers DEF Init
<1>1. TypeOK BY DEF TypeOK
<1>2. IsFiniteSet({}) /\ Cardinality({}) = 0 BY FS_EmptySet
<1>3. Recorded BY <1>2 DEF Recorded, Admitted
<1>4. RefusalEarned BY DEF RefusalEarned
<1> QED BY <1>1, <1>3, <1>4 DEF IInv

\* Time lets admitted calls leave the window.
LEMMA TickInv == ASSUME NumbersAssumption PROVE IInv /\ Tick => IInv'
<1> USE Numbers DEF IInv, Tick
<1> SUFFICES ASSUME IInv, Tick PROVE IInv'
  OBVIOUS
<1>1. TypeOK' BY DEF TypeOK
<1>2. (\A c \in Calls : now[c] <= clock)' BY DEF TypeOK
<1>3. Recorded' BY DEF Recorded, Admitted, TypeOK
<1>4. RefusalEarned' BY DEF RefusalEarned, Admitted
<1> QED BY <1>1, <1>2, <1>3, <1>4

\* A call that does not reach the lock of its key records nothing.
LEMMA UncountedInv ==
    ASSUME NumbersAssumption, IInv, NEW c \in Calls,
           PassThrough(c) \/ RejectUnkeyed(c) \/ ReadClock(c)
    PROVE  IInv'
<1> USE Numbers DEF IInv
<1>0. /\ step[c] = "idle"
      /\ \E s \in {"passed", "unkeyed", "read"} : step' = [step EXCEPT ![c] = s]
      /\ now' = now \/ now' = [now EXCEPT ![c] = clock]
      /\ UNCHANGED <<mode, clock, key, attempts, blockers>>
  BY DEF PassThrough, RejectUnkeyed, ReadClock
<1>1. TypeOK' BY <1>0 DEF TypeOK
<1>2. (\A d \in Calls : now[d] <= clock)' BY <1>0 DEF TypeOK
<1>3. \A k \in Keys : Admitted(k)' = Admitted(k)
  BY <1>0 DEF Admitted, TypeOK
<1>4. \A k \in Keys : \A a \in Admitted(k) : now'[a] = now[a] /\ a \in Calls
  BY <1>0 DEF Admitted, TypeOK
<1>5. Recorded' BY <1>0, <1>3, <1>4 DEF Recorded
<1>6. \A d \in Calls : step'[d] = "refused" => step[d] = "refused" /\ now'[d] = now[d]
  BY <1>0 DEF TypeOK
<1>7. RefusalEarned'
  BY <1>0, <1>3, <1>4, <1>6 DEF RefusalEarned, TypeOK
<1> QED BY <1>1, <1>2, <1>5, <1>7

\* The lock of the key: what the call prunes has left the window for good, since the
\* clock it has read is not ahead of the time; it is recorded only where there is room.
LEMMA CheckInv ==
    ASSUME NumbersAssumption, IInv, NEW c \in Calls, Check(c)
    PROVE  IInv'
<1> USE Numbers DEF IInv
<1> DEFINE full == Cardinality(Recent(c)) >= MaxAttempts
<1> PICK k0 \in Keys : k0 = key[c] BY DEF TypeOK
<1>0. /\ step[c] = "read"
      /\ step' = [step EXCEPT ![c] = IF full THEN "refused" ELSE "admitted"]
      /\ attempts' = [attempts EXCEPT ![k0] = Recent(c) \cup (IF full THEN {} ELSE {c})]
      /\ blockers' = [blockers EXCEPT ![c] = IF full THEN Recent(c) ELSE {}]
      /\ UNCHANGED <<mode, clock, key, now>>
  BY DEF Check, TypeOK
<1>1. Recent(c) \subseteq attempts[k0] /\ attempts[k0] \subseteq Calls
  BY <1>0 DEF Recent, TypeOK
<1>2. /\ IsFiniteSet(Recent(c))
      /\ Cardinality(Recent(c)) \in Nat
      /\ Cardinality(Recent(c)) <= MaxAttempts
  <2>1. IsFiniteSet(attempts[k0]) /\ Cardinality(attempts[k0]) <= MaxAttempts
    BY <1>0 DEF Recorded
  <2>2. IsFiniteSet(Recent(c)) /\ Cardinality(Recent(c)) <= Cardinality(attempts[k0])
    BY <1>1, <2>1, FS_Subset
  <2>3. Cardinality(attempts[k0]) \in Nat /\ Cardinality(Recent(c)) \in Nat
    BY <2>1, <2>2, FS_CardinalityType
  <2> QED BY <2>1, <2>2, <2>3
<1>3. c \notin Recent(c)
  BY <1>0, <1>1 DEF Recorded, Admitted
<1>4. TypeOK' BY <1>0, <1>1 DEF TypeOK
<1>5. (\A d \in Calls : now[d] <= clock)' BY <1>0
<1>6. \A k \in Keys \ {k0} : Admitted(k)' = Admitted(k) /\ attempts'[k] = attempts[k]
  BY <1>0 DEF Admitted, TypeOK
<1>7. Admitted(k0)' = Admitted(k0) \cup (IF full THEN {} ELSE {c})
  BY <1>0 DEF Admitted, TypeOK
<1>8. attempts'[k0] = Recent(c) \cup (IF full THEN {} ELSE {c})
  BY <1>0 DEF TypeOK
<1>9. IsFiniteSet(attempts'[k0]) /\ Cardinality(attempts'[k0]) <= MaxAttempts
  <2>1. CASE full BY <2>1, <1>2, <1>8
  <2>2. CASE ~full
    <3>1. Cardinality(Recent(c)) < MaxAttempts BY <2>2, <1>2
    <3>2. attempts'[k0] = Recent(c) \cup {c} BY <2>2, <1>8
    <3>3. /\ IsFiniteSet(Recent(c) \cup {c})
          /\ Cardinality(Recent(c) \cup {c}) = Cardinality(Recent(c)) + 1
      BY <1>2, <1>3, FS_AddElement
    <3> QED BY <1>2, <3>1, <3>2, <3>3
  <2> QED BY <2>1, <2>2
<1>10. attempts'[k0] \subseteq Admitted(k0)'
  BY <1>0, <1>1, <1>7, <1>8 DEF Recorded
<1>11. ASSUME NEW a \in Admitted(k0)', clock' < now'[a] + Window PROVE a \in attempts'[k0]
  <2>1. CASE ~full /\ a = c BY <2>1, <1>8
  <2>2. CASE a \in Admitted(k0)
    <3>1. a \in attempts[k0] /\ a \in Calls
      BY <1>0, <1>11, <2>2 DEF Recorded, Admitted
    <3>2. now[c] < now[a] + Window
      BY <1>0, <1>11, <3>1 DEF TypeOK
    <3> QED BY <3>1, <3>2, <1>8 DEF Recent
  <2> QED BY <1>7, <2>1, <2>2
<1>12. Recorded'
  <2> SUFFICES ASSUME NEW k \in Keys
               PROVE  /\ IsFiniteSet(attempts'[k]) /\ Cardinality(attempts'[k]) <= MaxAttempts
                      /\ attempts'[k] \subseteq Admitted(k)'
                      /\ \A a \in Admitted(k)' : clock' < now'[a] + Window => a \in attempts'[k]
    BY DEF Recorded
  <2>1. CASE k = k0
    <3>1. \A a \in Admitted(k0)' : clock' < now'[a] + Window => a \in attempts'[k0]
      BY <1>11
    <3> QED BY <2>1, <3>1, <1>9, <1>10
  <2>2. CASE k # k0 BY <2>2, <1>0, <1>6 DEF Recorded
  <2> QED BY <2>1, <2>2
<1>13. RefusalEarned'
  <2> SUFFICES ASSUME NEW d \in Calls, step'[d] = "refused"
               PROVE  /\ Cardinality(blockers'[d]) >= MaxAttempts
                      /\ \A a \in blockers'[d] : a \in Admitted(key[d])' /\ now[d] < now[a] + Window
    BY <1>0 DEF RefusalEarned
  <2>1. \A k \in Keys : Admitted(k) \subseteq Admitted(k)'
    BY <1>6, <1>7
  <2>2. CASE d = c
    <3>1. full /\ blockers'[c] = Recent(c) BY <1>0, <2>2 DEF TypeOK
    <3>2. Recent(c) \subseteq Admitted(k0) BY <1>0, <1>1 DEF Recorded
    <3>3. \A a \in Recent(c) : now[c] < now[a] + Window BY DEF Recent
    <3> QED BY <1>0, <2>1, <2>2, <3>1, <3>2, <3>3
  <2>3. CASE d # c
    <3>1. step[d] = "refused" /\ blockers'[d] = blockers[d] /\ key[d] \in Keys
      BY <1>0, <2>3 DEF TypeOK
    <3>2. /\ Cardinality(blockers[d]) >= MaxAttempts
          /\ \A a \in blockers[d] : a \in Admitted(key[d]) /\ now[d] < now[a] + Window
      BY <3>1 DEF RefusalEarned
    <3>3. PICK k \in Keys : k = key[d] BY <3>1
    <3>4. Admitted(k) \subseteq Admitted(k)' BY <2>1
    <3> QED BY <1>0, <3>1, <3>2, <3>3, <3>4
  <2> QED BY <2>2, <2>3
<1> QED BY <1>4, <1>5, <1>12, <1>13

\* IInv holds along every behaviour of the limiter.
LEMMA Invariant == ASSUME NumbersAssumption PROVE Spec => []IInv
<1>1. IInv /\ [Next]_vars => IInv'
  <2> SUFFICES ASSUME IInv, [Next]_vars PROVE IInv'
    OBVIOUS
  <2>1. CASE UNCHANGED vars
    BY <2>1 DEF vars, IInv, TypeOK, Recorded, Admitted, RefusalEarned
  <2>2. CASE Next
    BY <2>2, TickInv, UncountedInv, CheckInv DEF Next
  <2> QED BY <2>1, <2>2
<1> QED BY InitInv, <1>1, PTL DEF Spec

\* At no moment are more than MaxAttempts admitted calls of a key younger than the
\* window, and no call is refused for less.
THEOREM WindowSafe == ASSUME NumbersAssumption PROVE Spec => [](WindowRespected /\ RefusalEarned)
<1>1. IInv => WindowRespected /\ RefusalEarned
  <2> SUFFICES ASSUME IInv, NEW k \in Keys
               PROVE  Cardinality({c \in Admitted(k) : clock < now[c] + Window}) <= MaxAttempts
    BY DEF WindowRespected, IInv
  <2> DEFINE young == {c \in Admitted(k) : clock < now[c] + Window}
  <2>1. young \subseteq attempts[k] BY DEF IInv, Recorded
  <2>2. IsFiniteSet(attempts[k]) /\ Cardinality(attempts[k]) <= MaxAttempts
    BY DEF IInv, Recorded
  <2> HIDE DEF young
  <2>3. IsFiniteSet(young) /\ Cardinality(young) <= Cardinality(attempts[k])
    BY <2>1, <2>2, FS_Subset
  <2>4. Cardinality(young) \in Nat /\ Cardinality(attempts[k]) \in Nat
    BY <2>2, <2>3, FS_CardinalityType
  <2>5. Cardinality(young) <= MaxAttempts BY <2>2, <2>3, <2>4, Numbers
  <2> QED BY <2>5 DEF young
<1> QED BY Invariant, <1>1, PTL
=============================================================================
