---------------------------- MODULE ProcessProofs ----------------------------
(* What runs beside the requests, for any number of clients, resets, launches   *)
(* and attempts. The wizard and the bootstrap command each create at most one   *)
(* administrator; the desktop never loses its server to a reset; what is        *)
(* announced on the LAN can be withdrawn; the window shows the server that      *)
(* serves. Each component keeps an inductive invariant of its own, and a step   *)
(* of another leaves its variables alone.                                       *)
EXTENDS MCProcess, Sequences, TLAPS

\* setup_in_progress is a lock: one wizard request is past the compare-exchange.
FlagIsLock ==
    /\ \A w \in Wizard : InFlight(w) => setup_in_progress
    /\ \A v, w \in Wizard : InFlight(v) /\ InFlight(w) => v = w

\* What a wizard request that may still insert can rely on, and who keeps the door
\* closed once one has inserted.
WizardOK ==
    /\ db.admins \cap Wizard # {} =>
          \/ setup_completed
          \/ /\ setup_in_progress
             /\ \A w \in Wizard : pc[w] \notin {"recheck", "insert", "commit"}
    /\ setup_completed => \A w \in Wizard : pc[w] \notin {"insert", "commit"}
    /\ \A w \in Wizard : pc[w] = "release" => setup_completed

\* A bootstrap transaction sees no administrator for as long as its snapshot counts.
BootstrapOK ==
    \A b \in Bootstrap :
        /\ pc[b] \in {"begin", "insert", "commit", "done"}
        /\ pc[b] = "insert" =>
              reading[b] # "none" /\ (reading[b] = "fresh" => db.admins = {})
        /\ pc[b] = "commit" => writer = b /\ db.admins = {}

\* Both flags of the installation tell the truth.
CompleteOK ==
    /\ CompletedTruthful
    /\ db.admins # {} => db.setup_complete
    /\ \A w \in Wizard : pc[w] \in {"publish", "release"} => db.setup_complete

IInv ==
    TypeOK /\ FlagIsLock /\ WizardOK /\ BootstrapOK /\ CompleteOK
    /\ WizardOnce /\ BootstrapOnce

USE NoClientAssumption, ClientsAssumption, DisjointAssumption

\* Nothing has happened yet.
LEMMA InitInv == Init => IInv
<1> SUFFICES ASSUME Init PROVE IInv
  OBVIOUS
<1>1. TypeOK BY DEF Init, SqlInit, TypeOK, SqlTypeOK, Contents, Steps
<1>2. \A c \in Clients : pc[c] = "begin" BY DEF Init
<1>3. FlagIsLock /\ WizardOK /\ BootstrapOK /\ CompleteOK /\ WizardOnce /\ BootstrapOnce
  BY <1>2 DEF Init, FlagIsLock, InFlight, WizardOK, BootstrapOK, CompleteOK, CompletedTruthful,
              WizardOnce, BootstrapOnce
<1> QED BY <1>1, <1>3 DEF IInv

\* A wizard request moves and the contents stay: the parts about bootstrap are safe.
LEMMA OthersKeep ==
    ASSUME IInv, NEW c \in Clients, NEW step \in Steps,
           Goto(c, step), db' = db,
           \/ Rollback(c)
           \/ UNCHANGED sqlVars
           \/ TakeWriteLock(c)
           \/ TakeSnapshot(c)
    PROVE  /\ pc'[c] = step
           /\ \A d \in Clients \ {c} :
                /\ pc'[d] = pc[d]
                /\ reading'[d] = reading[d]
                /\ (writer = d => writer' = d)
           /\ SqlTypeOK'
           /\ pc' \in [Clients -> Steps]
BY DEF IInv, TypeOK, SqlTypeOK, Goto, Rollback, TakeWriteLock, CanWrite, TakeSnapshot, sqlVars

\* The steps of a wizard request that leave the contents alone.
LEMMA WizardQuiet ==
    ASSUME IInv, NEW w \in Wizard,
           \/ Guard1(w)
           \/ Guard2(w)
           \/ \E valid \in BOOLEAN : Guard3(w, valid)
           \/ WizardInsert(w)
           \/ WizardFails(w)
           \/ Publish(w)
           \/ Release(w)
           \/ HangUp(w) /\ Rollback(w)
    PROVE  IInv'
<1>1. PICK step \in Steps : Goto(w, step)
  BY DEF Guard1, Guard2, Guard3, WizardInsert, WizardFails, Publish, Release, HangUp, Steps
<1>2. db' = db /\ (Rollback(w) \/ UNCHANGED sqlVars \/ TakeWriteLock(w))
  BY DEF Guard1, Guard2, Guard3, WizardInsert, WizardFails, Publish, Release, HangUp,
         Rollback, sqlVars, TakeWriteLock
<1>3. /\ pc'[w] = step
      /\ \A d \in Clients \ {w} :
            pc'[d] = pc[d] /\ reading'[d] = reading[d] /\ (writer = d => writer' = d)
      /\ SqlTypeOK' /\ pc' \in [Clients -> Steps]
  BY <1>1, <1>2, OthersKeep
<1>4. /\ setup_completed \in BOOLEAN /\ setup_in_progress \in BOOLEAN
      /\ pc \in [Clients -> Steps]
  BY DEF IInv, TypeOK
<1> DEFINE Flight == {"recheck", "insert", "commit", "publish", "release"}
<1>5. /\ setup_completed' \in BOOLEAN /\ setup_in_progress' \in BOOLEAN
      /\ setup_completed => setup_completed'
      /\ setup_completed' => setup_completed \/ pc[w] = "publish"
      /\ setup_in_progress => setup_in_progress' \/ pc[w] \in Flight
  <2> USE <1>4 DEF flags
  <2>1. CASE Guard1(w) BY <2>1 DEF Guard1
  <2>2. CASE Guard2(w) BY <2>2 DEF Guard2
  <2>3. ASSUME NEW valid \in BOOLEAN, Guard3(w, valid) PROVE <1>5!:
    BY <2>3 DEF Guard3
  <2>4. CASE WizardInsert(w) BY <2>4 DEF WizardInsert
  <2>5. CASE WizardFails(w) BY <2>5 DEF WizardFails
  <2>6. CASE Publish(w) BY <2>6 DEF Publish
  <2>7. CASE Release(w) BY <2>7 DEF Release
  <2>8. CASE HangUp(w) BY <2>8 DEF HangUp
  <2> QED BY <2>1, <2>2, <2>3, <2>4, <2>5, <2>6, <2>7, <2>8
<1>6. /\ pc'[w] \in Flight /\ pc[w] \notin Flight => ~setup_in_progress /\ setup_in_progress'
      /\ pc'[w] \in Flight /\ pc[w] \in Flight =>
            setup_in_progress' \/ setup_in_progress' = setup_in_progress
      /\ pc'[w] \in {"insert", "commit"} =>
            \/ pc[w] \in {"insert", "commit"}
            \/ pc[w] = "recheck" /\ ~setup_completed
      /\ pc'[w] = "recheck" => ~setup_in_progress
      /\ pc'[w] = "publish" => FALSE
      /\ pc'[w] = "release" => setup_completed' /\ pc[w] = "publish"
      /\ pc[w] = "release" => pc'[w] = "done"
      /\ pc[w] \in {"publish", "release"} => pc'[w] \in {"release", "done"}
      /\ pc[w] = "publish" => setup_completed'
  <2> USE <1>4 DEF flags, Goto
  <2>1. CASE Guard1(w) BY <2>1 DEF Guard1
  <2>2. CASE Guard2(w) BY <2>2 DEF Guard2
  <2>3. ASSUME NEW valid \in BOOLEAN, Guard3(w, valid) PROVE <1>6!:
    BY <2>3 DEF Guard3
  <2>4. CASE WizardInsert(w) BY <2>4 DEF WizardInsert
  <2>5. CASE WizardFails(w) BY <2>5 DEF WizardFails
  <2>6. CASE Publish(w) BY <2>6 DEF Publish
  <2>7. CASE Release(w) BY <2>7 DEF Release
  <2>8. CASE HangUp(w) BY <2>8 DEF HangUp
  <2> QED BY <2>1, <2>2, <2>3, <2>4, <2>5, <2>6, <2>7, <2>8
<1>7. /\ \A v \in Wizard : InFlight(v) <=> pc[v] \in Flight
      /\ \A v \in Wizard : InFlight(v)' <=> pc'[v] \in Flight
  BY DEF InFlight
<1>8. /\ \A v \in Wizard : pc[v] \in Flight => setup_in_progress
      /\ \A v \in Wizard \ {w} : pc[v] \in Flight => pc[w] \notin Flight
      /\ \A u, v \in Wizard : pc[u] \in Flight /\ pc[v] \in Flight => u = v
  BY <1>7 DEF IInv, FlagIsLock
<1>9. setup_completed' /\ ~setup_completed =>
         \A v \in Wizard : pc'[v] \notin {"insert", "commit"}
  BY <1>3, <1>5, <1>6, <1>8
<1> HIDE DEF Flight
<1>10. TypeOK' BY <1>2, <1>3, <1>5 DEF IInv, TypeOK
<1>11. \A v \in Wizard : pc'[v] \in Flight => setup_in_progress'
  BY <1>3, <1>5, <1>6, <1>8
<1>12. \A u, v \in Wizard : pc'[u] \in Flight /\ pc'[v] \in Flight => u = v
  BY <1>3, <1>6, <1>8
<1>13. FlagIsLock' BY <1>7, <1>11, <1>12 DEF FlagIsLock
<1>14. WizardOK'
  <2>1. setup_completed' => \A v \in Wizard : pc'[v] \notin {"insert", "commit"}
    BY <1>3, <1>6, <1>9 DEF IInv, WizardOK
  <2>2. \A v \in Wizard : pc'[v] = "release" => setup_completed'
    BY <1>3, <1>5, <1>6 DEF IInv, WizardOK
  <2>3. ASSUME db.admins \cap Wizard # {}, ~setup_completed'
        PROVE  /\ setup_in_progress'
               /\ \A v \in Wizard : pc'[v] \notin {"recheck", "insert", "commit"}
    <3>1. /\ setup_in_progress /\ ~setup_completed
          /\ \A v \in Wizard : pc[v] \notin {"recheck", "insert", "commit"}
          /\ \A v \in Wizard : pc[v] # "release"
      BY <2>3, <1>5 DEF IInv, WizardOK
    <3>2. \A v \in Wizard : pc'[v] \notin {"recheck", "insert", "commit"}
      BY <3>1, <1>3, <1>6
    <3>3. pc[w] \notin Flight BY <2>3, <3>1, <1>6 DEF Flight
    <3> QED BY <3>1, <3>2, <3>3, <1>5
  <2> QED BY <1>2, <2>1, <2>2, <2>3 DEF WizardOK
<1>15. BootstrapOK' BY <1>2, <1>3 DEF IInv, BootstrapOK
<1>16. CompleteOK' BY <1>2, <1>3, <1>5, <1>6 DEF IInv, CompleteOK, CompletedTruthful
<1>17. WizardOnce' /\ BootstrapOnce' BY <1>2 DEF IInv, WizardOnce, BootstrapOnce
<1> QED BY <1>10, <1>13, <1>14, <1>15, <1>16, <1>17 DEF IInv

\* A commit by client c makes every other snapshot stale.
LEMMA CommitFacts ==
    ASSUME IInv, NEW c \in Clients, NEW step \in Steps, Commit(c, WithAdmin(c)), Goto(c, step)
    PROVE  /\ TypeOK' <=> setup_completed' \in BOOLEAN /\ setup_in_progress' \in BOOLEAN
           /\ pc'[c] = step
           /\ \A d \in Clients \ {c} :
                /\ pc'[d] = pc[d]
                /\ reading'[d] # "fresh"
                /\ (reading[d] # "none" => reading'[d] # "none")
                /\ writer # d
           /\ db'.admins = db.admins \cup {c}
           /\ db'.setup_complete = TRUE
BY DEF IInv, TypeOK, SqlTypeOK, Commit, Goto, WithAdmin, Contents

\* A wizard commit, awaited or abandoned.
LEMMA WizardCommits ==
    ASSUME IInv, NEW w \in Wizard, Commit(w, WithAdmin(w)), UNCHANGED flags,
           \/ pc[w] = "commit" /\ Goto(w, "publish")
           \/ pc[w] \in {"insert", "commit"} /\ Goto(w, "done")
    PROVE  IInv'
<1>1. PICK step \in {"publish", "done"} : Goto(w, step)
  OBVIOUS
<1>2. step \in Steps BY DEF Steps
<1>3. /\ TypeOK' <=> setup_completed' \in BOOLEAN /\ setup_in_progress' \in BOOLEAN
      /\ pc'[w] = step
      /\ \A d \in Clients \ {w} :
            /\ pc'[d] = pc[d] /\ reading'[d] # "fresh"
            /\ (reading[d] # "none" => reading'[d] # "none") /\ writer # d
      /\ db'.admins = db.admins \cup {w}
      /\ db'.setup_complete = TRUE
  BY <1>1, <1>2, CommitFacts
<1>4. pc[w] \in {"insert", "commit"} /\ UNCHANGED <<setup_completed, setup_in_progress>>
  BY DEF flags
<1>5. InFlight(w) BY <1>4 DEF InFlight
<1>6. setup_in_progress /\ \A v \in Wizard \ {w} : ~InFlight(v)
  BY <1>5 DEF IInv, FlagIsLock
<1>7. db.admins \cap Wizard = {} /\ ~setup_completed
  BY <1>4 DEF IInv, WizardOK
<1>8. TypeOK' BY <1>3, <1>4 DEF IInv, TypeOK
<1>9. FlagIsLock' BY <1>1, <1>3, <1>4, <1>5, <1>6 DEF FlagIsLock, InFlight
<1>10. WizardOK' BY <1>1, <1>3, <1>4, <1>6 DEF WizardOK, InFlight
<1>11. BootstrapOK'
  BY <1>3 DEF IInv, BootstrapOK
<1>12. CompleteOK' BY <1>3 DEF IInv, CompleteOK, CompletedTruthful
<1>13. WizardOnce' BY <1>3, <1>7 DEF WizardOnce
<1>14. BootstrapOnce' BY <1>3 DEF IInv, BootstrapOnce
<1> QED BY <1>8, <1>9, <1>10, <1>11, <1>12, <1>13, <1>14 DEF IInv

\* The steps of a bootstrap command.
LEMMA BootstrapSteps == ASSUME IInv, NEW b \in Bootstrap, BootstrapStep(b) PROVE IInv'
<1>1. CASE BootstrapCommit(b)
  <2>1. /\ TypeOK' <=> setup_completed' \in BOOLEAN /\ setup_in_progress' \in BOOLEAN
        /\ pc'[b] = "done"
        /\ \A d \in Clients \ {b} :
              /\ pc'[d] = pc[d] /\ reading'[d] # "fresh"
              /\ (reading[d] # "none" => reading'[d] # "none") /\ writer # d
        /\ db'.admins = db.admins \cup {b}
        /\ db'.setup_complete = TRUE
    BY <1>1, CommitFacts DEF BootstrapCommit, Steps
  <2>2. UNCHANGED <<setup_completed, setup_in_progress>> BY <1>1 DEF BootstrapCommit, flags
  <2>3. db.admins = {} BY <1>1 DEF BootstrapCommit, IInv, BootstrapOK
  <2>4. TypeOK' BY <2>1, <2>2 DEF IInv, TypeOK
  <2>5. FlagIsLock' BY <2>1, <2>2 DEF IInv, FlagIsLock, InFlight
  <2>6. WizardOK' BY <2>1, <2>2 DEF IInv, WizardOK
  <2>7. BootstrapOK' BY <2>1 DEF IInv, BootstrapOK
  <2>8. CompleteOK' BY <2>1 DEF IInv, CompleteOK, CompletedTruthful
  <2>9. WizardOnce' /\ BootstrapOnce' BY <2>1, <2>3 DEF WizardOnce, BootstrapOnce
  <2> QED BY <2>4, <2>5, <2>6, <2>7, <2>8, <2>9 DEF IInv
<1>2. CASE ~BootstrapCommit(b)
  <2>1. PICK step \in {"insert", "commit", "done"} : Goto(b, step)
    BY <1>2 DEF BootstrapStep, BootstrapCount, BootstrapInsert, BootstrapFails
  <2>2. /\ db' = db /\ UNCHANGED <<setup_completed, setup_in_progress>>
        /\ Rollback(b) \/ UNCHANGED sqlVars \/ TakeWriteLock(b) \/ TakeSnapshot(b)
    BY <1>2 DEF BootstrapStep, BootstrapCount, BootstrapInsert, BootstrapFails, flags,
       Rollback, sqlVars, TakeWriteLock, TakeSnapshot
  <2>3. /\ pc'[b] = step
        /\ \A d \in Clients \ {b} :
              pc'[d] = pc[d] /\ reading'[d] = reading[d] /\ (writer = d => writer' = d)
        /\ SqlTypeOK' /\ pc' \in [Clients -> Steps]
    BY <2>1, <2>2, OthersKeep DEF Steps
  <2>4. /\ step = "insert" => db.admins = {} /\ reading'[b] # "none"
        /\ step = "commit" => db.admins = {} /\ writer' = b
    <3> USE <2>1, <2>3 DEF IInv, TypeOK, SqlTypeOK
    <3>1. CASE BootstrapCount(b) BY <3>1 DEF BootstrapCount, Goto, TakeSnapshot
    <3>2. CASE BootstrapInsert(b)
      BY <3>2 DEF BootstrapInsert, Goto, TakeWriteLock, CanWrite, BootstrapOK
    <3>3. CASE BootstrapFails(b) BY <3>3 DEF BootstrapFails, Goto
    <3> QED BY <1>2, <3>1, <3>2, <3>3 DEF BootstrapStep
  <2>5. TypeOK' BY <2>2, <2>3 DEF IInv, TypeOK
  <2>6. FlagIsLock' BY <2>2, <2>3 DEF IInv, FlagIsLock, InFlight
  <2>7. WizardOK' BY <2>2, <2>3 DEF IInv, WizardOK
  <2>8. BootstrapOK' BY <2>2, <2>3, <2>4 DEF IInv, BootstrapOK
  <2>9. CompleteOK' /\ WizardOnce' /\ BootstrapOnce'
    BY <2>2, <2>3 DEF IInv, CompleteOK, CompletedTruthful, WizardOnce, BootstrapOnce
  <2> QED BY <2>5, <2>6, <2>7, <2>8, <2>9 DEF IInv
<1> QED BY <1>1, <1>2

\* A restart of the server.
LEMMA RestartStep == ASSUME IInv, Restart PROVE IInv'
<1>1. /\ \A w \in Wizard : pc'[w] \in {"begin", "done"}
      /\ \A b \in Bootstrap :
            pc'[b] = pc[b] /\ reading'[b] = reading[b] /\ (writer = b => writer' = b)
      /\ db' = db /\ setup_in_progress' = FALSE /\ setup_completed' = db.setup_complete
  BY DEF Restart
<1>2. TypeOK' BY DEF IInv, TypeOK, SqlTypeOK, Contents, Restart, Steps
<1>3. FlagIsLock' BY <1>1 DEF FlagIsLock, InFlight
<1>4. WizardOK' BY <1>1 DEF IInv, CompleteOK, WizardOK
<1>5. BootstrapOK' BY <1>1 DEF IInv, BootstrapOK
<1>6. CompleteOK' BY <1>1 DEF IInv, CompleteOK, CompletedTruthful
<1>7. WizardOnce' /\ BootstrapOnce' BY <1>1 DEF IInv, WizardOnce, BootstrapOnce
<1> QED BY <1>2, <1>3, <1>4, <1>5, <1>6, <1>7 DEF IInv

\* Every step preserves the inductive invariant.
LEMMA StepInv == IInv /\ [Next]_vars => IInv'
<1> SUFFICES ASSUME IInv, [Next]_vars PROVE IInv'
  OBVIOUS
<1>1. ASSUME NEW w \in Wizard, WizardStep(w) PROVE IInv'
  <2>1. CASE WizardCommit(w) BY <2>1, WizardCommits DEF WizardCommit
  <2>2. CASE ~WizardCommit(w) BY <1>1, <2>2, WizardQuiet DEF WizardStep
  <2> QED BY <2>1, <2>2
<1>2. ASSUME NEW w \in Wizard, HangUp(w) PROVE IInv'
  <2>1. CASE Rollback(w) BY <1>2, <2>1, WizardQuiet
  <2>2. CASE Commit(w, WithAdmin(w)) BY <1>2, <2>2, WizardCommits DEF HangUp
  <2> QED BY <1>2, <2>1, <2>2 DEF HangUp
<1>3. ASSUME NEW b \in Bootstrap, BootstrapStep(b) PROVE IInv'
  BY <1>3, BootstrapSteps
<1>4. CASE Restart BY <1>4, RestartStep
<1>5. CASE UNCHANGED vars
  BY <1>5 DEF vars, IInv, TypeOK, SqlTypeOK, FlagIsLock, InFlight, WizardOK, BootstrapOK,
     CompleteOK, CompletedTruthful, WizardOnce, BootstrapOnce
<1> QED BY <1>1, <1>2, <1>3, <1>4, <1>5 DEF Next

\* IInv holds in every reachable state.
THEOREM InductiveInvariant == Spec => []IInv
BY InitInv, StepInv, PTL DEF Spec

\* Type correctness.
THEOREM TypeCorrect == Spec => []TypeOK
<1>1. IInv => TypeOK BY DEF IInv
<1> QED BY InductiveInvariant, <1>1, PTL

\* The wizard creates at most one administrator, across hang-ups and restarts.
THEOREM WizardSafe == Spec => []WizardOnce
<1>1. IInv => WizardOnce BY DEF IInv
<1> QED BY InductiveInvariant, <1>1, PTL

\* The bootstrap command creates at most one administrator.
THEOREM BootstrapSafe == Spec => []BootstrapOnce
<1>1. IInv => BootstrapOnce BY DEF IInv
<1> QED BY InductiveInvariant, <1>1, PTL

\* setup_completed never runs ahead of the settings row.
THEOREM CompletedSafe == Spec => []CompletedTruthful
<1>1. IInv => CompletedTruthful BY DEF IInv, CompleteOK
<1> QED BY InductiveInvariant, <1>1, PTL

\* A step of bootstrap that adds an administrator finds none.
LEMMA BootstrapFirst ==
    IInv /\ [Next]_vars =>
        [\A b \in Bootstrap : b \in db'.admins \ db.admins => db.admins = {}]_vars
<1> SUFFICES ASSUME IInv, Next, NEW b \in Bootstrap, b \in db'.admins \ db.admins
             PROVE  db.admins = {}
  OBVIOUS
<1>1. ASSUME NEW c \in Clients, Commit(c, WithAdmin(c)) PROVE b = c
  BY <1>1 DEF Commit, WithAdmin
<1>2. ASSUME NEW w \in Wizard PROVE ~WizardStep(w) /\ ~HangUp(w)
  BY <1>1, <1>2 DEF WizardStep, HangUp, Guard1, Guard2, Guard3, WizardInsert, WizardCommit,
     WizardFails, Publish, Release, Rollback, TakeWriteLock, sqlVars
<1>3. ASSUME NEW d \in Bootstrap, BootstrapStep(d) PROVE pc[b] = "commit"
  BY <1>1, <1>3 DEF BootstrapStep, BootstrapCount, BootstrapInsert, BootstrapCommit,
     BootstrapFails, Rollback, TakeWriteLock, TakeSnapshot, sqlVars
<1>4. ~Restart BY DEF Restart
<1>5. pc[b] = "commit" BY <1>2, <1>3, <1>4 DEF Next
<1> QED BY <1>5 DEF IInv, BootstrapOK

\* Bootstrap never adds an administrator to a database that has one.
THEOREM BootstrapFirstSafe == Spec => BootstrapOnlyFirst
BY InductiveInvariant, BootstrapFirst, PTL DEF Spec, BootstrapOnlyFirst

-----------------------------------------------------------------------------
(* The server and its run loop. *)

\* What keeps the desktop from losing its server: a reset is served by the server
\* that serves, with the pool closed; a server that is not up yet has a token nobody
\* can cancel; and the token of one that is up is only cancelled behind a sentinel,
\* or by an exit.
NoToken == proc \in {"starting", "up"} /\ server \in {"copying", "booting"} =>
              instance \notin cancelled \cup timers
SentinelFirst ==
    Desktop /\ proc = "up" /\ server \in {"serving", "stopped"}
            /\ instance \in cancelled \cup timers => sentinel
StoppedByToken == Desktop /\ server = "stopped" => instance \in cancelled
ResetsServed == \A r \in Resets : Server!Serving(r) => server = "serving" /\ ~ pool.open
Phases ==
    /\ proc = "starting" => server \in {"copying", "booting"}
    /\ proc = "down" => server = "none"
    /\ server = "copying" => sidecar # "missing"
    /\ published = instance /\ (proc # "down" => instance > 0)
Tokens ==
    /\ instance \in Nat /\ cancelled \subseteq 1..instance /\ timers \subseteq 1..instance
    /\ NoToken /\ SentinelFirst /\ StoppedByToken

ServerInv ==
    /\ Server!TypeOK
    /\ ResetsServed /\ Phases /\ Tokens
    /\ Server!NeverStranded /\ Server!PoolReadsDemo

\* The server part starts in a state that satisfies its invariant.
LEMMA ServerInit == Server!Init => ServerInv
<1> SUFFICES ASSUME Server!Init PROVE ServerInv
  OBVIOUS
<1> USE ServerConstants DEF Server!ServerRunAssumption, Server!Init
<1>1. Server!TypeOK
  <2>1. reset \in [Resets -> [pc : {"idle"} \cup Server!InFlight \cup Server!Answers, at : Nat]]
    OBVIOUS
  <2>2. demo \in [copy : Nat, content : Server!Contents] BY DEF Server!Contents
  <2>3. pool \in [open : BOOLEAN, copy : Nat] OBVIOUS
  <2>4. /\ launches \in 0..MaxLaunches /\ cancelled \cup timers = {}
        /\ instance \in Nat /\ published \in Nat
    OBVIOUS
  <2>5. boot_failed \in BOOLEAN /\ install_ok \in BOOLEAN /\ sentinel \in BOOLEAN
    OBVIOUS
  <2> QED BY <2>1, <2>2, <2>3, <2>4, <2>5 DEF Server!TypeOK
<1>2. ResetsServed BY DEF ResetsServed, Server!Serving, Server!InFlight
<1>3. Phases /\ Tokens
  BY DEF Phases, Tokens, NoToken, SentinelFirst, StoppedByToken
<1>4. Server!NeverStranded /\ Server!PoolReadsDemo
  BY DEF Server!NeverStranded, Server!PoolReadsDemo
<1> QED BY <1>1, <1>2, <1>3, <1>4 DEF ServerInv

\* What Move leaves: the one reset goes on, in the server it belongs to.
LEMMA ServerMove ==
    ASSUME Server!TypeOK, NEW r \in Resets,
           NEW to \in Server!InFlight \cup Server!Answers, Server!Move(r, to)
    PROVE  /\ reset' \in [Resets -> [pc : {"idle"} \cup Server!InFlight \cup Server!Answers, at : Nat]]
           /\ reset'[r].pc = to
           /\ \A s \in Resets \ {r} : reset'[s] = reset[s]
BY DEF Server!TypeOK, Server!Move

\* A step of the server's that leaves the resets alone and does not touch the tokens.
LEMMA ServerStep ==
    ASSUME ServerInv, ServerNext PROVE ServerInv'
<1> USE ServerConstants DEF Server!ServerRunAssumption
<1> DEFINE Pcs == {"idle"} \cup Server!InFlight \cup Server!Answers
<1>1. /\ proc \in {"down", "starting", "up", "exiting"}
      /\ server \in {"none", "copying", "booting", "serving", "stopped", "claimed", "over"}
      /\ launches \in 0..MaxLaunches /\ instance \in Nat /\ published \in Nat
      /\ cancelled \subseteq 1..instance /\ timers \subseteq 1..instance
      /\ boot_failed \in BOOLEAN /\ install_ok \in BOOLEAN /\ sentinel \in BOOLEAN
      /\ pool \in [open : BOOLEAN, copy : Nat]
      /\ demo \in [copy : Nat, content : Server!Contents]
      /\ sidecar \in {"missing", "broken", "fresh"}
      /\ reset \in [Resets -> [pc : Pcs, at : Nat]]
  BY DEF ServerInv, Server!TypeOK
<1>2. ASSUME proc' \in {"down", "starting", "up", "exiting"},
             server' \in {"none", "copying", "booting", "serving", "stopped", "claimed", "over"},
             launches' \in 0..MaxLaunches, instance' \in Nat, published' \in Nat,
             cancelled' \subseteq 1..instance', timers' \subseteq 1..instance',
             boot_failed' \in BOOLEAN, install_ok' \in BOOLEAN, sentinel' \in BOOLEAN,
             pool' \in [open : BOOLEAN, copy : Nat],
             demo' \in [copy : Nat, content : Server!Contents],
             sidecar' \in {"missing", "broken", "fresh"},
             reset' \in [Resets -> [pc : Pcs, at : Nat]],
             ResetsServed', Phases', NoToken', SentinelFirst', StoppedByToken',
             Server!NeverStranded', Server!PoolReadsDemo'
      PROVE  ServerInv'
  BY <1>2 DEF ServerInv, Server!TypeOK, Tokens
<1>3. /\ ResetsServed /\ Phases /\ NoToken /\ SentinelFirst /\ StoppedByToken
      /\ Server!NeverStranded /\ Server!PoolReadsDemo
  BY DEF ServerInv, Tokens
<1>4. \A c \in Server!Contents :
         /\ Server!Content(c) \in [copy : Nat, content : Server!Contents]
         /\ Server!Content(c).copy = demo.copy
  BY <1>1 DEF Server!Content
<1>5. /\ Server!BeginBoot =>
            /\ server' \in {"copying", "booting"}
            /\ server' = "copying" => sidecar # "missing"
            /\ demo' \in [copy : Nat, content : Server!Contents] /\ demo'.copy = demo.copy
  BY <1>1, <1>4 DEF Server!BeginBoot, Server!Contents
<1>6. Server!Opened \in Server!Contents BY <1>1 DEF Server!Opened, Server!Contents
<1>7. ASSUME UNCHANGED reset, ResetsServed,
             UNCHANGED <<server, pool>> \/ server # "serving" \/ Server!Idle
      PROVE  ResetsServed'
  BY <1>7 DEF ResetsServed, Server!Idle, Server!Serving
<1>8. ASSUME Server!Down, UNCHANGED demo PROVE ServerInv'
  <2> USE <1>8 DEF Server!Down
  <2>1. /\ pool' \in [open : BOOLEAN, copy : Nat] /\ ~ pool'.open
    BY <1>1
  <2>2. reset' \in [Resets -> [pc : Pcs, at : Nat]]
    BY <1>1 DEF Server!Answers
  <2>3. \A r \in Resets : reset'[r].pc \notin Server!InFlight
    BY <1>1 DEF Server!InFlight, Server!Serving
  <2>4. ResetsServed' BY <2>3 DEF ResetsServed, Server!Serving
  <2>5. /\ Phases' /\ NoToken' /\ SentinelFirst' /\ StoppedByToken'
        /\ Server!NeverStranded' /\ Server!PoolReadsDemo'
    BY <1>3, <2>1 DEF Phases, NoToken, SentinelFirst, StoppedByToken, Server!NeverStranded,
       Server!PoolReadsDemo
  <2> QED BY <1>1, <1>2, <2>1, <2>2, <2>4, <2>5
<1> DEFINE Parts == /\ Phases' /\ NoToken' /\ SentinelFirst' /\ StoppedByToken'
                    /\ Server!NeverStranded' /\ Server!PoolReadsDemo'
<1>11. CASE Server!Launch
  <2> USE <1>11 DEF Server!Launch, Server!NewInstance
  <2>1. ResetsServed' BY <1>3, <1>7 DEF Phases
  <2>2. Parts
    BY <1>1, <1>3, <1>5 DEF Phases, NoToken, SentinelFirst, StoppedByToken, Server!NeverStranded,
       Server!PoolReadsDemo
  <2> QED BY <1>1, <1>2, <1>5, <2>1, <2>2
<1>12. CASE Server!StopServing
  <2> USE <1>12 DEF Server!StopServing
  <2>1. ResetsServed' BY <1>3, <1>7
  <2>2. Parts
    BY <1>1, <1>3 DEF Phases, NoToken, SentinelFirst, StoppedByToken, Server!NeverStranded,
       Server!PoolReadsDemo, Server!ShutdownSeen, Server!disk
  <2> QED BY <1>1, <1>2, <2>1, <2>2 DEF Server!disk
<1>13. CASE Server!ClaimSentinel
  <2> USE <1>13 DEF Server!ClaimSentinel
  <2>1. ResetsServed' BY <1>3, <1>7
  <2>2. Parts
    BY <1>1, <1>3 DEF Phases, NoToken, SentinelFirst, StoppedByToken, Server!NeverStranded,
       Server!PoolReadsDemo
  <2> QED BY <1>1, <1>2, <2>1, <2>2
<1>14. CASE Server!Rebuild
  <2> USE <1>14 DEF Server!Rebuild, Server!NewInstance
  <2>1. ResetsServed' BY <1>3, <1>7
  <2>2. Parts
    BY <1>1, <1>3, <1>5 DEF Phases, NoToken, SentinelFirst, StoppedByToken, Server!NeverStranded,
       Server!PoolReadsDemo
  <2>3. /\ server' \in {"copying", "booting", "over"} /\ boot_failed' \in BOOLEAN
        /\ demo' \in [copy : Nat, content : Server!Contents]
    BY <1>1, <1>5
  <2>4. /\ instance' \in Nat /\ published' \in Nat
        /\ cancelled' \subseteq 1..instance' /\ timers' \subseteq 1..instance'
    BY <1>1
  <2> QED BY <1>1, <1>2, <2>1, <2>2, <2>3, <2>4
<1>15. CASE Server!CopySidecar
  <2> USE <1>15 DEF Server!CopySidecar
  <2>1. ResetsServed' BY <1>3, <1>7
  <2>2. demo' \in [copy : Nat, content : Server!Contents] /\ demo'.copy = demo.copy
    BY <1>1, <1>3, <1>4 DEF Phases, Server!Contents
  <2>3. Parts
    BY <1>1, <1>3, <2>2 DEF Phases, NoToken, SentinelFirst, StoppedByToken, Server!NeverStranded,
       Server!PoolReadsDemo
  <2> QED BY <1>1, <1>2, <2>1, <2>2, <2>3
<1>16. CASE Server!BootServer
  <2> USE <1>16 DEF Server!BootServer
  <2>1. ResetsServed' BY <1>3, <1>7
  <2>2. /\ demo' \in [copy : Nat, content : Server!Contents] /\ demo'.copy = demo.copy
        /\ pool' \in [open : BOOLEAN, copy : Nat] /\ pool'.copy = demo.copy
    BY <1>1, <1>4, <1>6
  <2>3. Parts
    BY <1>1, <1>3, <2>2 DEF Phases, NoToken, SentinelFirst, StoppedByToken, Server!NeverStranded,
       Server!PoolReadsDemo
  <2> QED BY <1>1, <1>2, <2>1, <2>2, <2>3
<1>17. CASE Server!BootFails
  <2>1. CASE proc = "starting" BY <1>8, <1>17, <2>1 DEF Server!BootFails
  <2>2. CASE proc # "starting"
    <3> USE <1>17, <2>2 DEF Server!BootFails
    <3>1. ResetsServed' BY <1>3, <1>7
    <3>2. Parts
      BY <1>1, <1>3 DEF Phases, NoToken, SentinelFirst, StoppedByToken, Server!NeverStranded,
         Server!PoolReadsDemo, Server!disk
    <3> QED BY <1>1, <1>2, <3>1, <3>2 DEF Server!disk
  <2> QED BY <2>1, <2>2
<1>18. CASE Server!Quit
  <2> USE <1>18 DEF Server!Quit
  <2>1. ResetsServed' BY <1>3, <1>7
  <2>2. published = instance
    BY <1>3 DEF Phases
  <2>3. cancelled' \subseteq 1..instance BY <1>1, <1>3, <2>2 DEF Phases
  <2>4. Parts
    BY <1>1, <1>3, <2>2 DEF Phases, NoToken, SentinelFirst, StoppedByToken, Server!NeverStranded,
       Server!PoolReadsDemo, Server!disk
  <2> QED BY <1>1, <1>2, <2>1, <2>3, <2>4 DEF Server!disk
<1>19. CASE Server!Exit BY <1>8, <1>19 DEF Server!Exit
<1>20. CASE Server!Crash BY <1>8, <1>20 DEF Server!Crash
<1>21. ASSUME NEW r \in Resets, Server!ResetClose(r) PROVE ServerInv'
  <2> USE <1>21 DEF Server!ResetClose, Server!task, Server!disk
  <2>1. /\ reset' \in [Resets -> [pc : Pcs, at : Nat]]
        /\ pool' \in [open : BOOLEAN, copy : Nat] /\ ~ pool'.open
    BY <1>1 DEF Server!InFlight
  <2>2. ResetsServed' BY <1>1, <1>3, <2>1 DEF ResetsServed, Server!Serving, Server!InFlight
  <2>3. Parts
    BY <1>1, <1>3, <2>1 DEF Phases, NoToken, SentinelFirst, StoppedByToken, Server!NeverStranded,
       Server!PoolReadsDemo
  <2> QED BY <1>1, <1>2, <2>1, <2>2, <2>3
<1>22. ASSUME NEW r \in Resets, NEW to \in Server!InFlight \cup Server!Answers,
              Server!Serving(r), Server!Move(r, to), UNCHANGED <<server, pool>>
       PROVE  /\ reset' \in [Resets -> [pc : Pcs, at : Nat]]
              /\ ResetsServed'
              /\ server = "serving" /\ ~ pool.open
  <2>1. /\ reset' \in [Resets -> [pc : Pcs, at : Nat]]
        /\ \A s \in Resets \ {r} : reset'[s] = reset[s]
    BY <1>22, ServerMove DEF ServerInv
  <2>2. server = "serving" /\ ~ pool.open BY <1>3, <1>22 DEF ResetsServed
  <2>3. ResetsServed' BY <1>3, <1>22, <2>1, <2>2 DEF ResetsServed, Server!Serving
  <2> QED BY <2>1, <2>2, <2>3
<1>23. ASSUME NEW r \in Resets, Server!ResetCopy(r) PROVE ServerInv'
  <2> USE <1>23 DEF Server!ResetCopy, Server!task
  <2>1. /\ Server!Serving(r)
        /\ \E to \in Server!InFlight \cup Server!Answers : Server!Move(r, to)
    BY DEF Server!Serving, Server!InFlight, Server!Answers
  <2>2. /\ reset' \in [Resets -> [pc : Pcs, at : Nat]] /\ ResetsServed'
        /\ server = "serving" /\ ~ pool.open
    BY <1>22, <2>1
  <2>3. demo' \in [copy : Nat, content : Server!Contents]
    BY <1>1, <1>4 DEF Server!Contents
  <2>4. Parts
    BY <1>1, <1>3, <2>2 DEF Phases, NoToken, SentinelFirst, StoppedByToken, Server!NeverStranded,
       Server!PoolReadsDemo
  <2> QED BY <1>1, <1>2, <2>2, <2>3, <2>4
<1>24. ASSUME NEW r \in Resets, Server!ResetValidate(r) PROVE ServerInv'
  <2> USE <1>24 DEF Server!ResetValidate, Server!task
  <2>1. Server!Serving(r) /\ "validated" \in Server!InFlight
    BY DEF Server!Serving, Server!InFlight
  <2>2. /\ reset' \in [Resets -> [pc : Pcs, at : Nat]] /\ ResetsServed'
        /\ server = "serving" /\ ~ pool.open
    BY <1>22, <2>1
  <2>3. demo' \in [copy : Nat, content : Server!Contents]
    BY <1>4, <1>6
  <2>4. Parts
    BY <1>1, <1>3, <2>2 DEF Phases, NoToken, SentinelFirst, StoppedByToken, Server!NeverStranded,
       Server!PoolReadsDemo
  <2> QED BY <1>1, <1>2, <2>2, <2>3, <2>4
<1>25. ASSUME NEW r \in Resets, Server!ResetCannotOpen(r) \/ Server!ResetAnswer(r) PROVE ServerInv'
  <2>1. /\ Server!Serving(r)
        /\ \E to \in Server!InFlight \cup Server!Answers : Server!Move(r, to)
        /\ Server!ScheduleRestart \/ Server!CannotSchedule
        /\ UNCHANGED <<proc, launches, server, instance, published, boot_failed, cancelled, pool,
                       demo, sidecar>>
        /\ install_ok' \in {install_ok, FALSE}
    BY <1>25 DEF Server!ResetCannotOpen, Server!ResetAnswer, Server!task, Server!Serving,
       Server!InFlight, Server!Answers
  <2>2. /\ reset' \in [Resets -> [pc : Pcs, at : Nat]] /\ ResetsServed'
        /\ server = "serving" /\ ~ pool.open
    BY <1>22, <2>1
  <2>3. \/ sentinel' = TRUE /\ timers' = timers \cup {instance}
        \/ sentinel' = sentinel /\ timers' = timers
    BY <2>1 DEF Server!ScheduleRestart, Server!CannotSchedule
  <2>4. instance \in 1..instance
    BY <1>1, <1>3, <2>2 DEF Phases
  <2>5. Parts
    BY <1>1, <1>3, <2>1, <2>2, <2>3 DEF Phases, NoToken, SentinelFirst, StoppedByToken,
       Server!NeverStranded, Server!PoolReadsDemo
  <2> QED BY <1>1, <1>2, <2>1, <2>2, <2>3, <2>4, <2>5
<1>26. ASSUME NEW i \in timers, Server!CancelToken(i) PROVE ServerInv'
  <2> USE <1>26 DEF Server!CancelToken, Server!task, Server!disk
  <2>1. ResetsServed' BY <1>3, <1>7
  <2>2. Parts
    BY <1>1, <1>3 DEF Phases, NoToken, SentinelFirst, StoppedByToken, Server!NeverStranded,
       Server!PoolReadsDemo
  <2> QED BY <1>1, <1>2, <2>1, <2>2
<1> QED
  BY <1>11, <1>12, <1>13, <1>14, <1>15, <1>16, <1>17, <1>18, <1>19, <1>20, <1>21, <1>23, <1>24,
     <1>25, <1>26 DEF ServerNext

-----------------------------------------------------------------------------
(* The announcement on the LAN. *)

\* Who may hold the handle, and what a retry and its handle allow at each point.
NotAnnounced ==
    /\ daemon = "none" => holder = "nobody" /\ ~ status.active /\ renames = <<>>
    /\ daemon = "off" => holder \in {"leaving", "nobody"}
    /\ daemon = "off" /\ holder = "nobody" => ~ status.active
    /\ holder = "caller" => daemon = "on"
    /\ holder = "leaving" => daemon = "off"
    /\ daemon = "on" => retry.at \in {"none", "over"}
RetryHandle ==
    /\ retry.at \in {"sleeping", "trying"} => daemon = "none"
    /\ retry.at = "none" => ~ retry.cancel /\ ~ retry.dropped
    /\ joining => retry.cancel
    /\ retry.cancel => joining \/ retry.dropped \/ (retry.at = "over" /\ holder # "task")
    /\ holder = "task" => retry.at = "over"
NameKnown ==
    daemon = "on" =>
        /\ status.active
        /\ renames \in {<<>>, <<"service">>} => status.hostname = name
        /\ renames = <<"host">> => name = "mokumo-2"

LanInv ==
    /\ Background!TypeOK /\ joining \in BOOLEAN
    /\ NotAnnounced /\ RetryHandle /\ NameKnown /\ Background!HandleKept

\* The tasks start in a state that satisfies its invariant.
LEMMA LanInit == Background!Init => LanInv
<1> SUFFICES ASSUME Background!Init PROVE LanInv
  OBVIOUS
<1> USE LanConstants DEF Background!DiscoveryAssumption, Background!Init, Background!NoRetry
<1>1. Background!TypeOK
  <2>1. tasks \subseteq Background!Tasks /\ closed \in BOOLEAN /\ optimized \subseteq Background!Pools
    OBVIOUS
  <2>2. retry \in [at: {"none", "sleeping", "trying", "over"}, attempt: 0..MaxAttempts,
                   cancel: BOOLEAN, dropped: BOOLEAN]
    OBVIOUS
  <2> QED BY <2>1, <2>2 DEF Background!TypeOK, Background!Names
<1>2. NotAnnounced /\ RetryHandle /\ NameKnown /\ Background!HandleKept
  BY DEF NotAnnounced, RetryHandle, NameKnown, Background!HandleKept
<1> QED BY <1>1, <1>2 DEF LanInv

\* Every step of the announcement and of the other tasks keeps the invariant.
LEMMA LanStep == ASSUME LanInv, Background!Next PROVE LanInv'
<1> USE LanConstants DEF Background!DiscoveryAssumption, LanInv, Background!TypeOK, Background!taskVars
<1> DEFINE Parts == NotAnnounced' /\ RetryHandle' /\ NameKnown' /\ Background!HandleKept'
<1>0. /\ "mokumo" \in Background!Names /\ "mokumo-2" \in Background!Names /\ "mokumo" # "mokumo-2"
      /\ Background!Kinds = {"host", "service"} /\ Background!Names = {"mokumo", "mokumo-2"}
  BY DEF Background!Names, Background!Kinds
<1>1. ASSUME NEW asks \in BOOLEAN, Background!Register(asks) PROVE LanInv'
  <2> USE <1>1 DEF Background!Register, Background!RegisterOk
  <2>1. Background!TypeOK' BY <1>0
  <2>2. Parts BY <1>0 DEF NotAnnounced, RetryHandle, NameKnown, Background!HandleKept
  <2> QED BY <2>1, <2>2
<1>2. CASE Background!StartRetry
  <2> USE <1>2 DEF Background!StartRetry
  <2>1. Background!TypeOK' OBVIOUS
  <2>2. Parts BY DEF NotAnnounced, RetryHandle, NameKnown, Background!HandleKept
  <2> QED BY <2>1, <2>2
<1>3. CASE Background!SleepEnds
  <2> USE <1>3 DEF Background!SleepEnds
  <2>1. Background!TypeOK' OBVIOUS
  <2>2. Parts BY DEF NotAnnounced, RetryHandle, NameKnown, Background!HandleKept
  <2> QED BY <2>1, <2>2
<1>4. CASE Background!RetryStops
  <2> USE <1>4 DEF Background!RetryStops
  <2>1. Background!TypeOK' OBVIOUS
  <2>2. Parts BY DEF NotAnnounced, RetryHandle, NameKnown, Background!HandleKept
  <2> QED BY <2>1, <2>2
<1>5. CASE Background!TryRegister
  <2>1. CASE /\ Background!RegisterOk(IF retry.dropped THEN "nobody" ELSE "task")
             /\ retry' = [retry EXCEPT !.at = "over"]
    <3> USE <1>5, <2>1 DEF Background!TryRegister, Background!RegisterOk
    <3>1. /\ UNCHANGED <<joining, renames>> /\ retry.at = "trying" /\ daemon = "none"
          /\ retry'.at = "over" /\ retry'.cancel = retry.cancel /\ retry'.dropped = retry.dropped
          /\ retry'.attempt = retry.attempt
      BY DEF RetryHandle
    <3>2. Background!TypeOK' BY <1>0, <3>1
    <3>6. retry.cancel => joining \/ retry.dropped BY <3>1 DEF RetryHandle
    <3>3. renames' = <<>> /\ renames' # <<"host">> BY <3>1 DEF NotAnnounced
    <3>4. CASE retry.dropped
      <4>1. holder' = "nobody" BY <3>4
      <4> QED BY <1>0, <3>1, <3>2, <3>3, <3>4, <4>1
             DEF NotAnnounced, RetryHandle, NameKnown, Background!HandleKept
    <3>5. CASE ~ retry.dropped
      <4>1. holder' = "task" /\ daemon' = "on" /\ retry'.at = "over" BY <3>1, <3>5
      <4>2. NotAnnounced' BY <4>1 DEF NotAnnounced
      <4>3. RetryHandle' BY <3>1, <3>5, <3>6, <4>1 DEF RetryHandle
      <4>4. NameKnown' BY <1>0, <3>3 DEF NameKnown
      <4>5. Background!HandleKept' BY <3>1, <3>5, <3>6, <4>1 DEF Background!HandleKept
      <4> QED BY <3>1, <3>2, <4>2, <4>3, <4>4, <4>5
    <3> QED BY <3>1, <3>4, <3>5
  <2>2. CASE /\ Background!RegisterFails
             /\ retry' = [retry EXCEPT !.at = "sleeping",
                                       !.attempt = IF @ < MaxAttempts THEN @ + 1 ELSE @]
    <3> USE <1>5, <2>2 DEF Background!TryRegister, Background!RegisterFails
    <3>1. /\ retry'.at = "sleeping" /\ retry'.cancel = retry.cancel
          /\ retry'.dropped = retry.dropped
      OBVIOUS
    <3>2. Background!TypeOK'
      <4>1. retry.attempt \in 0..MaxAttempts OBVIOUS
      <4>2. PICK a \in 0..MaxAttempts : a = IF retry.attempt < MaxAttempts THEN retry.attempt + 1 ELSE retry.attempt
        BY <4>1
      <4>3. retry' = [retry EXCEPT !.at = "sleeping", !.attempt = a] BY <4>2
      <4>4. retry' \in [at: {"none", "sleeping", "trying", "over"}, attempt: 0..MaxAttempts,
                        cancel: BOOLEAN, dropped: BOOLEAN]
        BY <4>3
      <4> QED BY <4>4
    <3>3. Parts BY <3>1 DEF NotAnnounced, RetryHandle, NameKnown, Background!HandleKept
    <3> QED BY <3>1, <3>2, <3>3
  <2> QED BY <1>5, <2>1, <2>2 DEF Background!TryRegister
<1>6. CASE Background!CancelRetry
  <2> USE <1>6 DEF Background!CancelRetry
  <2>0. /\ retry'.at = retry.at /\ retry'.cancel = TRUE /\ retry'.dropped = retry.dropped
        /\ UNCHANGED <<daemon, name, status, holder, renames>> /\ joining'
    OBVIOUS
  <2>1. Background!TypeOK' OBVIOUS
  <2>2. NotAnnounced' /\ NameKnown' BY <2>0 DEF NotAnnounced, NameKnown
  <2>3. RetryHandle' BY <2>0 DEF RetryHandle
  <2>4. Background!HandleKept' BY <2>0 DEF RetryHandle, NotAnnounced, Background!HandleKept
  <2> QED BY <2>1, <2>2, <2>3, <2>4
<1>7. CASE Background!CancelReturns
  <2> USE <1>7 DEF Background!CancelReturns, Background!Joined
  <2>1. Background!TypeOK' OBVIOUS
  <2>2. Parts BY DEF NotAnnounced, RetryHandle, NameKnown, Background!HandleKept
  <2> QED BY <2>1, <2>2
<1>8. CASE Background!DropRetry
  <2> USE <1>8 DEF Background!DropRetry
  <2>1. Background!TypeOK' OBVIOUS
  <2>2. Parts BY DEF NotAnnounced, RetryHandle, NameKnown, Background!HandleKept
  <2> QED BY <2>1, <2>2
<1>9. CASE Background!StopDaemon
  <2> USE <1>9 DEF Background!StopDaemon
  <2>1. Background!TypeOK' OBVIOUS
  <2>2. Parts BY DEF NotAnnounced, RetryHandle, NameKnown, Background!HandleKept
  <2> QED BY <2>1, <2>2
<1>10. CASE Background!ClearStatus
  <2> USE <1>10 DEF Background!ClearStatus
  <2>1. Background!TypeOK' OBVIOUS
  <2>2. Parts BY DEF NotAnnounced, RetryHandle, NameKnown, Background!HandleKept
  <2> QED BY <2>1, <2>2
<1>11. ASSUME NEW kind \in Background!Kinds, Background!Collide(kind) PROVE LanInv'
  <2> USE <1>11 DEF Background!Collide
  <2>1. Background!TypeOK' BY <1>0
  <2>2. Parts BY <1>0 DEF NotAnnounced, RetryHandle, NameKnown, Background!HandleKept
  <2> QED BY <2>1, <2>2
<1>12. CASE Background!MonitorReads
  <2> USE <1>12 DEF Background!MonitorReads
  <2>1. renames = <<"host">> \/ renames = <<"service">> BY <1>0
  <2>2. \/ renames = <<"host">> /\ status' = [status EXCEPT !.hostname = "mokumo-2"]
        \/ renames = <<"service">> /\ status' = status
    BY <2>1
  <2>3. Background!TypeOK' BY <1>0, <2>2
  <2>4. Parts BY <1>0, <2>2 DEF NotAnnounced, RetryHandle, NameKnown, Background!HandleKept
  <2> QED BY <2>3, <2>4
<1>13. CASE Background!Shutdown
  <2> USE <1>13 DEF Background!Shutdown
  <2>1. Background!TypeOK' OBVIOUS
  <2>2. Parts BY DEF NotAnnounced, RetryHandle, NameKnown, Background!HandleKept
  <2> QED BY <2>1, <2>2
<1>14. ASSUME UNCHANGED <<loopback, consent, daemon, name, status, holder, retry, joining, cancel, renames>>,
              tasks' \subseteq tasks, closed' \in BOOLEAN, optimized' \subseteq Background!Pools,
              local_ip' \in Addresses \cup {NoAddress}
       PROVE  LanInv'
  <2>1. Background!TypeOK' BY <1>14
  <2>2. Parts BY <1>14 DEF NotAnnounced, RetryHandle, NameKnown, Background!HandleKept
  <2> QED BY <1>14, <2>1, <2>2
<1>15. ASSUME NEW found \in Addresses \cup {NoAddress}, Background!RefreshIp(found) PROVE LanInv'
  BY <1>14, <1>15 DEF Background!RefreshIp, Background!Refreshed, Background!lanVars
<1>16. CASE Background!ExpiryFails \/ Background!ResetDemo \/ Background!Ends
  BY <1>14, <1>16 DEF Background!ExpiryFails, Background!ResetDemo, Background!Ends,
     Background!OptimizeEnds, Background!TaskEnds, Background!lanVars
<1> QED
  BY <1>1, <1>2, <1>3, <1>4, <1>5, <1>6, <1>7, <1>8, <1>9, <1>10, <1>11, <1>12, <1>13, <1>15, <1>16
     DEF Background!Next

\* What the invariant says of the announcement.
LEMMA LanSafe == LanInv => Background!DiscoveryRight
BY DEF LanInv, Background!TypeOK, NotAnnounced, NameKnown, Background!DiscoveryRight, Background!LanUrlTruthful, Background!LanUrl,
   Background!HandleKept

-----------------------------------------------------------------------------
(* The window of the desktop application. *)

\* The window shows the port of the server built last, also while it is down.
ShellInv ==
    /\ round \in Shell!Instances /\ port \in [Shell!Instances -> Shell!Ports]
    /\ stray \in BOOLEAN
    /\ ~ stray => webview = port[round]
    /\ Shell!QuitAgreed

\* The window starts at the first server.
LEMMA ShellInit == Shell!Init => ShellInv
<1> SUFFICES ASSUME Shell!Init PROVE ShellInv
  OBVIOUS
<1>1. round \in Shell!Instances
  BY ShellConstants DEF Shell!DesktopShellAssumption, Shell!Init, Shell!Instances
<1> QED BY <1>1 DEF Shell!Init, ShellInv, Shell!QuitAgreed

\* Every step of the window and the tray keeps the invariant.
LEMMA ShellStep == ASSUME ShellInv, Shell!Next PROVE ShellInv'
<1> USE ShellConstants DEF Shell!DesktopShellAssumption, ShellInv, Shell!QuitAgreed
<1>1. ASSUME UNCHANGED <<round, port, webview, stray, confirmed, app>> PROVE ShellInv'
  BY <1>1
<1>2. CASE Shell!Connect \/ Shell!Disconnect \/ Shell!ServerStops \/ Shell!Poll \/ Shell!PollSeesToken
           \/ Shell!Close \/ Shell!Reopen
  BY <1>1, <1>2 DEF Shell!Connect, Shell!Disconnect, Shell!ServerStops, Shell!Poll,
     Shell!PollSeesToken, Shell!Close, Shell!Reopen
<1>3. CASE Shell!Restart
  <2>1. /\ round' = round + 1 /\ round + 1 \in Shell!Instances
        /\ UNCHANGED <<port, confirmed, app>>
    BY <1>3 DEF Shell!Restart, Shell!Instances
  <2>2. PICK navigates \in BOOLEAN :
           IF Shell!PortChanged
             THEN /\ webview' = IF navigates THEN port[round + 1] ELSE webview
                  /\ stray' = ~ navigates
             ELSE UNCHANGED <<webview, stray>>
    BY <1>3 DEF Shell!Restart
  <2>3. CASE Shell!PortChanged BY <2>1, <2>2, <2>3
  <2>4. CASE ~ Shell!PortChanged BY <2>1, <2>2, <2>4 DEF Shell!PortChanged
  <2> QED BY <2>3, <2>4
<1>4. CASE Shell!QuitRequested BY <1>4 DEF Shell!QuitRequested
<1>5. ASSUME NEW yes \in BOOLEAN, Shell!AnswerDialog(yes) PROVE ShellInv'
  BY <1>5 DEF Shell!AnswerDialog
<1>6. CASE Shell!Exit BY <1>6 DEF Shell!Exit
<1> QED BY <1>2, <1>3, <1>4, <1>5, <1>6 DEF Shell!Next

\* What the invariant says of the window.
LEMMA ShellSafe == ShellInv => Shell!ShellRight
BY DEF ShellInv, Shell!ShellRight, Shell!WindowFollows

-----------------------------------------------------------------------------
(* Connections and background tasks: what of them is safety. *)

\* A sender that has seen the shutdown is one of a server that shuts down.
ConnInv ==
    /\ sender \in [Conns -> {"none", "loop", "notice", "closing", "done"}]
    /\ \A c \in Conns : sender[c] \in {"notice", "closing"} => shutdown
    /\ Conn!LagNeverCloses

\* No connection has a sender at first.
LEMMA ConnInit == Conn!Init => ConnInv
BY DEF Conn!Init, ConnInv, Conn!LagNeverCloses

\* One sender moves, for a reason it may have.
LEMMA SenderMoves ==
    ASSUME ConnInv, NEW c \in Conns, NEW s \in {"loop", "notice", "closing", "done"},
           sender' = [sender EXCEPT ![c] = s],
           UNCHANGED <<shutdown, socket, stopped>>,
           s \in {"notice", "closing"} => shutdown,
           s = "done" => socket[c] = "gone" \/ c \in stopped \/ shutdown
    PROVE  ConnInv'
BY DEF ConnInv, Conn!LagNeverCloses

\* Every step of a connection keeps the invariant.
LEMMA ConnStep == ASSUME ConnInv, ConnNext PROVE ConnInv'
<1>1. ASSUME UNCHANGED <<sender, socket>>, shutdown => shutdown', stopped \subseteq stopped'
      PROVE  ConnInv'
  BY <1>1 DEF ConnInv, Conn!LagNeverCloses
<1>2. CASE Conn!Publish \/ Conn!Shutdown
  BY <1>1, <1>2 DEF Conn!Publish, Conn!Shutdown
<1>3. ASSUME NEW c \in Conns, Conn!Connect(c) PROVE ConnInv'
  BY <1>3, SenderMoves DEF Conn!Connect, Conn!Sends
<1>4. ASSUME NEW c \in Conns, Conn!LeaveLoop(c) \/ Conn!Remove(c) \/ Conn!Lagged(c) PROVE ConnInv'
  BY <1>1, <1>4 DEF Conn!LeaveLoop, Conn!Remove, Conn!Lagged
<1>5. ASSUME NEW c \in Conns, Conn!Relay(c) PROVE ConnInv'
  <2>1. CASE socket[c] = "gone" BY <1>5, <2>1, SenderMoves DEF Conn!Relay, Conn!Sends
  <2>2. CASE socket[c] # "gone" BY <1>1, <1>5, <2>2 DEF Conn!Relay
  <2> QED BY <2>1, <2>2
<1>6. ASSUME NEW c \in Conns, Conn!Heartbeat(c) PROVE ConnInv'
  BY <1>6, SenderMoves DEF Conn!Heartbeat, Conn!Sends
<1>7. ASSUME NEW c \in Conns, Conn!SeesShutdown(c) PROVE ConnInv'
  BY <1>7, SenderMoves DEF Conn!SeesShutdown, Conn!Sends
<1>8. ASSUME NEW c \in Conns, Conn!SendNotice(c) \/ Conn!SendClose(c) PROVE ConnInv'
  <2>1. shutdown BY <1>8 DEF ConnInv, Conn!SendNotice, Conn!SendClose
  <2> QED BY <1>8, <2>1, SenderMoves DEF Conn!SendNotice, Conn!SendClose, Conn!Sends
<1>9. ASSUME NEW c \in Conns, Conn!SeesCancel(c) PROVE ConnInv'
  BY <1>9, SenderMoves DEF Conn!SeesCancel, Conn!Sends
<1>10. ASSUME NEW c \in Conns, NEW s \in {"reading", "stalled", "gone"}, Conn!SocketChanges(c, s)
       PROVE  ConnInv'
  <2>1. \A d \in Conns : socket[d] = "gone" => socket'[d] = "gone"
    BY <1>10 DEF Conn!SocketChanges
  <2> QED BY <1>10, <2>1 DEF Conn!SocketChanges, ConnInv, Conn!LagNeverCloses
<1> QED
  BY <1>2, <1>3, <1>4, <1>5, <1>6, <1>7, <1>8, <1>9, <1>10 DEF ConnNext

\* A refresh that finds nothing keeps the address, and nothing else touches it.
LEMMA AddressStep == Background!Next => (local_ip # NoAddress => local_ip' # NoAddress)
<1> USE DEF Background!taskVars
<1>1. ASSUME NEW found \in Addresses \cup {NoAddress}, Background!RefreshIp(found)
      PROVE  local_ip # NoAddress => local_ip' # NoAddress
  BY <1>1 DEF Background!RefreshIp, Background!Refreshed
<1>2. CASE Background!ExpiryFails \/ Background!ResetDemo \/ Background!Ends
  BY <1>2 DEF Background!ExpiryFails, Background!ResetDemo, Background!Ends,
     Background!OptimizeEnds, Background!TaskEnds
<1>3. CASE \/ \E asks \in BOOLEAN : Background!Register(asks)
           \/ Background!StartRetry \/ Background!SleepEnds \/ Background!RetryStops
           \/ Background!TryRegister \/ Background!CancelRetry \/ Background!CancelReturns
           \/ Background!DropRetry \/ Background!StopDaemon \/ Background!ClearStatus
           \/ (\E kind \in Background!Kinds : Background!Collide(kind))
           \/ Background!MonitorReads \/ Background!Shutdown
  BY <1>3 DEF Background!Register, Background!StartRetry, Background!SleepEnds, Background!RetryStops,
     Background!TryRegister, Background!CancelRetry, Background!CancelReturns, Background!DropRetry,
     Background!StopDaemon, Background!ClearStatus, Background!Collide, Background!MonitorReads,
     Background!Shutdown
<1> QED BY <1>1, <1>2, <1>3 DEF Background!Next

-----------------------------------------------------------------------------
(* The process. *)

\* Each component's invariant; also when the behaviour is another's, for then it has
\* not left its initial state.
ProcessInv ==
    /\ IInv
    /\ ServerInv
    /\ LanInv
    /\ ShellInv
    /\ ConnInv

\* The process starts with every component in its initial state.
LEMMA ProcessInit == MCInit => ProcessInv
BY InitInv, ServerInit, LanInit, ShellInit, ConnInit DEF MCInit, ProcessInv

\* The administrators' part takes the steps of FirstAdmin, and the others none.
LEMMA FirstStep == [MCNext]_allVars => [Next]_vars
<1>1. FirstNext => Next
  BY DEF FirstNext, Next, WizardStep, BootstrapStep
<1> QED BY <1>1 DEF MCNext, Only, allVars

\* A behaviour is of one part, and only that part's variables change.
LEMMA PartStays ==
    ASSUME [MCNext]_allVars
    PROVE  /\ part' = part
           /\ ServerNext \/ UNCHANGED serverVars
           /\ Shell!Next \/ UNCHANGED shellVars
           /\ ConnNext \/ UNCHANGED connVars
           /\ Background!Next \/ UNCHANGED taskVars
BY DEF MCNext, Only, allVars

\* Every step of the process keeps every component's invariant.
LEMMA ProcessStep == ProcessInv /\ [MCNext]_allVars => ProcessInv'
<1> SUFFICES ASSUME ProcessInv, [MCNext]_allVars PROVE ProcessInv'
  OBVIOUS
<1>1. IInv' BY StepInv, FirstStep DEF ProcessInv
<1>2. ServerInv'
  <2>1. CASE ServerNext BY <2>1, ServerStep DEF ProcessInv
  <2>2. CASE UNCHANGED serverVars
    <3>1. UNCHANGED <<proc, launches, server, instance, cancelled, published, boot_failed, pool,
                      install_ok, demo, sidecar, sentinel, reset, timers>>
      BY <2>2 DEF serverVars
    <3>2. ServerInv BY DEF ProcessInv
    <3> QED
      BY <3>1, <3>2 DEF ServerInv, Server!TypeOK, ResetsServed, Server!Serving, Phases, Tokens,
         NoToken, SentinelFirst, StoppedByToken, Server!NeverStranded, Server!PoolReadsDemo
  <2> QED BY <2>1, <2>2, PartStays
<1>3. LanInv'
  <2>1. CASE Background!Next BY <2>1, LanStep DEF ProcessInv
  <2>2. CASE UNCHANGED taskVars
    BY <2>2 DEF ProcessInv, taskVars, LanInv, Background!TypeOK, NotAnnounced, RetryHandle, NameKnown,
       Background!HandleKept
  <2> QED BY <2>1, <2>2, PartStays
<1>4. ShellInv'
  <2>1. CASE Shell!Next BY <2>1, ShellStep DEF ProcessInv
  <2>2. CASE UNCHANGED shellVars
    BY <2>2 DEF ProcessInv, shellVars, ShellInv, Shell!QuitAgreed
  <2> QED BY <2>1, <2>2, PartStays
<1>5. ConnInv'
  <2>1. CASE ConnNext BY <2>1, ConnStep DEF ProcessInv
  <2>2. CASE UNCHANGED connVars
    BY <2>2 DEF ProcessInv, connVars, ConnInv, Conn!LagNeverCloses
  <2> QED BY <2>1, <2>2, PartStays
<1> QED BY <1>1, <1>2, <1>3, <1>4, <1>5, PartStays DEF ProcessInv

\* Every reachable state of the process satisfies its components' invariants.
THEOREM ProcessInvariant == MCSpec => []ProcessInv
BY ProcessInit, ProcessStep, PTL DEF MCSpec

\* The wizard creates at most one administrator, and the flag it sets never runs
\* ahead of the settings row, among the other parts of the process.
THEOREM WizardHolds == MCSpec => [](WizardOnce /\ CompletedTruthful)
<1>1. ProcessInv => WizardOnce /\ CompletedTruthful BY DEF ProcessInv, IInv, CompleteOK
<1> QED BY ProcessInvariant, <1>1, PTL

\* Bootstrap never adds an administrator to a database that has one.
THEOREM BootstrapHolds == MCSpec => BootstrapOnlyFirst
<1>1. ProcessInv => IInv BY DEF ProcessInv
<1> QED BY ProcessInvariant, <1>1, FirstStep, BootstrapFirst, PTL DEF MCSpec, BootstrapOnlyFirst

\* No reset ends the run loop without a new server, or leaves the pool open on a file
\* that was replaced.
THEOREM ResetsHold == MCSpec => []ResetSafe
<1>1. ProcessInv => ResetSafe BY DEF ProcessInv, ServerInv, ResetSafe
<1> QED BY ProcessInvariant, <1>1, PTL

\* What is announced on the LAN can be withdrawn and is what clients are told; the
\* window shows the server that serves, and quitting is agreed to.
THEOREM ShellHolds == MCSpec => []ShellRight
<1>1. ProcessInv => ShellRight BY LanSafe, ShellSafe DEF ProcessInv, ShellRight
<1> QED BY ProcessInvariant, <1>1, PTL

\* Falling behind closes no connection: the safety half of ConnectionsEnd.
THEOREM LagHolds == MCSpec => []Conn!LagNeverCloses
<1>1. ProcessInv => Conn!LagNeverCloses BY DEF ProcessInv, ConnInv
<1> QED BY ProcessInvariant, <1>1, PTL

\* No known address is forgotten: the action half of TasksEnd.
THEOREM AddressHolds == MCSpec => Background!AddressKept
<1>1. [MCNext]_allVars => [local_ip # NoAddress => local_ip' # NoAddress]_Background!vars
  BY AddressStep, PartStays DEF taskVars, Background!vars, Background!taskVars, Background!lanVars
<1> QED BY <1>1, PTL DEF MCSpec, Background!AddressKept
==============================================================================
