------------------------- MODULE DataDirectoryProofs -------------------------
(* No crash between two steps of the upgrade loses an account or wedges it on   *)
(* its own traces, for any accounts and any number of database deletions, and   *)
(* the boots together implement the one move that AccountMove describes.        *)
EXTENDS MCDataDirectory, Sequences, FiniteSetTheorems, SequenceTheorems, WellFoundedInduction,
        TLAPS

\* No users without their table, no table without the file.
FilesOK ==
    /\ tables => file
    /\ ~tables => users = {}

\* What the upgrade has established before each of its steps. Nobody else adds an
\* account meanwhile: the server does not serve yet, and bootstrap finds an
\* administrator or no table to add one to.
UpgradeOK ==
    /\ pc \in {"upgrade", "copied"} => users # {}
    /\ pc = "copied" => EmailsOf(users) \subseteq EmailsOf(metaUsers)
    /\ pc = "dropped" => file /\ ~tables
    /\ pc \in {"upgrade", "copied", "dropped"} => profiles = 0

\* An interrupted upgrade leaves either both copies, equal, or no legacy table.
InterruptedOK ==
    resets = 0 /\ profiles = 0 /\ metaUsers # {} =>
        /\ file
        /\ tables => users = metaUsers /\ pc # "serving"

\* The registered install is past its one upgrade.
RegisteredOK ==
    /\ profiles <= 1
    /\ audits = profiles
    /\ profiles = 1 /\ resets = 0 => file /\ ~tables

IInv ==
    TypeOK /\ FilesOK /\ UpgradeOK /\ InterruptedOK /\ RegisteredOK
    /\ AccountsKept /\ OwnCrashesRecovered

\* The emails of the rows of two tables are the emails of both together.
LEMMA EmailsOfUnion == \A R, Q : EmailsOf(R \cup Q) = EmailsOf(R) \cup EmailsOf(Q)
BY DEF EmailsOf

\* A new row brings one email.
LEMMA EmailsOfNew ==
    \A R, e, n : EmailsOf(R \cup {[email |-> e, id |-> n]}) = EmailsOf(R) \cup {e}
<1> SUFFICES ASSUME NEW R, NEW e, NEW n
             PROVE  EmailsOf(R \cup {[email |-> e, id |-> n]}) = EmailsOf(R) \cup {e}
  OBVIOUS
<1>1. EmailsOf({[email |-> e, id |-> n]}) = {e} BY DEF EmailsOf
<1> QED BY <1>1, EmailsOfUnion

\* An empty table has no emails.
LEMMA EmailsOfNone == EmailsOf({}) = {}
BY DEF EmailsOf

\* Nothing has happened yet.
LEMMA InitInv == Init => IInv
<1> SUFFICES ASSUME Init PROVE IInv
  OBVIOUS
<1>1. TypeOK BY DEF Init, TypeOK, ShopNames
<1>2. FilesOK /\ UpgradeOK /\ InterruptedOK /\ RegisteredOK
  BY DEF Init, FilesOK, UpgradeOK, InterruptedOK, RegisteredOK
<1>3. AccountsKept /\ OwnCrashesRecovered
  BY EmailsOfNone DEF Init, AccountsKept, OwnCrashesRecovered
<1> QED BY <1>1, <1>2, <1>3 DEF IInv

\* Equal non-empty tables are recognised as a copy that was finished before.
LEMMA SameIsCopied ==
    ASSUME users # {}, users = metaUsers
    PROVE  CopiedBefore /\ ~Fresh
BY DEF CopiedBefore, Fresh, Present, EmailsOf

\* An empty target is always fresh.
LEMMA EmptyIsFresh == metaUsers = {} => Fresh
BY DEF Fresh, Present, NoCollision, EmailsOf, IdsOf

\* Adding an account to the production database keeps what it is about.
LEMMA AddUserKeeps ==
    ASSUME IInv, NEW e \in Emails, AddUser(e)
    PROVE  /\ users' \in SUBSET User /\ nextId' \in Nat /\ accounts' \in SUBSET Emails
           /\ UNCHANGED metaUsers => AccountsKept'
           /\ EmailsOf(users') = EmailsOf(users) \cup {e}
<1>1. users' \in SUBSET User /\ nextId' \in Nat /\ accounts' \in SUBSET Emails
  BY DEF AddUser, IInv, TypeOK, User
<1>2. EmailsOf(users') = EmailsOf(users) \cup {e}
  BY EmailsOfNew DEF AddUser
<1>3. UNCHANGED metaUsers => AccountsKept'
  BY <1>2 DEF AddUser, AccountsKept, IInv
<1> QED BY <1>1, <1>2, <1>3

\* Every step preserves the invariant.
LEMMA NextInv == IInv /\ [Next]_vars => IInv'
<1> SUFFICES ASSUME IInv, [Next]_vars PROVE IInv'
  OBVIOUS
<1> USE ResetAssumption DEF IInv
<1>1. CASE PrepareDatabase
  BY <1>1 DEF PrepareDatabase, OpenProduction, Stopped, meta, history, TypeOK, FilesOK,
     UpgradeOK, InterruptedOK, RegisteredOK, AccountsKept, OwnCrashesRecovered
<1>2. CASE DetectBootState
  <2> USE <1>2 DEF DetectBootState, production, meta, history
  <2>1. TypeOK'
    BY DEF TypeOK, Proceed, Refuse
  <2>2. FilesOK' /\ AccountsKept' /\ RegisteredOK'
    BY DEF FilesOK, AccountsKept, RegisteredOK
  <2>3. UpgradeOK' /\ OwnCrashesRecovered'
    BY DEF Proceed, Refuse, UpgradeOK, OwnCrashesRecovered, RegisteredOK, TypeOK
  <2>4. InterruptedOK'
    BY DEF Proceed, Refuse, InterruptedOK
  <2> QED BY <2>1, <2>2, <2>3, <2>4
<1>3. CASE SlugRejected
  BY <1>3 DEF SlugRejected, Refuse, production, meta, history, TypeOK, FilesOK, UpgradeOK,
     InterruptedOK, RegisteredOK, AccountsKept, OwnCrashesRecovered
<1>4. CASE MoveUsers
  <2> USE <1>4 DEF MoveUsers, production, history
  <2>1. pc = "upgrade" /\ users # {} /\ profiles = 0 /\ UNCHANGED <<profiles, audits>>
    BY DEF UpgradeOK, InsertLegacyIntoMeta, meta
  <2>2. CASE Fresh
    <3>1. metaUsers' = metaUsers \cup users /\ pc' = "copied" /\ UNCHANGED refusal
          /\ UNCHANGED <<completed, naming>>
      BY <2>2 DEF InsertLegacyIntoMeta, Proceed
    <3>2. EmailsOf(metaUsers') = EmailsOf(metaUsers) \cup EmailsOf(users)
      BY <3>1, EmailsOfUnion
    <3>3. TypeOK' BY <2>1, <3>1 DEF TypeOK
    <3>4. FilesOK' /\ RegisteredOK' BY <2>1 DEF FilesOK, RegisteredOK
    <3>5. UpgradeOK' BY <2>1, <3>1, <3>2 DEF UpgradeOK
    <3>6. AccountsKept' BY <3>2 DEF AccountsKept
    <3>7. OwnCrashesRecovered' BY <3>1 DEF OwnCrashesRecovered
    <3>8. InterruptedOK'
      <4> SUFFICES ASSUME resets = 0 PROVE file /\ (tables => users = metaUsers')
        BY <3>1 DEF InterruptedOK
      <4>1. metaUsers = {}
        BY <2>1, <2>2, SameIsCopied DEF InterruptedOK, FilesOK
      <4> QED BY <2>1, <3>1, <4>1 DEF FilesOK
    <3> QED BY <3>3, <3>4, <3>5, <3>6, <3>7, <3>8
  <2>3. CASE ~Fresh /\ CopiedBefore
    <3>1. Proceed("copied") /\ UNCHANGED meta BY <2>3
    <3>2. EmailsOf(users) \subseteq EmailsOf(metaUsers) BY <2>3 DEF CopiedBefore, Present
    <3>3. TypeOK' BY <3>1 DEF TypeOK, Proceed, meta
    <3>4. FilesOK' /\ RegisteredOK' /\ AccountsKept'
      BY <3>1 DEF FilesOK, RegisteredOK, AccountsKept, meta
    <3>5. UpgradeOK' BY <2>1, <3>1, <3>2 DEF UpgradeOK, Proceed, meta
    <3>6. OwnCrashesRecovered' /\ InterruptedOK'
      BY <3>1 DEF OwnCrashesRecovered, InterruptedOK, Proceed, meta
    <3> QED BY <3>3, <3>4, <3>5, <3>6
  <2>4. CASE ~Fresh /\ ~CopiedBefore
    <3>1. Refuse("unsupported") /\ UNCHANGED meta BY <2>4
    <3>2. resets # 0
      BY <2>1, <2>4, SameIsCopied, EmptyIsFresh DEF InterruptedOK, FilesOK
    <3>3. TypeOK' BY <3>1 DEF TypeOK, Refuse, meta
    <3>4. FilesOK' /\ RegisteredOK' /\ AccountsKept'
      BY <3>1 DEF FilesOK, RegisteredOK, AccountsKept, meta
    <3>5. UpgradeOK' /\ InterruptedOK' BY <3>1, <3>2 DEF UpgradeOK, InterruptedOK, Refuse
    <3>6. OwnCrashesRecovered' BY <3>2 DEF OwnCrashesRecovered, TypeOK
    <3> QED BY <3>3, <3>4, <3>5, <3>6
  <2> QED BY <2>2, <2>3, <2>4
<1>5. CASE DropLegacyTables
  <2> USE <1>5 DEF DropLegacyTables, Proceed, meta, history
  <2>1. TypeOK' /\ FilesOK' BY DEF TypeOK, FilesOK
  <2>2. UpgradeOK' BY DEF UpgradeOK, FilesOK
  <2>3. InterruptedOK' /\ RegisteredOK' /\ OwnCrashesRecovered'
    BY DEF InterruptedOK, RegisteredOK, UpgradeOK, OwnCrashesRecovered
  <2>4. AccountsKept' BY DEF AccountsKept, UpgradeOK
  <2> QED BY <2>1, <2>2, <2>3, <2>4
<1>6. CASE RegisterProfile
  <2> USE <1>6 DEF RegisterProfile, Proceed, production, history
  <2>1. TypeOK' /\ FilesOK' BY DEF TypeOK, FilesOK
  <2>2. UpgradeOK' /\ AccountsKept' /\ OwnCrashesRecovered'
    BY DEF UpgradeOK, AccountsKept, OwnCrashesRecovered
  <2>3. RegisteredOK' /\ InterruptedOK' BY DEF RegisteredOK, UpgradeOK, InterruptedOK
  <2> QED BY <2>1, <2>2, <2>3
<1>7. CASE Crash
  BY <1>7 DEF Crash, production, meta, history, TypeOK, FilesOK, UpgradeOK,
     InterruptedOK, RegisteredOK, AccountsKept, OwnCrashesRecovered
<1>8. ASSUME NEW e \in Emails, SetupAdmin(e) PROVE IInv'
  <2> USE <1>8 DEF SetupAdmin, meta
  <2>1. AddUser(e) /\ tables /\ pc = "serving" OBVIOUS
  <2>2. TypeOK' /\ AccountsKept' BY <2>1, AddUserKeeps DEF TypeOK
  <2>3. FilesOK' /\ UpgradeOK' BY <2>1 DEF FilesOK, UpgradeOK
  <2>4. InterruptedOK' BY <2>1 DEF InterruptedOK
  <2>5. RegisteredOK' /\ OwnCrashesRecovered' BY DEF RegisteredOK, OwnCrashesRecovered
  <2> QED BY <2>2, <2>3, <2>4, <2>5
<1>9. ASSUME NEW e \in Emails, Bootstrap(e) PROVE IInv'
  <2> USE <1>9 DEF Bootstrap, meta, server
  <2>1. AddUser(e) /\ (file => tables) /\ users = {} /\ file' /\ tables'
    BY DEF OpenProduction
  <2>2. TypeOK' /\ AccountsKept' BY <2>1, AddUserKeeps DEF TypeOK, OpenProduction
  <2>3. FilesOK' BY <2>1 DEF FilesOK
  <2>4. UpgradeOK' BY <2>1 DEF UpgradeOK
  <2>5. InterruptedOK' BY <2>1 DEF InterruptedOK
  <2>6. RegisteredOK' /\ OwnCrashesRecovered'
    BY <2>1 DEF RegisteredOK, OwnCrashesRecovered
  <2> QED BY <2>2, <2>3, <2>4, <2>5, <2>6
<1>10. ASSUME NEW e \in Emails, CreateUser(e) PROVE IInv'
  <2> USE <1>10 DEF CreateUser, meta, server
  <2>1. AddUser(e) /\ pc = "serving" /\ tables BY DEF FilesOK
  <2>2. TypeOK' /\ AccountsKept' BY <2>1, AddUserKeeps DEF TypeOK
  <2>3. FilesOK' /\ UpgradeOK' BY <2>1 DEF FilesOK, UpgradeOK
  <2>4. InterruptedOK' BY <2>1 DEF InterruptedOK
  <2>5. RegisteredOK' /\ OwnCrashesRecovered' BY DEF RegisteredOK, OwnCrashesRecovered
  <2> QED BY <2>2, <2>3, <2>4, <2>5
<1>11. ASSUME NEW name \in ShopNames, NameShop(name) PROVE IInv'
  <2> USE <1>11 DEF NameShop, meta, history
  <2>1. TypeOK' BY DEF TypeOK
  <2>2. FilesOK' /\ UpgradeOK' /\ InterruptedOK' /\ RegisteredOK'
    BY DEF FilesOK, UpgradeOK, InterruptedOK, RegisteredOK
  <2>3. AccountsKept' /\ OwnCrashesRecovered' BY DEF AccountsKept, OwnCrashesRecovered
  <2> QED BY <2>1, <2>2, <2>3
<1>12. CASE ResetDb
  <2> USE <1>12 DEF ResetDb, meta, server
  <2>1. TypeOK'
    <3>1. resets' \in Nat /\ nextId' \in Nat BY DEF TypeOK
    <3>2. users' \in SUBSET User /\ accounts' \in SUBSET Emails OBVIOUS
    <3>3. shopName' \in ShopNames BY DEF ShopNames
    <3>4. UNCHANGED <<metaUsers, profiles, audits, pc, refusal, completed, naming>> OBVIOUS
    <3> QED BY <3>1, <3>2, <3>3, <3>4 DEF TypeOK
  <2>2. FilesOK' /\ UpgradeOK' BY DEF Stopped, FilesOK, UpgradeOK
  <2>3. resets' > 0 BY DEF TypeOK
  <2>4. InterruptedOK' /\ RegisteredOK' BY <2>3 DEF InterruptedOK, RegisteredOK
  <2>5. AccountsKept' /\ OwnCrashesRecovered'
    BY DEF AccountsKept, OwnCrashesRecovered, TypeOK
  <2> QED BY <2>1, <2>2, <2>4, <2>5
<1>13. CASE UNCHANGED vars
  BY <1>13 DEF vars, production, meta, server, history, TypeOK, FilesOK, UpgradeOK,
     InterruptedOK, RegisteredOK, AccountsKept, OwnCrashesRecovered
<1> HIDE DEF IInv
<1> QED BY <1>1, <1>2, <1>3, <1>4, <1>5, <1>6, <1>7, <1>8, <1>9, <1>10, <1>11, <1>12, <1>13
        DEF Next

\* The invariant of the whole life of a data directory.
LEMMA Inductive == Spec => []IInv
BY InitInv, NextInv, PTL DEF Spec

\* The type invariant of engine boot, upgrade and commands.
THEOREM TypeCorrect == Spec => []TypeOK
<1>1. IInv => TypeOK BY DEF IInv
<1> QED BY <1>1, Inductive, PTL

\* run_legacy_upgrade loses no account, wherever it is interrupted.
THEOREM AccountsSafe == Spec => []AccountsKept
<1>1. IInv => AccountsKept BY DEF IInv
<1> QED BY <1>1, Inductive, PTL

\* classify_and_maybe_insert recognises its own unfinished work.
THEOREM RecoverySafe == Spec => []OwnCrashesRecovered
<1>1. IInv => OwnCrashesRecovered BY DEF IInv
<1> QED BY <1>1, Inductive, PTL

\* run_legacy_upgrade registers an install at most once.
THEOREM RegistrationSafe == Spec => []RegisteredOnce
<1>1. IInv => RegisteredOnce BY DEF IInv, RegisteredOK, RegisteredOnce
<1> QED BY <1>1, Inductive, PTL

-----------------------------------------------------------------------------
\* A data directory that does not exist yet has no accounts.
LEMMA InitMoves == Init => Move!Init
BY EmailsOfNone DEF Init, Move!Init

\* A step of the life of the data directory is a step of AccountMove, or none.
LEMMA StepMoves == IInv /\ [Next]_vars => [Move!Next]_Move!vars
<1> SUFFICES ASSUME IInv, [Next]_vars PROVE Move!Next \/ UNCHANGED Move!vars
  OBVIOUS
<1>1. CASE UNCHANGED <<users, metaUsers, profiles, resets>>
  BY <1>1 DEF Move!vars
<1>2. CASE PrepareDatabase \/ DetectBootState \/ SlugRejected \/ Crash
  BY <1>1, <1>2 DEF PrepareDatabase, DetectBootState, SlugRejected, Crash, production, meta, history
<1>3. CASE MoveUsers
  <2> USE <1>3 DEF MoveUsers, production, history
  <2>1. CASE Fresh
    <3>1. EmailsOf(metaUsers') = EmailsOf(metaUsers) \cup EmailsOf(users)
      BY <2>1, EmailsOfUnion DEF InsertLegacyIntoMeta
    <3>2. ~(profiles > 0) /\ UNCHANGED <<users, profiles, resets>>
      BY <2>1 DEF IInv, UpgradeOK, InsertLegacyIntoMeta
    <3> QED BY <3>1, <3>2 DEF Move!Next, Move!Copy
  <2>2. CASE ~Fresh
    BY <1>1, <2>2 DEF meta
  <2> QED BY <2>1, <2>2
<1>4. CASE DropLegacyTables
  <2>1. /\ ~(profiles > 0)
        /\ EmailsOf(users) \subseteq EmailsOf(metaUsers)
        /\ EmailsOf(users') = {}
        /\ UNCHANGED <<metaUsers, profiles, resets>>
    BY <1>4, EmailsOfNone DEF DropLegacyTables, IInv, UpgradeOK, meta, history
  <2> QED BY <2>1 DEF Move!Next, Move!Discard
<1>5. CASE RegisterProfile
  <2>1. profiles = 0 /\ profiles' = 1 /\ EmailsOf(users) = {}
        /\ UNCHANGED <<users, metaUsers, resets>>
    BY <1>5, EmailsOfNone DEF RegisterProfile, IInv, UpgradeOK, FilesOK, production, history
  <2> QED BY <2>1 DEF Move!Next, Move!Register
<1>6. ASSUME NEW e \in Emails, SetupAdmin(e) \/ Bootstrap(e) \/ CreateUser(e)
      PROVE  Move!Next \/ UNCHANGED Move!vars
  <2>1. AddUser(e) /\ UNCHANGED <<metaUsers, profiles, resets>>
    BY <1>6 DEF SetupAdmin, Bootstrap, CreateUser, meta
  <2>2. EmailsOf(users') = EmailsOf(users) \cup {e}
    BY <2>1, AddUserKeeps
  <2> QED BY <2>1, <2>2 DEF Move!Next, Move!Join
<1>7. ASSUME NEW name \in ShopNames, NameShop(name)
      PROVE  Move!Next \/ UNCHANGED Move!vars
  BY <1>1, <1>7 DEF NameShop, meta, history
<1>8. CASE ResetDb
  <2>1. EmailsOf(users') = {} /\ resets' = resets + 1 /\ UNCHANGED <<metaUsers, profiles>>
    BY <1>8, EmailsOfNone DEF ResetDb, meta
  <2> QED BY <2>1 DEF Move!Next, Move!Reset
<1>9. CASE UNCHANGED vars
  BY <1>1, <1>9 DEF vars, production, meta, server, history
<1> QED BY <1>2, <1>3, <1>4, <1>5, <1>6, <1>7, <1>8, <1>9 DEF Next

\* The upgrade in its three transactions, with every crash between them, implements
\* AccountMove.
THEOREM Refinement == Spec => MovesOnce
BY InitMoves, StepMoves, Inductive, PTL DEF Spec, MovesOnce, Move!Spec

-----------------------------------------------------------------------------
\* The restore slot.

Held == {"again", "copy", "profile", "rename", "sentinel"}

\* The guard is one request's at a time, and a process that is down has neither
\* requests nor copies.
GuardHeld ==
    /\ \A r \in Requests : req[r] \in Held => busy
    /\ \A r, q \in Requests : req[r] \in Held /\ req[q] \in Held => r = q
    /\ ~up => \A r \in Requests : req[r] = "idle" /\ task[r] = "none"

\* What is in the slot at each step of a request, as long as nobody has hung up: nothing
\* until its own copy is renamed there, its database in full from then on.
SlotOK(r) ==
    /\ task[r] # "none" => req[r] = "copy"
    /\ task[r] \in {"open", "write", "rename"} => slot = None
    /\ task[r] \in {"write", "rename"} => temp = r
    /\ task[r] = "rename" => r \in written
    /\ task[r] = "ok" \/ req[r] \in {"profile", "rename", "sentinel", "success"} =>
          slot = r /\ r \in written
    /\ req[r] \in {"claim", "again", "failed"} \/ task[r] \in {"check", "error"} => slot # r
    /\ req[r] = "success" => sentinel

RestoreInv ==
    /\ Restore!TypeOK
    /\ GuardHeld
    /\ hung = {} => \A r \in Requests : SlotOK(r)

\* Nobody restores yet.
LEMMA RestoreInit == Restore!Init => RestoreInv
BY RestoreConstants DEF Restore!Init, RestoreInv, Restore!TypeOK, GuardHeld, SlotOK, Held,
   Restore!Steps, Restore!SlotAssumption

\* Before the guard is taken and when it is given back without a copy.
LEMMA RestoreGuard ==
    ASSUME RestoreInv, NEW r \in Requests,
           \/ Restore!Send(r) \/ Restore!FirstLaunch(r) \/ Restore!SlotFree(r)
           \/ Restore!Claim(r) \/ Restore!StillFirstLaunch(r) \/ Restore!TurnedAway(r)
    PROVE  RestoreInv'
<1> USE RestoreConstants DEF Restore!SlotAssumption, RestoreInv
<1>1. /\ UNCHANGED <<slot, temp, written, profile, sentinel, first, up, hung>>
      /\ \A q \in Requests \ {r} : req'[q] = req[q] /\ task'[q] = task[q]
  BY DEF Restore!Send, Restore!FirstLaunch, Restore!SlotFree, Restore!Claim,
     Restore!StillFirstLaunch, Restore!TurnedAway, Restore!Go, Restore!files, Restore!TypeOK
<1>2. Restore!TypeOK'
  BY DEF Restore!Send, Restore!FirstLaunch, Restore!SlotFree, Restore!Claim,
     Restore!StillFirstLaunch, Restore!TurnedAway, Restore!Go, Restore!files, Restore!TypeOK,
     Restore!Steps
<1>3. GuardHeld'
  BY DEF Restore!Send, Restore!FirstLaunch, Restore!SlotFree, Restore!Claim,
     Restore!StillFirstLaunch, Restore!TurnedAway, Restore!Go, Restore!files, Restore!TypeOK,
     GuardHeld, Held
<1>4. ASSUME hung = {}, NEW q \in Requests PROVE SlotOK(q)'
  <2>1. SlotOK(q) BY <1>4
  <2>2. CASE q # r BY <1>1, <2>1, <2>2 DEF SlotOK
  <2>3. CASE q = r
    BY <2>1, <2>3 DEF SlotOK, Restore!Send, Restore!FirstLaunch, Restore!SlotFree,
       Restore!Claim, Restore!StillFirstLaunch, Restore!TurnedAway, Restore!Go,
       Restore!files, Restore!TypeOK
  <2> QED BY <2>2, <2>3
<1> QED BY <1>1, <1>2, <1>3, <1>4

\* While a request copies, no other has a copy or works on the slot.
LEMMA RestoreCopy ==
    ASSUME RestoreInv, NEW r \in Requests,
           \/ Restore!CopyCheck(r) \/ Restore!CopyOpen(r) \/ Restore!CopyWrite(r)
           \/ Restore!CopyFails(r) \/ Restore!CopyRename(r)
    PROVE  RestoreInv'
<1> USE RestoreConstants DEF Restore!SlotAssumption, RestoreInv
<1> USE DEF Restore!CopyCheck, Restore!CopyOpen, Restore!CopyWrite, Restore!CopyFails,
            Restore!CopyRename, Restore!Turn, Restore!files
<1>1. /\ UNCHANGED <<profile, sentinel, first, busy, up, req, hung>>
      /\ \A q \in Requests \ {r} : task'[q] = task[q]
      /\ task[r] # "none" /\ written \subseteq written'
  BY DEF Restore!TypeOK
<1>2. Restore!TypeOK' BY DEF Restore!TypeOK
<1>3. GuardHeld' BY <1>1 DEF GuardHeld, Restore!TypeOK
<1>4. ASSUME hung = {}, NEW q \in Requests PROVE SlotOK(q)'
  <2>1. SlotOK(q) /\ SlotOK(r) BY <1>4
  <2>2. CASE q # r
    <3>1. req[r] = "copy" /\ req[q] \notin Held /\ task[q] = "none"
      BY <1>1, <2>1, <2>2 DEF SlotOK, GuardHeld, Held
    <3>2. slot' \in {slot, r} /\ (slot' # slot => slot = None)
      BY <2>1 DEF SlotOK
    <3> QED BY <1>1, <2>1, <2>2, <3>1, <3>2 DEF SlotOK, Held
  <2>3. CASE q = r BY <1>1, <2>1, <2>3 DEF SlotOK, Restore!TypeOK
  <2> QED BY <2>2, <2>3
<1> QED BY <1>1, <1>2, <1>3, <1>4

\* The profile file and the sentinel, or the way back.
LEMMA RestoreFinish ==
    ASSUME RestoreInv, NEW r \in Requests,
           \/ Restore!Copied(r) \/ Restore!ProfileTmp(r) \/ Restore!ProfileRename(r)
           \/ Restore!WriteSentinel(r) \/ Restore!RollBack(r) \/ Restore!RollBackFails(r)
    PROVE  RestoreInv'
<1> USE RestoreConstants DEF Restore!SlotAssumption, RestoreInv
<1> USE DEF Restore!Copied, Restore!ProfileTmp, Restore!ProfileRename, Restore!WriteSentinel,
            Restore!RollBack, Restore!RollBackFails, Restore!Turn, Restore!Go, Restore!files
<1>1. /\ UNCHANGED <<temp, written, first, up, hung>>
      /\ \A q \in Requests \ {r} : req'[q] = req[q] /\ task'[q] = task[q]
      /\ req[r] \in Held
      /\ slot' # slot => req[r] # "copy" /\ slot' = None
      /\ sentinel => sentinel'
  BY DEF Restore!TypeOK, Held
<1>2. Restore!TypeOK' BY DEF Restore!TypeOK, Restore!Steps
<1>3. GuardHeld' BY <1>1 DEF GuardHeld, Restore!TypeOK, Held
<1>4. ASSUME hung = {}, NEW q \in Requests PROVE SlotOK(q)'
  <2>1. SlotOK(q) /\ SlotOK(r) BY <1>4
  <2>2. CASE q # r
    <3>1. req[q] \notin Held /\ task[q] = "none"
      BY <1>1, <2>1, <2>2 DEF SlotOK, GuardHeld, Held
    <3>2. slot' # slot => slot = r BY <1>1, <2>1 DEF SlotOK, Held
    <3> QED BY <1>1, <2>1, <2>2, <3>1, <3>2 DEF SlotOK, Held
  <2>3. CASE q = r BY <1>1, <2>1, <2>3 DEF SlotOK, Restore!TypeOK
  <2> QED BY <2>2, <2>3
<1> QED BY <1>1, <1>2, <1>3, <1>4

\* Whoever hangs up gives the guard back; a boot finds nobody.
LEMMA RestoreAround ==
    ASSUME RestoreInv,
           \/ \E r \in Requests : Restore!HangUp(r)
           \/ Restore!RemoveProduction \/ Restore!SelectDemo \/ Restore!Stop
           \/ Restore!Restart
    PROVE  RestoreInv'
<1> USE RestoreConstants DEF Restore!SlotAssumption, RestoreInv
<1>1. ASSUME NEW r \in Requests, Restore!HangUp(r) PROVE RestoreInv'
  <2> USE <1>1 DEF Restore!HangUp, Restore!Go, Restore!files
  <2>1. Restore!TypeOK' /\ hung' # {} BY DEF Restore!TypeOK, Restore!Steps
  <2>2. GuardHeld' BY DEF GuardHeld, Restore!TypeOK, Held
  <2> QED BY <2>1, <2>2
<1>2. CASE Restore!RemoveProduction
  BY <1>2 DEF Restore!RemoveProduction, Restore!TypeOK, GuardHeld, SlotOK
<1>3. CASE Restore!SelectDemo
  BY <1>3 DEF Restore!SelectDemo, Restore!TypeOK, GuardHeld, SlotOK
<1>4. CASE Restore!Stop
  BY <1>4 DEF Restore!Stop, Restore!files, Restore!TypeOK, Restore!Steps, GuardHeld, SlotOK,
     Held
<1>5. CASE Restore!Restart
  BY <1>5 DEF Restore!Restart, Restore!TypeOK, GuardHeld, SlotOK, Held
<1> QED BY <1>1, <1>2, <1>3, <1>4, <1>5

\* A step of the run is one of the slot's or leaves it alone.
LEMMA RestoreStep == RestoreInv /\ [MCNext]_allVars => RestoreInv'
<1> SUFFICES ASSUME RestoreInv, [MCNext]_allVars PROVE RestoreInv'
  OBVIOUS
<1>1. CASE UNCHANGED restoreVars
  BY <1>1 DEF restoreVars, RestoreInv, Restore!TypeOK, GuardHeld, SlotOK
<1>2. CASE RestoreNext
  BY <1>2, RestoreGuard, RestoreCopy, RestoreFinish, RestoreAround DEF RestoreNext
<1>3. RestoreNext \/ UNCHANGED restoreVars BY DEF MCNext, Only, allVars
<1> QED BY <1>1, <1>2, <1>3

\* SuccessOrNothing, for any number of restore requests (RestoreSlot): without a client
\* that hangs up, "imported successfully" means that the slot holds that upload in full
\* and a restart is due, and an error leaves nothing of the upload in the slot.
THEOREM RestoreComplete == MCSpec => []SuccessOrNothing
<1>1. MCInit => RestoreInv BY RestoreInit DEF MCInit
<1>2. RestoreInv => SuccessOrNothing
  BY DEF RestoreInv, SlotOK, SuccessOrNothing, Restore!SuccessOrNothing
<1> QED BY <1>1, <1>2, RestoreStep, PTL DEF MCSpec


-----------------------------------------------------------------------------
\* The shop's logo.

Adding == {"file", "row", "undo", "stale"}

\* What a change that runs alone knows at each of its steps.
ChangeOK(r) ==
    /\ upload[r].step \in Adding => upload[r].new \in Exts
    /\ ~mixed /\ ~failed =>
          /\ upload[r].step \in {"file", "row", "undo"} => row = upload[r].old
          /\ upload[r].step \in {"row", "stale"} => upload[r].new \in files
          /\ upload[r].step = "undo" => upload[r].new # upload[r].old
          /\ upload[r].step = "stale" => row = upload[r].new
          /\ upload[r].step = "remove" => row = None

LogoInv ==
    /\ Logo!TypeOK
    /\ ~mixed => \A r, q \in Uploads :
                    upload[r].step # "idle" /\ upload[q].step # "idle" => r = q
    /\ \A r \in Uploads : ChangeOK(r)
    /\ Logo!RowNamesFile

\* No logo is stored when the directory starts.
LEMMA LogoInit == Logo!Init => LogoInv
<1> SUFFICES ASSUME Logo!Init PROVE LogoInv
  OBVIOUS
<1>1. \A r \in Uploads : upload[r].step = "idle" BY DEF Logo!Init, Logo!Idle
<1>2. Logo!TypeOK BY DEF Logo!Init, Logo!TypeOK, Logo!Idle
<1> QED BY <1>1, <1>2 DEF Logo!Init, LogoInv, ChangeOK, Adding, Logo!RowNamesFile

\* A change begins.
LEMMA LogoBegin ==
    ASSUME LogoInv, NEW r \in Uploads,
           Logo!Delete(r) \/ \E e \in Exts : Logo!Upload(r, e)
    PROVE  LogoInv'
<1> PICK c \in [step : {"file", "clear"}, new : Exts \cup {None}, old : Exts \cup {None}] :
       /\ upload' = [upload EXCEPT ![r] = c]
       /\ c.step = "file" => c.new \in Exts /\ c.old = row
  BY DEF Logo!Delete, Logo!Upload, LogoInv, Logo!TypeOK
<1>1. /\ mixed' = (mixed \/ ~Logo!Alone) /\ upload[r].step = "idle"
      /\ UNCHANGED <<row, files, failed>>
  BY DEF Logo!Delete, Logo!Upload
<1>2. Logo!TypeOK' BY <1>1 DEF LogoInv, Logo!TypeOK
<1>3. upload'[r] = c /\ \A q \in Uploads \ {r} : upload'[q] = upload[q]
  BY DEF LogoInv, Logo!TypeOK
<1>4. ~mixed' => ~mixed /\ \A q \in Uploads : upload[q].step = "idle"
  BY <1>1 DEF Logo!Alone
<1>5. \A q \in Uploads : ChangeOK(q)'
  BY <1>1, <1>3, <1>4 DEF LogoInv, ChangeOK, Adding
<1> QED BY <1>1, <1>2, <1>3, <1>4, <1>5 DEF LogoInv, Logo!RowNamesFile

\* A step of a change, or its end.
LEMMA LogoGoesOn ==
    ASSUME LogoInv, NEW r \in Uploads,
           \/ Logo!WriteFile(r) \/ Logo!UpsertLogo(r) \/ Logo!UpsertFails(r)
           \/ Logo!UndoFile(r) \/ Logo!RemoveStale(r) \/ Logo!ClearRow(r)
           \/ Logo!RemoveFile(r) \/ Logo!Dropped(r)
    PROVE  LogoInv'
<1> USE DEF Logo!WriteFile, Logo!UpsertLogo, Logo!UpsertFails, Logo!UndoFile,
            Logo!RemoveStale, Logo!ClearRow, Logo!RemoveFile, Logo!Dropped
<1> DEFINE c == upload'[r]
<1>1. /\ upload[r].step # "idle" /\ mixed' = mixed
      /\ upload' = [upload EXCEPT ![r] = c]
      /\ c \in [step : {"idle", "row", "stale", "undo", "remove"},
                new : Exts \cup {None}, old : Exts \cup {None}]
      /\ c.step # "idle" => c.new = upload[r].new /\ c.old = upload[r].old
      /\ c.step \in {"row", "stale", "undo"} => upload[r].step \in Adding
  BY DEF Logo!Go, Logo!Ends, Logo!Idle, LogoInv, Logo!TypeOK, Adding
<1>2. ChangeOK(r) BY DEF LogoInv
<1>3. Logo!TypeOK'
  <2>1. row' \in Exts \cup {None} /\ files' \subseteq Exts
    BY <1>2 DEF LogoInv, Logo!TypeOK, ChangeOK, Adding
  <2>2. upload' \in [Uploads -> [step : {"idle", "file", "row", "undo", "stale", "clear", "remove"},
                                new : Exts \cup {None}, old : Exts \cup {None}]]
    BY <1>1 DEF LogoInv, Logo!TypeOK
  <2>3. {mixed', failed'} \subseteq BOOLEAN BY DEF LogoInv, Logo!TypeOK
  <2> QED BY <2>1, <2>2, <2>3 DEF Logo!TypeOK
<1>4. \A q \in Uploads \ {r} : upload'[q] = upload[q] BY <1>1 DEF LogoInv, Logo!TypeOK
<1>5. ~mixed => \A q \in Uploads \ {r} : upload[q].step = "idle" BY <1>1 DEF LogoInv
<1>6. failed => failed' OBVIOUS
<1>7. ChangeOK(r)' /\ Logo!RowNamesFile'
  <2> USE <1>1, <1>2, <1>6 DEF LogoInv, ChangeOK, Adding, Logo!RowNamesFile, Logo!Go,
                               Logo!Ends, Logo!TypeOK, Logo!Idle
  <2>1. CASE Logo!WriteFile(r) BY <2>1
  <2>2. CASE Logo!UpsertLogo(r) BY <2>2
  <2>3. CASE Logo!UpsertFails(r)
    <3>1. ~failed' => ~failed /\ upload[r].new # upload[r].old BY <2>3
    <3>2. /\ upload[r].step = "row" /\ upload'[r].step = "undo"
          /\ upload'[r].new = upload[r].new /\ upload'[r].old = upload[r].old
          /\ UNCHANGED <<row, files, mixed>>
      BY <2>3
    <3> QED BY <3>1, <3>2
  <2>4. CASE Logo!UndoFile(r) BY <2>4
  <2>5. CASE Logo!RemoveStale(r) BY <2>5
  <2>6. CASE Logo!ClearRow(r) BY <2>6
  <2>7. CASE Logo!RemoveFile(r) BY <2>7
  <2>8. CASE Logo!Dropped(r) BY <2>8
  <2> QED BY <2>1, <2>2, <2>3, <2>4, <2>5, <2>6, <2>7, <2>8
<1>8. ASSUME NEW q \in Uploads \ {r} PROVE ChangeOK(q)'
  BY <1>1, <1>4, <1>5, <1>6 DEF LogoInv, ChangeOK, Adding
<1> QED BY <1>1, <1>3, <1>4, <1>5, <1>7, <1>8 DEF LogoInv

\* Every step of the directory keeps what is known of the logo.
LEMMA LogoStep == LogoInv /\ [MCNext]_allVars => LogoInv'
<1> SUFFICES ASSUME LogoInv, [MCNext]_allVars PROVE LogoInv'
  OBVIOUS
<1>1. CASE UNCHANGED logoVars
  BY <1>1 DEF logoVars, LogoInv, Logo!TypeOK, ChangeOK, Logo!RowNamesFile
<1>2. CASE LogoNext BY <1>2, LogoBegin, LogoGoesOn DEF LogoNext
<1>3. LogoNext \/ UNCHANGED logoVars BY DEF MCNext, Only, allVars
<1> QED BY <1>1, <1>2, <1>3

\* RowNamesFile, for any number of requests and extensions (ShopLogo): wherever a change
\* that runs alone is cut short, the row names a file that is there.
THEOREM LogoThere == MCSpec => []RowNamesFile
<1>1. MCInit => LogoInv BY LogoInit DEF MCInit
<1>2. LogoInv => RowNamesFile BY DEF LogoInv, RowNamesFile
<1> QED BY <1>1, <1>2, LogoStep, PTL DEF MCSpec


-----------------------------------------------------------------------------
\* The processes that share the directory.

\* Whoever is past the lock holds it, and only a server past the lock has a task for the
\* admin socket; the path leads to the one that listens.
ProcOK(p) ==
    /\ main[p] \in {"lock", "boot", "ready", "serving", "draining", "join"} =>
          cmd[p] \in Cli!Lockers
    /\ Cli!Owns(p) => lock = p
    /\ admin[p] # "off" => main[p] \in {"ready", "serving", "draining", "join", "leaving"}
    /\ admin[p] = "listening" => sock_file = p

CliInv ==
    /\ DOMAIN main = Procs /\ DOMAIN cmd = Procs /\ DOMAIN admin = Procs
    /\ \A p \in Procs : ProcOK(p)
    /\ \A p, q \in Procs :
          main[p] = "leaving" /\ q # p =>
              main[q] \notin {"ready", "serving", "draining", "join", "leaving"}

\* A process that runs an admin task holds the lock, or has just let go of it and no other
\* has booted since, so no two do.
LEMMA OneAdmin ==
    ASSUME CliInv, NEW p \in Procs, NEW q \in Procs, admin[p] # "off", admin[q] # "off"
    PROVE  p = q
BY DEF CliInv, ProcOK, Cli!Owns

\* No command runs when the directory starts.
LEMMA CliInit == Cli!Init => CliInv
BY DEF Cli!Init, CliInv, ProcOK, Cli!Owns

\* A process ends: whatever the others hold they keep.
LEMMA CliEnds ==
    ASSUME CliInv, NEW p \in Procs, NEW code, Cli!Ends(p, code) PROVE CliInv'
<1> USE DEF CliInv, Cli!Ends
<1>1. ASSUME NEW q \in Procs PROVE ProcOK(q)'
  <2>1. CASE q = p BY <2>1 DEF ProcOK, Cli!Owns
  <2>2. CASE q # p
    <3>1. main'[q] = main[q] /\ admin'[q] = admin[q] /\ cmd'[q] = cmd[q] BY <2>2
    <3>2. lock = q => lock' = q BY <2>2
    <3> QED BY <3>1, <3>2 DEF ProcOK, Cli!Owns
  <2> QED BY <2>1, <2>2
<1>2. \A q \in Procs : main'[q] \in {main[q], "off"} OBVIOUS
<1> QED BY <1>1, <1>2

\* cmd_serve returns: nobody else held the lock, so nobody else has got past it.
LEMMA CliJoin ==
    ASSUME CliInv, NEW p \in Procs, Cli!Join(p) PROVE CliInv'
<1> USE CliConstants DEF CliInv, Cli!Join, Cli!At, Cli!ProcsAssumption
<1>1. lock = p /\ cmd[p] \in Cli!Lockers BY DEF ProcOK, Cli!Owns
<1>2. \A q \in Procs \ {p} : main[q] \notin {"ready", "serving", "draining", "join", "leaving"}
  BY <1>1 DEF ProcOK, Cli!Owns
<1>3. ASSUME NEW q \in Procs PROVE ProcOK(q)'
  <2>1. CASE q = p BY <2>1 DEF ProcOK, Cli!Owns
  <2>2. CASE q # p
    <3>1. main'[q] = main[q] /\ UNCHANGED <<admin, cmd, sock_file>> /\ lock # q BY <1>1, <2>2
    <3> QED BY <3>1 DEF ProcOK, Cli!Owns
  <2> QED BY <2>1, <2>2
<1> QED BY <1>2, <1>3

\* The main task goes on: it gets past the lock only when nobody holds it.
LEMMA CliMain ==
    ASSUME CliInv, NEW p \in Procs,
           \/ \E c \in Cli!Commands : Cli!Start(p, c)
           \/ Cli!TakeLock(p) \/ Cli!Boot(p) \/ Cli!Ready(p) \/ Cli!Signal(p)
           \/ Cli!RestartRequested(p) \/ Cli!Drained(p)
           \/ \E t \in Cli!Tasks : Cli!Stall(p, t) \/ Cli!Unstall(p, t)
    PROVE  CliInv'
<1> USE CliConstants DEF CliInv, Cli!At, Cli!ProcsAssumption
<1>1. ASSUME NEW c \in Cli!Commands, Cli!Start(p, c) PROVE CliInv'
  BY <1>1 DEF Cli!Start, ProcOK, Cli!Owns, Cli!Commands, Cli!Lockers, Cli!Direct,
     Cli!Readers
<1>2. CASE Cli!TakeLock(p)
  <2>1. \A q \in Procs : ~Cli!Owns(q) BY <1>2 DEF Cli!TakeLock, ProcOK
  <2> QED BY <1>2, <2>1 DEF Cli!TakeLock, ProcOK, Cli!Owns, Cli!Lockers
<1>3. CASE Cli!Boot(p) BY <1>3 DEF Cli!Boot, ProcOK, Cli!Owns
<1>4. CASE Cli!Ready(p) BY <1>4 DEF Cli!Ready, ProcOK, Cli!Owns
<1>5. CASE Cli!Signal(p) BY <1>5 DEF Cli!Signal, ProcOK, Cli!Owns
<1>6. CASE Cli!Drained(p) BY <1>6 DEF Cli!Drained, ProcOK, Cli!Owns
<1>7. ASSUME NEW t \in Cli!Tasks, Cli!Stall(p, t) \/ Cli!Unstall(p, t) PROVE CliInv'
  BY <1>7 DEF Cli!Stall, Cli!Unstall, ProcOK, Cli!Owns
<1>8. CASE Cli!RestartRequested(p) BY <1>8 DEF Cli!RestartRequested, ProcOK, Cli!Owns
<1> QED BY <1>1, <1>2, <1>3, <1>4, <1>5, <1>6, <1>7, <1>8

\* The task of the admin socket: the file it removes or binds is nobody else's.
LEMMA CliAdmin ==
    ASSUME CliInv, NEW p \in Procs,
           \/ Cli!RemoveStale(p) \/ Cli!Bind(p) \/ Cli!BindFails(p) \/ Cli!AdminStops(p)
           \/ Cli!Cleanup(p)
    PROVE  CliInv'
<1> USE DEF CliInv, Cli!RemoveStale, Cli!Bind, Cli!BindFails, Cli!AdminStops, Cli!Cleanup,
            Cli!AdminGoes
<1>1. /\ admin[p] # "off" /\ UNCHANGED <<lock, cmd, main>>
      /\ admin'[p] = "listening" => sock_file' = p
      /\ \A q \in Procs \ {p} : admin'[q] = admin[q]
      /\ DOMAIN admin' = Procs
  OBVIOUS
<1>2. \A q \in Procs \ {p} : admin[q] = "off" BY <1>1, OneAdmin
<1>3. ASSUME NEW q \in Procs PROVE ProcOK(q)' BY <1>1, <1>2 DEF ProcOK, Cli!Owns
<1> QED BY <1>1, <1>3

\* Every step of the directory keeps the locks and their holders in order.
LEMMA CliStep == CliInv /\ [MCNext]_allVars => CliInv'
<1> SUFFICES ASSUME CliInv, [MCNext]_allVars PROVE CliInv'
  OBVIOUS
<1>1. CASE UNCHANGED cliVars BY <1>1 DEF cliVars, CliInv, ProcOK, Cli!Owns
<1>2. ASSUME NEW p \in Procs, NEW code, Cli!Ends(p, code) PROVE CliInv' BY <1>2, CliEnds
<1>3. ASSUME NEW p \in Procs,
             \/ Cli!Refused(p) \/ Cli!LockHeld(p) \/ Cli!BootFails(p)
             \/ Cli!EarlyFailure(p) \/ Cli!RuntimeEnds(p) \/ Cli!Crash(p)
             \/ Cli!Bootstrap(p) \/ Cli!BackupCreate(p) \/ Cli!ResetPassword(p)
             \/ Cli!ResetDb(p) \/ Cli!Restore(p) \/ Cli!AskDaemon(p)
             \/ Cli!Diagnose(p) \/ Cli!ProfileList(p) \/ Cli!MigrateStatus(p)
             \/ Cli!BackupList(p)
      PROVE  CliInv'
  <2>1. \E code : Cli!Ends(p, code)
    BY <1>3 DEF Cli!Refused, Cli!LockHeld, Cli!BootFails, Cli!EarlyFailure, Cli!RuntimeEnds,
       Cli!Crash, Cli!Bootstrap, Cli!BackupCreate, Cli!ResetPassword, Cli!ResetDb,
       Cli!Restore, Cli!AskDaemon, Cli!Diagnose, Cli!ProfileList, Cli!MigrateStatus,
       Cli!BackupList, Cli!Does
  <2> QED BY <2>1, <1>2
<1>4. ASSUME NEW p \in Procs, Cli!NoSocket(p) \/ Cli!RequestFails(p) PROVE CliInv'
  <2>1. CASE \E code : Cli!Ends(p, code) BY <2>1, <1>2
  <2>2. CASE /\ Cli!At(p, "ask", "direct")
             /\ UNCHANGED <<lock, sock_file, cmd, admin, cancelled, stalled, exit, starts>>
    BY <2>2 DEF Cli!At, CliInv, ProcOK, Cli!Owns
  <2> QED BY <1>4, <2>1, <2>2 DEF Cli!NoSocket, Cli!RequestFails
<1>5. ASSUME NEW p \in Procs,
             \/ Cli!RemoveStale(p) \/ Cli!Bind(p) \/ Cli!BindFails(p) \/ Cli!AdminStops(p)
             \/ Cli!Cleanup(p)
      PROVE  CliInv'
  BY <1>5, CliAdmin
<1>6. ASSUME NEW p \in Procs,
             \/ \E c \in Cli!Commands : Cli!Start(p, c)
             \/ Cli!TakeLock(p) \/ Cli!Boot(p) \/ Cli!Ready(p) \/ Cli!Signal(p)
             \/ Cli!RestartRequested(p) \/ Cli!Drained(p)
             \/ \E t \in Cli!Tasks : Cli!Stall(p, t) \/ Cli!Unstall(p, t)
      PROVE  CliInv'
  BY <1>6, CliMain
<1>7. ASSUME NEW p \in Procs, Cli!Join(p) PROVE CliInv' BY <1>7, CliJoin
<1>8. CASE CliNext BY <1>3, <1>4, <1>5, <1>6, <1>7, <1>8 DEF CliNext
<1>9. CliNext \/ UNCHANGED cliVars BY DEF MCNext, Only, allVars
<1> QED BY <1>1, <1>8, <1>9

\* CommandsSafe, for any number of processes and commands (Commands): while a restore or a
\* reset works on the files no server has them open, of two servers one gets past the
\* lock, and the path of the admin socket leads to the server that listens, the lock's owner
\* until its main returns.
THEOREM DirectoryOwned == MCSpec => []CommandsSafe
<1>1. MCInit => CliInv BY CliInit DEF MCInit
<1>2. CliInv => CommandsSafe
  BY DEF CliInv, ProcOK, CommandsSafe, Cli!OneOwner, Cli!SocketIsOurs, Cli!Owns
<1> QED BY <1>1, <1>2, CliStep, PTL DEF MCSpec


-----------------------------------------------------------------------------
\* The boot of the engine.

AfterPools == {"session", "engine", "profiles", "kinds", "repair", "token", "serving"}
AfterSession == {"engine", "profiles", "kinds", "repair", "token", "serving"}
MovingFlat == {"copying", "pointing", "writing", "removing"}

BootTypeOK ==
    /\ paths \in [Booting!Kinds -> [copy : Nat, content : Booting!Contents]]
    /\ pointer \in Booting!Kinds \cup {None, "empty"}
    /\ DOMAIN pools = Booting!Kinds
    /\ flat \in {"absent", "shop"}
    /\ DOMAIN graft.show = Booting!Kinds
    /\ sidecar \in {"missing", "foreign", "fresh"}
    /\ at = "filling" => sidecar # "missing"

\* What has been served has passed the check of its vocabulary, and its token was resolved
\* from the setup that was found.
VerticalOK ==
    /\ at \in {"repair", "token", "serving"} => \A k \in Booting!Kinds : Booting!Valid(k)
    /\ at = "serving" => Booting!TokenGuards

\* A pool that is open reads the file at its path, and what the repair hook looks for is
\* no longer there.
Opened(k) ==
    /\ pools[k] = paths[k].copy
    /\ paths[k].content \notin {"absent", "foreign"}

PoolsOK ==
    /\ at \notin {"token", "serving"} \/ ~meddled => repaired = {}
    /\ ~meddled =>
          /\ at = "other" => Opened(Booting!Profile)
          /\ at \in AfterPools => \A k \in Booting!Kinds : Opened(k)

\* How far the move has come, unless the copy was cut: the shop's data is complete at its
\* new place before the flat file goes, and the pointer names it unless its writing was.
FlatOK ==
    /\ at \in MovingFlat => flat = "shop"
    /\ flat = "shop" => at \in MovingFlat \cup {"down"}
    /\ (moved \/ flat = "shop") /\ ~cut =>
          /\ torn \/ at = "writing" \/ pointer \in {None, "production"}
          /\ moved \/ at = "removing" => torn \/ pointer = "production"
          /\ moved \/ at \in {"pointing", "writing", "removing"} => paths["production"].content = "shop"
          /\ at # "copying" => paths["production"].content \in {"absent", "shop"}
          /\ at \in AfterSession => setup_completed

BootInv == BootTypeOK /\ VerticalOK /\ PoolsOK /\ FlatOK

\* One database's content changes, or another file takes its place.
LEMMA ContentIs ==
    ASSUME BootTypeOK, NEW k \in Booting!Kinds, NEW c \in Booting!Contents
    PROVE  /\ Booting!Content(k, c) \in
                 [Booting!Kinds -> [copy : Nat, content : Booting!Contents]]
           /\ \A j \in Booting!Kinds :
                 /\ Booting!Content(k, c)[j].copy = paths[j].copy
                 /\ Booting!Content(k, c)[j].content = IF j = k THEN c ELSE paths[j].content
BY DEF BootTypeOK, Booting!Content

\* What Replaced puts at one path, and that it leaves the other alone.
LEMMA ReplacedIs ==
    ASSUME BootTypeOK, NEW k \in Booting!Kinds, NEW c \in Booting!Contents
    PROVE  /\ Booting!Replaced(k, c) \in
                 [Booting!Kinds -> [copy : Nat, content : Booting!Contents]]
           /\ Booting!Replaced(k, c)[k].content = c
           /\ \A j \in Booting!Kinds \ {k} : Booting!Replaced(k, c)[j] = paths[j]
BY DEF BootTypeOK, Booting!Replaced

\* The other profile is the one that is not active.
LEMMA TwoProfiles ==
    ASSUME BootTypeOK
    PROVE  /\ Booting!Profile \in Booting!Kinds /\ Booting!OtherProfile \in Booting!Kinds
           /\ Booting!OtherProfile # Booting!Profile
           /\ \A k \in Booting!Kinds : k = Booting!Profile \/ k = Booting!OtherProfile
<1>1. Booting!Profile \in {"demo", "production"}
  BY DEF BootTypeOK, Booting!Profile, Booting!Kinds
<1>2. \E k \in Booting!Kinds : k # Booting!Profile BY DEF Booting!Kinds
<1>3. Booting!OtherProfile \in Booting!Kinds /\ Booting!OtherProfile # Booting!Profile
  BY <1>2 DEF Booting!OtherProfile
<1> QED BY <1>1, <1>3 DEF Booting!Kinds

\* No boot runs when the directory starts.
LEMMA BootInit == Booting!Init => BootInv
<1> SUFFICES ASSUME Booting!Init PROVE BootInv
  OBVIOUS
<1> USE BootConstants DEF Booting!NoneAssumption, Booting!Kinds
<1>1. BootTypeOK
  <2>1. DOMAIN graft.show = Booting!Kinds
    <3>1. graft = Booting!Mokumo \/ graft \in Booting!Grafts BY DEF Booting!Init
    <3>2. DOMAIN Booting!Mokumo.show = Booting!Kinds BY DEF Booting!Mokumo
    <3>3. \A s : [Booting!Mokumo EXCEPT !.source = s].show = Booting!Mokumo.show
      BY DEF Booting!Mokumo
    <3>4. CASE \E s \in Booting!Sources : graft = [Booting!Mokumo EXCEPT !.source = s]
      BY <3>2, <3>3, <3>4
    <3>5. CASE graft \in [show : [Booting!Kinds -> Booting!Dirs \ {"other"}],
                         read : [Booting!Dirs -> Booting!Kinds \cup {None}],
                         source : {"token"}]
      BY <3>5
    <3> QED BY <3>1, <3>2, <3>4, <3>5 DEF Booting!Grafts
  <2>2. /\ flat \in {"absent", "shop"} /\ pointer \in Booting!Kinds \cup {None, "empty"}
        /\ DOMAIN pools = Booting!Kinds
        /\ sidecar \in {"missing", "foreign", "fresh"} /\ at = "down"
    BY DEF Booting!Init
  <2>3. paths \in [Booting!Kinds -> [copy : Nat, content : Booting!Contents]]
    <3>1. \E d, p \in Booting!Contents :
             paths = [k \in Booting!Kinds |->
                        [copy |-> 0, content |-> IF k = "demo" THEN d ELSE p]]
      <4>1. CASE paths = [k \in Booting!Kinds |-> [copy |-> 0, content |-> "absent"]]
        BY <4>1 DEF Booting!Contents
      <4>2. CASE \E d \in {"absent", "cut", "foreign", "newer", "fresh"},
                    p \in {"absent", "foreign", "newer", "empty", "shop", "unnamed"} :
                   paths = [k \in Booting!Kinds |->
                              [copy |-> 0, content |-> IF k = "demo" THEN d ELSE p]]
        BY <4>2 DEF Booting!Contents
      <4>3. CASE paths = [k \in Booting!Kinds |->
                            [copy |-> 0, content |-> IF k = "demo" THEN "fresh" ELSE "shop"]]
        BY <4>3 DEF Booting!Contents
      <4> QED BY <4>1, <4>2, <4>3 DEF Booting!Init
    <3> QED BY <3>1
  <2> QED BY <2>1, <2>2, <2>3 DEF BootTypeOK
<1>2. VerticalOK BY DEF Booting!Init, VerticalOK
<1>3. PoolsOK BY DEF Booting!Init, PoolsOK, AfterPools
<1>4. FlatOK
  <2>1. at = "down" /\ moved = FALSE BY DEF Booting!Init
  <2>2. flat = "shop" => pointer = None /\ paths["production"].content = "absent"
    BY DEF Booting!Init
  <2> QED BY <2>1, <2>2 DEF FlatOK, MovingFlat, AfterSession
<1> QED BY <1>1, <1>2, <1>3, <1>4 DEF BootInv

\* The flat layout is moved.
LEMMA BootMoves ==
    ASSUME BootInv,
           \/ Booting!Launch \/ Booting!CopyFlat \/ Booting!CreatePointer
           \/ Booting!WritePointer \/ Booting!RemoveFlat
    PROVE  BootInv'
<1> USE BootConstants DEF Booting!NoneAssumption
<1> USE DEF BootInv, Booting!Launch, Booting!CopyFlat, Booting!CreatePointer,
            Booting!WritePointer, Booting!RemoveFlat, Booting!memory, Booting!history
<1>1. /\ at \in {"down"} \cup MovingFlat /\ at' \in {"sidecar"} \cup MovingFlat
      /\ UNCHANGED <<graft, pools, repaired, setup_completed, cut, torn>>
      /\ paths' \in {paths, Booting!Content("production", "cut"),
                     Booting!Content("production", flat)}
  BY DEF MovingFlat
<1>2. /\ "production" \in Booting!Kinds
      /\ flat \in Booting!Contents /\ "cut" \in Booting!Contents
  BY DEF BootTypeOK, Booting!Kinds, Booting!Contents
<1>3. BootTypeOK'
  BY <1>1, <1>2, ContentIs DEF BootTypeOK
<1>4. VerticalOK' BY <1>1 DEF VerticalOK, MovingFlat
<1>5. PoolsOK' BY <1>1 DEF PoolsOK, AfterPools, MovingFlat
<1>6. FlatOK'
  <2>1. CASE Booting!Launch
    BY <1>2, <2>1, ContentIs DEF FlatOK, MovingFlat, AfterSession, BootTypeOK
  <2>2. CASE Booting!CopyFlat
    BY <1>2, <2>2, ContentIs DEF FlatOK, MovingFlat, AfterSession, BootTypeOK
  <2>3. CASE Booting!CreatePointer
    BY <2>3 DEF FlatOK, MovingFlat, AfterSession
  <2>4. CASE Booting!WritePointer
    BY <2>4 DEF FlatOK, MovingFlat, AfterSession
  <2>5. CASE Booting!RemoveFlat
    BY <2>5 DEF FlatOK, MovingFlat, AfterSession
  <2> QED BY <2>1, <2>2, <2>3, <2>4, <2>5
<1> QED BY <1>3, <1>4, <1>5, <1>6

\* The demo database comes from the sidecar.
LEMMA BootSidecar ==
    ASSUME BootInv, Booting!CopySidecar \/ Booting!SidecarCopied PROVE BootInv'
<1> USE DEF BootInv, Booting!CopySidecar, Booting!SidecarCopied, Booting!memory,
            Booting!history
<1>1. /\ at \in {"sidecar", "filling"} /\ at' \in {"filling", "active"}
      /\ at' = "filling" => sidecar # "missing"
      /\ UNCHANGED <<flat, pointer, sidecar, graft, pools, repaired, setup_completed, token,
                     cut, torn, moved, meddled>>
      /\ paths' # paths => \E c \in {sidecar, "cut"} \ {"missing"} :
                             paths' = Booting!Content("demo", c)
  BY DEF BootTypeOK
<1>2. /\ "demo" \in Booting!Kinds /\ "production" \in Booting!Kinds
      /\ \A c \in {sidecar, "cut"} \ {"missing"} : c \in Booting!Contents
  BY DEF BootTypeOK, Booting!Kinds, Booting!Contents
<1>3. BootTypeOK' BY <1>1, <1>2, ContentIs DEF BootTypeOK
<1>4. paths'["production"].content = paths["production"].content
  BY <1>1, <1>2, ContentIs
<1>5. VerticalOK' BY <1>1 DEF VerticalOK
<1>6. PoolsOK' BY <1>1 DEF PoolsOK, AfterPools
<1>7. FlatOK' BY <1>1, <1>4 DEF FlatOK, MovingFlat, AfterSession
<1> QED BY <1>3, <1>5, <1>6, <1>7

\* The pools are opened, on databases that are there and are ours.
LEMMA BootPools ==
    ASSUME BootInv, Booting!SetUpProfile PROVE BootInv'
<1> USE DEF BootInv
<1>0. Booting!Turn \in Booting!Kinds BY TwoProfiles DEF Booting!Turn
<1> PICK turn \in Booting!Kinds : turn = Booting!Turn BY <1>0
<1> DEFINE c == Booting!Opened(paths[turn].content)
<1>1. /\ at \in {"active", "other"} /\ at' = IF at = "active" THEN "other" ELSE "session"
      /\ paths' = Booting!Content(turn, c)
      /\ pools' = [pools EXCEPT ![turn] = paths[turn].copy]
      /\ paths[turn].content \notin {"foreign", "newer"}
      /\ UNCHANGED <<flat, pointer, sidecar, graft, setup_completed, token, repaired, cut, torn,
                     moved, meddled>>
  BY DEF Booting!SetUpProfile, Booting!SettingUp, Booting!Opens, Booting!history
<1>2. turn = IF at = "active" THEN Booting!Profile ELSE Booting!OtherProfile
  BY DEF Booting!Turn
<1>4. /\ paths[turn].content \in Booting!Contents /\ c \in Booting!Contents
      /\ c \notin {"absent", "foreign"}
      /\ paths[turn].content = "shop" => c = "shop"
  BY <1>1 DEF BootTypeOK, Booting!Opened, Booting!Contents
<1> HIDE DEF c
<1>4a. /\ paths'[turn].copy = paths[turn].copy /\ paths'[turn].content = c
       /\ \A k \in Booting!Kinds \ {turn} :
             /\ paths'[k].copy = paths[k].copy
             /\ paths'[k].content = paths[k].content
       /\ pools'[turn] = paths[turn].copy
       /\ \A k \in Booting!Kinds \ {turn} : pools'[k] = pools[k]
  <2>1. \A k \in Booting!Kinds :
           /\ paths'[k].copy = paths[k].copy
           /\ paths'[k].content = IF k = turn THEN c ELSE paths[k].content
    BY <1>1, <1>4, ContentIs
  <2>2. pools'[turn] = paths[turn].copy
    BY <1>1 DEF BootTypeOK
  <2>3. \A k \in Booting!Kinds \ {turn} : pools'[k] = pools[k]
    BY <1>1 DEF BootTypeOK
  <2> QED BY <2>1, <2>2, <2>3
<1>5. BootTypeOK' BY <1>1, <1>4, ContentIs DEF BootTypeOK
<1>6. Opened(turn)' BY <1>4, <1>4a DEF Opened
<1>7. \A k \in Booting!Kinds \ {turn} : Opened(k) => Opened(k)'
  BY <1>4a DEF Opened
<1>8. Booting!Profile' = Booting!Profile BY <1>1 DEF Booting!Profile
<1>9. VerticalOK' BY <1>1 DEF VerticalOK
<1>10. PoolsOK'
  <2>1. CASE at = "active"
    <3>1. turn = Booting!Profile' BY <1>2, <1>8, <2>1
    <3>2. Opened(Booting!Profile)' BY <1>6, <3>1 DEF Opened
    <3> QED BY <1>1, <2>1, <3>2 DEF PoolsOK, AfterPools
  <2>2. CASE at = "other"
    <3>1. turn = Booting!OtherProfile BY <1>2, <2>2
    <3>2. ASSUME ~meddled, NEW k \in Booting!Kinds PROVE Opened(k)'
      <4>1. CASE k = turn BY <1>6, <4>1 DEF Opened
      <4>2. CASE k # turn
        <5>1. k = Booting!Profile BY <3>1, <4>2, TwoProfiles
        <5>2. Opened(k) BY <1>1, <2>2, <3>2, <5>1 DEF PoolsOK
        <5> QED BY <1>7, <4>2, <5>2
      <4> QED BY <4>1, <4>2
    <3> QED BY <1>1, <2>2, <3>2 DEF PoolsOK, AfterPools
  <2> QED BY <1>1, <2>1, <2>2
<1>11. FlatOK'
  <2>1. "production" \in Booting!Kinds BY DEF Booting!Kinds
  <2>2. paths["production"].content = "shop" => paths'["production"].content = "shop"
    BY <1>4, <1>4a, <2>1
  <2> QED BY <1>1, <2>2 DEF FlatOK, MovingFlat, AfterSession
<1> QED BY <1>5, <1>9, <1>10, <1>11

\* A newer demo database is replaced before its pool is opened.
LEMMA BootNewerDemo ==
    ASSUME BootInv, Booting!ResetNewerDemo PROVE BootInv'
<1> USE DEF BootInv
<1>1. /\ at \in {"active", "other"} /\ at' = at /\ Booting!Turn = "demo"
      /\ paths' = Booting!Replaced("demo", sidecar) /\ sidecar # "missing"
      /\ UNCHANGED <<flat, pointer, sidecar, graft, pools, setup_completed, token, repaired,
                     cut, torn, moved, meddled>>
  BY DEF Booting!ResetNewerDemo, Booting!SettingUp, Booting!memory, Booting!history
<1>2. /\ "demo" \in Booting!Kinds /\ "production" \in Booting!Kinds
      /\ sidecar \in Booting!Contents
  BY <1>1 DEF BootTypeOK, Booting!Kinds, Booting!Contents
<1>3. BootTypeOK' BY <1>1, <1>2, ReplacedIs DEF BootTypeOK
<1>4. paths'["production"] = paths["production"] BY <1>1, <1>2, ReplacedIs
<1>5. at = "other" => Booting!Profile = "production"
  BY <1>1, TwoProfiles DEF Booting!Turn, Booting!Kinds
<1>6. Booting!Profile' = Booting!Profile BY <1>1 DEF Booting!Profile
<1>7. VerticalOK' BY <1>1 DEF VerticalOK
<1>8. PoolsOK' BY <1>1, <1>4, <1>5, <1>6 DEF PoolsOK, AfterPools, Opened
<1>9. FlatOK' BY <1>1, <1>4 DEF FlatOK, MovingFlat, AfterSession
<1> QED BY <1>3, <1>7, <1>8, <1>9

\* The engine boots over the open pools.
LEMMA BootEngine ==
    ASSUME BootInv,
           \/ Booting!InitSession \/ Booting!DispatchBootState \/ Booting!MigrateProfiles
           \/ Booting!ValidateKinds \/ Booting!Serve
    PROVE  BootInv'
<1> USE DEF BootInv, Booting!InitSession, Booting!DispatchBootState,
            Booting!MigrateProfiles, Booting!ValidateKinds, Booting!Serve, Booting!disk,
            Booting!memory, Booting!history
<1>1. /\ at \in AfterPools /\ at' \in AfterPools
      /\ at' \in {"token", "serving"} => at \in {"token", "serving"}
      /\ UNCHANGED <<flat, paths, pointer, sidecar, graft, pools, repaired, cut, torn, moved,
                     meddled>>
  BY DEF AfterPools
<1>2. BootTypeOK' BY <1>1 DEF BootTypeOK, AfterPools
<1>3. VerticalOK'
  <2>1. CASE Booting!Serve
    BY <2>1, BootConstants DEF VerticalOK, Booting!Valid, Booting!TokenGuards,
       Booting!TokenSource, Booting!Resolved, Booting!NoneAssumption
  <2>2. CASE ~Booting!Serve BY <1>1, <2>2 DEF VerticalOK, Booting!Valid
  <2> QED BY <2>1, <2>2
<1>4. PoolsOK' BY <1>1 DEF PoolsOK, AfterPools, Opened
<1>5. FlatOK' BY <1>1 DEF FlatOK, MovingFlat, AfterSession, AfterPools
<1> QED BY <1>2, <1>3, <1>4, <1>5

\* The hook finds nothing to repair, or the file was meddled with.
LEMMA BootRepair ==
    ASSUME BootInv, Booting!RepairSidecars PROVE BootInv'
<1> USE DEF BootInv
<1>1. /\ at = "repair" /\ at' = "token"
      /\ UNCHANGED <<flat, pointer, sidecar, graft, pools, setup_completed, token, cut, torn, moved,
                     meddled>>
      /\ \/ UNCHANGED <<paths, repaired>>
         \/ /\ Booting!Damaged("demo") /\ sidecar # "missing"
            /\ paths' = Booting!Replaced("demo", sidecar)
  BY DEF Booting!RepairSidecars, Booting!Kinds, Booting!Wizard, Booting!history
<1>2. /\ "demo" \in Booting!Kinds /\ "production" \in Booting!Kinds
      /\ sidecar # "missing" => sidecar \in Booting!Contents
  BY <1>1 DEF BootTypeOK, Booting!Kinds, Booting!Contents
<1>3. BootTypeOK' BY <1>1, <1>2, ReplacedIs DEF BootTypeOK
<1>4. paths'["production"] = paths["production"]
  <2>1. CASE UNCHANGED paths BY <2>1
  <2>2. CASE sidecar # "missing" /\ paths' = Booting!Replaced("demo", sidecar)
    BY <1>2, <2>2, ReplacedIs
  <2> QED BY <1>1, <2>1, <2>2
<1>5. ~meddled => UNCHANGED <<paths, repaired>>
  BY <1>1, <1>2 DEF PoolsOK, AfterPools, Opened, Booting!Damaged
<1>6. VerticalOK' BY <1>1 DEF VerticalOK, Booting!Valid
<1>7. PoolsOK' BY <1>1, <1>5 DEF PoolsOK, AfterPools, Opened
<1>8. FlatOK' BY <1>1, <1>4 DEF FlatOK, MovingFlat, AfterSession
<1> QED BY <1>3, <1>6, <1>7, <1>8

\* The process ends, or somebody else touches the demo database.
LEMMA BootEnds ==
    ASSUME BootInv, Booting!Refuse \/ Booting!Stops \/ Booting!Meddle PROVE BootInv'
<1> USE DEF BootInv
<1>1. CASE Booting!Refuse \/ Booting!Stops
  <2>1. /\ at # "down" /\ at' = "down" /\ repaired' = {} /\ DOMAIN pools' = Booting!Kinds
        /\ UNCHANGED <<flat, paths, pointer, sidecar, graft, moved>>
        /\ (~cut' => ~cut /\ at # "copying") /\ (~torn' => ~torn /\ at # "writing")
    <3>1. CASE Booting!Refuse
      BY <3>1 DEF Booting!Refuse, Booting!Down, Booting!disk, Booting!history,
         Booting!SettingUp
    <3>2. CASE Booting!Stops
      <4>1. /\ at # "down" /\ cut' = (cut \/ at = "copying")
            /\ torn' = (torn \/ at = "writing")
        BY <3>2 DEF Booting!Stops
      <4>2. (~cut' => ~cut /\ at # "copying") /\ (~torn' => ~torn /\ at # "writing") BY <4>1
      <4>3. /\ at' = "down" /\ repaired' = {} /\ DOMAIN pools' = Booting!Kinds
            /\ UNCHANGED <<flat, paths, pointer, sidecar, graft, moved>>
        BY <3>2 DEF Booting!Stops, Booting!Down, Booting!disk
      <4> QED BY <4>1, <4>2, <4>3
    <3> QED BY <1>1, <3>1, <3>2
  <2>2. BootTypeOK' BY <2>1 DEF BootTypeOK
  <2>3. VerticalOK' /\ PoolsOK' BY <2>1 DEF VerticalOK, PoolsOK, AfterPools
  <2>4. FlatOK' BY <2>1 DEF FlatOK, MovingFlat, AfterSession
  <2> QED BY <2>2, <2>3, <2>4
<1>2. CASE Booting!Meddle
  <2>1. /\ at \in AfterPools \ {"token", "serving"} /\ at' = at /\ meddled' = TRUE
        /\ \E c \in {"absent", "foreign"} : paths' = Booting!Content("demo", c)
        /\ UNCHANGED <<flat, pointer, sidecar, graft, pools, setup_completed, token, repaired,
                       cut, torn, moved>>
    BY <1>2 DEF Booting!Meddle, AfterPools, Booting!memory
  <2>2. /\ "demo" \in Booting!Kinds /\ "production" \in Booting!Kinds
        /\ {"absent", "foreign"} \subseteq Booting!Contents
    BY DEF Booting!Kinds, Booting!Contents
  <2>3. BootTypeOK'
    <3>1. paths' \in [Booting!Kinds -> [copy : Nat, content : Booting!Contents]]
      BY <2>1, <2>2, ContentIs
    <3> QED BY <2>1, <3>1 DEF BootTypeOK, AfterPools
  <2>4. paths'["production"].content = paths["production"].content
    BY <2>1, <2>2, ContentIs
  <2>5. VerticalOK' BY <2>1 DEF VerticalOK, Booting!Valid, AfterPools
  <2>6. PoolsOK' BY <2>1 DEF PoolsOK
  <2>7. FlatOK' BY <2>1, <2>4 DEF FlatOK, MovingFlat, AfterSession, AfterPools
  <2> QED BY <2>3, <2>5, <2>6, <2>7
<1> QED BY <1>1, <1>2

\* Every step of the directory keeps what a boot knows of its databases.
LEMMA BootStep == BootInv /\ [MCNext]_allVars => BootInv'
<1> SUFFICES ASSUME BootInv, [MCNext]_allVars PROVE BootInv'
  OBVIOUS
<1>1. CASE UNCHANGED bootVars
  BY <1>1 DEF bootVars, BootInv, BootTypeOK, VerticalOK, PoolsOK, FlatOK, Opened,
     Booting!Valid, Booting!TokenGuards, Booting!Serving, Booting!Profile
<1>2. CASE Booting!Next
  BY <1>2, BootMoves, BootSidecar, BootPools, BootNewerDemo, BootEngine, BootRepair, BootEnds
     DEF Booting!Next, Booting!BootStep
<1>3. Booting!Next \/ UNCHANGED bootVars BY DEF MCNext, Only, allVars
<1> QED BY <1>1, <1>2, <1>3

\* What the steps establish is what a served boot promises.
LEMMA BootPromises == BootInv => Booting!BootSafe
<1> SUFFICES ASSUME BootInv PROVE Booting!BootSafe
  OBVIOUS
<1> USE BootConstants DEF BootInv, Booting!Serving, Booting!NoneAssumption
<1>1. Booting!FlatKept
  <2>1. (moved \/ flat = "shop") /\ ~cut /\ flat # "shop" => paths["production"].content = "shop"
    BY DEF FlatOK
  <2>2. (moved \/ flat = "shop") /\ ~cut /\ at = "serving" =>
           setup_completed /\ (torn \/ Booting!Profile = "production")
    BY DEF FlatOK, MovingFlat, AfterSession, Booting!Profile, Booting!Kinds
  <2> QED BY <2>1, <2>2 DEF Booting!FlatKept
<1>2. Booting!PoolsReadFiles BY DEF PoolsOK, AfterPools, Opened, Booting!PoolsReadFiles
<1>3. Booting!KindsApart
  BY DEF VerticalOK, BootTypeOK, Booting!Valid, Booting!KindsApart, Booting!IsInjective,
     Booting!Kinds
<1>4. Booting!TokenGuards BY DEF VerticalOK, Booting!TokenGuards
<1> QED BY <1>1, <1>2, <1>3, <1>4 DEF Booting!BootSafe

\* BootSafe, for any number of boots (Boot): the move from the flat layout keeps the shop's
\* data unless it is cut short in the middle of the copy, and ends in production unless it
\* is in the middle of writing active_profile; the pools of a server read the files at
\* their paths, its kinds are kept apart, and a shop that is not set up has a token.
THEOREM BootsSafe == MCSpec => []BootSafe
<1>1. MCInit => BootInv BY BootInit DEF MCInit
<1>2. BootInv => BootSafe BY BootPromises DEF BootSafe
<1> QED BY <1>1, <1>2, BootStep, PTL DEF MCSpec


-----------------------------------------------------------------------------
\* Backups and the restore command.

\* The name the safety backup of the restore in progress goes to: never its source.
SafetyName == IF restore.path = Copy!Safety THEN Copy!Stamped ELSE Copy!Safety

Saved == copies[SafetyName].db = restore.old

\* What a restore from a source that is named as the code compares it has kept and brought
\* at each of its steps.
SourceOK ==
    restore.step # "idle" /\ restore.path # Copy!Alias =>
        /\ restore.step \in {"safety", "sidecars", "copy", "sweep", "logo"} =>
              /\ restore.path = restore.from
              /\ copies[restore.from].db = restore.source
              /\ copies[restore.from].logo = restore.logo
        /\ restore.step \in {"safety", "sidecars"} => Copy!Seen(live) = restore.old
        /\ restore.step \in {"sidecars", "copy"} => Saved
        /\ restore.step = "copy" => live.wal = Absent
        /\ restore.step \in {"sweep", "logo", "done"} => Copy!Seen(live) = restore.source
        /\ restore.step = "died" =>
              \/ Copy!Seen(live) \in {restore.old, restore.source}
              \/ Saved

\* A complete copy has the logo its row names, and only the backup command makes one.
WholeOK ==
    /\ \A n \in Copy!Copies : copies[n].whole =>
          /\ n \in Names
          /\ copies[n].db.ext # Absent => copies[n].logo[copies[n].db.ext] # Absent
    /\ restore.whole =>
          /\ restore.path # Copy!Alias
          /\ restore.source.ext # Absent => restore.logo[restore.source.ext] # Absent

CopyInv ==
    /\ Copy!TypeOK
    /\ shop_up = "up" => restore.step = "idle"
    /\ backup.step = "logo" => backup.to \in Names /\ copies[backup.to].db \in Copy!Contents
    /\ ~Copy!Quiet => restore.from \in Copy!Copies /\ copies[restore.from].db \in Copy!Contents
    /\ SourceOK /\ WholeOK /\ Copy!LogoComesBack

CopyFiles == [Copy!Copies -> [db : Copy!Contents \cup {Absent}, logo : Copy!Logos,
                              whole : BOOLEAN]]

\* Two fields of one copy change together.
LEMMA CopySet ==
    ASSUME copies \in CopyFiles, NEW n \in Copy!Copies, NEW d \in Copy!Contents,
           copies' = [copies EXCEPT ![n].db = d, ![n].whole = FALSE]
    PROVE  /\ copies' \in CopyFiles
           /\ copies'[n].db = d /\ copies'[n].logo = copies[n].logo /\ copies'[n].whole = FALSE
           /\ \A m \in Copy!Copies \ {n} : copies'[m] = copies[m]
<1> USE DEF CopyFiles
<1> DEFINE h == [copies EXCEPT ![n].db = d]
<1>1. /\ h \in CopyFiles
      /\ h[n].db = d /\ h[n].logo = copies[n].logo
      /\ \A m \in Copy!Copies \ {n} : h[m] = copies[m]
  OBVIOUS
<1>2. copies' = [h EXCEPT ![n].whole = FALSE] OBVIOUS
<1> HIDE DEF h
<1>3. copies' = [h EXCEPT ![n] = [h[n] EXCEPT !.whole = FALSE]] BY <1>2
<1>4. [h[n] EXCEPT !.whole = FALSE] \in [db : Copy!Contents \cup {Absent}, logo : Copy!Logos,
                                        whole : BOOLEAN]
  BY <1>1
<1>5. /\ [h[n] EXCEPT !.whole = FALSE].db = d
      /\ [h[n] EXCEPT !.whole = FALSE].logo = copies[n].logo
      /\ [h[n] EXCEPT !.whole = FALSE].whole = FALSE
  BY <1>1
<1> QED BY <1>1, <1>3, <1>4, <1>5

\* Two updates of one record, as the record they leave.
LEMMA LogoSet ==
    ASSUME copies \in CopyFiles, NEW n \in Copy!Copies, NEW l, NEW w,
           copies' = [copies EXCEPT ![n].logo = l, ![n].whole = w]
    PROVE  copies' = [copies EXCEPT ![n] = [db |-> copies[n].db, logo |-> l, whole |-> w]]
<1> USE DEF CopyFiles
<1> DEFINE h == [copies EXCEPT ![n].logo = l]
           k == [db |-> copies[n].db, logo |-> l, whole |-> copies[n].whole]
           j == [db |-> copies[n].db, logo |-> l, whole |-> w]
<1>1. copies[n] = [db |-> copies[n].db, logo |-> copies[n].logo, whole |-> copies[n].whole] OBVIOUS
<1>2. [copies[n] EXCEPT !.logo = l] = k BY <1>1
<1>3. h = [copies EXCEPT ![n] = k] BY <1>2
<1>4. copies' = [h EXCEPT ![n].whole = w] OBVIOUS
<1>5. [k EXCEPT !.whole = w] = j OBVIOUS
<1> HIDE DEF h, k, j
<1>6. DOMAIN copies = Copy!Copies OBVIOUS
<1>7. h[n] = k /\ DOMAIN h = Copy!Copies BY <1>3, <1>6
<1>8. copies' = [h EXCEPT ![n] = j] BY <1>4, <1>5, <1>7
<1>9. copies' = [copies EXCEPT ![n] = j] BY <1>3, <1>6, <1>8
<1> QED BY <1>9 DEF j

\* No copy has been made when the directory starts.
LEMMA CopyInit == Copy!Init => CopyInv
<1> SUFFICES ASSUME Copy!Init PROVE CopyInv
  OBVIOUS
<1> USE CopyConstants DEF Copy!NamesAssumption, Copy!Init, Copy!Idle, Copy!NoBackup, Copy!NoCopy
<1>1. Copy!TypeOK
  BY DEF Copy!TypeOK, Copy!Contents, Copy!Logos, Copy!NoLogo, Copy!Copies
<1>2. SourceOK /\ WholeOK /\ Copy!LogoComesBack /\ Copy!Quiet
  BY DEF SourceOK, WholeOK, Copy!LogoComesBack, Copy!Quiet, Copy!NoLogo
<1> QED BY <1>1, <1>2 DEF CopyInv

\* The shop works: no restore runs.
LEMMA CopyWork ==
    ASSUME CopyInv,
           \/ Copy!Start \/ Copy!Checkpoint \/ Copy!Stop \/ Copy!DeleteLogo \/ Copy!Edit
           \/ \E e \in Exts : Copy!Upload(e)
    PROVE  CopyInv'
<1> USE CopyConstants DEF Copy!NamesAssumption, CopyInv
<1>1. /\ restore'.step = "idle" /\ restore' \in {restore, Copy!Idle}
      /\ UNCHANGED <<copies, backup>>
      /\ shop_up' \in {"up", "down"}
  BY DEF Copy!Start, Copy!Checkpoint, Copy!Stop, Copy!DeleteLogo, Copy!Edit, Copy!Upload,
     Copy!Change, Copy!Idle
<1>2. Copy!Seen(live) \in Copy!Contents
  BY DEF Copy!TypeOK, Copy!Seen
<1>3. live' \in [main : Copy!Contents, wal : Copy!Contents \cup {Absent}]
  <2>1. CASE live' \in {live, Copy!Checkpointed(live)}
    BY <1>2, <2>1 DEF Copy!TypeOK, Copy!Checkpointed
  <2>2. ASSUME NEW x \in Exts \cup {Absent}, NEW f, Copy!Change(x, f)
        PROVE  live' \in [main : Copy!Contents, wal : Copy!Contents \cup {Absent}]
    <3>1. [work |-> work + 1, ext |-> x] \in Copy!Contents
      BY <2>2 DEF Copy!Change, Copy!TypeOK, Copy!Contents
    <3> QED BY <2>2, <3>1 DEF Copy!Change, Copy!TypeOK
  <2>3. Copy!Seen(live).ext \in Exts \cup {Absent} BY <1>2 DEF Copy!Contents
  <2> QED BY <2>1, <2>2, <2>3 DEF Copy!Start, Copy!Checkpoint, Copy!Stop, Copy!DeleteLogo,
          Copy!Edit, Copy!Upload
<1>4. work' \in 0 .. MaxWork /\ logo' \in Copy!Logos
  <2>1. CASE UNCHANGED <<work, logo>> BY <2>1 DEF Copy!TypeOK
  <2>2. ASSUME NEW e \in Exts, Copy!Upload(e) PROVE work' \in 0 .. MaxWork /\ logo' \in Copy!Logos
    BY <2>2 DEF Copy!Upload, Copy!Change, Copy!TypeOK, Copy!Logos, Copy!NoLogo
  <2>3. CASE Copy!DeleteLogo \/ Copy!Edit
    BY <2>3 DEF Copy!DeleteLogo, Copy!Edit, Copy!Change, Copy!TypeOK, Copy!Logos, Copy!NoLogo
  <2> QED BY <2>1, <2>2, <2>3 DEF Copy!Start, Copy!Checkpoint, Copy!Stop
<1>5. Copy!TypeOK'
  <2>1. restore' \in [step: {"idle", "safety", "sidecars", "copy", "sweep", "logo", "done", "died"},
                  from: Copy!Copies \cup {Absent}, path: Copy!Copies \cup {Copy!Alias, Absent},
                  old: Copy!Contents \cup {Absent}, source: Copy!Contents \cup {Absent},
                  logo: Copy!Logos, whole: BOOLEAN]
    <3>1. Copy!NoLogo \in Copy!Logos BY DEF Copy!NoLogo, Copy!Logos
    <3>2. CASE restore' = restore BY <3>2 DEF Copy!TypeOK
    <3>3. CASE restore' = Copy!Idle BY <3>1, <3>3 DEF Copy!Idle
    <3> QED BY <1>1, <3>2, <3>3
  <2> QED BY <1>1, <1>3, <1>4, <2>1 DEF Copy!TypeOK
<1>6. SourceOK' /\ Copy!LogoComesBack' /\ Copy!Quiet'
  BY <1>1 DEF SourceOK, Copy!LogoComesBack, Copy!Quiet
<1>7. WholeOK'
  <2>1. restore'.whole => restore' = restore BY <1>1 DEF Copy!Idle
  <2> QED BY <1>1, <2>1 DEF WholeOK
<1> QED BY <1>1, <1>5, <1>6, <1>7

\* A copy is made, of nothing that a restore in progress reads.
LEMMA CopyBackup ==
    ASSUME CopyInv,
           \/ \E n \in Names : Copy!CliBackup(n) \/ Copy!SocketBackup(n)
           \/ Copy!CliBackupLogo
    PROVE  CopyInv'
<1> USE CopyConstants DEF Copy!NamesAssumption, CopyInv
<1>1. PICK n \in Names, c \in [db : Copy!Contents, logo : Copy!Logos, whole : BOOLEAN] :
         /\ copies' = [copies EXCEPT ![n] = c]
         /\ c.whole /\ c.db.ext # Absent => c.logo[c.db.ext] # Absent
         /\ UNCHANGED <<live, logo, shop_up, work, restore>>
         /\ backup' \in {backup, Copy!NoBackup, [step |-> "logo", to |-> n, at |-> work]}
  <2>1. ASSUME NEW n \in Names, Copy!CliBackup(n) \/ Copy!SocketBackup(n)
        PROVE  \E c \in [db : Copy!Contents, logo : Copy!Logos, whole : BOOLEAN] :
                  /\ copies' = [copies EXCEPT ![n] = c] /\ ~c.whole
                  /\ UNCHANGED <<live, logo, shop_up, work, restore>>
                  /\ backup' \in {backup, [step |-> "logo", to |-> n, at |-> work]}
    <3>1. n \in Copy!Copies BY DEF Copy!Copies
    <3>2. Copy!Seen(live) \in Copy!Contents BY DEF Copy!TypeOK, Copy!Seen
    <3> DEFINE c == [db |-> Copy!Seen(live), logo |-> copies[n].logo, whole |-> FALSE]
    <3>3. c \in [db : Copy!Contents, logo : Copy!Logos, whole : BOOLEAN]
      BY <3>1, <3>2 DEF Copy!TypeOK
    <3>4. copies' = [copies EXCEPT ![n] = c]
      BY <2>1, <3>1 DEF Copy!CliBackup, Copy!SocketBackup, Copy!TypeOK
    <3> QED BY <2>1, <3>3, <3>4 DEF Copy!CliBackup, Copy!SocketBackup
  <2>2. ASSUME Copy!CliBackupLogo
        PROVE  \E n \in Names, c \in [db : Copy!Contents, logo : Copy!Logos, whole : BOOLEAN] :
                  /\ copies' = [copies EXCEPT ![n] = c]
                  /\ c.whole /\ c.db.ext # Absent => c.logo[c.db.ext] # Absent
                  /\ UNCHANGED <<live, logo, shop_up, work, restore>>
                  /\ backup' = Copy!NoBackup
    <3> DEFINE n == backup.to
               e == copies[n].db.ext
               l == IF e # Absent /\ logo[e] # Absent
                    THEN [copies[n].logo EXCEPT ![e] = logo[e]] ELSE copies[n].logo
               w == work = backup.at /\ (e # Absent => logo[e] # Absent)
               c == [db |-> copies[n].db, logo |-> l, whole |-> w]
    <3>1. n \in Names /\ copies[n].db \in Copy!Contents BY <2>2 DEF Copy!CliBackupLogo
    <3>2. n \in Copy!Copies BY <3>1 DEF Copy!Copies
    <3>3. e \in Exts \cup {Absent} BY <3>1 DEF Copy!Contents
    <3>4. copies[n].logo \in Copy!Logos /\ logo \in Copy!Logos BY <3>2 DEF Copy!TypeOK
    <3>5. l \in Copy!Logos BY <3>3, <3>4 DEF Copy!Logos
    <3>6. e # Absent /\ logo[e] # Absent => l[e] # Absent BY <3>3, <3>4 DEF Copy!Logos
    <3>7. copies' = [copies EXCEPT ![n] = c]
      <4>1. copies' = [copies EXCEPT ![n].logo = l, ![n].whole = w]
        BY <2>2 DEF Copy!CliBackupLogo
      <4>2. copies[n] = [db |-> copies[n].db, logo |-> copies[n].logo, whole |-> copies[n].whole]
        BY <3>2 DEF Copy!TypeOK
      <4>3. copies \in CopyFiles BY DEF Copy!TypeOK, CopyFiles
      <4> HIDE DEF n, l, w
      <4> QED BY <3>2, <4>1, <4>3, LogoSet
    <3> QED BY <2>2, <3>1, <3>5, <3>6, <3>7 DEF Copy!CliBackupLogo
  <2> QED BY <2>1, <2>2
<1>2. n \in Copy!Copies /\ n \notin {Copy!Safety, Copy!Stamped, Copy!Alias}
  BY DEF Copy!Copies
<1>3. copies'[n] = c /\ \A m \in Copy!Copies \ {n} : copies'[m] = copies[m]
  BY <1>1, <1>2 DEF Copy!TypeOK
<1>4. Copy!Quiet
  BY DEF Copy!CliBackup, Copy!SocketBackup, Copy!CliBackupLogo, Copy!Quiet
<1>5. Copy!TypeOK'
  <2>1. copies' \in [Copy!Copies -> [db : Copy!Contents \cup {Absent}, logo : Copy!Logos,
                                    whole : BOOLEAN]]
    BY <1>1, <1>2 DEF Copy!TypeOK
  <2>2. backup' \in [step : {"idle", "logo"}, to : Copy!Copies \cup {Absent}, at : 0 .. MaxWork]
    BY <1>1, <1>2 DEF Copy!TypeOK, Copy!NoBackup
  <2> QED BY <1>1, <2>1, <2>2 DEF Copy!TypeOK
<1>6. backup'.step = "logo" => backup'.to \in Names /\ copies'[backup'.to].db \in Copy!Contents
  <2>1. CASE backup' = backup
    <3>1. backup'.step = "logo" => copies[backup'.to].db \in Copy!Contents
      BY <2>1
    <3> QED BY <1>1, <1>2, <1>3, <2>1, <3>1 DEF Copy!TypeOK, Copy!Copies
  <2>2. CASE backup' = Copy!NoBackup BY <2>2 DEF Copy!NoBackup
  <2>3. CASE backup' = [step |-> "logo", to |-> n, at |-> work] BY <1>3, <2>3
  <2> QED BY <1>1, <2>1, <2>2, <2>3
<1>7. SourceOK'
  <2>1. SafetyName' = SafetyName /\ copies'[SafetyName] = copies[SafetyName]
    BY <1>1, <1>2, <1>3 DEF SafetyName, Copy!Copies
  <2>2. Copy!Seen(live)' = Copy!Seen(live) BY <1>1 DEF Copy!Seen
  <2> QED BY <1>1, <1>4, <2>1, <2>2 DEF SourceOK, Saved, Copy!Quiet
<1>8. WholeOK' BY <1>1, <1>3 DEF WholeOK
<1>9. Copy!LogoComesBack' /\ Copy!Quiet'
  BY <1>1, <1>4 DEF Copy!LogoComesBack, Copy!Quiet, Copy!Seen
<1> QED BY <1>1, <1>5, <1>6, <1>7, <1>8, <1>9

\* The restore command, one step after the other or cut short.
LEMMA CopyRestoreBegin ==
    ASSUME CopyInv, NEW p \in Copy!Copies \cup {Copy!Alias}, Copy!RestoreBegin(p)
    PROVE  CopyInv'
<1> USE CopyConstants DEF Copy!NamesAssumption, CopyInv
<1> DEFINE f == Copy!File(p)
           r == [step |-> "safety", from |-> f, path |-> p, old |-> Copy!Seen(live),
                 source |-> copies[f].db, logo |-> copies[f].logo, whole |-> copies[f].whole]
<1>1. /\ shop_up = "down" /\ Copy!Quiet /\ copies[f].db # Absent
      /\ restore' = r
      /\ UNCHANGED <<live, logo, copies, shop_up, work, backup>>
  BY DEF Copy!RestoreBegin
<1>2. f \in Copy!Copies /\ (p # Copy!Alias => p = f) /\ (p = Copy!Alias => f = Copy!Safety)
  BY DEF Copy!File, Copy!Copies
<1>3. copies[f].db \in Copy!Contents /\ copies[f].logo \in Copy!Logos
      /\ copies[f].whole \in BOOLEAN
  BY <1>1, <1>2 DEF Copy!TypeOK
<1>4. Copy!Seen(live) \in Copy!Contents BY DEF Copy!TypeOK, Copy!Seen
<1>5. Copy!TypeOK'
  <2>1. r \in [step: {"idle", "safety", "sidecars", "copy", "sweep", "logo", "done", "died"},
               from: Copy!Copies \cup {Absent}, path: Copy!Copies \cup {Copy!Alias, Absent},
               old: Copy!Contents \cup {Absent}, source: Copy!Contents \cup {Absent},
               logo: Copy!Logos, whole: BOOLEAN]
    BY <1>2, <1>3, <1>4
  <2> HIDE DEF r
  <2> QED BY <1>1, <2>1 DEF Copy!TypeOK
<1>6. /\ restore'.step = "safety" /\ restore'.from = f /\ restore'.path = p
      /\ restore'.old = Copy!Seen(live)' /\ restore'.source = copies[f].db
      /\ restore'.logo = copies[f].logo /\ restore'.whole = copies[f].whole
  BY <1>1 DEF Copy!Seen
<1> HIDE DEF r, f
<1>7. SourceOK' BY <1>1, <1>2, <1>6 DEF SourceOK
<1>8. WholeOK' BY <1>1, <1>2, <1>6 DEF WholeOK
<1>9. Copy!LogoComesBack' BY <1>6 DEF Copy!LogoComesBack
<1> QED BY <1>1, <1>2, <1>3, <1>5, <1>6, <1>7, <1>8, <1>9

\* What a step of the restore command changes of the command itself.
LEMMA NextStep ==
    ASSUME Copy!TypeOK, NEW s \in {"sidecars", "copy", "sweep", "logo", "done", "died"},
           Copy!RestoreStep(s)
    PROVE  /\ restore'.step = s
           /\ restore'.from = restore.from /\ restore'.path = restore.path
           /\ restore'.old = restore.old /\ restore'.source = restore.source
           /\ restore'.logo = restore.logo /\ restore'.whole = restore.whole
           /\ restore' \in [step: {"idle", "safety", "sidecars", "copy", "sweep", "logo", "done",
                                   "died"},
                  from: Copy!Copies \cup {Absent}, path: Copy!Copies \cup {Copy!Alias, Absent},
                  old: Copy!Contents \cup {Absent}, source: Copy!Contents \cup {Absent},
                  logo: Copy!Logos, whole: BOOLEAN]
BY DEF Copy!TypeOK, Copy!RestoreStep

\* The safety copy of a restore keeps the invariant.
LEMMA CopySafety == ASSUME CopyInv, Copy!SafetyBackup PROVE CopyInv'
<1> USE CopyConstants DEF Copy!NamesAssumption, CopyInv
<1>1. /\ restore.step = "safety" /\ Copy!RestoreStep("sidecars")
      /\ copies' = [copies EXCEPT ![SafetyName].db = Copy!Seen(live),
                                  ![SafetyName].whole = FALSE]
      /\ UNCHANGED <<live, logo, shop_up, work, backup>>
  BY DEF Copy!SafetyBackup, SafetyName
<1>2. /\ SafetyName \in Copy!Copies /\ SafetyName \notin Names
      /\ SafetyName \in {Copy!Safety, Copy!Stamped}
      /\ restore.path # SafetyName
  BY DEF SafetyName, Copy!Copies, Copy!Safety, Copy!Stamped
<1>3. Copy!Seen(live) \in Copy!Contents BY DEF Copy!TypeOK, Copy!Seen
<1> PICK n \in Copy!Copies : n = SafetyName BY <1>2
<1>4. /\ copies'[n].db = Copy!Seen(live) /\ copies'[n].logo = copies[n].logo
      /\ copies'[n].whole = FALSE
      /\ \A m \in Copy!Copies \ {n} : copies'[m] = copies[m]
      /\ copies' \in [Copy!Copies -> [db : Copy!Contents \cup {Absent}, logo : Copy!Logos,
                                      whole : BOOLEAN]]
  <2>1. copies' = [copies EXCEPT ![n].db = Copy!Seen(live), ![n].whole = FALSE] BY <1>1
  <2>2. copies \in CopyFiles BY DEF Copy!TypeOK, CopyFiles
  <2> QED BY <1>3, <2>1, <2>2, CopySet DEF CopyFiles
<1>5. Copy!TypeOK' BY <1>1, <1>4, NextStep DEF Copy!TypeOK
<1>6. SafetyName' = n BY <1>1, NextStep DEF SafetyName
<1>7. copies'[restore.from].db \in Copy!Contents /\ restore.from \in Copy!Copies
  BY <1>1, <1>3, <1>4 DEF Copy!Quiet
<1>8. backup.step = "logo" => copies'[backup.to] = copies[backup.to]
  BY <1>2, <1>4 DEF Copy!Copies
<1>9. SourceOK'
  <2>1. Copy!Seen(live)' = Copy!Seen(live) BY <1>1 DEF Copy!Seen
  <2>2. restore.path # Copy!Alias =>
           copies'[restore.from].db = copies[restore.from].db
           /\ copies'[restore.from].logo = copies[restore.from].logo
    BY <1>1, <1>2, <1>4, <1>7 DEF SourceOK
  <2> QED BY <1>1, <1>4, <1>6, <2>1, <2>2, NextStep DEF SourceOK, Saved
<1>10. WholeOK' BY <1>1, <1>2, <1>4, NextStep DEF WholeOK
<1>11. Copy!LogoComesBack' BY <1>1, NextStep DEF Copy!LogoComesBack
<1>12. ~Copy!Quiet' => restore'.from \in Copy!Copies /\ copies'[restore'.from].db \in Copy!Contents
  BY <1>1, <1>7, NextStep
<1> QED BY <1>1, <1>5, <1>8, <1>9, <1>10, <1>11, <1>12, NextStep DEF Copy!Quiet

\* The log goes first, so the database that is copied over the old one is what is seen.
LEMMA CopyLive ==
    ASSUME CopyInv, Copy!RemoveSidecars \/ Copy!CopyOver PROVE CopyInv'
<1> USE CopyConstants DEF Copy!NamesAssumption, CopyInv
<1> DEFINE s == IF restore.step = "sidecars" THEN "copy" ELSE "sweep"
<1>1. /\ restore.step \in {"sidecars", "copy"} /\ Copy!RestoreStep(s)
      /\ UNCHANGED <<copies, logo, shop_up, work, backup>>
  BY DEF Copy!RemoveSidecars, Copy!CopyOver
<1>2. s \in {"copy", "sweep"} OBVIOUS
<1>3. /\ restore.from \in Copy!Copies /\ copies[restore.from].db \in Copy!Contents
  BY <1>1 DEF Copy!Quiet
<1>4. /\ live' \in [main : Copy!Contents, wal : Copy!Contents \cup {Absent}]
      /\ s = "copy" => live'.wal = Absent
      /\ s = "sweep" => live'.main = copies[restore.from].db /\ live'.wal = live.wal
  BY <1>3 DEF Copy!RemoveSidecars, Copy!CopyOver, Copy!TypeOK
<1>5. s = "sweep" <=> restore.step = "copy" BY <1>1
<1> HIDE DEF s
<1>6. Copy!TypeOK' BY <1>1, <1>2, <1>4, NextStep DEF Copy!TypeOK
<1>7. SafetyName' = SafetyName BY <1>1, <1>2, NextStep DEF SafetyName
<1>8. SourceOK'
  <2>1. s = "sweep" /\ restore.path # Copy!Alias => Copy!Seen(live)' = restore.source
    BY <1>1, <1>4, <1>5 DEF SourceOK, Copy!Seen
  <2>2. restore.path # Copy!Alias => Saved BY <1>1 DEF SourceOK
  <2>3. Saved => Saved' BY <1>1, <1>2, <1>7, NextStep DEF Saved
  <2> QED BY <1>1, <1>2, <1>4, <2>1, <2>2, <2>3, NextStep DEF SourceOK
<1>9. WholeOK' BY <1>1, <1>2, NextStep DEF WholeOK
<1>10. Copy!LogoComesBack' BY <1>1, <1>2, NextStep DEF Copy!LogoComesBack
<1>11. shop_up # "up" BY <1>1
<1> QED BY <1>1, <1>2, <1>3, <1>6, <1>8, <1>9, <1>10, <1>11, NextStep DEF Copy!Quiet

\* The logo of a complete copy lies beside it and comes with it.
LEMMA CopyLogos ==
    ASSUME CopyInv, Copy!SweepStaleLogos \/ Copy!RestoreLogo \/ Copy!RestoreDies
    PROVE  CopyInv'
<1> USE CopyConstants DEF Copy!NamesAssumption, CopyInv
<1>1. PICK t \in {"logo", "done", "died"} :
         /\ Copy!RestoreStep(t)
         /\ t = "logo" => restore.step = "sweep"
         /\ t = "done" => restore.step = "logo" /\ Copy!RestoreLogo
         /\ t # "done" => logo' \in {logo, Copy!NoLogo}
  BY DEF Copy!SweepStaleLogos, Copy!RestoreLogo, Copy!RestoreDies
<1>2. ~Copy!Quiet /\ UNCHANGED <<copies, live, shop_up, work, backup>>
  BY DEF Copy!SweepStaleLogos, Copy!RestoreLogo, Copy!RestoreDies, Copy!Quiet
<1>3. /\ restore.from \in Copy!Copies /\ copies[restore.from].db \in Copy!Contents
      /\ copies[restore.from].logo \in Copy!Logos
  BY <1>2 DEF Copy!TypeOK
<1>4. Copy!NoLogo \in Copy!Logos BY DEF Copy!NoLogo, Copy!Logos
<1>5. Copy!RestoreLogo =>
         LET e == copies[restore.from].db.ext IN
         e # Absent => logo' = [logo EXCEPT ![e] = copies[restore.from].logo[e]]
  BY DEF Copy!RestoreLogo
<1>6. copies[restore.from].db.ext \in Exts \cup {Absent} BY <1>3 DEF Copy!Contents
<1>7. logo' \in Copy!Logos
  <2>1. CASE t # "done" BY <1>1, <1>4, <2>1 DEF Copy!TypeOK
  <2>2. CASE Copy!RestoreLogo
    BY <1>3, <1>6, <2>2 DEF Copy!RestoreLogo, Copy!TypeOK, Copy!Logos
  <2> QED BY <1>1, <2>1, <2>2
<1>8. Copy!TypeOK' BY <1>1, <1>2, <1>7, NextStep DEF Copy!TypeOK
<1>9. SafetyName' = SafetyName /\ Copy!Seen(live)' = Copy!Seen(live)
  BY <1>1, <1>2, NextStep DEF SafetyName, Copy!Seen
<1>10. Saved => Saved' BY <1>1, <1>2, <1>9, NextStep DEF Saved
<1>11. SourceOK'
  <2> SUFFICES ASSUME restore.path # Copy!Alias PROVE SourceOK'
    BY <1>1, NextStep DEF SourceOK
  <2>1. restore.step \in {"safety", "sidecars", "copy", "sweep", "logo"}
    BY <1>2 DEF Copy!Quiet, Copy!TypeOK
  <2>2. \/ Copy!Seen(live) \in {restore.old, restore.source}
        \/ Saved
    BY <2>1 DEF SourceOK
  <2> QED BY <1>1, <1>2, <1>9, <1>10, <2>1, <2>2, NextStep DEF SourceOK
<1>12. WholeOK' BY <1>1, <1>2, NextStep DEF WholeOK
<1>13. Copy!LogoComesBack'
  <2> SUFFICES ASSUME t = "done", restore.whole, Copy!Seen(live).ext # Absent
               PROVE  /\ logo'[Copy!Seen(live).ext] = restore.logo[Copy!Seen(live).ext]
                      /\ logo'[Copy!Seen(live).ext] # Absent
    BY <1>1, <1>9, NextStep DEF Copy!LogoComesBack
  <2>1. /\ Copy!Seen(live) = restore.source /\ copies[restore.from].db = restore.source
        /\ copies[restore.from].logo = restore.logo
    BY <1>1 DEF WholeOK, SourceOK
  <2>2. restore.logo[restore.source.ext] # Absent BY <2>1 DEF WholeOK
  <2>3. restore.source.ext \in Exts BY <1>6, <2>1
  <2>4. logo' = [logo EXCEPT ![restore.source.ext] = restore.logo[restore.source.ext]]
    BY <1>1, <1>5, <2>1
  <2> QED BY <2>1, <2>2, <2>3, <2>4 DEF Copy!TypeOK, Copy!Logos
<1>14. shop_up # "up" BY <1>2 DEF Copy!Quiet
<1> QED BY <1>1, <1>2, <1>3, <1>8, <1>11, <1>12, <1>13, <1>14, NextStep

\* Every step of the directory keeps the invariant of the copies.
LEMMA CopyStep == CopyInv /\ [MCNext]_allVars => CopyInv'
<1> SUFFICES ASSUME CopyInv, [MCNext]_allVars PROVE CopyInv'
  OBVIOUS
<1>1. CASE UNCHANGED copyVars
  BY <1>1 DEF copyVars, CopyInv, Copy!TypeOK, Copy!Quiet, SourceOK, SafetyName, Saved, WholeOK,
     Copy!LogoComesBack, Copy!Seen
<1>2. CASE CopyNext
  BY <1>2, CopyWork, CopyBackup, CopyRestoreBegin, CopySafety, CopyLive, CopyLogos DEF CopyNext
<1>3. CopyNext \/ UNCHANGED copyVars BY DEF MCNext, Only, allVars
<1> QED BY <1>1, <1>2, <1>3

\* What the invariant of the copies says of a restore and of the logo.
LEMMA CopyKept == CopyInv => Copy!RestoreSafe /\ Copy!LogoComesBack
<1> SUFFICES ASSUME CopyInv PROVE Copy!RestoreSafe
  BY DEF CopyInv
<1> QED BY DEF CopyInv, SourceOK, Saved, SafetyName, Copy!RestoreSafe


-----------------------------------------------------------------------------
\* Bundles of databases.

Lives == [Dbs -> Bundle!Contents \cup {Torn, Absent}]

JobOK ==
    /\ job \in [step : Bundle!Steps, names : Bundle!Lists, at : Nat,
                before : Lives, had : SUBSET Dbs]
    /\ bundled \in Lives
    /\ snap \in [Dbs -> Bundle!Contents \cup {Rotten, Absent}]
    /\ manifest \in (SUBSET Dbs) \cup {Absent}
    /\ made \in [Dbs -> Bundle!Contents \cup {Absent}]
    /\ changes \in 0 .. MaxChanges

\* The snapshots a restore has still to move are there and sound.
Sound(i) == snap[job.names[i]] \notin {Rotten, Absent}

\* A snapshot is what was promoted last, unless it has rotted or was moved. A restore has
\* touched no database before every snapshot is verified, and takes what it moves from a
\* sound one.
BundleOK ==
    /\ \A d \in Dbs : snap[d] \in {made[d], Rotten, Absent}
    /\ job.step \in {"idle", "snapshots", "manifest", "created"} => job.had = {}
    /\ job.step \in {"pair", "verify", "refused"} => bundled = job.before
    /\ job.step \in {"snapshots", "verify", "rename", "copy"} => job.at \in 1 .. Len(job.names)
    /\ job.step \in {"verify", "rename", "copy"} =>
          \A i, j \in 1 .. Len(job.names) : job.names[i] = job.names[j] => i = j
    /\ job.step = "pair" => job.at = 1
    /\ job.at <= Len(job.names) + 1
    /\ job.step = "verify" =>
          \A i \in 1 .. Len(job.names) :
             snap[job.names[i]] # Absent /\ (i < job.at => Sound(i))
    /\ job.step \in {"rename", "copy"} =>
          \A i \in job.at .. Len(job.names) : Sound(i)
    /\ Bundle!BundleNotLost

BundleInv == JobOK /\ BundleOK

\* A list of targets is a sequence.
LEMMA ListsAre ==
    ASSUME NEW s \in Bundle!Lists
    PROVE  Len(s) \in Nat /\ DOMAIN s = 1 .. Len(s) /\ \A i \in 1 .. Len(s) : s[i] \in Dbs
<1>1. PICK n \in 0 .. 2 : s \in [1 .. n -> Dbs] BY DEF Bundle!Lists
<1>2. s \in Seq(Dbs) /\ Len(s) = n BY <1>1
<1> QED BY <1>1, <1>2

\* Only the step and the place of a job change as it goes on.
LEMMA JobGoesOn ==
    ASSUME JobOK, NEW s \in Bundle!Steps, NEW n \in Nat,
           job' = [job EXCEPT !.step = s, !.at = n] \/ job' = [job EXCEPT !.at = n, !.step = s]
    PROVE  /\ job' \in [step : Bundle!Steps, names : Bundle!Lists, at : Nat,
                        before : Lives, had : SUBSET Dbs]
           /\ job'.step = s /\ job'.at = n /\ job'.names = job.names
           /\ job'.before = job.before /\ job'.had = job.had
BY DEF JobOK

\* What Step leaves of the job: everything but its step.
LEMMA JobStep ==
    ASSUME JobOK, NEW s \in Bundle!Steps, Bundle!Step(s)
    PROVE  /\ job' \in [step : Bundle!Steps, names : Bundle!Lists, at : Nat,
                        before : Lives, had : SUBSET Dbs]
           /\ job'.step = s /\ job'.at = job.at /\ job'.names = job.names
           /\ job'.before = job.before /\ job'.had = job.had
BY DEF JobOK, Bundle!Step

\* No bundle job runs when the directory starts.
LEMMA BundleInit == Bundle!Init => BundleInv
<1> SUFFICES ASSUME Bundle!Init PROVE BundleInv
  OBVIOUS
<1> USE BundleConstants DEF Bundle!BoundAssumption, Bundle!Contents
<1>1. <<>> \in Bundle!Lists BY DEF Bundle!Lists
<1>2. bundled \in Lives BY DEF Bundle!Init, Lives
<1>3. /\ job \in [step : Bundle!Steps, names : Bundle!Lists, at : Nat,
                   before : Lives, had : SUBSET Dbs]
      /\ job.step = "idle" /\ job.had = {}
  BY <1>1, <1>2 DEF Bundle!Init, Bundle!Idle, Bundle!Steps
<1>4. JobOK
  <2>1. snap \in [Dbs -> Bundle!Contents \cup {Rotten, Absent}] BY DEF Bundle!Init
  <2>2. made \in [Dbs -> Bundle!Contents \cup {Absent}] BY DEF Bundle!Init
  <2>3. manifest \in (SUBSET Dbs) \cup {Absent} BY DEF Bundle!Init
  <2>4. changes \in 0 .. MaxChanges BY DEF Bundle!Init
  <2> QED BY <1>2, <1>3, <2>1, <2>2, <2>3, <2>4 DEF JobOK
<1> QED BY <1>3, <1>4 DEF Bundle!Init, Bundle!Idle, BundleInv, BundleOK, Bundle!BundleNotLost

\* The databases change while no restore runs; a snapshot rots.
LEMMA BundleOutside ==
    ASSUME BundleInv, NEW d \in Dbs, Bundle!Work(d) \/ Bundle!Rot(d) PROVE BundleInv'
<1> USE BundleConstants DEF Bundle!BoundAssumption, BundleInv
<1>1. CASE Bundle!Work(d)
  <2> USE <1>1 DEF Bundle!Work
  <2>1. bundled' \in Lives /\ changes' \in 0 .. MaxChanges
    BY DEF JobOK, Lives, Bundle!Contents
  <2>2. CASE Bundle!Busy
    <3>1. job' = job /\ job.step \in {"snapshots", "manifest"} BY <2>2
    <3> QED BY <2>1, <3>1 DEF JobOK, BundleOK, Sound, Bundle!BundleNotLost
  <2>3. CASE ~Bundle!Busy
    <3>1. <<>> \in Bundle!Lists BY DEF Bundle!Lists
    <3>2. /\ job'.step = "idle" /\ job'.had = {}
          /\ job' \in [step : Bundle!Steps, names : Bundle!Lists, at : Nat,
                       before : Lives, had : SUBSET Dbs]
      BY <2>3, <3>1 DEF Bundle!Idle, Bundle!Steps, JobOK
    <3>3. job'.at = 0 /\ Len(job'.names) = 0 BY <2>3 DEF Bundle!Idle
    <3>4. JobOK' BY <2>1, <3>2 DEF JobOK
    <3> QED BY <3>2, <3>3, <3>4 DEF BundleOK, Bundle!BundleNotLost
  <2> QED BY <2>2, <2>3
<1>2. CASE Bundle!Rot(d)
  <2>1. snap' \in [Dbs -> Bundle!Contents \cup {Rotten, Absent}]
    BY <1>2 DEF Bundle!Rot, JobOK
  <2> QED BY <1>2, <2>1 DEF Bundle!Rot, JobOK, BundleOK, Sound, Bundle!BundleNotLost
<1> QED BY <1>1, <1>2

\* A bundle is created.
LEMMA BundleCreates ==
    ASSUME BundleInv,
           \/ \E s \in Bundle!Lists : Bundle!CreateBegin(s) \/ Bundle!RestoreBegin(s)
           \/ Bundle!Snapshot \/ Bundle!SnapshotFails \/ Bundle!WriteManifest
    PROVE  BundleInv'
<1> USE BundleConstants DEF Bundle!BoundAssumption, BundleInv
<1>1. ASSUME NEW s \in Bundle!Lists, Bundle!CreateBegin(s) PROVE BundleInv'
  <2>1. /\ job' = [step |-> "snapshots", names |-> s, at |-> 1, before |-> bundled, had |-> {}]
        /\ UNCHANGED <<bundled, snap, manifest, made, changes>> /\ s # <<>>
    BY <1>1 DEF Bundle!CreateBegin
  <2>2. Len(s) \in Nat /\ Len(s) # 0 BY <2>1, ListsAre
  <2>3. JobOK' BY <2>1 DEF JobOK, Bundle!Steps
  <2> QED BY <2>1, <2>2, <2>3 DEF BundleOK, Bundle!BundleNotLost
<1>2. ASSUME NEW s \in Bundle!Lists, Bundle!RestoreBegin(s) PROVE BundleInv'
  <2>1. /\ job' = [step |-> "pair", names |-> s, at |-> 1, before |-> bundled,
                   had |-> {d \in Dbs : snap[d] # Absent}]
        /\ UNCHANGED <<bundled, snap, manifest, made, changes>>
    BY <1>2 DEF Bundle!RestoreBegin
  <2>2. JobOK' BY <2>1 DEF JobOK, Bundle!Steps
  <2> QED BY <2>1, <2>2 DEF BundleOK, Bundle!BundleNotLost
<1>3. CASE Bundle!Snapshot
  <2> DEFINE s == IF job.at = Len(job.names) THEN "manifest" ELSE job.step
             c == Bundle!Current
  <2>1. /\ job.step = "snapshots" /\ bundled[c] \notin {Absent, Torn}
        /\ job' = [job EXCEPT !.at = job.at + 1, !.step = s]
        /\ snap' = [snap EXCEPT ![c] = bundled[c]] /\ made' = [made EXCEPT ![c] = bundled[c]]
        /\ UNCHANGED <<bundled, manifest, changes>>
    BY <1>3 DEF Bundle!Snapshot
  <2>2. job.at \in 1 .. Len(job.names) /\ job.names \in Bundle!Lists
    BY <2>1 DEF JobOK, BundleOK
  <2>3. c \in Dbs BY <2>2, ListsAre DEF Bundle!Current
  <2>4. bundled[c] \in Bundle!Contents BY <2>1, <2>3 DEF JobOK, Lives
  <2>5. s \in {"manifest", "snapshots"} /\ s \in Bundle!Steps /\ job.at + 1 \in Nat
    BY <2>1, <2>2, ListsAre DEF Bundle!Steps
  <2>6. s = "snapshots" => job.at + 1 \in 1 .. Len(job.names) BY <2>1, <2>2, ListsAre
  <2> HIDE DEF s, c
  <2>7. /\ job' \in [step : Bundle!Steps, names : Bundle!Lists, at : Nat,
                     before : Lives, had : SUBSET Dbs]
        /\ job'.step = s /\ job'.at = job.at + 1 /\ job'.names = job.names
        /\ job'.had = job.had
    BY <2>1, <2>5, JobGoesOn
  <2>8. JobOK' BY <2>1, <2>3, <2>4, <2>7 DEF JobOK
  <2>9. \A d \in Dbs : snap'[d] \in {made'[d], Rotten, Absent}
    BY <2>1, <2>3 DEF JobOK, BundleOK
  <2> QED BY <2>1, <2>5, <2>6, <2>7, <2>8, <2>9 DEF BundleOK, Bundle!BundleNotLost
<1>4. CASE Bundle!SnapshotFails
  <2>1. Bundle!Step("failed") /\ UNCHANGED <<bundled, snap, manifest, made, changes>>
    BY <1>4 DEF Bundle!SnapshotFails
  <2> QED BY <2>1, JobStep DEF JobOK, BundleOK, Bundle!BundleNotLost, Bundle!Steps
<1>5. CASE Bundle!WriteManifest
  <2>1. /\ job.step = "manifest" /\ Bundle!Step("created")
        /\ manifest' = Bundle!ToSet(job.names) /\ UNCHANGED <<bundled, snap, made, changes>>
    BY <1>5 DEF Bundle!WriteManifest
  <2>2. Bundle!ToSet(job.names) \in SUBSET Dbs BY ListsAre DEF Bundle!ToSet, JobOK
  <2> QED BY <2>1, <2>2, JobStep DEF JobOK, BundleOK, Bundle!BundleNotLost, Bundle!Steps
<1> QED BY <1>1, <1>2, <1>3, <1>4, <1>5

\* A restore checks everything before it moves anything.
LEMMA BundleChecks ==
    ASSUME BundleInv,
           \/ Bundle!PairTargets \/ Bundle!PairingRefused \/ Bundle!VerifySnapshot
           \/ Bundle!CorruptSnapshot \/ Bundle!NoDirectory
    PROVE  BundleInv'
<1> USE BundleConstants DEF Bundle!BoundAssumption, BundleInv
<1>0. UNCHANGED <<bundled, snap, manifest, made, changes>>
  BY DEF Bundle!PairTargets, Bundle!PairingRefused, Bundle!VerifySnapshot,
     Bundle!CorruptSnapshot, Bundle!NoDirectory
<1>1. job.names \in Bundle!Lists BY DEF JobOK
<1>2. CASE Bundle!PairTargets
  <2> DEFINE s == IF job.names = <<>> THEN "restored" ELSE "verify"
  <2>1. job.step = "pair" /\ Bundle!Pairs /\ Bundle!Step(s) BY <1>2 DEF Bundle!PairTargets
  <2>2. s \in {"restored", "verify"} /\ s \in Bundle!Steps BY DEF Bundle!Steps
  <2>3. s = "verify" => Len(job.names) # 0 BY <1>1, ListsAre
  <2> HIDE DEF s
  <2>4. JobOK' BY <1>0, <2>1, <2>2, JobStep DEF JobOK
  <2>5. \A i \in 1 .. Len(job.names) : snap[job.names[i]] # Absent
    BY <1>1, <2>1, ListsAre DEF Bundle!Pairs, Bundle!ToSet
  <2>6. \A i, j \in 1 .. Len(job.names) : job.names[i] = job.names[j] => i = j
    BY <1>1, <2>1, ListsAre DEF Bundle!Pairs, Bundle!IsInjective
  <2>7. /\ job'.step = s /\ job'.at = 1 /\ job'.names = job.names
        /\ job'.before = job.before /\ job'.had = job.had
    BY <2>1, <2>2, JobStep DEF BundleOK
  <2>8. Len(job.names) \in Nat BY <1>1, ListsAre
  <2>9. s = "verify" => 1 \in 1 .. Len(job.names) BY <2>3, <2>8
  <2>10. s = "verify" => bundled = job.before BY <2>1 DEF BundleOK
  <2> QED BY <1>0, <2>2, <2>4, <2>5, <2>6, <2>7, <2>9, <2>10, <2>1
         DEF BundleOK, Bundle!BundleNotLost
<1>3. CASE Bundle!PairingRefused \/ Bundle!CorruptSnapshot \/ Bundle!NoDirectory
  <2>1. Bundle!Step("refused") /\ bundled = job.before
    BY <1>3 DEF Bundle!PairingRefused, Bundle!CorruptSnapshot, Bundle!NoDirectory, BundleOK
  <2> QED BY <1>0, <2>1, JobStep DEF JobOK, BundleOK, Bundle!BundleNotLost, Bundle!Steps
<1>4. CASE Bundle!VerifySnapshot
  <2> USE <1>4 DEF Bundle!VerifySnapshot
  <2>1. Len(job.names) \in Nat /\ job.at \in 1 .. Len(job.names) /\ job.step = "verify"
    BY <1>1, ListsAre DEF BundleOK
  <2>2. Sound(job.at) BY <2>1 DEF BundleOK, Sound, Bundle!Current
  <2>3. CASE job.at = Len(job.names)
    <3>1. job' = [job EXCEPT !.step = "rename", !.at = 1] BY <2>3
    <3>2. \A i \in 1 .. Len(job.names) : Sound(i) BY <2>1, <2>2, <2>3 DEF BundleOK
    <3>3. "rename" \in Bundle!Steps BY DEF Bundle!Steps
    <3>4. /\ job' \in [step : Bundle!Steps, names : Bundle!Lists, at : Nat,
                       before : Lives, had : SUBSET Dbs]
          /\ job'.step = "rename" /\ job'.at = 1 /\ job'.names = job.names
          /\ job'.before = job.before /\ job'.had = job.had
      BY <3>1, <3>3, JobGoesOn
    <3>5. JobOK' BY <1>0, <3>4 DEF JobOK
    <3> QED BY <1>0, <2>1, <3>2, <3>4, <3>5 DEF BundleOK, Bundle!BundleNotLost, Sound
  <2>4. CASE job.at # Len(job.names)
    <3>1. job' = [job EXCEPT !.at = job.at + 1] BY <2>4
    <3>2. /\ job' \in [step : Bundle!Steps, names : Bundle!Lists, at : Nat,
                       before : Lives, had : SUBSET Dbs]
          /\ job'.step = "verify" /\ job'.at = job.at + 1 /\ job'.names = job.names
          /\ job'.before = job.before /\ job'.had = job.had
      <4>1. job' = [job EXCEPT !.at = job.at + 1, !.step = "verify"]
        BY <2>1, <3>1 DEF JobOK
      <4>2. "verify" \in Bundle!Steps /\ job.at + 1 \in Nat BY <2>1 DEF Bundle!Steps
      <4> QED BY <4>1, <4>2, JobGoesOn
    <3>3. JobOK' BY <1>0, <3>2 DEF JobOK
    <3>4. ASSUME NEW i \in 1 .. Len(job.names), i < job.at + 1 PROVE Sound(i)
      BY <2>1, <2>2, <3>4 DEF BundleOK
    <3> QED BY <1>0, <2>1, <2>4, <3>2, <3>3, <3>4 DEF BundleOK, Bundle!BundleNotLost, Sound
  <2> QED BY <2>3, <2>4
<1> QED BY <1>2, <1>3, <1>4

\* What has arrived at its place.
LEMMA BundleArrives ==
    ASSUME BundleInv, job.step \in {"rename", "copy"},
           Bundle!Moved, UNCHANGED <<manifest, made, changes>>,
           bundled' = [bundled EXCEPT ![Bundle!Current] = snap[Bundle!Current]],
           NEW x \in {snap[Bundle!Current], Absent},
           snap' = [snap EXCEPT ![Bundle!Current] = x]
    PROVE  BundleInv'
<1> USE BundleConstants DEF Bundle!BoundAssumption, BundleInv
<1> DEFINE s == IF job.at = Len(job.names) THEN "restored" ELSE "rename"
           c == Bundle!Current
<1>1. job.names \in Bundle!Lists BY DEF JobOK
<1>2. Len(job.names) \in Nat /\ job.at \in 1 .. Len(job.names)
  BY <1>1, ListsAre DEF BundleOK
<1>3. c \in Dbs /\ c = job.names[job.at] BY <1>1, <1>2, ListsAre DEF Bundle!Current
<1>4. snap[c] = made[c] /\ snap[c] \in Bundle!Contents
  <2>1. Sound(job.at) BY <1>2 DEF BundleOK
  <2> QED BY <1>3, <2>1 DEF Sound, BundleOK, JobOK
<1>5. s \in {"restored", "rename"} /\ s \in Bundle!Steps /\ job.at + 1 \in Nat
  BY <1>2 DEF Bundle!Steps
<1>6. job' = [job EXCEPT !.at = job.at + 1, !.step = s] BY DEF Bundle!Moved
<1>7. s = "rename" => job.at + 1 \in 1 .. Len(job.names) BY <1>2
<1> HIDE DEF s
<1>8. /\ job' \in [step : Bundle!Steps, names : Bundle!Lists, at : Nat,
                   before : Lives, had : SUBSET Dbs]
      /\ job'.step = s /\ job'.at = job.at + 1 /\ job'.names = job.names
      /\ job'.had = job.had
  BY <1>5, <1>6, JobGoesOn
<1>9. /\ bundled'[c] = made[c] /\ snap'[c] \in {made[c], Absent}
      /\ \A d \in Dbs \ {c} : bundled'[d] = bundled[d] /\ snap'[d] = snap[d]
  BY <1>3, <1>4 DEF JobOK, Lives
<1>10. JobOK'
  <2>1. bundled' \in Lives BY <1>3, <1>4 DEF JobOK, Lives
  <2>2. snap' \in [Dbs -> Bundle!Contents \cup {Rotten, Absent}] BY <1>3, <1>4 DEF JobOK
  <2> QED BY <1>8, <2>1, <2>2 DEF JobOK
<1> HIDE DEF c
<1>11. ASSUME NEW i \in job.at + 1 .. Len(job.names) PROVE Sound(i)'
  <2>1. i \in 1 .. Len(job.names) /\ i # job.at BY <1>2
  <2>2. job.names[i] \in Dbs /\ job.names[i] # c
    BY <1>1, <1>2, <1>3, <2>1, ListsAre DEF BundleOK
  <2>3. Sound(i) BY <1>2, <2>1 DEF BundleOK
  <2> QED BY <1>8, <1>9, <2>2, <2>3 DEF Sound
<1>12. Bundle!BundleNotLost'
  <2>1. ASSUME NEW d \in job.had
        PROVE  snap'[d] \in {made[d], Rotten} \/ bundled'[d] = made[d]
    <3>1. d \in Dbs BY DEF JobOK
    <3> QED BY <1>9, <3>1 DEF BundleOK, Bundle!BundleNotLost
  <2> QED BY <1>8, <2>1 DEF Bundle!BundleNotLost
<1>13. \A d \in Dbs : snap'[d] \in {made'[d], Rotten, Absent}
  BY <1>9 DEF BundleOK
<1>14. \A i, j \in 1 .. Len(job.names) : job.names[i] = job.names[j] => i = j
  BY DEF BundleOK
<1> QED BY <1>5, <1>7, <1>8, <1>10, <1>11, <1>12, <1>13, <1>14 DEF BundleOK

\* A restore moves one snapshot after the other.
LEMMA BundleMoves ==
    ASSUME BundleInv,
           \/ Bundle!Rename \/ Bundle!CopyAcross \/ Bundle!CopyComplete
           \/ Bundle!MoveFails \/ Bundle!Die
    PROVE  BundleInv'
<1> USE BundleConstants DEF Bundle!BoundAssumption, BundleInv
<1>1. CASE Bundle!Rename \/ Bundle!CopyComplete
  BY <1>1, BundleArrives DEF Bundle!Rename, Bundle!CopyComplete
<1>2. CASE Bundle!MoveFails \/ Bundle!Die
  <2>1. PICK s \in {"failed", "died"} :
           Bundle!Step(s) /\ UNCHANGED <<bundled, snap, manifest, made, changes>>
    BY <1>2 DEF Bundle!MoveFails, Bundle!Die
  <2> QED BY <2>1, JobStep DEF JobOK, BundleOK, Bundle!BundleNotLost, Bundle!Steps
<1>3. CASE Bundle!CopyAcross
  <2> DEFINE c == Bundle!Current
  <2>1. /\ job.step = "rename" /\ Bundle!Step("copy")
        /\ bundled' = [bundled EXCEPT ![c] = Torn]
        /\ UNCHANGED <<snap, manifest, made, changes>>
    BY <1>3 DEF Bundle!CopyAcross
  <2>2. job.names \in Bundle!Lists BY DEF JobOK
  <2>3. Len(job.names) \in Nat /\ job.at \in 1 .. Len(job.names)
    BY <2>1, <2>2, ListsAre DEF BundleOK
  <2>4. c \in Dbs /\ c = job.names[job.at] BY <2>2, <2>3, ListsAre DEF Bundle!Current
  <2>5. snap[c] = made[c]
    <3>1. Sound(job.at) BY <2>1, <2>3 DEF BundleOK
    <3> QED BY <2>4, <3>1 DEF Sound, BundleOK
  <2> HIDE DEF c
  <2>6. \A d \in Dbs \ {c} : bundled'[d] = bundled[d] BY <2>1 DEF JobOK, Lives
  <2>7. bundled' \in Lives BY <2>1 DEF JobOK, Lives
  <2>8. JobOK' BY <2>1, <2>7, JobStep DEF JobOK, Bundle!Steps
  <2>9. Bundle!BundleNotLost'
    <3>1. ASSUME NEW d \in job.had PROVE snap[d] \in {made[d], Rotten} \/ bundled'[d] = made[d]
      <4>1. d \in Dbs BY DEF JobOK
      <4> QED BY <2>5, <2>6, <4>1 DEF BundleOK, Bundle!BundleNotLost
    <3> QED BY <2>1, <3>1, JobStep DEF Bundle!BundleNotLost, Bundle!Steps
  <2> QED BY <2>1, <2>3, <2>8, <2>9, JobStep DEF BundleOK, Sound, Bundle!Steps
<1> QED BY <1>1, <1>2, <1>3

\* Every step of the directory keeps the invariant of the bundle jobs.
LEMMA BundleStep == BundleInv /\ [MCNext]_allVars => BundleInv'
<1> SUFFICES ASSUME BundleInv, [MCNext]_allVars PROVE BundleInv'
  OBVIOUS
<1>1. CASE UNCHANGED bundleVars
  BY <1>1 DEF bundleVars, BundleInv, JobOK, BundleOK, Sound, Bundle!BundleNotLost
<1>2. CASE BundleNext
  BY <1>2, BundleOutside, BundleCreates, BundleChecks, BundleMoves DEF BundleNext
<1>3. BundleNext \/ UNCHANGED bundleVars BY DEF MCNext, Only, allVars
<1> QED BY <1>1, <1>2, <1>3

\* CopiesKept, for any extensions, file names and databases (BackupRestore, BundleRestore):
\* a restore that dies anywhere has not cost the database it found, one that completes
\* leaves that of the backup, and a copy of a quiet shop brings its logo back; a refused
\* bundle restore has touched nothing, and the bundle has lost no database.
THEOREM CopiesSafe == MCSpec => []CopiesKept
<1>1. MCInit => CopyInv /\ BundleInv BY CopyInit, BundleInit DEF MCInit
<1>2. CopyInv /\ BundleInv => CopiesKept
  BY CopyKept DEF BundleInv, BundleOK, Bundle!RefusedUntouched, CopiesKept
<1> QED BY <1>1, <1>2, CopyStep, BundleStep, PTL DEF MCSpec


-----------------------------------------------------------------------------
\* Boots across releases.

\* A non-empty set of numbers has a least one.
LEMMA Least ==
    ASSUME NEW T \in SUBSET Nat, T # {}
    PROVE  \E m \in T : \A n \in T : m <= n
<1>1. PICK m \in T : \A n \in T : ~(<<n, m>> \in OpToRel(<, Nat))
  BY Zenon, NatLessThanWellFounded, WFMin
<1>2. \A n \in T : ~(n < m) BY <1>1 DEF OpToRel
<1> QED BY <1>2

\* One with a bound has a greatest.
LEMMA Greatest ==
    ASSUME NEW b \in Nat, NEW T \in SUBSET (0 .. b), T # {}
    PROVE  \E m \in T : \A n \in T : n <= m
<1>1. \A n \in T : n \in Nat /\ n <= b /\ b - n \in Nat OBVIOUS
<1>2. {b - n : n \in T} \in SUBSET Nat /\ {b - n : n \in T} # {} BY <1>1
<1>3. PICK u \in {b - n : n \in T} : \A k \in {b - n : n \in T} : u <= k
  BY <1>2, Least
<1>4. PICK m \in T : u = b - m BY <1>3
<1>5. ASSUME NEW n \in T PROVE n <= m
  <2>1. b - m <= b - n BY <1>3, <1>4
  <2> QED BY <1>1, <2>1
<1> QED BY <1>5

\* ProfileUpgrade counts as this module does.
LEMMA SameCount == \A S : Upgrade!Cardinality(S) = Cardinality(S)
BY DEF Upgrade!Cardinality, Cardinality

\* A set of versions is finite.
LEMMA VersionsFinite ==
    ASSUME NEW S \in SUBSET Upgrade!Versions
    PROVE  IsFiniteSet(S) /\ Cardinality(S) \in Nat
<1>1. IsFiniteSet(1 .. Releases)
  BY UpgradeConstants, FS_Interval DEF Upgrade!ReleaseAssumption
<1> QED BY <1>1, FS_Subset, FS_CardinalityType DEF Upgrade!Versions

\* What a rotation takes from under a version, it takes because enough newer ones stay.
LEMMA RotationKeeps ==
    ASSUME NEW E \in SUBSET Upgrade!Versions, NEW s \in E,
           s \notin Upgrade!NewestOf(E, KeepBackups)
    PROVE  Cardinality({v \in Upgrade!NewestOf(E, KeepBackups) : v > s}) >= KeepBackups
<1> DEFINE Above(n) == {w \in E : w > n}
           N == Upgrade!NewestOf(E, KeepBackups)
           T == {n \in E : n >= s /\ Cardinality(Above(n)) >= KeepBackups}
<1> USE UpgradeConstants DEF Upgrade!ReleaseAssumption, Upgrade!Versions
<1>1. \A n : Cardinality(Above(n)) \in Nat /\ IsFiniteSet(Above(n))
  BY VersionsFinite
<1>2. \A w \in E : w \in N <=> Cardinality(Above(w)) < KeepBackups
  BY SameCount DEF Upgrade!NewestOf
<1>3. N \subseteq E BY DEF Upgrade!NewestOf
<1> HIDE DEF N, Above
<1>4. s \in T /\ T \in SUBSET (0 .. Releases)
  <2>1. ~(Cardinality(Above(s)) < KeepBackups) BY <1>2 DEF N
  <2>2. Cardinality(Above(s)) >= KeepBackups BY <1>1, <2>1
  <2>3. s \in Nat BY DEF Upgrade!Versions
  <2>4. s \in T BY <2>2, <2>3
  <2>5. \A n \in T : n \in 0 .. Releases BY DEF Upgrade!Versions
  <2> HIDE DEF T
  <2> QED BY <2>4, <2>5
<1>5. PICK m \in T : \A n \in T : n <= m BY <1>4, Greatest
<1>6. Above(m) \subseteq {v \in N : v > s}
  <2> SUFFICES ASSUME NEW w \in Above(m) PROVE w \in N /\ w > s
    OBVIOUS
  <2>1. w \in E /\ w > m /\ m >= s BY <1>5 DEF Above
  <2>2. w \notin T BY <1>4, <1>5, <2>1
  <2> QED BY <1>1, <1>2, <2>1, <2>2
<1>7. {v \in N : v > s} \in SUBSET Upgrade!Versions BY <1>3
<1>8. Cardinality(Above(m)) <= Cardinality({v \in N : v > s})
  BY <1>6, <1>7, VersionsFinite, FS_Subset
<1>9. Cardinality({v \in N : v > s}) \in Nat BY <1>7, VersionsFinite
<1>10. Cardinality(Above(m)) >= KeepBackups BY <1>5
<1>11. KeepBackups \in Nat /\ Cardinality(Above(m)) \in Nat BY <1>1
<1>12. Cardinality({v \in N : v > s}) >= KeepBackups BY <1>8, <1>9, <1>10, <1>11
<1> QED BY <1>12 DEF N

\* The content a boot found is in its backup, or was pushed out by newer ones.
Backed ==
    \/ boot.before = NoFile
    \/ boot.before.shop = 0
    \/ Cardinality({v \in Upgrade!Existing : v > boot.before.shop}) >= KeepBackups
    \/ boot.before.shop \in Upgrade!Versions /\ backups[boot.before.shop] = boot.before

\* What a boot has established before each of its steps.
BootOK ==
    /\ boot.step # "down" => db # NoFile
    /\ boot.step = "backup" => boot.before = db
    /\ boot.step = "rotate" =>
          /\ boot.before # NoFile /\ boot.before.shop \in Upgrade!Versions
          /\ backups[boot.before.shop] = boot.before
    /\ boot.step \notin {"down", "backup", "rotate"} => Backed
    /\ boot.step \in {"platform", "shop", "second", "serving"} =>
          \A c \in Connections : fk[c] # "off"
    /\ boot.step = "second" => db.shop = boot.release
    /\ ~boot.reapplied

UpInv == Upgrade!TypeOK /\ BootOK

BootRecords == [step : Upgrade!Steps, release : Upgrade!Versions,
                before : Upgrade!Contents \cup {NoFile},
                failing : BOOLEAN, reapplied : BOOLEAN]

\* Only the step of a boot changes as it goes on.
LEMMA BootGoesOn ==
    ASSUME Upgrade!TypeOK, NEW s \in Upgrade!Steps, Upgrade!Step(s)
    PROVE  /\ boot' \in BootRecords /\ boot'.step = s
           /\ boot'.release = boot.release /\ boot'.before = boot.before
           /\ boot'.failing = boot.failing /\ boot'.reapplied = boot.reapplied
BY DEF Upgrade!TypeOK, Upgrade!Step, BootRecords

\* No boot, no pool.
LEMMA DownIs ==
    /\ Upgrade!Down \in BootRecords
    /\ Upgrade!Down.step = "down" /\ ~Upgrade!Down.reapplied
    /\ Upgrade!Down.before = NoFile
    /\ Upgrade!NoPool \in [Connections -> {"on", "off", "closed"}]
BY UpgradeConstants
   DEF Upgrade!ReleaseAssumption, Upgrade!Down, Upgrade!NoPool, BootRecords,
       Upgrade!Steps, Upgrade!Versions

\* A pool that has just been opened enforces foreign keys.
LEMMA PoolOpens ==
    ASSUME Upgrade!OpenPool
    PROVE  /\ fk' \in [Connections -> {"on", "off", "closed"}]
           /\ \A c \in Connections : fk'[c] # "off"
<1>1. PICK q : q = (CHOOSE c \in Connections : TRUE) OBVIOUS
<1>2. fk' = [[c \in Connections |-> "closed"] EXCEPT ![q] = "on"]
  BY <1>1 DEF Upgrade!OpenPool, Upgrade!NoPool
<1> QED BY <1>2

\* What a boot found stays in its backup while the backups stay.
LEMMA BackedStays ==
    ASSUME Backed, UNCHANGED backups, boot'.before = boot.before PROVE Backed'
BY DEF Backed, Upgrade!Existing

\* Content of a database after one more migration, or a change by the shop.
LEMMA ContentGrows ==
    ASSUME NEW d \in Upgrade!Contents
    PROVE  /\ \A n \in 0 .. PlatformOf[Releases] :
                 [d EXCEPT !.plat = n] \in Upgrade!Contents
                 /\ [d EXCEPT !.plat = n].shop = d.shop
           /\ \A n \in 0 .. Releases : [d EXCEPT !.shop = n] \in Upgrade!Contents
           /\ \A n \in 0 .. Releases : [d EXCEPT !.rows = n] \in Upgrade!Contents
           /\ \A n \in {0, 1} : [d EXCEPT !.work = n] \in Upgrade!Contents
BY DEF Upgrade!Contents

\* No database, no boot.
LEMMA UpInit == Upgrade!Init => UpInv
<1> SUFFICES ASSUME Upgrade!Init PROVE UpInv
  OBVIOUS
<1>1. boot = Upgrade!Down /\ fk = Upgrade!NoPool BY DEF Upgrade!Init
<1>2. Upgrade!TypeOK BY <1>1, DownIs DEF Upgrade!Init, Upgrade!TypeOK, BootRecords
<1> QED BY <1>1, <1>2, DownIs DEF UpInv, BootOK

\* A boot that ends, by an error, a crash or nothing at all.
LEMMA UpDown ==
    ASSUME UpInv, boot' = Upgrade!Down, fk' = Upgrade!NoPool,
           UNCHANGED <<kind, db, backups, held>>
    PROVE  UpInv'
<1>1. Upgrade!TypeOK' BY DownIs DEF UpInv, Upgrade!TypeOK, BootRecords
<1>2. boot'.step = "down" /\ ~boot'.reapplied BY DownIs
<1> QED BY <1>1, <1>2 DEF UpInv, BootOK

\* The start of a boot.
LEMMA UpSetup ==
    ASSUME UpInv, NEW r \in Upgrade!Versions,
           Upgrade!SetupExisting(r) \/ Upgrade!SetupFresh(r)
    PROVE  UpInv'
<1> USE DEF UpInv
<1>1. CASE Upgrade!SetupExisting(r)
  <2>1. db \in Upgrade!Contents /\ UNCHANGED <<kind, db, backups, held, fk>>
        /\ boot' = [step |-> "backup", release |-> r, before |-> db,
                    failing |-> FALSE, reapplied |-> FALSE]
    BY <1>1 DEF Upgrade!SetupExisting, Upgrade!Down, Upgrade!TypeOK
  <2>2. Upgrade!TypeOK' BY <2>1 DEF Upgrade!TypeOK, Upgrade!Steps
  <2> QED BY <2>1, <2>2, UpgradeConstants DEF BootOK, Upgrade!ReleaseAssumption
<1>2. CASE Upgrade!SetupFresh(r)
  <2>1. /\ UNCHANGED <<kind, backups, held>> /\ db' = Upgrade!Empty /\ Upgrade!OpenPool
        /\ boot' = [step |-> "platform", release |-> r, before |-> NoFile,
                    failing |-> FALSE, reapplied |-> FALSE]
    BY <1>2 DEF Upgrade!SetupFresh, Upgrade!Down
  <2>2. Upgrade!Empty \in Upgrade!Contents
    BY UpgradeConstants
       DEF Upgrade!Empty, Upgrade!Contents, Upgrade!ReleaseAssumption, Upgrade!Versions
  <2>3. Upgrade!TypeOK' BY <2>1, <2>2, PoolOpens DEF Upgrade!TypeOK, Upgrade!Steps
  <2> QED BY <2>1, <2>2, <2>3, PoolOpens, UpgradeConstants
          DEF BootOK, Backed, Upgrade!ReleaseAssumption
<1> QED BY <1>1, <1>2

\* The backup of what the boot found.
LEMMA UpBackup == ASSUME UpInv, Upgrade!PreMigrationBackup PROVE UpInv'
<1> USE DEF UpInv
<1>1. boot.step = "backup" /\ UNCHANGED <<kind, db, held, fk>>
  BY DEF Upgrade!PreMigrationBackup
<1>2. db \in Upgrade!Contents /\ boot.before = db
  BY <1>1 DEF Upgrade!TypeOK, BootOK
<1>3. CASE db.shop = 0
  <2>1. Upgrade!Step("check") /\ UNCHANGED backups
    BY <1>3 DEF Upgrade!PreMigrationBackup
  <2>2. "check" \in Upgrade!Steps BY DEF Upgrade!Steps
  <2>3. Upgrade!TypeOK' BY <1>1, <2>1, <2>2, BootGoesOn DEF Upgrade!TypeOK, BootRecords
  <2>4. Backed' BY <1>2, <1>3, <2>1, <2>2, BootGoesOn DEF Backed
  <2> QED BY <1>1, <2>1, <2>2, <2>3, <2>4, BootGoesOn DEF BootOK
<1>4. CASE db.shop # 0
  <2>1. Upgrade!Step("rotate") /\ backups' = [backups EXCEPT ![db.shop] = db]
    BY <1>4 DEF Upgrade!PreMigrationBackup
  <2>2. "rotate" \in Upgrade!Steps BY DEF Upgrade!Steps
  <2>3. db.shop \in Upgrade!Versions
    BY <1>2, <1>4, UpgradeConstants
       DEF Upgrade!Contents, Upgrade!Versions, Upgrade!ReleaseAssumption
  <2>4. backups' \in [Upgrade!Versions -> Upgrade!Contents \cup {NoFile}]
        /\ backups'[db.shop] = db
    BY <1>2, <2>1, <2>3 DEF Upgrade!TypeOK
  <2>5. Upgrade!TypeOK' BY <1>1, <2>1, <2>2, <2>4, BootGoesOn DEF Upgrade!TypeOK, BootRecords
  <2> QED BY <1>1, <1>2, <2>1, <2>2, <2>3, <2>4, <2>5, BootGoesOn DEF BootOK
<1> QED BY <1>3, <1>4

\* The rotation leaves the backup that was just made, or its fill of newer ones.
LEMMA UpRotate == ASSUME UpInv, Upgrade!RotateBackups PROVE UpInv'
<1> USE DEF UpInv
<1> DEFINE E == Upgrade!Existing
           N == Upgrade!NewestOf(E, KeepBackups)
           s == boot.before.shop
<1>1. boot.step = "rotate" /\ UNCHANGED <<kind, db, held, fk>> /\ Upgrade!Step("check")
  BY DEF Upgrade!RotateBackups
<1>2. PICK stuck \in SUBSET (E \ N) :
         backups' = [v \in Upgrade!Versions |-> IF v \in N \cup stuck THEN backups[v] ELSE NoFile]
  BY DEF Upgrade!RotateBackups
<1>3. "check" \in Upgrade!Steps BY DEF Upgrade!Steps
<1>4. E \in SUBSET Upgrade!Versions /\ N \subseteq E
  BY DEF Upgrade!Existing, Upgrade!NewestOf
<1>5. \A v \in E : backups[v] # NoFile BY DEF Upgrade!Existing
<1>6. s \in E /\ backups[s] = boot.before /\ boot.before # NoFile
  BY <1>1 DEF BootOK, Upgrade!Existing
<1>7. Upgrade!Existing' = N \cup stuck
  BY <1>2, <1>4, <1>5 DEF Upgrade!Existing
<1> HIDE DEF E, N, s
<1>8. backups' \in [Upgrade!Versions -> Upgrade!Contents \cup {NoFile}]
  BY <1>2 DEF Upgrade!TypeOK
<1>9. CASE s \in N
  <2>1. s \in Upgrade!Versions /\ backups'[s] = boot.before BY <1>2, <1>4, <1>6, <1>9
  <2> QED BY <1>1, <1>3, <1>8, <2>1, BootGoesOn
          DEF s, BootOK, Backed, Upgrade!TypeOK, BootRecords
<1>10. CASE s \notin N
  <2>1. Cardinality({v \in N : v > s}) >= KeepBackups
    BY <1>4, <1>6, <1>10, RotationKeeps DEF N
  <2>2. /\ {v \in Upgrade!Existing' : v > s} \in SUBSET Upgrade!Versions
        /\ {v \in N : v > s} \subseteq {v \in Upgrade!Existing' : v > s}
    BY <1>4, <1>7
  <2>3. Cardinality({v \in N : v > s}) <= Cardinality({v \in Upgrade!Existing' : v > s})
    BY <2>2, VersionsFinite, FS_Subset
  <2>4. Cardinality({v \in N : v > s}) \in Nat
        /\ Cardinality({v \in Upgrade!Existing' : v > s}) \in Nat
    BY <1>4, <2>2, VersionsFinite
  <2>5. Cardinality({v \in Upgrade!Existing' : v > s}) >= KeepBackups
    BY <2>1, <2>3, <2>4, UpgradeConstants DEF Upgrade!ReleaseAssumption
  <2>6. boot'.before.shop = s /\ boot'.step = "check" /\ ~boot'.reapplied
    BY <1>1, <1>3, BootGoesOn DEF s, BootOK
  <2>7. Backed' BY <2>5, <2>6 DEF Backed
  <2>8. Upgrade!TypeOK' BY <1>1, <1>3, <1>8, BootGoesOn DEF Upgrade!TypeOK, BootRecords
  <2> QED BY <1>1, <2>6, <2>7, <2>8 DEF BootOK
<1> QED BY <1>9, <1>10

\* The check lets the boot go on, or replaces the demo database.
LEMMA UpCheck ==
    ASSUME UpInv, Upgrade!SchemaKnown \/ Upgrade!ResetDemo PROVE UpInv'
<1> USE DEF UpInv
<1>1. CASE Upgrade!SchemaKnown
  <2>1. /\ boot.step = "check" /\ Upgrade!Step("platform") /\ Upgrade!OpenPool
        /\ UNCHANGED <<kind, db, backups, held>>
    BY <1>1 DEF Upgrade!SchemaKnown
  <2>2. "platform" \in Upgrade!Steps BY DEF Upgrade!Steps
  <2>3. Upgrade!TypeOK' BY <2>1, <2>2, BootGoesOn, PoolOpens DEF Upgrade!TypeOK, BootRecords
  <2>4. Backed' BY <2>1, <2>2, BootGoesOn, BackedStays DEF BootOK
  <2> QED BY <2>1, <2>2, <2>3, <2>4, BootGoesOn, PoolOpens DEF BootOK
<1>2. CASE Upgrade!ResetDemo
  <2> DEFINE d == Upgrade!Bundled(boot.release)
  <2>1. /\ boot.step = "check" /\ db' = d
        /\ boot' = [boot EXCEPT !.step = "backup", !.before = d]
        /\ UNCHANGED <<kind, backups, held, fk>>
    BY <1>2 DEF Upgrade!ResetDemo
  <2>2. d \in Upgrade!Contents
    <3>1. boot.release \in Upgrade!Versions /\ Releases \in Upgrade!Versions
      BY UpgradeConstants DEF Upgrade!TypeOK, Upgrade!Versions, Upgrade!ReleaseAssumption
    <3>2. PlatformOf[boot.release] \in 0 .. PlatformOf[Releases]
      BY <3>1, UpgradeConstants DEF Upgrade!Versions, Upgrade!ReleaseAssumption
    <3>3. boot.release \in 0 .. Releases /\ 0 \in 0 .. Releases
      BY <3>1 DEF Upgrade!Versions
    <3> QED BY <3>2, <3>3 DEF Upgrade!Bundled, Upgrade!Contents
  <2> HIDE DEF d
  <2>3. /\ boot' \in BootRecords /\ boot'.step = "backup" /\ boot'.before = d
        /\ boot'.reapplied = boot.reapplied
    BY <2>1, <2>2 DEF Upgrade!TypeOK, Upgrade!Steps, BootRecords
  <2>4. Upgrade!TypeOK' BY <2>1, <2>2, <2>3 DEF Upgrade!TypeOK, BootRecords
  <2> QED BY <2>1, <2>2, <2>3, <2>4, UpgradeConstants DEF BootOK, Upgrade!ReleaseAssumption
<1> QED BY <1>1, <1>2

\* The platform's migrations.
LEMMA UpPlatform ==
    ASSUME UpInv,
           \/ Upgrade!ForeignKeysOff \/ Upgrade!NothingToApply \/ Upgrade!ApplySingle
           \/ Upgrade!BatchEnds \/ Upgrade!CycleForeignKeys
    PROVE  UpInv'
<1> USE DEF UpInv
<1>0. {"migrating", "shop", "cycle"} \subseteq Upgrade!Steps BY DEF Upgrade!Steps
<1>1. CASE Upgrade!ForeignKeysOff
  <2>1. /\ boot.step = "platform" /\ Upgrade!Step("migrating")
        /\ \E c \in Connections : fk' = [fk EXCEPT ![c] = "off"]
        /\ UNCHANGED <<kind, db, backups, held>>
    BY <1>1 DEF Upgrade!ForeignKeysOff
  <2>2. fk' \in [Connections -> {"on", "off", "closed"}] BY <2>1 DEF Upgrade!TypeOK
  <2>3. Upgrade!TypeOK' BY <1>0, <2>1, <2>2, BootGoesOn DEF Upgrade!TypeOK, BootRecords
  <2>4. Backed' BY <1>0, <2>1, BootGoesOn, BackedStays DEF BootOK
  <2> QED BY <1>0, <2>1, <2>3, <2>4, BootGoesOn DEF BootOK
<1>2. CASE Upgrade!NothingToApply
  <2>1. /\ boot.step = "platform" /\ Upgrade!Step("shop")
        /\ UNCHANGED <<kind, db, backups, held, fk>>
    BY <1>2 DEF Upgrade!NothingToApply
  <2>2. Upgrade!TypeOK' BY <1>0, <2>1, BootGoesOn DEF Upgrade!TypeOK, BootRecords
  <2>3. Backed' BY <1>0, <2>1, BootGoesOn, BackedStays DEF BootOK
  <2> QED BY <1>0, <2>1, <2>2, <2>3, BootGoesOn DEF BootOK
<1>3. CASE Upgrade!ApplySingle
  <2>1. /\ boot.step = "migrating" /\ db.plat < PlatformOf[boot.release]
        /\ db' = [db EXCEPT !.plat = db.plat + 1]
        /\ \E c \in Connections : fk' = Upgrade!Acquired(c)
        /\ UNCHANGED <<kind, backups, held, boot>>
    BY <1>3 DEF Upgrade!ApplySingle
  <2>2. db \in Upgrade!Contents BY <2>1 DEF Upgrade!TypeOK, BootOK
  <2>3. db.plat + 1 \in 0 .. PlatformOf[Releases]
    <3>1. boot.release \in Upgrade!Versions /\ Releases \in Upgrade!Versions
          /\ boot.release <= Releases
      BY UpgradeConstants DEF Upgrade!TypeOK, Upgrade!Versions, Upgrade!ReleaseAssumption
    <3>2. PlatformOf[boot.release] \in Nat /\ PlatformOf[Releases] \in Nat
          /\ PlatformOf[boot.release] <= PlatformOf[Releases]
      BY <3>1, UpgradeConstants DEF Upgrade!ReleaseAssumption
    <3>3. db.plat \in Nat BY <2>2, <3>2 DEF Upgrade!Contents
    <3> QED BY <2>1, <3>2, <3>3
  <2>4. db' \in Upgrade!Contents BY <2>1, <2>2, <2>3, ContentGrows
  <2>5. fk' \in [Connections -> {"on", "off", "closed"}]
    BY <2>1 DEF Upgrade!Acquired, Upgrade!TypeOK
  <2>6. Upgrade!TypeOK' BY <2>1, <2>4, <2>5 DEF Upgrade!TypeOK
  <2>7. Backed' BY <2>1, BackedStays DEF BootOK
  <2> QED BY <2>1, <2>4, <2>6, <2>7, UpgradeConstants DEF BootOK, Upgrade!ReleaseAssumption
<1>4. CASE Upgrade!BatchEnds
  <2>1. /\ boot.step = "migrating"
        /\ boot' = [boot EXCEPT !.step = "cycle",
                                !.failing = db.plat < PlatformOf[boot.release]]
        /\ UNCHANGED <<kind, db, backups, held, fk>>
    BY <1>4 DEF Upgrade!BatchEnds
  <2>5. \/ (db.plat < PlatformOf[boot.release]) = TRUE
        \/ (db.plat < PlatformOf[boot.release]) = FALSE
    OBVIOUS
  <2>6. PICK f \in BOOLEAN : boot' = [boot EXCEPT !.step = "cycle", !.failing = f]
    BY <2>1, <2>5
  <2>2. /\ boot' \in BootRecords /\ boot'.step = "cycle" /\ boot'.before = boot.before
        /\ boot'.reapplied = boot.reapplied
    BY <1>0, <2>6 DEF Upgrade!TypeOK, BootRecords
  <2>3. Upgrade!TypeOK' BY <2>1, <2>2 DEF Upgrade!TypeOK, BootRecords
  <2>4. Backed' BY <2>1, <2>2, BackedStays DEF BootOK
  <2> QED BY <2>1, <2>2, <2>3, <2>4 DEF BootOK
<1>5. CASE Upgrade!CycleForeignKeys
  <2>1. /\ boot.step = "cycle" /\ Upgrade!Step("shop")
        /\ fk' = [c \in Connections |-> "on"]
        /\ UNCHANGED <<kind, db, backups, held>>
    BY <1>5 DEF Upgrade!CycleForeignKeys
  <2>2. fk' \in [Connections -> {"on", "off", "closed"}] BY <2>1
  <2>3. Upgrade!TypeOK' BY <1>0, <2>1, <2>2, BootGoesOn DEF Upgrade!TypeOK, BootRecords
  <2>4. Backed' BY <1>0, <2>1, BootGoesOn, BackedStays DEF BootOK
  <2> QED BY <1>0, <2>1, <2>3, <2>4, BootGoesOn DEF BootOK
<1> QED BY <1>1, <1>2, <1>3, <1>4, <1>5

\* The shop's migrations, the second pass, and the work that follows.
LEMMA UpShop ==
    ASSUME UpInv,
           \/ Upgrade!ShopMigration \/ Upgrade!ShopDone \/ Upgrade!SecondPass \/ Upgrade!Work
    PROVE  UpInv'
<1> USE DEF UpInv
<1>0. {"second", "serving"} \subseteq Upgrade!Steps BY DEF Upgrade!Steps
<1>1. CASE Upgrade!ShopMigration
  <2>1. /\ boot.step = "shop" /\ db.shop < boot.release
        /\ db' = [db EXCEPT !.shop = db.shop + 1]
        /\ UNCHANGED <<kind, backups, held, boot, fk>>
    BY <1>1 DEF Upgrade!ShopMigration
  <2>2. db \in Upgrade!Contents BY <2>1 DEF Upgrade!TypeOK, BootOK
  <2>3. db.shop + 1 \in 0 .. Releases
    <3>1. boot.release \in 1 .. Releases BY DEF Upgrade!TypeOK, Upgrade!Versions
    <3>2. db.shop \in 0 .. Releases BY <2>2 DEF Upgrade!Contents
    <3>3. Releases \in Nat BY UpgradeConstants DEF Upgrade!ReleaseAssumption
    <3> QED BY <2>1, <3>1, <3>2, <3>3
  <2>4. db' \in Upgrade!Contents BY <2>1, <2>2, <2>3, ContentGrows
  <2>5. Upgrade!TypeOK' BY <2>1, <2>4 DEF Upgrade!TypeOK
  <2>6. Backed' BY <2>1, BackedStays DEF BootOK
  <2> QED BY <2>1, <2>4, <2>5, <2>6, UpgradeConstants DEF BootOK, Upgrade!ReleaseAssumption
<1>2. CASE Upgrade!ShopDone
  <2>1. /\ boot.step = "shop" /\ db.shop = boot.release /\ Upgrade!Step("second")
        /\ UNCHANGED <<kind, db, backups, held, fk>>
    BY <1>2 DEF Upgrade!ShopDone
  <2>2. Upgrade!TypeOK' BY <1>0, <2>1, BootGoesOn DEF Upgrade!TypeOK, BootRecords
  <2>3. Backed' BY <1>0, <2>1, BootGoesOn, BackedStays DEF BootOK
  <2> QED BY <1>0, <2>1, <2>2, <2>3, BootGoesOn DEF BootOK
<1>3. CASE Upgrade!SecondPass
  <2>1. /\ boot.step = "second" /\ db' = Upgrade!Backfill(db)
        /\ boot' = [boot EXCEPT !.step = "serving",
                                !.reapplied = Upgrade!Backfill(db).rows < boot.release]
        /\ UNCHANGED <<kind, backups, held, fk>>
    BY <1>3 DEF Upgrade!SecondPass
  <2>2. db \in Upgrade!Contents /\ db.shop = boot.release
    BY <2>1 DEF Upgrade!TypeOK, BootOK
  <2>3. db.rows \in 0 .. Releases /\ db.shop \in 0 .. Releases
    BY <2>2 DEF Upgrade!Contents
  <2>4. PICK n \in 0 .. Releases : n = IF db.rows < db.shop THEN db.shop ELSE db.rows
    BY <2>3
  <2>5. db' = [db EXCEPT !.rows = n] BY <2>1, <2>4 DEF Upgrade!Backfill
  <2>6. db' \in Upgrade!Contents /\ db'.rows = n
    BY <2>2, <2>5, ContentGrows DEF Upgrade!Contents
  <2>7. ~(n < boot.release) BY <2>2, <2>3, <2>4
  <2>11. (Upgrade!Backfill(db).rows < boot.release) = FALSE BY <2>1, <2>6, <2>7
  <2>12. boot' = [boot EXCEPT !.step = "serving", !.reapplied = FALSE] BY <2>1, <2>11
  <2>8. /\ boot' \in BootRecords /\ boot'.step = "serving" /\ boot'.before = boot.before
        /\ ~boot'.reapplied
    BY <1>0, <2>12 DEF Upgrade!TypeOK, BootRecords
  <2>9. Upgrade!TypeOK' BY <2>1, <2>6, <2>8 DEF Upgrade!TypeOK, BootRecords
  <2>10. Backed' BY <2>1, <2>8, BackedStays DEF BootOK
  <2> QED BY <2>1, <2>6, <2>8, <2>9, <2>10, UpgradeConstants
          DEF BootOK, Upgrade!ReleaseAssumption
<1>4. CASE Upgrade!Work
  <2>1. /\ boot.step = "serving" /\ db' = [db EXCEPT !.work = 1 - db.work]
        /\ UNCHANGED <<kind, backups, held, boot, fk>>
    BY <1>4 DEF Upgrade!Work
  <2>2. db \in Upgrade!Contents BY <2>1 DEF Upgrade!TypeOK, BootOK
  <2>3. 1 - db.work \in {0, 1} BY <2>2 DEF Upgrade!Contents
  <2>4. db' \in Upgrade!Contents BY <2>1, <2>2, <2>3, ContentGrows
  <2>5. Upgrade!TypeOK' BY <2>1, <2>4 DEF Upgrade!TypeOK
  <2>6. Backed' BY <2>1, BackedStays DEF BootOK
  <2> QED BY <2>1, <2>4, <2>5, <2>6, UpgradeConstants DEF BootOK, Upgrade!ReleaseAssumption
<1> QED BY <1>1, <1>2, <1>3, <1>4

\* The operator keeps a copy and puts one back.
LEMMA UpOperator ==
    ASSUME UpInv, Upgrade!BackupCommand \/ Upgrade!RestoreCommand PROVE UpInv'
<1> USE DEF UpInv
<1>1. CASE Upgrade!BackupCommand
  <2>1. held' = db /\ UNCHANGED <<kind, db, backups, boot, fk>>
    BY <1>1 DEF Upgrade!BackupCommand
  <2>2. Upgrade!TypeOK' BY <2>1 DEF Upgrade!TypeOK
  <2> QED BY <2>1, <2>2 DEF BootOK, Backed, Upgrade!Existing
<1>2. CASE Upgrade!RestoreCommand
  <2>1. /\ boot = Upgrade!Down /\ UNCHANGED <<kind, backups, held, boot, fk>>
        /\ db' \in {held} \cup {backups[v] : v \in Upgrade!Versions}
    BY <1>2 DEF Upgrade!RestoreCommand
  <2>2. Upgrade!TypeOK' BY <2>1 DEF Upgrade!TypeOK
  <2> QED BY <2>1, <2>2, DownIs DEF BootOK
<1> QED BY <1>1, <1>2

\* Every step of the composition keeps it.
LEMMA UpStep == UpInv /\ [MCNext]_allVars => UpInv'
<1> SUFFICES ASSUME UpInv, [MCNext]_allVars PROVE UpInv'
  OBVIOUS
<1>1. CASE UNCHANGED upgradeVars
  BY <1>1 DEF upgradeVars, UpInv, Upgrade!TypeOK, BootOK, Backed, Upgrade!Existing
<1>2. CASE UpgradeNext
  <2>1. CASE Upgrade!BackupFails \/ Upgrade!SchemaIncompatible \/ Upgrade!MigrationFails
             \/ Upgrade!Crash
    BY <2>1, UpDown
       DEF Upgrade!BackupFails, Upgrade!SchemaIncompatible, Upgrade!MigrationFails,
           Upgrade!Crash, Upgrade!Refuse
  <2> QED BY <1>2, <2>1, UpSetup, UpBackup, UpRotate, UpCheck, UpPlatform, UpShop, UpOperator
          DEF UpgradeNext
<1>3. UpgradeNext \/ UNCHANGED upgradeVars BY DEF MCNext, Only, allVars
<1> QED BY <1>1, <1>2, <1>3

\* UpgradeSound, for any releases, platform migrations and rotation (ProfileUpgrade): a
\* boot that may have migrated a database leaves its content in the pre-migration backup
\* unless the rotation holds its fill of newer ones; no second runner applies a migration
\* again, and no server works with a connection that does not enforce foreign keys.
THEOREM UpgradesSafe == MCSpec => []UpgradeSound
<1>1. MCInit => UpInv BY UpInit DEF MCInit
<1>2. UpInv => UpgradeSound
  <2> SUFFICES ASSUME UpInv PROVE UpgradeSound
    OBVIOUS
  <2>1. Upgrade!BackedUp
    BY SameCount DEF UpInv, BootOK, Backed, Upgrade!BackedUp, Upgrade!Migrating
  <2>2. Upgrade!PoolEnforced BY DEF UpInv, BootOK, Upgrade!PoolEnforced
  <2> QED BY <2>1, <2>2 DEF UpInv, BootOK, Upgrade!NeverReapplied, UpgradeSound
<1> QED BY <1>1, <1>2, UpStep, PTL DEF MCSpec


-----------------------------------------------------------------------------
\* The types of every component, and the legacy upgrade among the others.

\* The composition steps as the legacy upgrade does, or leaves it alone.
LEMMA LegacyInside == MCSpec => Spec
<1>1. MCInit => Init BY DEF MCInit
<1>2. [MCNext]_allVars => [Next]_vars
  <2> SUFFICES ASSUME [MCNext]_allVars PROVE [Next]_vars
    OBVIOUS
  <2>1. LegacyNext \/ UNCHANGED vars BY DEF MCNext, Only, allVars
  <2>2. CASE LegacyNext BY <2>2 DEF LegacyNext, Next
  <2> QED BY <2>1, <2>2
<1> QED BY <1>1, <1>2, PTL DEF MCSpec, Spec

\* Beside everything else that boots and runs, the upgrade loses no account, recognises
\* its own unfinished work and implements AccountMove.
THEOREM UpgradeAmongOthers ==
    MCSpec => [](AccountsKept /\ OwnCrashesRecovered) /\ MovesOnce
BY LegacyInside, AccountsSafe, RecoverySafe, Refinement, PTL

\* The pools and the token of a boot.
BootMemory == pools \in [Booting!Kinds -> Nat \cup {None}] /\ token \in {None, "token"}

\* Every step of the composition keeps their types.
LEMMA BootMemoryStep == BootInv /\ BootMemory /\ [MCNext]_allVars => BootMemory'
<1> SUFFICES ASSUME BootInv, BootMemory, [MCNext]_allVars PROVE BootMemory'
  OBVIOUS
<1>1. CASE UNCHANGED bootVars BY <1>1 DEF bootVars, BootMemory
<1>2. CASE Booting!Next
  <2>1. CASE UNCHANGED <<pools, token>> BY <2>1 DEF BootMemory
  <2>2. CASE Booting!SetUpProfile
    <3>1. PICK turn \in Booting!Kinds : turn = Booting!Turn
      BY TwoProfiles DEF Booting!Turn, BootInv
    <3>2. pools' = [pools EXCEPT ![turn] = paths[turn].copy] /\ token' = token
      BY <2>2, <3>1 DEF Booting!SetUpProfile
    <3>3. paths[turn].copy \in Nat BY DEF BootInv, BootTypeOK
    <3> QED BY <3>2, <3>3 DEF BootMemory
  <2>3. CASE Booting!Serve BY <2>3 DEF Booting!Serve, Booting!Resolved, BootMemory
  <2>4. CASE Booting!Refuse \/ Booting!Stops
    BY <2>4 DEF Booting!Refuse, Booting!Stops, Booting!Down, BootMemory
  <2> QED BY <1>2, <2>1, <2>2, <2>3, <2>4
          DEF Booting!Next, Booting!BootStep, Booting!Launch, Booting!CopyFlat,
              Booting!CreatePointer, Booting!WritePointer, Booting!RemoveFlat, Booting!CopySidecar,
              Booting!SidecarCopied, Booting!ResetNewerDemo, Booting!InitSession,
              Booting!DispatchBootState, Booting!MigrateProfiles, Booting!ValidateKinds,
              Booting!RepairSidecars, Booting!Meddle, Booting!memory
<1>3. Booting!Next \/ UNCHANGED bootVars BY DEF MCNext, Only, allVars
<1> QED BY <1>1, <1>2, <1>3

\* A migration belongs to the engine or the shop, and its tables are among all tables.
LEMMA MigrationsAre ==
    /\ \A m \in Migration!AllMigrations :
          /\ Migration!Key(m) \in {"kikan", Migration!Engine, Migration!Shop}
                                    \X {n.name : n \in Migration!AllMigrations}
          /\ m.name \in {n.name : n \in Migration!AllMigrations}
          /\ m.creates \subseteq Migration!TablesOf(Migration!AllMigrations)
          /\ m.ensures \subseteq Migration!TablesOf(Migration!AllMigrations)
    /\ \A M \in SUBSET Migration!AllMigrations :
          Migration!TablesOf(M) \subseteq Migration!TablesOf(Migration!AllMigrations)
    /\ Migration!Relabelled \subseteq Migration!AllMigrations
    /\ Migration!PreStage3 \subseteq Migration!AllMigrations
    /\ Migration!ShopMigrations \subseteq Migration!AllMigrations
    /\ Migration!PlatformMigrations \subseteq Migration!AllMigrations
<1>1. \A m \in Migration!PlatformMigrations : m.graft = Migration!Engine
  BY DEF Migration!PlatformMigrations, Migration!Platform, Migration!CreateMetaProfiles,
     Migration!PartitionLegacyHistory, Migration!CreateMetaActivityLog,
     Migration!CreateLegacyUpgradeLocks, Migration!UsersAndRoles, Migration!ShopSettings,
     Migration!ProfileUserRoles, Migration!PreventLastAdminDeactivation,
     Migration!ActiveIntegrations, Migration!IntegrationEventLog
<1>2. \A m \in Migration!ShopMigrations : m.graft = Migration!Shop
  BY DEF Migration!ShopMigrations, Migration!OfShop, Migration!InitMigration,
     Migration!Settings, Migration!NumberSequences, Migration!CustomersAndActivity,
     Migration!CustomersDeletedAtIndex, Migration!SetPragmas, Migration!LoginLockout,
     Migration!ActivityLogCompositeIndex
<1>3. /\ Migration!Relabelled \subseteq Migration!PlatformMigrations
      /\ Migration!PreStage3 \subseteq Migration!AllMigrations
  BY DEF Migration!Relabelled, Migration!PreStage3, Migration!PlatformMigrations,
     Migration!ShopMigrations, Migration!AllMigrations
<1> QED BY <1>1, <1>2, <1>3 DEF Migration!AllMigrations, Migration!Key, Migration!TablesOf

\* The first state of a database, whatever history it has.
LEMMA MigrationInit == Migration!Init => Migration!TypeOK
BY MigrationsAre DEF Migration!Init, Migration!TypeOK

\* A pass is planned from the migrations there are.
LEMMA MigrationBegin ==
    ASSUME Migration!TypeOK, NEW p \in {"platform", "seaorm", "meta", "profile"},
           Migration!Begin(p)
    PROVE  Migration!TypeOK'
<1>1. Migration!Considered(p) \subseteq Migration!AllMigrations
  BY MigrationsAre DEF Migration!Considered
<1>2. plan' \subseteq Migration!AllMigrations
  BY <1>1, MigrationsAre DEF Migration!Begin
<1>3. rows' \subseteq {"kikan", Migration!Engine, Migration!Shop}
                        \X {m.name : m \in Migration!AllMigrations}
  BY DEF Migration!Begin, Migration!Backfilled, Migration!TypeOK
<1> QED BY <1>2, <1>3 DEF Migration!Begin, Migration!TypeOK

\* A migration adds its tables and its row.
LEMMA MigrationApply ==
    ASSUME Migration!TypeOK, NEW m \in plan, Migration!Apply(m) \/ Migration!Fail(m)
    PROVE  Migration!TypeOK'
<1>1. m \in Migration!AllMigrations BY DEF Migration!TypeOK
<1>2. CASE Migration!Apply(m)
  <2>1. schema' \subseteq Migration!TablesOf(Migration!AllMigrations)
    BY <1>1, <1>2, MigrationsAre DEF Migration!Apply, Migration!TypeOK
  <2>2. Migration!Recorded(m) \subseteq {"kikan", Migration!Engine, Migration!Shop}
                                          \X {n.name : n \in Migration!AllMigrations}
    BY <1>1, MigrationsAre DEF Migration!Recorded, Migration!Relabel, Migration!TypeOK
  <2> QED BY <1>1, <1>2, <2>1, <2>2, MigrationsAre DEF Migration!Apply, Migration!TypeOK
<1>3. CASE Migration!Fail(m) BY <1>3 DEF Migration!Fail, Migration!TypeOK
<1> QED BY <1>2, <1>3

\* Every step of the composition keeps the types of the migrations.
LEMMA MigrationStep == Migration!TypeOK /\ [MCNext]_allVars => Migration!TypeOK'
<1> SUFFICES ASSUME Migration!TypeOK, [MCNext]_allVars PROVE Migration!TypeOK'
  OBVIOUS
<1>1. CASE UNCHANGED migrationVars BY <1>1 DEF migrationVars, Migration!TypeOK
<1>2. CASE MigrationNext
  <2>1. CASE Migration!StartUp
    BY <2>1, MigrationBegin DEF Migration!StartUp, Migration!FirstPass
  <2>2. CASE Migration!NextPass
    <3>1. CASE Migration!After(pass) = "serving"
      BY <2>2, <3>1 DEF Migration!NextPass, Migration!History, Migration!TypeOK
    <3>2. CASE Migration!After(pass) # "serving"
      BY <2>2, <3>2, MigrationBegin DEF Migration!NextPass, Migration!Running, Migration!After
    <3> QED BY <3>1, <3>2
  <2>3. CASE Migration!Crash
    BY <2>3 DEF Migration!Crash, Migration!History, Migration!TypeOK
  <2> QED BY <1>2, <2>1, <2>2, <2>3, MigrationApply DEF MigrationNext
<1>3. MigrationNext \/ UNCHANGED migrationVars BY DEF MCNext, Only, allVars
<1> QED BY <1>1, <1>2, <1>3

\* The types of all components hold together, for any values of the constants.
THEOREM TypesHold == MCSpec => []TypesOK
<1>1. MCInit => /\ UpInv /\ Migration!TypeOK /\ CopyInv /\ BundleInv /\ RestoreInv
                /\ LogoInv /\ BootInv /\ BootMemory
  <2>1. Booting!Init => BootMemory BY DEF Booting!Init, BootMemory
  <2> QED BY <2>1, UpInit, MigrationInit, CopyInit, BundleInit, RestoreInit, LogoInit, BootInit
          DEF MCInit
<1>2. ASSUME TypeOK, UpInv, Migration!TypeOK, CopyInv, BundleInv, RestoreInv, LogoInv,
             BootInv, BootMemory
      PROVE  TypesOK
  <2>1. Bundle!TypeOK
    <3>1. Len(job.names) \in Nat BY <1>2, ListsAre DEF BundleInv, JobOK
    <3> QED BY <1>2, <3>1 DEF BundleInv, JobOK, BundleOK, Lives, Bundle!TypeOK
  <2>2. Booting!TypeOK BY <1>2 DEF BootInv, BootTypeOK, BootMemory, Booting!TypeOK
  <2> QED BY <1>2, <2>1, <2>2 DEF UpInv, CopyInv, RestoreInv, LogoInv, TypesOK
<1> QED BY <1>1, <1>2, LegacyInside, TypeCorrect, UpStep, MigrationStep, CopyStep, BundleStep,
        RestoreStep, LogoStep, BootStep, BootMemoryStep, PTL DEF MCSpec
-----------------------------------------------------------------------------
\* The order of the migrations.

\* What kahn_sort has established before each turn: the counts are of the entries whose
\* migration is still missing, the heap holds what misses nothing, and once a migration of
\* a profile is placed none of meta.db is ready any more.
Missing(i) == Order!Entries(i, Order!Indexes \ Order!Placed)
Counted ==
    /\ \A i \in Order!Indexes : inDegree[i] = Cardinality(Missing(i))
    /\ heap = {i \in Order!Indexes \ Order!Placed : Order!Needs(i) \subseteq Order!Placed}
    /\ Cardinality(Order!Placed) = Len(result)
InOrder ==
    \A n \in 1 .. Len(result) : \A j \in Order!Needs(result[n]) :
        \E k \in 1 .. n - 1 : result[k] = j
MetaFirst ==
    /\ \A n, k \in 1 .. Len(result) :
          target[result[n]] = Order!Meta /\ target[result[k]] = Order!PerProfile => n < k
    /\ \A k \in 1 .. Len(result) :
          target[result[k]] = Order!PerProfile => \A i \in heap : target[i] # Order!Meta

OrderTypeOK ==
    /\ target \in [Order!Indexes -> {Order!Meta, Order!PerProfile}]
    /\ stage \in {"check", "sort", "done", "refused"}
    /\ result \in Seq(Order!Indexes)
    /\ \A i \in Order!Indexes : IsFiniteSet(DOMAIN deps[i])

OrderInv ==
    /\ OrderTypeOK
    /\ stage = "check" => result = <<>>
    /\ stage \in {"sort", "done"} =>
          ~Order!Duplicates /\ ~Order!CrossTarget /\ Counted /\ InOrder /\ MetaFirst
    /\ stage = "done" => Len(result) = Count
    /\ Order!RefusedForCause

\* The migrations are finitely many, and so are the sets of them. DependencyOrder counts
\* as this module does.
LEMMA IndexesFinite ==
    /\ IsFiniteSet(Order!Indexes) /\ Cardinality(Order!Indexes) = Count /\ Count \in Nat
    /\ \A S \in SUBSET Order!Indexes : IsFiniteSet(S) /\ Cardinality(S) \in Nat
    /\ \A S : Order!Cardinality(S) = Cardinality(S)
<1>1. Count \in Nat BY OrderConstants DEF Order!RefsAssumption
<1>2. IsFiniteSet(1 .. Count) /\ Cardinality(1 .. Count) = Count BY <1>1, FS_Interval
<1>3. \A S \in SUBSET (1 .. Count) : IsFiniteSet(S) /\ Cardinality(S) \in Nat
  BY <1>2, FS_Subset, FS_CardinalityType
<1>4. \A S : Order!Cardinality(S) = Cardinality(S) BY DEF Order!Cardinality, Cardinality
<1> QED BY <1>1, <1>2, <1>3, <1>4 DEF Order!Indexes

\* Nothing is placed before the sort.
LEMMA OrderInit == Order!Init => OrderInv
<1> SUFFICES ASSUME Order!Init PROVE OrderInv
  OBVIOUS
<1>1. ASSUME NEW i \in Order!Indexes PROVE IsFiniteSet(DOMAIN deps[i])
  <2>0. deps[i] \in Order!Lists BY DEF Order!Init
  <2>1. PICK n \in 0 .. MaxDeps : deps[i] \in [1 .. n -> Refs] BY <2>0 DEF Order!Lists
  <2>2. n \in Nat BY <2>1, OrderConstants DEF Order!RefsAssumption
  <2> QED BY <2>1, <2>2, FS_Interval
<1> QED BY <1>1, EmptySeq DEF Order!Init, OrderInv, OrderTypeOK, Order!RefusedForCause

\* An entry names one migration, and a migration is needed when an entry names it.
LEMMA EntriesNeed ==
    /\ \A i, j : j \in Order!Needs(i) <=> j \in Order!Indexes /\ Order!Entries(i, {j}) # {}
    /\ \A i, S : /\ S \subseteq Order!Indexes =>
                      (Order!Entries(i, S) = {} <=> Order!Needs(i) \cap S = {})
                 /\ Order!Entries(i, S) \subseteq DOMAIN deps[i]
BY DEF Order!Entries, Order!Needs

\* So a migration misses nothing when what it needs is placed.
LEMMA NothingMissing ==
    ASSUME Order!Placed \subseteq Order!Indexes
    PROVE  \A i : Missing(i) = {} <=> Order!Needs(i) \subseteq Order!Placed
<1> SUFFICES ASSUME NEW i PROVE Missing(i) = {} <=> Order!Needs(i) \subseteq Order!Placed
  OBVIOUS
<1>1. Missing(i) = {} <=> Order!Needs(i) \cap (Order!Indexes \ Order!Placed) = {}
  BY EntriesNeed DEF Missing
<1>2. Order!Needs(i) \subseteq Order!Indexes BY EntriesNeed
<1> QED BY <1>1, <1>2

\* The steps that leave the registered migrations as they are keep what they need.
LEMMA OrderGiven ==
    ASSUME UNCHANGED <<target, ref, deps>>
    PROVE  /\ \A i : Order!Needs(i)' = Order!Needs(i)
           /\ \A i : Missing(i)' = Order!Entries(i, Order!Indexes \ Order!Placed')
           /\ Order!Cause' = Order!Cause /\ Order!CrossTarget' = Order!CrossTarget
           /\ Order!Duplicates' = Order!Duplicates /\ Order!Dangling' = Order!Dangling
BY DEF Order!Needs, Order!Entries, Missing, Order!Cause, Order!CrossTarget, Order!Duplicates, Order!Dangling

\* So do those that leave the order so far, what is ready and the counts.
LEMMA OrderKeeps ==
    ASSUME UNCHANGED <<target, ref, deps>>, UNCHANGED <<inDegree, heap, result>>,
           Order!Placed' = Order!Placed
    PROVE  /\ Counted => Counted'
           /\ InOrder => InOrder'
           /\ MetaFirst => MetaFirst'
<1>1. \A i : Order!Needs(i)' = Order!Needs(i) BY OrderGiven
<1>2. Counted => Counted'
  <2>1. \A i : Missing(i)' = Missing(i) BY OrderGiven DEF Missing
  <2> QED BY <1>1, <2>1 DEF Counted
<1>3. InOrder => InOrder' BY <1>1 DEF InOrder
<1>4. MetaFirst => MetaFirst' BY DEF MetaFirst
<1> QED BY <1>2, <1>3, <1>4

\* At the start of the sort whatever needs nothing is ready.
LEMMA OrderBuilt ==
    ASSUME OrderInv, Order!BuildAdjacency
    PROVE  OrderInv'
<1>1. /\ stage' = "sort" /\ result' = <<>> /\ Order!Placed' = {} /\ Len(result') = 0
      /\ UNCHANGED <<target, ref, deps>>
  <2>1. stage' = "sort" /\ result' = <<>> /\ UNCHANGED <<target, ref, deps>>
    BY DEF Order!BuildAdjacency, OrderInv, Order!given
  <2>2. Len(result') = 0 /\ 1 .. 0 = {} BY <2>1, EmptySeq
  <2> QED BY <2>1, <2>2 DEF Order!Placed
<1>2. /\ \A i : Order!Needs(i)' = Order!Needs(i) /\ Order!Needs(i) \subseteq Order!Indexes
      /\ \A i : Missing(i)' = Order!Entries(i, Order!Indexes)
      /\ \A i : Order!Entries(i, Order!Indexes) = {} <=> Order!Needs(i) = {}
  <2>1. Order!Indexes \ Order!Placed' = Order!Indexes BY <1>1
  <2>2. \A i : Order!Needs(i)' = Order!Needs(i) /\ Order!Needs(i) \subseteq Order!Indexes
    BY <1>1, OrderGiven, EntriesNeed
  <2>3. \A i : Order!Entries(i, Order!Indexes) = {} <=> Order!Needs(i) \cap Order!Indexes = {}
    BY EntriesNeed
  <2> QED BY <1>1, <2>1, <2>2, <2>3, OrderGiven
<1>3. ~Order!Duplicates /\ ~Order!CrossTarget BY DEF Order!BuildAdjacency, Order!Cause
<1>4. Counted'
  <2>1. \A i \in Order!Indexes : inDegree'[i] = Cardinality(Order!Entries(i, Order!Indexes))
    BY IndexesFinite DEF Order!BuildAdjacency
  <2>2. heap' = {i \in Order!Indexes : Order!Entries(i, Order!Indexes) = {}}
    BY DEF Order!BuildAdjacency
  <2>3. \A S : S \ {} = S /\ (S \subseteq {} <=> S = {}) OBVIOUS
  <2>4. \A i \in Order!Indexes : inDegree'[i] = Cardinality(Missing(i)')
    BY <1>2, <2>1
  <2>5. heap' = {i \in Order!Indexes \ Order!Placed' : Order!Needs(i)' \subseteq Order!Placed'}
    BY <1>1, <1>2, <2>2, <2>3
  <2>6. Cardinality(Order!Placed') = Len(result') BY <1>1, FS_EmptySet
  <2> QED BY <2>4, <2>5, <2>6 DEF Counted
<1>5. InOrder' /\ MetaFirst' BY <1>1 DEF InOrder, MetaFirst
<1>6. OrderTypeOK' BY <1>1, EmptySeq DEF OrderInv, OrderTypeOK
<1> QED BY <1>1, <1>3, <1>4, <1>5, <1>6, OrderGiven DEF OrderInv, Order!RefusedForCause

\* A turn places one more: its dependents miss one less, and those that now miss nothing
\* are ready.
LEMMA OrderPops ==
    ASSUME OrderInv, NEW i \in heap, stage = "sort",
           \A j \in heap \ {i} : Order!Before(i, j),
           result' = Append(result, i),
           inDegree' = [j \in Order!Indexes |->
                           inDegree[j] - Cardinality(Order!Entries(j, {i}))],
           heap' = (heap \ {i}) \cup {j \in Order!Indexes :
                                         i \in Order!Needs(j) /\ inDegree'[j] = 0},
           UNCHANGED <<target, ref, deps, stage, cause>>
    PROVE  OrderInv'
<1>1. /\ Counted /\ InOrder /\ MetaFirst /\ OrderTypeOK
      /\ ~Order!Duplicates /\ ~Order!CrossTarget
      /\ i \in Order!Indexes /\ i \notin Order!Placed /\ Order!Needs(i) \subseteq Order!Placed
  BY DEF OrderInv, Counted
<1>2. /\ result' \in Seq(Order!Indexes) /\ Len(result') = Len(result) + 1
      /\ Len(result) \in Nat
      /\ \A k \in 1 .. Len(result) : result'[k] = result[k] /\ result[k] \in Order!Indexes
      /\ result'[Len(result) + 1] = i
  BY <1>1, AppendProperties, LenProperties, ElementOfSeq DEF OrderTypeOK
<1>3. Order!Placed' = Order!Placed \cup {i}
  <2>1. Order!Placed' = {result'[k] : k \in 1 .. Len(result')} BY DEF Order!Placed
  <2>2. 1 .. Len(result') = (1 .. Len(result)) \cup {Len(result) + 1} BY <1>2
  <2> QED BY <1>2, <2>1, <2>2 DEF Order!Placed
<1>4. Order!Placed \subseteq Order!Indexes
  BY <1>2 DEF Order!Placed
<1>5. \A j : Order!Needs(j) \subseteq Order!Indexes /\ Order!Needs(j)' = Order!Needs(j)
  BY OrderGiven, EntriesNeed
<1>6. \A j \in Order!Placed : Order!Needs(j) \subseteq Order!Placed
  <2> SUFFICES ASSUME NEW j \in Order!Placed, NEW d \in Order!Needs(j)
               PROVE  d \in Order!Placed
    OBVIOUS
  <2>1. PICK n \in 1 .. Len(result) : result[n] = j BY DEF Order!Placed
  <2>2. PICK k \in 1 .. n - 1 : result[k] = d BY <1>1, <2>1 DEF InOrder
  <2> QED BY <1>2, <2>1, <2>2 DEF Order!Placed
<1>7. Counted'
  <2>0. \A j : Missing(j)' = Order!Entries(j, Order!Indexes \ (Order!Placed \cup {i}))
    BY <1>3, OrderGiven
  <2>1. ASSUME NEW j \in Order!Indexes
        PROVE  inDegree'[j] = Cardinality(Missing(j)') /\ IsFiniteSet(Missing(j)')
    <3>1. IsFiniteSet(Missing(j)) /\ Order!Entries(j, {i}) \subseteq Missing(j)
      <4>1. Missing(j) \subseteq DOMAIN deps[j] BY EntriesNeed DEF Missing
      <4>2. IsFiniteSet(Missing(j)) BY <1>1, <4>1, FS_Subset DEF OrderTypeOK
      <4> QED BY <1>1, <4>2 DEF Missing, Order!Entries
    <3>2. Missing(j)' = Missing(j) \ Order!Entries(j, {i})
      <4>1. \A k \in Order!Indexes : ref[k] = ref[i] => k = i BY <1>1 DEF Order!Duplicates
      <4> QED BY <1>1, <2>0, <4>1 DEF Missing, Order!Entries
    <3>3. /\ IsFiniteSet(Missing(j)')
          /\ Cardinality(Missing(j)') = Cardinality(Missing(j)) - Cardinality(Order!Entries(j, {i}))
      <4>1. Missing(j) \cap Order!Entries(j, {i}) = Order!Entries(j, {i}) BY <3>1
      <4> QED BY <3>1, <3>2, <4>1, FS_Difference
    <3>4. inDegree[j] = Cardinality(Missing(j)) BY <1>1 DEF Counted
    <3> QED BY <3>3, <3>4, IndexesFinite
  <2>2. ASSUME NEW j \in Order!Indexes
        PROVE  inDegree'[j] = 0 <=> Order!Needs(j) \subseteq Order!Placed \cup {i}
    <3>1. inDegree'[j] = 0 <=> Missing(j)' = {} BY <2>1, FS_EmptySet
    <3>2. Missing(j)' = {} <=>
            Order!Needs(j) \cap (Order!Indexes \ (Order!Placed \cup {i})) = {}
      BY <2>0, EntriesNeed
    <3> QED BY <1>5, <3>1, <3>2
  <2>3. heap' = {j \in Order!Indexes \ (Order!Placed \cup {i}) :
                    Order!Needs(j) \subseteq Order!Placed \cup {i}}
    <3>1. ASSUME NEW j \in Order!Indexes, i \in Order!Needs(j)
          PROVE  j \notin Order!Placed \cup {i} /\ j \notin heap
      BY <1>1, <1>6, <3>1 DEF Counted
    <3>2. ASSUME NEW j \in Order!Indexes, i \notin Order!Needs(j)
          PROVE  Order!Needs(j) \subseteq Order!Placed \cup {i}
                     <=> Order!Needs(j) \subseteq Order!Placed
      BY <3>2
    <3>3. \A j : j \in heap <=> /\ j \in Order!Indexes /\ j \notin Order!Placed
                                /\ Order!Needs(j) \subseteq Order!Placed
      BY <1>1 DEF Counted
    <3>4. \A j : j \in heap' <=> \/ j \in heap /\ j # i
                                 \/ j \in Order!Indexes /\ i \in Order!Needs(j) /\ inDegree'[j] = 0
      OBVIOUS
    <3>5. ASSUME NEW j
          PROVE  j \in heap' <=> /\ j \in Order!Indexes /\ j \notin Order!Placed /\ j # i
                                 /\ Order!Needs(j) \subseteq Order!Placed \cup {i}
      <4>1. CASE j \notin Order!Indexes BY <3>3, <3>4, <4>1
      <4>2. CASE j \in Order!Indexes /\ i \in Order!Needs(j) BY <2>2, <3>1, <3>4, <4>2
      <4>3. CASE j \in Order!Indexes /\ i \notin Order!Needs(j) BY <3>2, <3>3, <3>4, <4>3
      <4> QED BY <4>1, <4>2, <4>3
    <3> QED BY <3>5
  <2>4. Cardinality(Order!Placed \cup {i}) = Len(result')
    BY <1>1, <1>2, <1>4, IndexesFinite, FS_AddElement DEF Counted
  <2>5. \A j \in Order!Indexes : inDegree'[j] = Cardinality(Missing(j)')
    BY <2>1
  <2>6. heap' = {j \in Order!Indexes \ Order!Placed' : Order!Needs(j)' \subseteq Order!Placed'}
    BY <1>3, <1>5, <2>3
  <2> QED BY <1>3, <2>4, <2>5, <2>6 DEF Counted
<1>8. InOrder'
  <2> SUFFICES ASSUME NEW n \in 1 .. Len(result'), NEW j \in Order!Needs(result'[n])
               PROVE  \E k \in 1 .. n - 1 : result'[k] = j
    BY <1>5 DEF InOrder
  <2>1. CASE n \in 1 .. Len(result)
    <3>1. PICK k \in 1 .. n - 1 : result[k] = j BY <1>1, <1>2, <2>1 DEF InOrder
    <3> QED BY <1>2, <2>1, <3>1
  <2>2. CASE n = Len(result) + 1
    <3>1. j \in Order!Placed BY <1>1, <1>2, <2>2
    <3>2. PICK k \in 1 .. Len(result) : result[k] = j BY <3>1 DEF Order!Placed
    <3> QED BY <1>2, <2>2, <3>2
  <2> QED BY <1>2, <2>1, <2>2
<1>9. MetaFirst'
  <2>1. target' = target /\ \A j \in Order!Indexes : target[j] \in {Order!Meta, Order!PerProfile}
    BY <1>1 DEF OrderTypeOK
  <2>2. Order!Meta # Order!PerProfile /\ Order!Meta < Order!PerProfile
    BY DEF Order!Meta, Order!PerProfile
  <2>3. ASSUME target[i] = Order!PerProfile PROVE \A j \in heap : target[j] # Order!Meta
    BY <2>2, <2>3 DEF Order!Before, Order!Meta, Order!PerProfile
  <2>4. ASSUME target[i] = Order!Meta
        PROVE  \A k \in 1 .. Len(result) : target[result[k]] # Order!PerProfile
    BY <1>1, <2>4 DEF MetaFirst
  <2>5. ASSUME NEW j \in Order!Indexes, i \in Order!Needs(j), target[i] = Order!PerProfile
        PROVE  target[j] # Order!Meta
    BY <1>1, <2>5 DEF Order!CrossTarget
  <2>6. ASSUME NEW n \in 1 .. Len(result'), NEW k \in 1 .. Len(result'),
               target[result'[n]] = Order!Meta, target[result'[k]] = Order!PerProfile
        PROVE  n < k
    <3>1. CASE n \in 1 .. Len(result) /\ k \in 1 .. Len(result)
      BY <1>1, <1>2, <2>6, <3>1 DEF MetaFirst
    <3>2. CASE k = Len(result) + 1 /\ n \in 1 .. Len(result) BY <1>2, <3>2
    <3>3. CASE n = Len(result) + 1 /\ k \in 1 .. Len(result) BY <1>2, <2>4, <2>6, <3>3
    <3>4. CASE n = Len(result) + 1 /\ k = Len(result) + 1 BY <2>2, <2>6, <3>4
    <3> QED BY <1>2, <3>1, <3>2, <3>3, <3>4
  <2>7. ASSUME NEW k \in 1 .. Len(result'), target[result'[k]] = Order!PerProfile,
               NEW j \in heap'
        PROVE  target[j] # Order!Meta
    <3>1. target[i] = Order!PerProfile
      BY <1>1, <1>2, <2>1, <2>4, <2>7
    <3> QED BY <2>3, <2>5, <3>1
  <2> QED BY <2>1, <2>6, <2>7 DEF MetaFirst
<1>10. OrderTypeOK' BY <1>1, <1>2 DEF OrderTypeOK
<1> QED BY <1>1, <1>7, <1>8, <1>9, <1>10, OrderGiven DEF OrderInv, Order!RefusedForCause

\* Whoever is left when nothing is ready waits for another one that is left.
LEMMA OrderCyclic ==
    ASSUME OrderInv, Order!Cyclic
    PROVE  OrderInv'
<1>1. /\ Counted /\ OrderTypeOK /\ heap = {} /\ Len(result) # Count
      /\ UNCHANGED <<target, ref, deps, result>>
      /\ stage' = "refused" /\ cause' = "cycle"
  BY DEF OrderInv, Order!Cyclic, Order!given
<1> DEFINE X == Order!Indexes \ Order!Placed
<1>2. Order!Placed \subseteq Order!Indexes
  BY <1>1, LenProperties, ElementOfSeq DEF OrderTypeOK, Order!Placed
<1>3. X # {}
  BY <1>1, <1>2, IndexesFinite, FS_Subset DEF Counted
<1>4. \A i \in X : Order!Needs(i) \cap X # {}
  BY <1>1 DEF Counted, Order!Needs
<1>5. X \in SUBSET Order!Indexes OBVIOUS
<1>6. \A i : Order!Needs(i)' = Order!Needs(i) BY <1>1, OrderGiven
<1>7. Order!RefusedForCause' BY <1>1, <1>3, <1>4, <1>5, <1>6 DEF Order!RefusedForCause
<1>8. OrderTypeOK' BY <1>1 DEF OrderTypeOK
<1> QED BY <1>1, <1>7, <1>8 DEF OrderInv

\* Every step of the composition keeps the invariant of the order.
LEMMA OrderStep == OrderInv /\ [MCNext]_allVars => OrderInv'
<1> SUFFICES ASSUME OrderInv, [MCNext]_allVars PROVE OrderInv'
  OBVIOUS
<1>1. CASE UNCHANGED orderVars
  <2>1. /\ UNCHANGED <<target, ref, deps>> /\ UNCHANGED <<stage, inDegree, heap, result, cause>>
    BY <1>1 DEF orderVars
  <2>2. Order!Placed' = Order!Placed BY <2>1 DEF Order!Placed
  <2>3. /\ Counted => Counted'
        /\ InOrder => InOrder'
        /\ MetaFirst => MetaFirst'
    BY <2>1, <2>2, OrderKeeps
  <2>4. Order!RefusedForCause' BY <2>1, OrderGiven DEF OrderInv, Order!RefusedForCause
  <2> QED BY <2>1, <2>3, <2>4, OrderGiven DEF OrderInv, OrderTypeOK
<1>2. CASE OrderNext
  <2>1. CASE Order!Refuse
    <3>1. /\ UNCHANGED <<target, ref, deps, result>> /\ stage' = "refused"
          /\ Order!Duplicates \/ Order!Dangling \/ Order!CrossTarget
      BY <2>1 DEF Order!Refuse, Order!given, Order!Cause
    <3>2. Order!RefusedForCause' BY <3>1, OrderGiven DEF Order!RefusedForCause
    <3> QED BY <3>1, <3>2 DEF OrderInv, OrderTypeOK
  <2>2. CASE Order!BuildAdjacency BY <2>2, OrderBuilt
  <2>3. CASE Order!Pop
    <3>1. PICK i \in heap : Order!Pop!(i) BY <2>3 DEF Order!Pop
    <3>2. inDegree' = [j \in Order!Indexes |->
                          inDegree[j] - Cardinality(Order!Entries(j, {i}))]
      BY <3>1, IndexesFinite
    <3> QED BY <3>1, <3>2, OrderPops DEF Order!given
  <2>4. CASE Order!Finish
    <3>1. /\ UNCHANGED <<target, ref, deps>> /\ UNCHANGED <<inDegree, heap, result, cause>>
          /\ stage = "sort" /\ stage' = "done" /\ Len(result) = Count
      BY <2>4 DEF Order!Finish, Order!given
    <3>2. Order!Placed' = Order!Placed BY <3>1 DEF Order!Placed
    <3>3. /\ Counted => Counted'
          /\ InOrder => InOrder'
          /\ MetaFirst => MetaFirst'
      BY <3>1, <3>2, OrderKeeps
    <3> QED BY <3>1, <3>3, OrderGiven DEF OrderInv, OrderTypeOK, Order!RefusedForCause
  <2>5. CASE Order!Cyclic BY <2>5, OrderCyclic
  <2> QED BY <1>2, <2>1, <2>2, <2>3, <2>4, <2>5 DEF OrderNext
<1>3. OrderNext \/ UNCHANGED orderVars BY DEF MCNext, Only, allVars
<1> QED BY <1>1, <1>2, <1>3

\* A complete order is one of all migrations.
LEMMA OrderPromises == OrderInv => Order!OrderSound
<1> SUFFICES ASSUME OrderInv, stage = "done" PROVE Order!OrderSound
  BY DEF Order!OrderSound
<1>1. Counted /\ InOrder /\ MetaFirst /\ OrderTypeOK /\ Len(result) = Count BY DEF OrderInv
<1>2. Order!Placed \subseteq Order!Indexes
  BY <1>1, LenProperties, ElementOfSeq DEF OrderTypeOK, Order!Placed
<1>3. Order!Placed = Order!Indexes
  BY <1>1, <1>2, IndexesFinite, FS_Subset DEF Counted
<1> QED BY <1>1, <1>3 DEF Order!OrderSound, InOrder, MetaFirst

-----------------------------------------------------------------------------
\* The schema that the migrations of a new database meet.

\* Who made the migrations, and for which database.
LEMMA MigrationKinds ==
    /\ \A m \in Migration!PlatformMigrations : m.graft = Migration!Engine
    /\ \A m \in Migration!ShopMigrations : m.graft = Migration!Shop /\ m.target = "PerProfile"
    /\ \A m \in Migration!AllMigrations : m.at \in Nat /\ Migration!Rank(m) \in Nat
<1>1. \A m \in Migration!PlatformMigrations : m.graft = Migration!Engine /\ m.at \in Nat
  BY DEF Migration!PlatformMigrations, Migration!Platform, Migration!CreateMetaProfiles,
     Migration!PartitionLegacyHistory, Migration!CreateMetaActivityLog,
     Migration!CreateLegacyUpgradeLocks, Migration!UsersAndRoles, Migration!ShopSettings,
     Migration!ProfileUserRoles, Migration!PreventLastAdminDeactivation,
     Migration!ActiveIntegrations, Migration!IntegrationEventLog
<1>2. \A m \in Migration!ShopMigrations :
          m.graft = Migration!Shop /\ m.target = "PerProfile" /\ m.at \in Nat
  BY DEF Migration!ShopMigrations, Migration!OfShop, Migration!InitMigration,
     Migration!Settings, Migration!NumberSequences, Migration!CustomersAndActivity,
     Migration!CustomersDeletedAtIndex, Migration!SetPragmas, Migration!LoginLockout,
     Migration!ActivityLogCompositeIndex
<1>3. \A m \in Migration!AllMigrations : m.at \in Nat BY <1>1, <1>2 DEF Migration!AllMigrations
<1> QED BY <1>1, <1>2, <1>3 DEF Migration!Rank

\* A name is one migration's.
LEMMA NamesApart ==
    \A m, n \in Migration!AllMigrations : m.name = n.name => m = n
BY DEF Migration!AllMigrations, Migration!PlatformMigrations, Migration!Platform, Migration!CreateMetaProfiles,
     Migration!PartitionLegacyHistory, Migration!CreateMetaActivityLog,
     Migration!CreateLegacyUpgradeLocks, Migration!UsersAndRoles, Migration!ShopSettings,
     Migration!ProfileUserRoles, Migration!PreventLastAdminDeactivation,
     Migration!ActiveIntegrations, Migration!IntegrationEventLog,
     Migration!ShopMigrations, Migration!OfShop, Migration!InitMigration,
     Migration!Settings, Migration!NumberSequences, Migration!CustomersAndActivity,
     Migration!CustomersDeletedAtIndex, Migration!SetPragmas, Migration!LoginLockout,
     Migration!ActivityLogCompositeIndex

\* A table that a migration insists on creating is no other one's.
LEMMA TablesApart ==
    \A m, n \in Migration!AllMigrations :
        m # n => m.creates \cap (n.creates \cup n.ensures) = {}
BY DEF Migration!AllMigrations, Migration!PlatformMigrations, Migration!Platform, Migration!CreateMetaProfiles,
     Migration!PartitionLegacyHistory, Migration!CreateMetaActivityLog,
     Migration!CreateLegacyUpgradeLocks, Migration!UsersAndRoles, Migration!ShopSettings,
     Migration!ProfileUserRoles, Migration!PreventLastAdminDeactivation,
     Migration!ActiveIntegrations, Migration!IntegrationEventLog,
     Migration!ShopMigrations, Migration!OfShop, Migration!InitMigration,
     Migration!Settings, Migration!NumberSequences, Migration!CustomersAndActivity,
     Migration!CustomersDeletedAtIndex, Migration!SetPragmas, Migration!LoginLockout,
     Migration!ActivityLogCompositeIndex

\* What a platform migration needs is created by those it declares, which are the
\* platform's, and meta.db's if it is.
LEMMA PlatformNeeds ==
    \A m \in Migration!PlatformMigrations :
        /\ \A t \in m.needs : \E d \in Migration!PlatformMigrations :
               t \in d.creates /\ d.name \in m.deps
        /\ m.target = "Meta" => \A d \in Migration!PlatformMigrations :
                                    d.name \in m.deps => d.target = "Meta"
BY DEF Migration!PlatformMigrations, Migration!Platform, Migration!CreateMetaProfiles,
     Migration!PartitionLegacyHistory, Migration!CreateMetaActivityLog,
     Migration!CreateLegacyUpgradeLocks, Migration!UsersAndRoles, Migration!ShopSettings,
     Migration!ProfileUserRoles, Migration!PreventLastAdminDeactivation,
     Migration!ActiveIntegrations, Migration!IntegrationEventLog

\* What a migration of the shop needs is the platform's or is made by an earlier one.
LEMMA ShopNeeds ==
    \A m \in Migration!ShopMigrations : \A t \in m.needs :
        \/ \E d \in Migration!PlatformMigrations : t \in d.creates
        \/ \E d \in Migration!ShopMigrations : t \in d.creates \cup d.ensures /\ d.at < m.at
<1>1. \A m \in Migration!ShopMigrations : \A t \in m.needs :
          \/ t = "users"
          \/ t = "customers" /\ 32401 < m.at
          \/ t = "activity_log" /\ 32401 < m.at
  BY DEF Migration!ShopMigrations, Migration!OfShop, Migration!InitMigration,
     Migration!Settings, Migration!NumberSequences, Migration!CustomersAndActivity,
     Migration!CustomersDeletedAtIndex, Migration!SetPragmas, Migration!LoginLockout,
     Migration!ActivityLogCompositeIndex
<1>2. /\ Migration!UsersAndRoles \in Migration!PlatformMigrations
      /\ "users" \in Migration!UsersAndRoles.creates
  BY DEF Migration!PlatformMigrations, Migration!UsersAndRoles, Migration!Platform
<1>3. /\ Migration!CustomersAndActivity \in Migration!ShopMigrations
      /\ Migration!CustomersAndActivity.at = 32401
      /\ Migration!CustomersAndActivity.creates = {"customers"}
      /\ Migration!CustomersAndActivity.ensures = {"activity_log"}
  BY DEF Migration!ShopMigrations, Migration!CustomersAndActivity, Migration!OfShop
<1> QED BY <1>1, <1>2, <1>3

\* The dependencies of the platform's migrations go round in no circle: of some that are
\* left, one waits for none of the others.
LEMMA SomeReady ==
    ASSUME NEW P \in SUBSET Migration!PlatformMigrations, P # {}
    PROVE  \E m \in P : \A d \in P : d.name \notin m.deps
<1> DEFINE Free(m) == m.deps = {}
           Second(m) == m.deps \subseteq {"create_meta_profiles", "users_and_roles", "active_integrations"}
<1>1. \A m \in Migration!PlatformMigrations :
          /\ Second(m) \/ m.deps \subseteq {"users_and_roles", "profile_user_roles"}
          /\ m.name \in {"create_meta_profiles", "users_and_roles", "active_integrations"} => Free(m)
          /\ m.name = "profile_user_roles" => Second(m)
  BY DEF Migration!PlatformMigrations, Migration!Platform, Migration!CreateMetaProfiles,
     Migration!PartitionLegacyHistory, Migration!CreateMetaActivityLog,
     Migration!CreateLegacyUpgradeLocks, Migration!UsersAndRoles, Migration!ShopSettings,
     Migration!ProfileUserRoles, Migration!PreventLastAdminDeactivation,
     Migration!ActiveIntegrations, Migration!IntegrationEventLog
<1>2. CASE \E m \in P : Free(m) BY <1>2
<1>3. CASE (\A m \in P : ~Free(m)) /\ \E m \in P : Second(m)
  <2>1. PICK m \in P : Second(m) BY <1>3
  <2>2. \A d \in P : d.name \notin m.deps BY <1>1, <1>3, <2>1
  <2> QED BY <2>2
<1>4. CASE \A m \in P : ~Free(m) /\ ~Second(m)
  <2>1. PICK m \in P : TRUE OBVIOUS
  <2>2. \A d \in P : d.name \notin m.deps BY <1>1, <1>4, <2>1
  <2> QED BY <2>2
<1> QED BY <1>2, <1>3, <1>4

\* The migrations the database has had, by the records of either runner.
Had(m) == Migration!Key(m) \in rows \/ m.name \in seaql
Done == {m \in Migration!AllMigrations : Had(m)}

OfMeta == {m \in Migration!AllMigrations : m.target = "Meta"}

\* On a database of this release: the tables are those of the migrations recorded, the
\* shop's come after all of the platform's, a pass has planned what is missing of its
\* share, and nothing has failed or run twice.
Recorded ==
    /\ schema = Migration!TablesOf(Done)
    /\ \A k \in rows : \E m \in Migration!AllMigrations : k = Migration!Key(m)
    /\ \A s \in seaql : \E m \in Migration!ShopMigrations : s = m.name
    /\ \A m \in Migration!ShopMigrations : Migration!Key(m) \in rows => m.name \in seaql
Shares ==
    /\ role = "meta" => Done \subseteq OfMeta /\ pass \in {"down", "meta", "serving"}
    /\ role = "profile" =>
          /\ pass \in {"down", "platform", "seaorm", "profile", "serving"}
          /\ seaql # {} \/ pass \in {"seaorm", "profile", "serving"} =>
                Migration!PlatformMigrations \subseteq Done
Planned ==
    /\ plan = CASE pass = "meta"     -> OfMeta \ Done
                [] pass = "platform" -> Migration!PlatformMigrations \ Done
                [] pass = "seaorm"   -> Migration!ShopMigrations \ Done
                [] OTHER             -> {}
    /\ pass \in {"profile", "serving"} =>
          Done = IF role = "meta" THEN OfMeta ELSE Migration!AllMigrations

MigInv ==
    /\ role \in {"meta", "profile"}
    /\ origin = "fresh" => Recorded /\ Shares /\ Planned /\ ~again

\* The shop has no migrations of meta.db, and no name of the platform's.
LEMMA WhoseAre ==
    /\ OfMeta \subseteq Migration!PlatformMigrations
    /\ Migration!AllMigrations = Migration!PlatformMigrations \cup Migration!ShopMigrations
    /\ \A m \in Migration!PlatformMigrations, n \in Migration!ShopMigrations : m.name # n.name
    /\ \A m, n \in Migration!AllMigrations : Migration!Key(m) = Migration!Key(n) => m = n
<1>1. Migration!Engine # Migration!Shop BY DEF Migration!Engine, Migration!Shop
<1>2. Migration!AllMigrations = Migration!PlatformMigrations \cup Migration!ShopMigrations
  BY DEF Migration!AllMigrations
<1>3. OfMeta \subseteq Migration!PlatformMigrations BY <1>2, MigrationKinds DEF OfMeta
<1>4. \A m \in Migration!PlatformMigrations, n \in Migration!ShopMigrations : m.name # n.name
  BY <1>1, <1>2, MigrationKinds, NamesApart
<1> QED BY <1>2, <1>3, <1>4, NamesApart DEF Migration!Key

\* A new database has no tables and no records.
LEMMA FreshInit == Migration!Init => MigInv
<1> SUFFICES ASSUME Migration!Init, origin = "fresh" PROVE MigInv
  BY DEF Migration!Init, MigInv
<1>1. schema = {} /\ rows = {} /\ seaql = {} /\ pass = "down" /\ plan = {} /\ ~again
      /\ role \in {"meta", "profile"}
  BY DEF Migration!Init
<1>2. Done = {} BY <1>1 DEF Done, Had
<1>3. Migration!TablesOf(Done) = {} BY <1>2 DEF Migration!TablesOf
<1> QED BY <1>1, <1>2, <1>3 DEF MigInv, Recorded, Shares, Planned

\* What is recorded of a migration.
LEMMA HadKinds ==
    ASSUME Recorded
    PROVE  /\ \A m \in Migration!PlatformMigrations : Had(m) <=> Migration!Key(m) \in rows
           /\ \A m \in Migration!ShopMigrations : Had(m) <=> m.name \in seaql
BY WhoseAre DEF Recorded, Had

\* A pass plans what is missing of its share; the last one finds its share recorded.
LEMMA PassBegins ==
    ASSUME MigInv, origin = "fresh",
           NEW p \in {"platform", "seaorm", "meta", "profile"}, Migration!Begin(p),
           p = "meta" <=> role = "meta",
           p \in {"seaorm", "profile"} => Migration!PlatformMigrations \subseteq Done,
           p = "profile" => Done = Migration!AllMigrations
    PROVE  MigInv'
<1>1. /\ Recorded /\ Shares /\ Planned /\ ~again /\ role \in {"meta", "profile"}
      /\ pass' = p /\ UNCHANGED <<role, origin, schema, seaql, again>>
      /\ rows' = Migration!Backfilled(p)
  BY DEF MigInv, Migration!Begin
<1>2. /\ rows \subseteq rows'
      /\ \A k \in rows' \ rows : p = "profile" /\ \E s \in seaql : k = <<Migration!Shop, s>>
      /\ p = "profile" => \A s \in seaql : <<Migration!Shop, s>> \in rows'
  BY <1>1 DEF Migration!Backfilled
<1>3. \A s \in seaql : \E m \in Migration!ShopMigrations :
          s = m.name /\ <<Migration!Shop, s>> = Migration!Key(m)
  BY <1>1, MigrationKinds DEF Recorded, Migration!Key
<1>4. \A k \in rows' : \E m \in Migration!AllMigrations : k = Migration!Key(m)
  BY <1>1, <1>2, <1>3, WhoseAre DEF Recorded
<1>5. ASSUME NEW m \in Migration!ShopMigrations, Migration!Key(m) \in rows'
      PROVE  m.name \in seaql'
  <2>1. CASE Migration!Key(m) \in rows BY <1>1, <2>1 DEF Recorded
  <2>2. CASE Migration!Key(m) \notin rows
    BY <1>1, <1>2, <1>5, <2>2 DEF Migration!Key
  <2> QED BY <2>1, <2>2
<1>6. Done' = Done
  <2>1. ASSUME NEW m \in Migration!AllMigrations PROVE Had(m)' <=> Had(m)
    BY <1>1, <1>2 DEF Had, Migration!Key
  <2> QED BY <2>1 DEF Done
<1>7. Recorded'
  <2>1. schema' = Migration!TablesOf(Done)' BY <1>1, <1>6 DEF Recorded, Migration!TablesOf
  <2> QED BY <1>1, <1>4, <1>5, <2>1 DEF Recorded
<1>8. Shares' BY <1>1, <1>6 DEF Shares
<1>9. plan' = CASE p = "meta"     -> OfMeta \ Done
                [] p = "platform" -> Migration!PlatformMigrations \ Done
                [] p = "seaorm"   -> Migration!ShopMigrations \ Done
                [] OTHER          -> {}
  <2>1. CASE p = "meta"
    <3>1. plan' = {m \in OfMeta : Migration!Key(m) \notin rows}
      BY <2>1 DEF Migration!Begin, Migration!Considered, Migration!Backfilled, OfMeta
    <3>2. \A m \in OfMeta : m \in Done <=> Migration!Key(m) \in rows
      BY <1>1, HadKinds, WhoseAre DEF Done
    <3> QED BY <2>1, <3>1, <3>2
  <2>2. CASE p = "platform"
    <3>1. plan' = {m \in Migration!PlatformMigrations : Migration!Key(m) \notin rows}
      BY <2>2 DEF Migration!Begin, Migration!Considered, Migration!Backfilled
    <3>2. \A m \in Migration!PlatformMigrations : m \in Done <=> Migration!Key(m) \in rows
      BY <1>1, HadKinds, WhoseAre DEF Done
    <3> QED BY <2>2, <3>1, <3>2
  <2>3. CASE p = "seaorm"
    <3>1. plan' = {m \in Migration!ShopMigrations : m.name \notin seaql}
      BY <2>3 DEF Migration!Begin
    <3>2. \A m \in Migration!ShopMigrations : m \in Done <=> m.name \in seaql
      BY <1>1, HadKinds, WhoseAre DEF Done
    <3> QED BY <2>3, <3>1, <3>2
  <2>4. CASE p = "profile"
    <3>1. plan' \subseteq {m \in Migration!AllMigrations : Migration!Key(m) \notin rows'}
      BY <1>1, <2>4 DEF Migration!Begin, Migration!Considered
    <3>2. ASSUME NEW m \in Migration!AllMigrations PROVE Migration!Key(m) \in rows'
      <4>1. Had(m) BY <2>4 DEF Done
      <4>2. CASE m \in Migration!PlatformMigrations BY <1>1, <1>2, <4>1, <4>2, HadKinds
      <4>3. CASE m \in Migration!ShopMigrations
        BY <1>1, <1>2, <2>4, <4>1, <4>3, HadKinds, MigrationKinds DEF Migration!Key
      <4> QED BY <4>2, <4>3, WhoseAre
    <3> QED BY <2>4, <3>1, <3>2
  <2> QED BY <2>1, <2>2, <2>3, <2>4
<1>10. Planned' BY <1>1, <1>6, <1>9 DEF Planned
<1> QED BY <1>1, <1>7, <1>8, <1>10 DEF MigInv

\* Whose turn it is finds what it needs, and none of what it creates.
LEMMA TurnApplies ==
    ASSUME MigInv, origin = "fresh", Migration!Running, NEW m \in plan, m = Migration!Turn
    PROVE  Migration!Applies(m) /\ m \in Migration!AllMigrations /\ m \notin Done
<1>1. /\ Recorded /\ Shares /\ Planned
      /\ m \in Migration!AllMigrations /\ m \notin Done
      /\ pass \in {"meta", "platform", "seaorm"}
  BY WhoseAre DEF MigInv, Migration!Running, Planned, OfMeta
<1>2. \A t : t \in schema <=> \E n \in Done : t \in n.creates \cup n.ensures
  BY <1>1 DEF Recorded, Migration!TablesOf
<1>3. m.creates \cap schema = {}
  BY <1>1, <1>2, TablesApart DEF Done
<1>4. m.needs \subseteq schema
  <2>1. CASE pass = "seaorm"
    <3>1. plan = Migration!ShopMigrations \ Done /\ Migration!PlatformMigrations \subseteq Done
      BY <1>1, <2>1 DEF MigInv, Planned, Shares
    <3>2. \A n \in plan : m.at <= n.at
      <4>1. {n.at : n \in plan} \in SUBSET Nat /\ {n.at : n \in plan} # {}
        BY <3>1, MigrationKinds, WhoseAre
      <4>2. PICK l \in {n.at : n \in plan} : \A k \in {n.at : n \in plan} : l <= k
        BY <4>1, Least
      <4>3. \E n \in plan : \A k \in plan : n.at <= k.at BY <4>2
      <4>4. m = CHOOSE n \in plan : \A k \in plan : n.at <= k.at
        BY <2>1 DEF Migration!Turn
      <4> QED BY <4>3, <4>4
    <3>3. \A d \in Migration!ShopMigrations : d.at < m.at => d \in Done
      BY <1>1, <3>1, <3>2, MigrationKinds, WhoseAre
    <3>4. m \in Migration!ShopMigrations BY <3>1
    <3> QED BY <1>2, <3>1, <3>3, <3>4, ShopNeeds
  <2>2. CASE pass # "seaorm"
    <3> DEFINE Share == IF pass = "meta" THEN OfMeta ELSE Migration!PlatformMigrations
               ready == {n \in plan : Migration!Pending(n) = {}}
    <3>1. plan = Share \ Done /\ Share \subseteq Migration!PlatformMigrations
      BY <1>1, <2>2, WhoseAre DEF Planned
    <3>2. ready # {}
      <4>1. plan \in SUBSET Migration!PlatformMigrations /\ plan # {} BY <3>1
      <4>2. PICK n \in plan : \A d \in plan : d.name \notin n.deps BY <4>1, SomeReady
      <4> QED BY <4>2 DEF Migration!Pending
    <3>3. \E n \in ready : \A k \in ready : Migration!Rank(n) <= Migration!Rank(k)
      <4>1. ready \subseteq Migration!AllMigrations BY <3>1, WhoseAre
      <4> HIDE DEF ready
      <4>2. {Migration!Rank(n) : n \in ready} \in SUBSET Nat
            /\ {Migration!Rank(n) : n \in ready} # {}
        BY <3>2, <4>1, MigrationKinds
      <4>3. PICK l \in {Migration!Rank(n) : n \in ready} :
                \A k \in {Migration!Rank(n) : n \in ready} : l <= k
        BY <4>2, Least
      <4> QED BY <4>3
    <3>4. m = CHOOSE n \in ready : \A k \in ready : Migration!Rank(n) <= Migration!Rank(k)
      BY <2>2 DEF Migration!Turn
    <3>5. m \in ready BY <3>3, <3>4
    <3>6. \A d \in plan : d.name \notin m.deps BY <3>5 DEF Migration!Pending
    <3>7. m \in Migration!PlatformMigrations BY <3>1
    <3>8. ASSUME NEW d \in Migration!PlatformMigrations, d.name \in m.deps PROVE d \in Done
      <4>1. d \in Share
        BY <3>1, <3>7, <3>8, PlatformNeeds, WhoseAre DEF OfMeta
      <4> QED BY <3>1, <3>6, <3>8, <4>1
    <3> QED BY <1>2, <3>7, <3>8, PlatformNeeds
  <2> QED BY <2>1, <2>2
<1> QED BY <1>1, <1>3, <1>4 DEF Migration!Applies

\* A migration that was not yet recorded is applied for the first time, and recorded.
LEMMA TurnRecorded ==
    ASSUME MigInv, origin = "fresh", NEW m \in plan, Migration!Apply(m)
    PROVE  MigInv'
<1>1. /\ Migration!Running /\ m = Migration!Turn
      /\ schema' = schema \cup m.creates \cup m.ensures /\ plan' = plan \ {m}
      /\ again' = (again \/ Migration!KnownDone(m))
      /\ UNCHANGED <<role, origin, pass>>
  BY DEF Migration!Apply
<1>2. m \in Migration!AllMigrations /\ m \notin Done BY <1>1, TurnApplies
<1>3. Recorded /\ Shares /\ Planned /\ ~again /\ role \in {"meta", "profile"} BY DEF MigInv
<1>4. /\ pass \in {"meta", "platform", "seaorm"}
      /\ pass = "meta" => plan = OfMeta \ Done
      /\ pass = "platform" => plan = Migration!PlatformMigrations \ Done
      /\ pass = "seaorm" => plan = Migration!ShopMigrations \ Done
  BY <1>1, <1>3 DEF Migration!Running, Planned
<1>5. \A k \in rows : \E n \in Migration!AllMigrations : k = Migration!Key(n)
  BY <1>3 DEF Recorded
<1>6. \A n \in Migration!AllMigrations : n.graft \in {Migration!Engine, Migration!Shop}
  BY MigrationKinds, WhoseAre
<1>7. ~Migration!KnownDone(m)
  <2>1. m.name \notin seaql /\ Migration!Key(m) \notin rows BY <1>2 DEF Done, Had
  <2>2. ASSUME NEW g, <<g, m.name>> \in rows PROVE FALSE
    <3>1. PICK n \in Migration!AllMigrations : <<g, m.name>> = <<n.graft, n.name>>
      BY <1>5, <2>2 DEF Migration!Key
    <3>2. n = m BY <1>2, <3>1, NamesApart
    <3> QED BY <2>1, <2>2, <3>1, <3>2 DEF Migration!Key
  <2> QED BY <2>1, <2>2 DEF Migration!KnownDone
<1>8. Migration!Recorded(m) = rows \cup {Migration!Key(m)}
  <2>1. \A k : <<"kikan", k>> \notin rows
    <3> SUFFICES ASSUME NEW k, <<"kikan", k>> \in rows PROVE FALSE
      OBVIOUS
    <3>1. PICK n \in Migration!AllMigrations : <<"kikan", k>> = <<n.graft, n.name>>
      BY <1>5 DEF Migration!Key
    <3> QED BY <1>6, <3>1 DEF Migration!Engine, Migration!Shop
  <2>2. rows \ {<<"kikan", n.name>> : n \in Migration!Relabelled} = rows BY <2>1
  <2>3. {n \in Migration!Relabelled : <<"kikan", n.name>> \in rows} = {} BY <2>1
  <2>4. Migration!Relabel(rows) = rows BY <2>2, <2>3 DEF Migration!Relabel
  <2> QED BY <2>4 DEF Migration!Recorded
<1>9. /\ pass = "seaorm" => seaql' = seaql \cup {m.name} /\ rows' = rows
      /\ pass # "seaorm" => rows' = rows \cup {Migration!Key(m)} /\ seaql' = seaql
  BY <1>8 DEF Migration!Apply
<1>10. Done' = Done \cup {m}
  <2>1. ASSUME NEW n \in Migration!AllMigrations
        PROVE  Had(n)' <=> Had(n) \/ n = m
    BY <1>2, <1>9, NamesApart, WhoseAre DEF Had, Migration!Key
  <2> QED BY <1>2, <2>1 DEF Done
<1>11. schema' = Migration!TablesOf(Done')
  <2>1. Migration!TablesOf(Done \cup {m}) = Migration!TablesOf(Done) \cup m.creates \cup m.ensures
    BY DEF Migration!TablesOf
  <2> QED BY <1>1, <1>3, <1>10, <2>1 DEF Recorded
<1>12. m \in Migration!ShopMigrations <=> pass = "seaorm"
  BY <1>4, WhoseAre
<1>13. Recorded'
  <2>1. \A k \in rows' : \E n \in Migration!AllMigrations : k = Migration!Key(n)
    BY <1>2, <1>5, <1>9
  <2>2. \A s \in seaql' : \E n \in Migration!ShopMigrations : s = n.name
    BY <1>3, <1>9, <1>12 DEF Recorded
  <2>3. \A n \in Migration!ShopMigrations : Migration!Key(n) \in rows' => n.name \in seaql'
    <3> SUFFICES ASSUME NEW n \in Migration!ShopMigrations, Migration!Key(n) \in rows'
                 PROVE  n.name \in seaql'
      OBVIOUS
    <3>1. Migration!Key(n) # Migration!Key(m) \/ pass = "seaorm" BY <1>2, <1>12, WhoseAre
    <3>2. Migration!Key(n) \in rows BY <1>9, <3>1
    <3> QED BY <1>3, <1>9, <3>2 DEF Recorded
  <2>4. schema' = Migration!TablesOf(Done)' BY <1>11 DEF Migration!TablesOf
  <2> QED BY <2>1, <2>2, <2>3, <2>4 DEF Recorded
<1>14. Shares'
  <2>1. pass = "meta" => m \in OfMeta BY <1>4
  <2>2. role = "meta" <=> pass = "meta" BY <1>3, <1>4 DEF Shares
  <2>3. seaql' # {} => seaql # {} \/ pass = "seaorm" BY <1>9
  <2>4. role = "meta" => Done \cup {m} \subseteq OfMeta BY <1>3, <2>1, <2>2 DEF Shares
  <2> QED BY <1>1, <1>3, <1>10, <2>2, <2>3, <2>4 DEF Shares
<1>15. Planned'
  BY <1>1, <1>4, <1>10 DEF Planned
<1> QED BY <1>1, <1>3, <1>7, <1>13, <1>14, <1>15 DEF MigInv

\* Every step of the composition keeps the schema of a new database right.
LEMMA SchemaStep == MigInv /\ [MCNext]_allVars => MigInv'
<1> SUFFICES ASSUME MigInv, [MCNext]_allVars PROVE MigInv'
  OBVIOUS
<1>1. CASE UNCHANGED migrationVars
  <2>1. UNCHANGED <<role, origin, schema, rows, seaql, pass, plan, again>>
    BY <1>1 DEF migrationVars
  <2>2. Done' = Done BY <2>1 DEF Done, Had, Migration!Key
  <2>3. Recorded => Recorded' BY <2>1, <2>2 DEF Recorded, Migration!TablesOf
  <2>4. Shares => Shares' BY <2>1, <2>2 DEF Shares
  <2>5. Planned => Planned' BY <2>1, <2>2 DEF Planned
  <2> QED BY <2>1, <2>3, <2>4, <2>5 DEF MigInv
<1>2. CASE MigrationNext
  <2>1. UNCHANGED <<role, origin>>
    <3>1. CASE Migration!StartUp \/ Migration!NextPass \/ Migration!Crash
      BY <3>1 DEF Migration!StartUp, Migration!NextPass, Migration!Crash, Migration!Begin,
                  Migration!History
    <3>2. CASE \E m \in plan : Migration!Apply(m) \/ Migration!Fail(m)
      BY <3>2 DEF Migration!Apply, Migration!Fail
    <3> QED BY <1>2, <3>1, <3>2 DEF MigrationNext
  <2>2. CASE origin # "fresh" BY <2>1, <2>2 DEF MigInv
  <2>3. CASE origin = "fresh"
    <3>1. Recorded /\ Shares /\ Planned /\ ~again /\ role \in {"meta", "profile"}
      BY <2>3 DEF MigInv
    <3>2. CASE Migration!StartUp
      <4>1. Migration!FirstPass = IF role = "meta" THEN "meta" ELSE "platform"
        BY DEF Migration!FirstPass
      <4> QED BY <2>3, <3>1, <3>2, <4>1, PassBegins DEF Migration!StartUp
    <3>3. CASE Migration!NextPass
      <4>1. pass \in {"platform", "seaorm", "meta", "profile"} /\ plan = {}
        BY <3>3 DEF Migration!NextPass, Migration!Running
      <4>2. CASE pass = "platform"
        <5>1. Migration!PlatformMigrations \subseteq Done BY <3>1, <4>1, <4>2 DEF Planned
        <5>2. Migration!Begin("seaorm") BY <3>3, <4>2 DEF Migration!NextPass, Migration!After
        <5>3. role # "meta" BY <3>1, <4>2 DEF Shares
        <5> QED BY <2>3, <5>1, <5>2, <5>3, PassBegins
      <4>3. CASE pass = "seaorm"
        <5>1. Migration!ShopMigrations \subseteq Done BY <3>1, <4>1, <4>3 DEF Planned
        <5>2. role # "meta" /\ Migration!PlatformMigrations \subseteq Done
          BY <3>1, <4>3 DEF Shares
        <5>3. Done = Migration!AllMigrations BY <5>1, <5>2, WhoseAre DEF Done
        <5>4. Migration!Begin("profile") BY <3>3, <4>3 DEF Migration!NextPass, Migration!After
        <5> QED BY <2>3, <5>2, <5>3, <5>4, PassBegins
      <4>4. CASE pass \in {"meta", "profile"}
        <5>1. pass' = "serving" /\ UNCHANGED <<role, origin, schema, rows, seaql, plan, again>>
          BY <3>3, <4>4 DEF Migration!NextPass, Migration!After, Migration!History
        <5>2. Done' = Done BY <5>1 DEF Done, Had, Migration!Key
        <5>3. Recorded' BY <3>1, <5>1, <5>2 DEF Recorded, Migration!TablesOf
        <5>4. role = "meta" <=> pass = "meta" BY <3>1, <4>4 DEF Shares
        <5>5. Done = IF role = "meta" THEN OfMeta ELSE Migration!AllMigrations
          BY <3>1, <4>1, <4>4, <5>4 DEF Planned, Shares
        <5>6. Shares' BY <3>1, <5>1, <5>2, <5>4, <4>4 DEF Shares
        <5>7. Planned' BY <4>1, <5>1, <5>2, <5>5 DEF Planned
        <5> QED BY <3>1, <5>1, <5>3, <5>6, <5>7 DEF MigInv
      <4> QED BY <4>1, <4>2, <4>3, <4>4
    <3>4. CASE Migration!Crash
      <4>1. pass' = "down" /\ plan' = {} /\ again' = FALSE
            /\ UNCHANGED <<role, origin, schema, rows, seaql>>
        BY <3>4 DEF Migration!Crash, Migration!History
      <4>2. Done' = Done BY <4>1 DEF Done, Had, Migration!Key
      <4>3. Recorded' BY <3>1, <4>1, <4>2 DEF Recorded, Migration!TablesOf
      <4>4. Shares' BY <3>1, <4>1, <4>2 DEF Shares
      <4>5. Planned' BY <4>1 DEF Planned
      <4> QED BY <3>1, <4>1, <4>3, <4>4, <4>5 DEF MigInv
    <3>5. CASE \E m \in plan : Migration!Apply(m) BY <2>3, <3>5, TurnRecorded
    <3>6. CASE \E m \in plan : Migration!Fail(m)
      BY <2>3, <3>6, TurnApplies DEF Migration!Fail
    <3> QED BY <1>2, <3>2, <3>3, <3>4, <3>5, <3>6 DEF MigrationNext
  <2> QED BY <2>2, <2>3
<1>3. MigrationNext \/ UNCHANGED migrationVars BY DEF MCNext, Only, allVars
<1> QED BY <1>1, <1>2, <1>3

\* A server works on the complete schema.
LEMMA SchemaPromises == MigInv => Migration!SchemaThere
<1> SUFFICES ASSUME MigInv, origin = "fresh" PROVE Migration!SchemaThere
  BY DEF Migration!SchemaThere
<1>1. Recorded /\ Shares /\ Planned /\ ~again /\ role \in {"meta", "profile"} BY DEF MigInv
<1>2. pass # "failed" BY <1>1 DEF Shares
<1>3. ASSUME pass = "serving"
      PROVE  schema = Migration!TablesOf(IF role = "meta" THEN OfMeta
                                         ELSE Migration!AllMigrations)
  BY <1>1, <1>3 DEF Recorded, Planned
<1> QED BY <1>1, <1>2, <1>3 DEF Migration!SchemaThere, OfMeta

\* On a new database no migration meets a table that is missing or there already, whatever
\* boot was cut short, and every accepted order of any migrations is complete, respects
\* dependencies and serves meta.db first, as a refusal always has its cause.
THEOREM MigrationsHold == MCSpec => []MigrationsRight
<1>1. MCInit => OrderInv /\ MigInv BY OrderInit, FreshInit DEF MCInit
<1>2. OrderInv /\ MigInv => MigrationsRight
  BY OrderPromises, SchemaPromises DEF MigrationsRight, OrderInv
<1> QED BY <1>1, <1>2, OrderStep, SchemaStep, PTL DEF MCSpec
=============================================================================
