---------------------------- MODULE ActiveProfile ----------------------------
(***************************************************************************)
(* Which profile is active: a value in the server's memory, a file next to   *)
(* the databases that survives restarts, and the sessions of the users, each *)
(* bound to one profile.  Switch requests, the admin socket, the setup       *)
(* wizard and the bootstrap command (a process of its own) change them; the  *)
(* server may restart, clients may hang up, and file operations may fail.    *)
(*                                                                          *)
(* A switch writes a temporary file of its own; a rollback, the wizard and   *)
(* bootstrap all write the same active_profile.tmp, and one that has it open  *)
(* goes on writing to it after another one has renamed it.                   *)
(***************************************************************************)
EXTENDS Naturals, FiniteSets, TLAPS

CONSTANTS
    Switches,       \* clients that send profile_switch requests, one after another
    AdminSwitches,  \* clients of the admin socket that do
    Setup,          \* the setup wizard's request
    Bootstrap,      \* the bootstrap command
    Cookies,        \* session ids
    Emails,         \* accounts of the production profile
    DemoAdmin,      \* admin@demo.local, the account of the demo profile
    MaxInFlight,    \* bound: callers in flight at a time
    None            \* no email, no session, no file

VARIABLES
    memory,          \* PlatformState::active_profile
    disk,            \* content of active_profile
    tmp,             \* content of active_profile.tmp
    opened,          \* where the file is now that a writer has open
    sessions,        \* the session store
    accounts,        \* accounts in the production database
    setup_completed, \* PlatformState::setup_completed
    pc,              \* where each caller is
    call,            \* its arguments and what it remembers
    dropped,         \* requests whose client has hung up
    disturbed,       \* history: since the last boot, see Agreement
    clash            \* history: two writers had active_profile.tmp open

files == <<disk, tmp, opened>>
users == <<sessions, accounts, setup_completed>>
history == <<disturbed, clash>>
vars == <<memory, files, users, pc, call, dropped, history>>

Profiles == {"demo", "production"}
Shared == Switches \cup {Setup, Bootstrap}
Callers == Shared \cup AdminSwitches
Contents == Profiles \cup {"empty", "torn"}

Session == [profile : Profiles, email : Emails \cup {DemoAdmin},
            carry : Emails \cup {DemoAdmin, None},
            home : Emails \cup {None}]  \* history: the account it began with

CallersAssumption ==
    /\ Setup # Bootstrap
    /\ {Setup, Bootstrap} \cap (Switches \cup AdminSwitches) = {}
    /\ Switches \cap AdminSwitches = {}
    /\ None \notin Callers \cup Cookies \cup Emails \cup Contents \cup Session
    /\ DemoAdmin \notin Emails \cup {None}

Call == [target : Profiles, value : Profiles, cookie : Cookies \cup {None},
         session : Session \cup {None}]

With(target, value, cookie, session) ==
    [target |-> target, value |-> value, cookie |-> cookie, session |-> session]
NoCall == With("demo", "demo", None, None)

Steps == {"idle", "persist", "flip", "logout", "login", "open", "write", "rename", "done"}

TypeOK ==
    /\ memory \in Profiles
    /\ disk \in Contents \cup {None}
    /\ tmp \in Contents \cup {None}
    /\ opened \in [Shared -> {"none", "tmp", "disk", "replaced"}]
    /\ sessions \in [Cookies -> Session \cup {None}]
    /\ accounts \in SUBSET Emails
    /\ setup_completed \in BOOLEAN
    /\ pc \in [Callers -> Steps]
    /\ call \in [Callers -> Call]
    /\ dropped \in SUBSET Callers
    /\ disturbed \in BOOLEAN
    /\ clash \in BOOLEAN

Init ==
    /\ memory = "demo"
    /\ disk = None
    /\ tmp = None
    /\ opened = [w \in Shared |-> "none"]
    /\ sessions = [c \in Cookies |-> None]
    /\ accounts = {}
    /\ setup_completed = FALSE
    /\ pc = [x \in Callers |-> "idle"]
    /\ call = [x \in Callers |-> NoCall]
    /\ dropped = {}
    /\ disturbed = FALSE
    /\ clash = FALSE

InFlight(x) == pc[x] \notin {"idle", "done"}
Others(x) == {y \in Callers \ {x} : InFlight(y)}

Continue(x, step) == pc' = [pc EXCEPT ![x] = step] /\ UNCHANGED <<call, dropped>>

\* A caller that is done leaves nothing behind, and switches may be sent again.
After(x) == IF x \in {Setup, Bootstrap} THEN "done" ELSE "idle"
Finish(x) ==
    /\ pc' = [pc EXCEPT ![x] = After(x)]
    /\ call' = [call EXCEPT ![x] = NoCall]
    /\ dropped' = dropped \ {x}

\* The next step of a caller, unless its client has gone.
Goto(x, step) == IF x \in dropped \/ step = "done" THEN Finish(x) ELSE Continue(x, step)

Room(x) == Cardinality(Others(x)) < MaxInFlight

\* A new caller disturbs whoever is still in flight.
Enter(x, step) ==
    /\ pc[x] = "idle" /\ Room(x)
    /\ pc' = [pc EXCEPT ![x] = step]
    /\ disturbed' = (disturbed \/ Others(x) # {})

-----------------------------------------------------------------------------
(* The file *)

\* resolve_active_profile: whatever it cannot read is the demo profile.
Resolve(content) == IF content = "production" THEN "production" ELSE "demo"

\* The shorter word over the longer one leaves the longer one's tail.
Over(word, content) ==
    IF word = "demo" /\ content \in {"production", "torn"} THEN "torn" ELSE word

Close(w) == opened' = [opened EXCEPT ![w] = "none"]

\* Who has the replaced file open writes to a file without a name.
Replaced(where) == IF where = "disk" THEN "replaced" ELSE where
Renamed(where) == IF where = "tmp" THEN "disk" ELSE Replaced(where)

\* Mutant of OpenTmp: opens active_profile itself.
OpenDirect(w) ==
    /\ pc[w] = "open"
    /\ disk' = "empty"
    /\ opened' = [opened EXCEPT ![w] = "disk"]
    /\ clash' = (clash \/ \E v \in Shared \ {w} : pc[v] \in {"write", "rename"})
    /\ Continue(w, "write")
    /\ UNCHANGED <<memory, tmp, users, disturbed>>

\* The open of fs::write: create or truncate.
OpenTmp(w) ==
    /\ pc[w] = "open"
    /\ tmp' = "empty"
    /\ opened' = [opened EXCEPT ![w] = "tmp"]
    /\ clash' = (clash \/ \E v \in Shared \ {w} : pc[v] \in {"write", "rename"})
    /\ Continue(w, "write")
    /\ UNCHANGED <<memory, disk, users, disturbed>>

\* The write of fs::write, even when the client has gone meanwhile.
WriteTmp(w) ==
    /\ pc[w] = "write"
    /\ tmp' = IF opened[w] = "tmp" THEN Over(call[w].value, tmp) ELSE tmp
    /\ disk' = IF opened[w] = "disk" THEN Over(call[w].value, disk) ELSE disk
    /\ Close(w)
    /\ Goto(w, "rename")
    /\ UNCHANGED <<memory, users, history>>

\* The wizard flips memory next; for the others the rename is the end.
AfterRename(w) == IF w = Setup THEN "flip" ELSE "done"

\* Another writer may have renamed the file away: then the rename fails.
RenameTmp(w) ==
    /\ pc[w] = "rename"
    /\ tmp # None
    /\ disk' = tmp
    /\ tmp' = None
    /\ opened' = [v \in Shared |-> Renamed(opened[v])]
    /\ Goto(w, AfterRename(w))
    /\ UNCHANGED <<memory, users, history>>

\* A failed write or rename is logged; a rollback that fails leaves the file as
\* the switch wrote it.
FileFails(w) ==
    /\ pc[w] \in {"open", "write", "rename"}
    /\ Close(w)
    /\ Goto(w, IF w = Setup THEN "login" ELSE "done")
    /\ disturbed' = (disturbed \/ w \in Switches)
    /\ UNCHANGED <<memory, disk, tmp, users, clash>>

-----------------------------------------------------------------------------
(* profile_switch *)

\* The email looked up in the target profile.
TargetEmail(session, target) ==
    IF target = "demo" THEN DemoAdmin
    ELSE IF session.carry # None THEN session.carry ELSE session.email

\* Mutant of Carry: a second switch to demo forgets what the first one saved.
CarryCurrent(session, target) == IF target = "demo" THEN session.email ELSE None

\* The production email the new session takes along.
Carry(session, target) ==
    IF target # "demo" THEN None
    ELSE IF session.carry # None THEN session.carry ELSE session.email

\* Mutant of NewSession: the session's profile is left to the active one.
NewSessionUnbound(session, target) ==
    [email |-> TargetEmail(session, target), carry |-> Carry(session, target),
     home |-> session.home]

NewSession(session, target) ==
    [profile |-> target, email |-> TargetEmail(session, target),
     carry |-> Carry(session, target), home |-> session.home]

\* The session is read once, and the account is looked up before anything changes;
\* a switch to a profile without that account changes nothing.
BeginSwitch(r, c, target) ==
    LET session == sessions[c]
    IN /\ session # None
       /\ TargetEmail(session, target) \in accounts \cup {DemoAdmin}
       /\ target = "production" => TargetEmail(session, target) # DemoAdmin
       /\ Enter(r, "persist")
       /\ call' = [call EXCEPT ![r] = With(target, target, c, NewSession(session, target))]
       /\ UNCHANGED <<memory, files, users, dropped, clash>>

BeginAdminSwitch(a, target) ==
    /\ Enter(a, "persist")
    /\ call' = [call EXCEPT ![a] = With(target, "demo", None, None)]
    /\ UNCHANGED <<memory, files, users, dropped, clash>>

\* persist_and_flip: rename a file of its own over active_profile ...
Persist(x) ==
    /\ pc[x] = "persist"
    /\ disk' = call[x].target
    /\ opened' = [v \in Shared |-> Replaced(opened[v])]
    /\ Goto(x, "flip")
    /\ UNCHANGED <<memory, tmp, users, history>>

PersistFails(x) ==
    /\ pc[x] = "persist"
    /\ Goto(x, "done")
    /\ UNCHANGED <<memory, files, users, history>>

\* ... and only then take the lock and flip memory, remembering what it was.
Flip(x) ==
    /\ pc[x] = "flip"
    /\ memory' = call[x].target
    /\ IF x \in AdminSwitches THEN Finish(x)
       ELSE /\ pc' = [pc EXCEPT ![x] = IF x = Setup THEN "login" ELSE "logout"]
            /\ call' = [call EXCEPT ![x] = With("demo", memory, call[x].cookie, call[x].session)]
            /\ UNCHANGED dropped
    /\ UNCHANGED <<files, users, history>>

Logout(r) ==
    /\ pc[r] = "logout"
    /\ sessions' = [sessions EXCEPT ![call[r].cookie] = None]
    /\ pc' = [pc EXCEPT ![r] = "login"]
    /\ call' = [call EXCEPT ![r] = With("demo", call[r].value, None, call[r].session)]
    /\ UNCHANGED <<memory, files, accounts, setup_completed, dropped, history>>

\* A session id is a fresh random number, which no request still refers to.
Mint(c, session) ==
    /\ sessions[c] = None
    /\ \A x \in Callers : call[x].cookie # c
    /\ sessions' = [sessions EXCEPT ![c] = session]

\* The new session reaches the store, and the client, with the response.
Login(x, c) ==
    /\ pc[x] = "login"
    /\ Mint(c, call[x].session)
    /\ Goto(x, "done")
    /\ UNCHANGED <<memory, files, accounts, setup_completed, history>>

\* Mutant of SwitchFails: rolls back memory alone.
SwitchFailsMemory(r) ==
    /\ pc[r] \in {"logout", "login"}
    /\ memory' = call[r].value
    /\ Goto(r, "done")
    /\ UNCHANGED <<files, users, history>>

\* A failed logout, login or insert of the carried email: memory is rolled back at
\* once, the file follows. A session is not saved with an error response.
SwitchFails(r) ==
    /\ pc[r] \in {"logout", "login"}
    /\ memory' = call[r].value
    /\ pc' = [pc EXCEPT ![r] = "open"]
    /\ call' = [call EXCEPT ![r] = With("demo", call[r].value, None, None)]
    /\ UNCHANGED <<files, users, dropped, history>>

-----------------------------------------------------------------------------
(* The other writers, and the sessions that switches start from *)

OwnSession(e) == [profile |-> "production", email |-> e, carry |-> None, home |-> e]

\* vertical_setup, after setup_admin has committed.
SetupAdmin(e) ==
    /\ ~setup_completed
    /\ Enter(Setup, "open")
    /\ accounts' = accounts \cup {e}
    /\ setup_completed' = TRUE
    /\ call' = [call EXCEPT ![Setup] = With("production", "production", None, OwnSession(e))]
    /\ UNCHANGED <<memory, files, sessions, dropped, clash>>

\* The sign-in after setup may fail, too; setup has succeeded.
SetupLoginFails ==
    /\ pc[Setup] = "login"
    /\ Goto(Setup, "done")
    /\ UNCHANGED <<memory, files, users, history>>

\* Another process: the running server's memory stays what it is.
BootstrapAdmin(e) ==
    /\ accounts = {}
    /\ pc[Bootstrap] = "idle" /\ Room(Bootstrap)
    /\ pc' = [pc EXCEPT ![Bootstrap] = "open"]
    /\ accounts' = {e}
    /\ call' = [call EXCEPT ![Bootstrap] = With("demo", "production", None, None)]
    /\ disturbed' = TRUE
    /\ UNCHANGED <<memory, files, sessions, setup_completed, dropped, clash>>

\* A password login is always against the production profile.
PasswordLogin(c, e) ==
    /\ e \in accounts
    /\ Mint(c, OwnSession(e))
    /\ UNCHANGED <<memory, files, accounts, setup_completed, pc, call, dropped, history>>

DemoAutoLogin(c) ==
    /\ memory = "demo"
    /\ Mint(c, [profile |-> "demo", email |-> DemoAdmin, carry |-> None, home |-> None])
    /\ UNCHANGED <<memory, files, accounts, setup_completed, pc, call, dropped, history>>

\* The handler is dropped at its await; a file operation under way is finished.
HangUp(x) ==
    /\ InFlight(x)
    /\ \/ pc[x] # "write" /\ Finish(x)
       \/ /\ pc[x] \in {"persist", "open", "write", "rename"}
          /\ dropped' = dropped \cup {x}
          /\ UNCHANGED <<pc, call>>
    /\ disturbed' = TRUE
    /\ UNCHANGED <<memory, files, users, clash>>

\* The server ends, at any moment, and boots again; sessions are kept on disk.
Restart ==
    /\ memory' = Resolve(disk)
    /\ opened' = [w \in Shared |-> IF w = Bootstrap THEN opened[w] ELSE "none"]
    /\ pc' = [x \in Callers |-> IF InFlight(x) /\ x # Bootstrap THEN After(x) ELSE pc[x]]
    /\ call' = [x \in Callers |-> IF x = Bootstrap THEN call[x] ELSE NoCall]
    /\ dropped' = {}
    /\ setup_completed' = (accounts # {})
    /\ disturbed' = InFlight(Bootstrap)
    /\ UNCHANGED <<disk, tmp, sessions, accounts, clash>>

-----------------------------------------------------------------------------
SwitchStep(r) == Logout(r) \/ SwitchFails(r)
PersistStep(x) == Persist(x) \/ PersistFails(x) \/ Flip(x)
FileStep(w) == OpenTmp(w) \/ WriteTmp(w) \/ RenameTmp(w) \/ FileFails(w)

Next ==
    \/ \E r \in Switches :
          \/ \E c \in Cookies, target \in Profiles : BeginSwitch(r, c, target)
          \/ SwitchStep(r)
    \/ \E a \in AdminSwitches, target \in Profiles : BeginAdminSwitch(a, target)
    \/ \E x \in Switches \cup AdminSwitches \cup {Setup} : PersistStep(x) \/ HangUp(x)
    \/ \E x \in Switches \cup {Setup}, c \in Cookies : Login(x, c)
    \/ \E w \in Shared : FileStep(w)
    \/ \E e \in Emails : SetupAdmin(e) \/ BootstrapAdmin(e)
    \/ SetupLoginFails
    \/ \E c \in Cookies : DemoAutoLogin(c) \/ \E e \in Emails : PasswordLogin(c, e)
    \/ Restart

Spec == Init /\ [][Next]_vars

-----------------------------------------------------------------------------
\* Memory and file agree once nobody is switching, whatever succeeded or failed
\* and was rolled back, since a boot after which no two callers overlapped, no
\* client hung up, no rollback failed and no bootstrap command ran.
Agreement ==
    ~disturbed /\ (\A x \in Callers : ~InFlight(x)) => memory = Resolve(disk)

\* At every moment a boot finds a whole word in active_profile, or no file: only two
\* writers of active_profile.tmp at a time can make it anything else.
NeverTorn == disk \in {"empty", "torn"} => clash

\* Memory and file agree unless something disturbed them, and the file is whole.
ProfileKept == Agreement /\ NeverTorn

\* Whoever signed in to production and went to the demo profile, by however many
\* switches, can go back: the session remembers the account, which exists.
ReturnTrip ==
    \A c \in Cookies :
        LET s == sessions[c]
        IN s # None /\ s.home # None =>
              /\ TargetEmail(s, "production") = s.home
              /\ s.home \in accounts

------------------------------------------------------------------------------
(* Memory, file and sessions keep to one profile, for any number of clients,     *)
(* sessions, accounts and callers in flight.                                      *)

\* The steps each kind of caller takes.
StepsOK ==
    /\ \A r \in Switches : pc[r] # "done"
    /\ \A a \in AdminSwitches : pc[a] \in {"idle", "persist", "flip"}
    /\ pc[Setup] \notin {"persist", "logout"}
    /\ pc[Bootstrap] \in {"idle", "open", "write", "rename", "done"}

\* A file is open while it is being written.
OpenOK == \A w \in Shared : opened[w] = "none" <=> pc[w] # "write"

\* The session takes the account it began with along.
Returns(s) ==
    s # None /\ s.home # None => TargetEmail(s, "production") = s.home /\ s.home \in accounts
SessionsOK ==
    /\ \A c \in Cookies : Returns(sessions[c])
    /\ \A x \in Callers : Returns(call[x].session)

\* Whoever writes active_profile.tmp, and nobody else does, finds there what it wrote.
Writing(w) == pc[w] \in {"write", "rename"}
FileOK ==
    ~clash \/ ~disturbed =>
        /\ \A v, w \in Shared : Writing(v) /\ Writing(w) => v = w
        /\ \A w \in Shared :
              /\ pc[w] = "write" => opened[w] = "tmp" /\ tmp = "empty"
              /\ pc[w] = "rename" => tmp = call[w].value

\* What memory and file have to do with each other at each step of a lone caller.
AgreeAt(x) ==
    /\ pc[x] \in {"persist", "logout", "login"} => memory = Resolve(disk)
    /\ pc[x] = "flip" => call[x].target = Resolve(disk)
    /\ pc[x] \in {"open", "write", "rename"} =>
          IF x = Setup
          THEN /\ memory = Resolve(disk)
               /\ call[x].target = "production" /\ call[x].value = "production"
          ELSE memory = call[x].value
AgreeOK ==
    ~disturbed =>
        /\ dropped = {} /\ ~InFlight(Bootstrap)
        /\ \A x, y \in Callers : InFlight(x) /\ InFlight(y) => x = y
        /\ (\A x \in Callers : ~InFlight(x)) => memory = Resolve(disk)
        /\ \A x \in Callers : InFlight(x) => AgreeAt(x)

IInv == TypeOK /\ StepsOK /\ OpenOK /\ SessionsOK /\ FileOK /\ AgreeOK /\ NeverTorn

-----------------------------------------------------------------------------
\* No caller yet, and no file: the demo profile.
LEMMA InitInv == ASSUME CallersAssumption, Init PROVE IInv
<1>1. TypeOK BY DEF Init, TypeOK, Profiles, Contents, Steps, NoCall, With, Call
<1>2. StepsOK /\ OpenOK
  BY DEF Init, StepsOK, OpenOK, Callers, Shared
<1>3. SessionsOK BY DEF Init, SessionsOK, Returns, NoCall, With
<1>4. FileOK /\ AgreeOK /\ NeverTorn
  <2>1. None \notin {"production", "empty", "torn"} BY DEF CallersAssumption, Contents, Profiles
  <2>2. \A x \in Callers : pc[x] = "idle" BY DEF Init
  <2>3. FileOK BY <2>2 DEF FileOK, Writing, Callers
  <2>4. AgreeOK BY <2>1, <2>2 DEF Init, AgreeOK, InFlight, Resolve, Callers, Shared
  <2> QED BY <2>1, <2>3, <2>4 DEF Init, NeverTorn
<1> QED BY <1>1, <1>2, <1>3, <1>4 DEF IInv

\* A caller ends, or goes on.
LEMMA GotoType ==
    ASSUME CallersAssumption, TypeOK, NEW x \in Callers, NEW step \in Steps, Goto(x, step)
    PROVE  /\ pc' \in [Callers -> Steps] /\ call' \in [Callers -> Call]
           /\ dropped' \in SUBSET Callers
BY DEF TypeOK, Goto, Finish, Continue, After, Steps, NoCall, With, Call, Profiles

\* A new session takes along the account of the old one.
LEMMA NewSessionReturns ==
    ASSUME CallersAssumption, NEW s \in Session, Returns(s), NEW target \in Profiles
    PROVE  NewSession(s, target) \in Session /\ Returns(NewSession(s, target))
<1>1. CASE target = "demo"
  BY <1>1 DEF CallersAssumption, NewSession, TargetEmail, Carry, Session, Returns
<1>2. CASE target # "demo"
  BY <1>2 DEF CallersAssumption, NewSession, TargetEmail, Carry, Session, Returns
<1> QED BY <1>1, <1>2

\* Every step keeps the types.
LEMMA TypeStep == ASSUME CallersAssumption, IInv, [Next]_vars PROVE TypeOK'
<1> USE DEF files, users, history
<1>0. /\ TypeOK /\ Shared \subseteq Callers /\ Switches \subseteq Callers
      /\ Setup \in Shared /\ Bootstrap \in Shared /\ AdminSwitches \subseteq Callers
      /\ Switches \subseteq Shared
  BY DEF IInv, Callers, Shared
<1>1. ASSUME NEW r \in Switches, NEW c \in Cookies, NEW target \in Profiles,
             BeginSwitch(r, c, target)
      PROVE  TypeOK'
  <2>1. sessions[c] \in Session BY <1>1 DEF IInv, TypeOK, BeginSwitch
  <2>2. NewSession(sessions[c], target) \in Session
    BY <2>1, NewSessionReturns DEF IInv, SessionsOK
  <2>3. With(target, target, c, NewSession(sessions[c], target)) \in Call
    BY <2>2 DEF With, Call
  <2> QED BY <1>0, <1>1, <2>3 DEF TypeOK, BeginSwitch, Enter, Steps
<1>2. ASSUME NEW r \in Switches, SwitchStep(r) PROVE TypeOK'
  <2>0. /\ call[r].value \in Profiles
        /\ With("demo", call[r].value, None, call[r].session) \in Call
        /\ With("demo", call[r].value, None, None) \in Call
    BY <1>0 DEF TypeOK, With, Call, Profiles
  <2>1. CASE Logout(r)
    BY <1>0, <2>0, <2>1 DEF TypeOK, Logout, Steps
  <2>2. CASE SwitchFails(r)
    BY <1>0, <2>0, <2>2 DEF TypeOK, SwitchFails, Steps
  <2> QED BY <1>2, <2>1, <2>2 DEF SwitchStep
<1>3. ASSUME NEW a \in AdminSwitches, NEW target \in Profiles, BeginAdminSwitch(a, target)
      PROVE  TypeOK'
  BY <1>0, <1>3 DEF TypeOK, BeginAdminSwitch, Enter, Steps, With, Call, Profiles
<1>4. ASSUME NEW x \in Switches \cup AdminSwitches \cup {Setup}, PersistStep(x) PROVE TypeOK'
  <2>0. x \in Callers /\ call[x] \in Call /\ memory \in Profiles BY <1>0 DEF TypeOK
  <2>1. CASE Persist(x)
    <3>1. "flip" \in Steps BY DEF Steps
    <3>2. call[x].target \in Contents BY <2>0 DEF Call, Contents
    <3> QED BY <1>0, <2>0, <2>1, <3>1, <3>2, GotoType DEF TypeOK, Persist, Replaced
  <2>2. CASE PersistFails(x)
    <3>1. "done" \in Steps BY DEF Steps
    <3> QED BY <1>0, <2>0, <2>2, <3>1, GotoType DEF TypeOK, PersistFails
  <2>3. CASE Flip(x)
    <3>1. call[x].target \in Profiles BY <2>0 DEF Call
    <3>2. CASE x \in AdminSwitches
      <4>1. Goto(x, "done") /\ "done" \in Steps BY <2>3, <3>2 DEF Flip, Goto, Steps
      <4> QED BY <1>0, <2>0, <2>3, <3>1, <4>1, GotoType DEF TypeOK, Flip
    <3>3. CASE x \notin AdminSwitches
      <4>1. With("demo", memory, call[x].cookie, call[x].session) \in Call
        BY <2>0 DEF With, Call, Profiles
      <4>2. call' \in [Callers -> Call] /\ UNCHANGED dropped
        BY <1>0, <2>0, <2>3, <3>3, <4>1 DEF TypeOK, Flip
      <4>3. pc' \in [Callers -> Steps] BY <1>0, <2>3, <3>3 DEF TypeOK, Flip, Steps
      <4> QED BY <1>0, <2>0, <2>3, <3>1, <4>2, <4>3 DEF TypeOK, Flip
    <3> QED BY <3>2, <3>3
  <2> QED BY <1>4, <2>1, <2>2, <2>3 DEF PersistStep
<1>5. ASSUME NEW x \in Switches \cup AdminSwitches \cup {Setup}, HangUp(x) PROVE TypeOK'
  <2>0. x \in Callers BY <1>0
  <2> QED BY <1>0, <1>5, <2>0
          DEF TypeOK, HangUp, Finish, After, Steps, NoCall, With, Call, Profiles
<1>6. ASSUME NEW x \in Switches \cup {Setup}, NEW c \in Cookies, Login(x, c) PROVE TypeOK'
  <2>0. x \in Callers /\ call[x].session \in Session \cup {None} BY <1>0 DEF TypeOK, Call
  <2>1. "done" \in Steps BY DEF Steps
  <2> QED BY <1>0, <1>6, <2>0, <2>1, GotoType DEF TypeOK, Login, Mint
<1>7. ASSUME NEW w \in Shared, FileStep(w) PROVE TypeOK'
  <2>0. w \in Callers /\ call[w] \in Call /\ w \in Shared BY <1>0 DEF TypeOK
  <2>1. CASE OpenTmp(w)
    BY <1>0, <2>0, <2>1 DEF TypeOK, OpenTmp, Continue, Steps, Contents
  <2>2. CASE WriteTmp(w)
    <3>1. "rename" \in Steps BY DEF Steps
    <3>2. \A content : Over(call[w].value, content) \in Contents
      BY <2>0 DEF Over, Contents, Call
    <3> QED BY <1>0, <2>0, <2>2, <3>1, <3>2, GotoType DEF TypeOK, WriteTmp, Close
  <2>3. CASE RenameTmp(w)
    <3>1. AfterRename(w) \in Steps BY DEF Steps, AfterRename
    <3> QED BY <1>0, <2>0, <2>3, <3>1, GotoType DEF TypeOK, RenameTmp, Renamed, Replaced
  <2>4. CASE FileFails(w)
    <3>1. (IF w = Setup THEN "login" ELSE "done") \in Steps BY DEF Steps
    <3> QED BY <1>0, <2>0, <2>4, <3>1, GotoType DEF TypeOK, FileFails, Close
  <2> QED BY <1>7, <2>1, <2>2, <2>3, <2>4 DEF FileStep
<1>8. ASSUME NEW e \in Emails, SetupAdmin(e) \/ BootstrapAdmin(e) PROVE TypeOK'
  <2>1. OwnSession(e) \in Session BY DEF OwnSession, Session, Profiles
  <2>2. With("production", "production", None, OwnSession(e)) \in Call
    BY <2>1 DEF With, Call, Profiles
  <2>3. With("demo", "production", None, None) \in Call BY DEF With, Call, Profiles
  <2>4. CASE SetupAdmin(e) BY <1>0, <2>2, <2>4 DEF TypeOK, SetupAdmin, Enter, Steps
  <2>5. CASE BootstrapAdmin(e) BY <1>0, <2>3, <2>5 DEF TypeOK, BootstrapAdmin, Steps
  <2> QED BY <1>8, <2>4, <2>5
<1>9. CASE SetupLoginFails
  <2>1. "done" \in Steps /\ Setup \in Callers BY <1>0 DEF Steps
  <2> QED BY <1>0, <1>9, <2>1, GotoType DEF TypeOK, SetupLoginFails
<1>10. ASSUME NEW c \in Cookies, DemoAutoLogin(c) PROVE TypeOK'
  BY <1>0, <1>10 DEF TypeOK, DemoAutoLogin, Mint, Session, Profiles
<1>11. ASSUME NEW c \in Cookies, NEW e \in Emails, PasswordLogin(c, e) PROVE TypeOK'
  BY <1>0, <1>11 DEF TypeOK, PasswordLogin, Mint, Session, Profiles, OwnSession
<1>12. CASE Restart
  BY <1>0, <1>12
  DEF TypeOK, Restart, Resolve, Profiles, After, Steps, NoCall, With, Call, InFlight
<1>13. CASE UNCHANGED vars BY <1>0, <1>13 DEF TypeOK, vars
<1> QED BY <1>1, <1>2, <1>3, <1>4, <1>5, <1>6, <1>7, <1>8, <1>9, <1>10, <1>11, <1>12, <1>13
        DEF Next

\* Which callers there are.
LEMMA Who ==
    ASSUME CallersAssumption
    PROVE  /\ Shared \subseteq Callers /\ Switches \subseteq Shared
           /\ AdminSwitches \subseteq Callers /\ Setup \in Shared /\ Bootstrap \in Shared
           /\ Setup \notin Switches \cup AdminSwitches
           /\ Bootstrap \notin Switches \cup AdminSwitches
           /\ Setup # Bootstrap /\ Switches \cap AdminSwitches = {}
           /\ AdminSwitches \cap Shared = {}
BY DEF CallersAssumption, Callers, Shared

\* Where a caller and the others are after its step.
LEMMA GotoWhere ==
    ASSUME TypeOK, NEW x \in Callers, NEW step, Goto(x, step)
    PROVE  /\ \A y \in Callers \ {x} : pc'[y] = pc[y] /\ call'[y] = call[y]
           /\ \/ /\ x \notin dropped /\ step # "done"
                 /\ pc'[x] = step /\ call'[x] = call[x] /\ dropped' = dropped
              \/ /\ x \in dropped \/ step = "done"
                 /\ pc'[x] = After(x) /\ call'[x] = NoCall /\ dropped' = dropped \ {x}
BY DEF TypeOK, Goto, Finish, Continue

\* Every step keeps each caller to its own steps, and files open only while written.
LEMMA StepsStep == ASSUME CallersAssumption, IInv, [Next]_vars PROVE StepsOK' /\ OpenOK'
<1> USE Who DEF After, files, users, history
<1>0. TypeOK /\ StepsOK /\ OpenOK BY DEF IInv
<1>1. ASSUME NEW r \in Switches, NEW c \in Cookies, NEW target \in Profiles,
             BeginSwitch(r, c, target)
      PROVE  StepsOK' /\ OpenOK'
  BY <1>0, <1>1 DEF TypeOK, StepsOK, OpenOK, BeginSwitch, Enter
<1>2. ASSUME NEW r \in Switches, SwitchStep(r) PROVE StepsOK' /\ OpenOK'
  BY <1>0, <1>2 DEF TypeOK, StepsOK, OpenOK, SwitchStep, Logout, SwitchFails
<1>3. ASSUME NEW a \in AdminSwitches, NEW target \in Profiles, BeginAdminSwitch(a, target)
      PROVE  StepsOK' /\ OpenOK'
  BY <1>0, <1>3 DEF TypeOK, StepsOK, OpenOK, BeginAdminSwitch, Enter
<1>4. ASSUME NEW x \in Switches \cup AdminSwitches \cup {Setup}, PersistStep(x)
      PROVE  StepsOK' /\ OpenOK'
  <2>0. x \in Callers /\ pc[x] # "write" BY <1>4 DEF PersistStep, Persist, PersistFails, Flip
  <2>1. CASE Persist(x) BY <1>0, <2>0, <2>1, GotoWhere DEF TypeOK, StepsOK, OpenOK, Persist, Replaced
  <2>2. CASE PersistFails(x) BY <1>0, <2>0, <2>2, GotoWhere DEF TypeOK, StepsOK, OpenOK, PersistFails
  <2>3. CASE Flip(x) BY <1>0, <2>0, <2>3 DEF TypeOK, StepsOK, OpenOK, Flip, Finish
  <2> QED BY <1>4, <2>1, <2>2, <2>3 DEF PersistStep
<1>5. ASSUME NEW x \in Switches \cup AdminSwitches \cup {Setup}, HangUp(x)
      PROVE  StepsOK' /\ OpenOK'
  BY <1>0, <1>5 DEF TypeOK, StepsOK, OpenOK, HangUp, Finish, InFlight
<1>6. ASSUME NEW x \in Switches \cup {Setup}, NEW c \in Cookies, Login(x, c)
      PROVE  StepsOK' /\ OpenOK'
  BY <1>0, <1>6, GotoWhere DEF TypeOK, StepsOK, OpenOK, Login
<1>7. ASSUME NEW w \in Shared, FileStep(w) PROVE StepsOK' /\ OpenOK'
  <2>1. CASE OpenTmp(w) BY <1>0, <2>1 DEF TypeOK, StepsOK, OpenOK, OpenTmp, Continue
  <2>2. CASE WriteTmp(w) BY <1>0, <2>2, GotoWhere DEF TypeOK, StepsOK, OpenOK, WriteTmp, Close
  <2>3. CASE RenameTmp(w)
    BY <1>0, <2>3, GotoWhere
    DEF TypeOK, StepsOK, OpenOK, RenameTmp, Renamed, Replaced, AfterRename
  <2>4. CASE FileFails(w) BY <1>0, <2>4, GotoWhere DEF TypeOK, StepsOK, OpenOK, FileFails, Close
  <2> QED BY <1>7, <2>1, <2>2, <2>3, <2>4 DEF FileStep
<1>8. ASSUME NEW e \in Emails, SetupAdmin(e) \/ BootstrapAdmin(e) PROVE StepsOK' /\ OpenOK'
  BY <1>0, <1>8 DEF TypeOK, StepsOK, OpenOK, SetupAdmin, BootstrapAdmin, Enter
<1>9. CASE SetupLoginFails
  BY <1>0, <1>9, GotoWhere DEF TypeOK, StepsOK, OpenOK, SetupLoginFails
<1>10. CASE Restart BY <1>0, <1>10 DEF TypeOK, StepsOK, OpenOK, Restart, InFlight
<1>11. ASSUME UNCHANGED <<pc, opened>> PROVE StepsOK' /\ OpenOK'
  BY <1>0, <1>11 DEF StepsOK, OpenOK
<1> QED BY <1>1, <1>2, <1>3, <1>4, <1>5, <1>6, <1>7, <1>8, <1>9, <1>10, <1>11
        DEF Next, DemoAutoLogin, PasswordLogin, vars

\* Accounts are only ever added, and sessions copied or built for one of them.
LEMMA SessionsStep == ASSUME CallersAssumption, IInv, [Next]_vars PROVE SessionsOK'
<1> USE Who DEF files, users, history
<1>0. TypeOK /\ SessionsOK BY DEF IInv
<1>1. Returns(None)' /\ NoCall.session = None BY DEF Returns, NoCall, With
<1>2. ASSUME accounts \subseteq accounts', NEW s, Returns(s) PROVE Returns(s)'
  BY <1>2 DEF Returns, TargetEmail
<1>3. ASSUME NEW e \in accounts' PROVE Returns(OwnSession(e))'
  BY <1>3 DEF Returns, OwnSession, TargetEmail
<1>4. ASSUME UNCHANGED <<sessions, accounts>>,
             \A x \in Callers : call'[x].session \in {None, call[x].session}
      PROVE  SessionsOK'
  BY <1>0, <1>1, <1>2, <1>4 DEF SessionsOK
<1>5. ASSUME NEW r \in Switches, NEW c \in Cookies, NEW target \in Profiles,
             BeginSwitch(r, c, target)
      PROVE  SessionsOK'
  <2>1. sessions[c] \in Session /\ Returns(sessions[c])
    BY <1>0, <1>5 DEF TypeOK, SessionsOK, BeginSwitch
  <2>2. Returns(NewSession(sessions[c], target)) BY <2>1, NewSessionReturns
  <2>3. call'[r].session = NewSession(sessions[c], target)
        /\ \A x \in Callers \ {r} : call'[x] = call[x]
    BY <1>0, <1>5 DEF TypeOK, BeginSwitch, With
  <2>4. UNCHANGED <<sessions, accounts>> BY <1>5 DEF BeginSwitch
  <2> QED BY <1>0, <1>2, <2>2, <2>3, <2>4 DEF SessionsOK
<1>6. ASSUME NEW r \in Switches, SwitchStep(r) PROVE SessionsOK'
  <2>1. \A x \in Callers : call'[x].session \in {None, call[x].session}
    BY <1>0, <1>6 DEF TypeOK, SwitchStep, Logout, SwitchFails, With
  <2>2. accounts' = accounts /\ \A c \in Cookies : sessions'[c] \in {None, sessions[c]}
    BY <1>0, <1>6 DEF TypeOK, SwitchStep, Logout, SwitchFails
  <2> QED BY <1>0, <1>1, <1>2, <2>1, <2>2 DEF SessionsOK
<1>7. ASSUME NEW a \in AdminSwitches, NEW target \in Profiles, BeginAdminSwitch(a, target)
      PROVE  SessionsOK'
  BY <1>0, <1>4, <1>7 DEF TypeOK, BeginAdminSwitch, With
<1>8. ASSUME NEW x \in Switches \cup AdminSwitches \cup {Setup}, PersistStep(x) PROVE SessionsOK'
  <2>0. x \in Callers OBVIOUS
  <2>1. UNCHANGED <<sessions, accounts>>
    BY <1>8 DEF PersistStep, Persist, PersistFails, Flip
  <2>2. \A y \in Callers : call'[y].session \in {None, call[y].session}
    BY <1>0, <1>1, <1>8, <2>0, GotoWhere
    DEF TypeOK, PersistStep, Persist, PersistFails, Flip, Finish, With
  <2> QED BY <1>4, <2>1, <2>2
<1>9. ASSUME NEW x \in Switches \cup AdminSwitches \cup {Setup}, HangUp(x) PROVE SessionsOK'
  BY <1>0, <1>1, <1>4, <1>9 DEF TypeOK, HangUp, Finish
<1>10. ASSUME NEW x \in Switches \cup {Setup}, NEW c \in Cookies, Login(x, c) PROVE SessionsOK'
  <2>0. x \in Callers OBVIOUS
  <2>1. \A y \in Callers : call'[y].session \in {None, call[y].session}
    BY <1>0, <1>1, <1>10, <2>0, GotoWhere DEF Login
  <2>2. /\ accounts' = accounts
        /\ \A d \in Cookies : sessions'[d] \in {call[x].session, sessions[d]}
    BY <1>0, <1>10 DEF TypeOK, Login, Mint
  <2> QED BY <1>0, <1>1, <1>2, <2>0, <2>1, <2>2 DEF SessionsOK
<1>11. ASSUME NEW w \in Shared, FileStep(w) PROVE SessionsOK'
  <2>0. w \in Callers OBVIOUS
  <2>1. UNCHANGED <<sessions, accounts>>
    BY <1>11 DEF FileStep, OpenTmp, WriteTmp, RenameTmp, FileFails
  <2>2. \A y \in Callers : call'[y].session \in {None, call[y].session}
    BY <1>0, <1>1, <1>11, <2>0, GotoWhere
    DEF FileStep, OpenTmp, WriteTmp, RenameTmp, FileFails, Continue
  <2> QED BY <1>4, <2>1, <2>2
<1>12. ASSUME NEW e \in Emails, SetupAdmin(e) \/ BootstrapAdmin(e) PROVE SessionsOK'
  <2>1. sessions' = sessions /\ accounts \subseteq accounts' /\ e \in accounts'
    BY <1>12 DEF SetupAdmin, BootstrapAdmin
  <2>2. \A x \in Callers : call'[x].session \in {None, OwnSession(e), call[x].session}
    BY <1>0, <1>12 DEF TypeOK, SetupAdmin, BootstrapAdmin, With
  <2> QED BY <1>0, <1>1, <1>2, <1>3, <2>1, <2>2 DEF SessionsOK
<1>13. CASE SetupLoginFails
  <2>1. UNCHANGED <<sessions, accounts>> /\ Goto(Setup, "done") /\ Setup \in Callers
    BY <1>13 DEF SetupLoginFails
  <2> QED BY <1>0, <1>1, <1>4, <2>1, GotoWhere
<1>14. ASSUME NEW c \in Cookies, DemoAutoLogin(c) PROVE SessionsOK'
  <2>1. /\ UNCHANGED <<accounts, call>>
        /\ \A d \in Cookies \ {c} : sessions'[d] = sessions[d]
        /\ sessions'[c].home = None
    BY <1>0, <1>14 DEF TypeOK, DemoAutoLogin, Mint
  <2>2. Returns(sessions[c])' BY <2>1 DEF Returns
  <2> QED BY <1>0, <1>2, <2>1, <2>2 DEF SessionsOK
<1>15. ASSUME NEW c \in Cookies, NEW e \in Emails, PasswordLogin(c, e) PROVE SessionsOK'
  <2>1. /\ UNCHANGED <<accounts, call>> /\ e \in accounts'
        /\ \A d \in Cookies : sessions'[d] \in {OwnSession(e), sessions[d]}
    BY <1>0, <1>15 DEF TypeOK, PasswordLogin, Mint
  <2> QED BY <1>0, <1>2, <1>3, <2>1 DEF SessionsOK
<1>16. CASE Restart BY <1>0, <1>1, <1>4, <1>16 DEF Restart
<1>17. CASE UNCHANGED vars BY <1>0, <1>4, <1>17 DEF vars
<1> QED BY <1>5, <1>6, <1>7, <1>8, <1>9, <1>10, <1>11, <1>12, <1>13, <1>14, <1>15, <1>16, <1>17
        DEF Next

\* A step that leaves the writers where they are, or takes some of them away.
LEMMA FileKeep ==
    ASSUME CallersAssumption, IInv, UNCHANGED <<tmp, clash>>, ~disturbed' => ~disturbed,
           disk' \in Profiles \cup {disk},
           \A w \in Shared : Writing(w)' =>
              /\ pc'[w] = pc[w] /\ call'[w] = call[w]
              /\ opened[w] = "tmp" => opened'[w] = "tmp"
    PROVE  FileOK' /\ NeverTorn'
BY DEF IInv, FileOK, NeverTorn, Writing, Profiles

\* Every step of one writer at a time keeps the file whole.
LEMMA FileOKStep == ASSUME CallersAssumption, IInv, [Next]_vars PROVE FileOK' /\ NeverTorn'
<1> USE Who DEF files, users, history, Writing
<1>0. TypeOK /\ FileOK /\ NeverTorn BY DEF IInv
<1>1. ASSUME NEW r \in Switches, NEW c \in Cookies, NEW target \in Profiles,
             BeginSwitch(r, c, target)
      PROVE  FileOK' /\ NeverTorn'
  BY <1>0, <1>1, FileKeep DEF TypeOK, BeginSwitch, Enter
<1>2. ASSUME NEW r \in Switches, SwitchStep(r) PROVE FileOK' /\ NeverTorn'
  BY <1>0, <1>2, FileKeep DEF TypeOK, SwitchStep, Logout, SwitchFails
<1>3. ASSUME NEW a \in AdminSwitches, NEW target \in Profiles, BeginAdminSwitch(a, target)
      PROVE  FileOK' /\ NeverTorn'
  BY <1>0, <1>3, FileKeep DEF TypeOK, BeginAdminSwitch, Enter
<1>4. ASSUME NEW x \in Switches \cup AdminSwitches \cup {Setup}, PersistStep(x)
      PROVE  FileOK' /\ NeverTorn'
  <2>0. x \in Callers /\ call[x].target \in Profiles BY <1>0 DEF TypeOK, Call
  <2>1. CASE Persist(x)
    <3>1. \A w \in Shared : Writing(w)' => w # x
      BY <1>0, <2>0, <2>1, GotoWhere DEF Persist, After
    <3>2. \A w \in Shared : opened[w] = "tmp" => opened'[w] = "tmp"
      BY <2>1 DEF Persist, Replaced
    <3> QED BY <1>0, <2>0, <2>1, <3>1, <3>2, GotoWhere, FileKeep DEF Persist
  <2>2. CASE PersistFails(x)
    BY <1>0, <2>0, <2>2, GotoWhere, FileKeep DEF PersistFails, After
  <2>3. CASE Flip(x) BY <1>0, <2>0, <2>3, FileKeep DEF TypeOK, Flip, Finish, After
  <2> QED BY <1>4, <2>1, <2>2, <2>3 DEF PersistStep
<1>5. ASSUME NEW x \in Switches \cup AdminSwitches \cup {Setup}, HangUp(x)
      PROVE  FileOK' /\ NeverTorn'
  BY <1>0, <1>5, FileKeep DEF TypeOK, HangUp, Finish, After
<1>6. ASSUME NEW x \in Switches \cup {Setup}, NEW c \in Cookies, Login(x, c)
      PROVE  FileOK' /\ NeverTorn'
  BY <1>0, <1>6, GotoWhere, FileKeep DEF Login, After
<1>7. ASSUME NEW w \in Shared, OpenTmp(w) PROVE FileOK' /\ NeverTorn'
  <2>1. /\ pc'[w] = "write" /\ opened'[w] = "tmp" /\ tmp' = "empty"
        /\ \A v \in Shared \ {w} : pc'[v] = pc[v]
    BY <1>0, <1>7 DEF TypeOK, OpenTmp, Continue
  <2>2. ~clash' \/ ~disturbed' => \A v \in Shared \ {w} : ~Writing(v)
    BY <1>7 DEF IInv, AgreeOK, InFlight, OpenTmp
  <2> QED BY <1>0, <1>7, <2>1, <2>2 DEF FileOK, NeverTorn, OpenTmp
<1>8. ASSUME NEW w \in Shared, WriteTmp(w) PROVE FileOK' /\ NeverTorn'
  <2>1. ~clash \/ ~disturbed =>
           /\ tmp' = call[w].value /\ disk' = disk
           /\ \A v \in Shared \ {w} : ~Writing(v)
    <3>1. call[w].value \in Profiles BY <1>0 DEF TypeOK, Call
    <3> QED BY <1>0, <1>8, <3>1 DEF FileOK, WriteTmp, Over, Profiles
  <2>2. /\ \A v \in Shared \ {w} : pc'[v] = pc[v]
        /\ pc'[w] # "write" /\ (pc'[w] = "rename" => call'[w] = call[w])
    BY <1>0, <1>8, GotoWhere DEF WriteTmp, After
  <2> QED BY <1>0, <1>8, <2>1, <2>2 DEF FileOK, NeverTorn, WriteTmp
<1>9. ASSUME NEW w \in Shared, RenameTmp(w) PROVE FileOK' /\ NeverTorn'
  <2>1. ~clash \/ ~disturbed =>
           disk' \in Profiles /\ \A v \in Shared \ {w} : ~Writing(v)
    <3>1. call[w].value \in Profiles BY <1>0 DEF TypeOK, Call
    <3> QED BY <1>0, <1>9, <3>1 DEF FileOK, RenameTmp
  <2>2. /\ \A v \in Shared \ {w} : pc'[v] = pc[v]
        /\ ~Writing(w)'
    BY <1>0, <1>9, GotoWhere DEF RenameTmp, After, AfterRename
  <2> QED BY <1>0, <1>9, <2>1, <2>2 DEF FileOK, NeverTorn, RenameTmp, Profiles
<1>10. ASSUME NEW w \in Shared, FileFails(w) PROVE FileOK' /\ NeverTorn'
  <2>1. /\ \A v \in Shared \ {w} : pc'[v] = pc[v] /\ call'[v] = call[v] /\ opened'[v] = opened[v]
        /\ ~Writing(w)'
    BY <1>0, <1>10, GotoWhere DEF TypeOK, FileFails, After, Close
  <2> QED BY <1>10, <2>1, FileKeep DEF FileFails
<1>11. ASSUME NEW e \in Emails, SetupAdmin(e) \/ BootstrapAdmin(e) PROVE FileOK' /\ NeverTorn'
  BY <1>0, <1>11, FileKeep DEF TypeOK, SetupAdmin, BootstrapAdmin, Enter
<1>12. CASE SetupLoginFails
  BY <1>0, <1>12, GotoWhere, FileKeep DEF SetupLoginFails, After
<1>13. CASE Restart
  <2>1. \A w \in Shared : Writing(w)' =>
           w = Bootstrap /\ UNCHANGED <<pc[w], call[w], opened[w]>> /\ disturbed'
    BY <1>0, <1>13 DEF Restart, InFlight, After
  <2> QED BY <1>0, <1>13, <2>1 DEF FileOK, NeverTorn, Restart
<1>14. ASSUME UNCHANGED <<disk, tmp, opened, pc, call, disturbed, clash>>
       PROVE  FileOK' /\ NeverTorn'
  BY <1>14, FileKeep
<1> QED BY <1>1, <1>2, <1>3, <1>4, <1>5, <1>6, <1>7, <1>8, <1>9, <1>10, <1>11, <1>12, <1>13, <1>14
        DEF Next, FileStep, DemoAutoLogin, PasswordLogin, vars

\* The step of a caller that is alone.
LEMMA LoneStep ==
    ASSUME CallersAssumption, IInv, NEW x \in Callers,
           ~disturbed' => /\ ~disturbed /\ dropped' = {}
                          /\ \A y \in Callers \ {x} : ~InFlight(y) /\ pc'[y] = pc[y]
                          /\ InFlight(x)' => x # Bootstrap /\ AgreeAt(x)'
                          /\ ~InFlight(x)' => memory' = Resolve(disk')
    PROVE  AgreeOK'
BY Who DEF IInv, AgreeOK, InFlight

\* Every step of a caller that nothing disturbs brings memory and file together.
LEMMA AgreeStep == ASSUME CallersAssumption, IInv, [Next]_vars PROVE AgreeOK'
<1> USE Who DEF files, users, history
<1>0. TypeOK /\ AgreeOK /\ StepsOK /\ FileOK BY DEF IInv
<1>1. ASSUME NEW x \in Callers, InFlight(x), ~disturbed
      PROVE  /\ \A y \in Callers \ {x} : ~InFlight(y)
             /\ x # Bootstrap /\ AgreeAt(x) /\ x \notin dropped /\ dropped = {}
  BY <1>0, <1>1 DEF AgreeOK
<1>2. ASSUME NEW x \in Callers, NEW step, Enter(x, step), ~disturbed'
      PROVE  /\ ~disturbed /\ dropped = {} /\ memory = Resolve(disk) /\ pc'[x] = step
             /\ \A y \in Callers \ {x} : ~InFlight(y) /\ pc'[y] = pc[y]
  BY <1>0, <1>2 DEF TypeOK, AgreeOK, Enter, Others, InFlight
<1>3. ASSUME NEW r \in Switches, NEW c \in Cookies, NEW target \in Profiles,
             BeginSwitch(r, c, target)
      PROVE  AgreeOK'
  <2>1. Enter(r, "persist") /\ UNCHANGED <<memory, disk, dropped>> BY <1>3 DEF BeginSwitch
  <2> QED BY <1>2, <2>1, LoneStep DEF InFlight, AgreeAt
<1>4. ASSUME NEW a \in AdminSwitches, NEW target \in Profiles, BeginAdminSwitch(a, target)
      PROVE  AgreeOK'
  <2>1. Enter(a, "persist") /\ UNCHANGED <<memory, disk, dropped>> BY <1>4 DEF BeginAdminSwitch
  <2> QED BY <1>2, <2>1, LoneStep DEF InFlight, AgreeAt
<1>5. ASSUME NEW e \in Emails, SetupAdmin(e) PROVE AgreeOK'
  <2>1. /\ Enter(Setup, "open") /\ UNCHANGED <<memory, disk, dropped>>
        /\ call'[Setup] = With("production", "production", None, OwnSession(e))
    BY <1>0, <1>5 DEF TypeOK, SetupAdmin
  <2> QED BY <1>2, <2>1, LoneStep DEF InFlight, AgreeAt, With
<1>6. ASSUME NEW e \in Emails, BootstrapAdmin(e) PROVE AgreeOK'
  BY <1>6 DEF BootstrapAdmin, AgreeOK
<1>7. ASSUME NEW x \in Callers, HangUp(x) PROVE AgreeOK'
  BY <1>7 DEF HangUp, AgreeOK
<1>8. ASSUME NEW x \in Callers, NEW step, InFlight(x), Goto(x, step), disturbed' = disturbed,
             ~disturbed => /\ step \in {"done", "idle"} => memory' = Resolve(disk')
                           /\ step \notin {"done", "idle"} /\ call'[x] = call[x] => AgreeAt(x)'
      PROVE  AgreeOK'
  BY <1>0, <1>1, <1>8, GotoWhere, LoneStep DEF After, InFlight
<1>9. ASSUME NEW r \in Switches, Logout(r) PROVE AgreeOK'
  <2>1. /\ InFlight(r) /\ pc'[r] = "login" /\ UNCHANGED <<memory, disk, dropped, disturbed>>
        /\ \A y \in Callers \ {r} : pc'[y] = pc[y]
    BY <1>0, <1>9 DEF TypeOK, Logout, InFlight
  <2> QED BY <1>1, <1>9, <2>1, LoneStep DEF AgreeAt, Logout
<1>10. ASSUME NEW r \in Switches, SwitchFails(r) PROVE AgreeOK'
  <2>1. /\ InFlight(r) /\ pc'[r] = "open" /\ UNCHANGED <<disk, dropped, disturbed>>
        /\ memory' = call'[r].value
        /\ \A y \in Callers \ {r} : pc'[y] = pc[y]
    BY <1>0, <1>10 DEF TypeOK, SwitchFails, InFlight, With
  <2>2. r \in Callers /\ r # Setup OBVIOUS
  <2>3. AgreeAt(r)' BY <2>1, <2>2 DEF AgreeAt
  <2>4. InFlight(r)' BY <2>1 DEF InFlight
  <2> QED BY <1>1, <2>1, <2>2, <2>3, <2>4, LoneStep
<1>11. ASSUME NEW x \in Switches \cup AdminSwitches \cup {Setup}, PersistStep(x) PROVE AgreeOK'
  <2>0. x \in Callers /\ call[x].target \in Profiles /\ InFlight(x)
    BY <1>0, <1>11 DEF TypeOK, Call, InFlight, PersistStep, Persist, PersistFails, Flip
  <2>1. CASE Persist(x)
    <3>1. call[x].target = Resolve(call[x].target) BY <2>0 DEF Profiles, Resolve
    <3>2. x \notin dropped => pc'[x] = "flip" /\ call'[x] = call[x]
      BY <1>0, <2>0, <2>1, GotoWhere DEF Persist
    <3> QED BY <1>1, <1>8, <2>0, <2>1, <3>1, <3>2 DEF Persist, AgreeAt
  <2>2. CASE PersistFails(x) BY <1>1, <1>8, <2>0, <2>2 DEF PersistFails, AgreeAt
  <2>3. CASE Flip(x)
    <3>1. /\ UNCHANGED <<disk, disturbed>> /\ memory' = call[x].target /\ pc[x] = "flip"
          /\ \A y \in Callers \ {x} : pc'[y] = pc[y]
          /\ pc'[x] \in {"idle", "login", "logout"}
          /\ dropped' \subseteq dropped
      BY <1>0, <2>0, <2>3 DEF TypeOK, Flip, Finish, After
    <3> QED BY <1>1, <2>0, <3>1, LoneStep DEF AgreeAt, InFlight
  <2> QED BY <1>11, <2>1, <2>2, <2>3 DEF PersistStep
<1>12. ASSUME NEW x \in Switches \cup {Setup}, NEW c \in Cookies, Login(x, c) PROVE AgreeOK'
  <2>1. x \in Callers /\ InFlight(x) BY <1>12 DEF Login, InFlight
  <2> QED BY <1>1, <1>8, <1>12, <2>1 DEF Login, AgreeAt
<1>13. CASE SetupLoginFails
  <2>1. InFlight(Setup) BY <1>13 DEF SetupLoginFails, InFlight
  <2> QED BY <1>1, <1>8, <1>13, <2>1 DEF SetupLoginFails, AgreeAt
<1>14. ASSUME NEW w \in Shared, OpenTmp(w) PROVE AgreeOK'
  <2>1. InFlight(w) BY <1>14 DEF OpenTmp, InFlight
  <2>2. /\ \A y \in Callers \ {w} : pc'[y] = pc[y]
        /\ pc'[w] = "write" /\ call' = call /\ dropped' = dropped
        /\ UNCHANGED <<memory, disk, disturbed>>
    BY <1>0, <1>14 DEF TypeOK, OpenTmp, Continue
  <2>3. ~disturbed => AgreeAt(w)' BY <1>1, <1>14, <2>1, <2>2 DEF OpenTmp, AgreeAt
  <2>4. InFlight(w)' BY <2>2 DEF InFlight
  <2> QED BY <1>1, <2>1, <2>2, <2>3, <2>4, LoneStep
<1>15. ASSUME NEW w \in Shared, WriteTmp(w) PROVE AgreeOK'
  <2>1. InFlight(w) BY <1>15 DEF WriteTmp, InFlight
  <2>2. ~disturbed => disk' = disk BY <1>0, <1>15 DEF FileOK, WriteTmp
  <2>3. ~disturbed => pc'[w] = "rename" /\ call'[w] = call[w]
    BY <1>0, <1>1, <1>15, <2>1, GotoWhere DEF WriteTmp
  <2> QED BY <1>1, <1>8, <1>15, <2>1, <2>2, <2>3 DEF WriteTmp, AgreeAt
<1>16. ASSUME NEW w \in Shared, RenameTmp(w) PROVE AgreeOK'
  <2>1. InFlight(w) BY <1>16 DEF RenameTmp, InFlight
  <2>2. ~disturbed => disk' = call[w].value BY <1>0, <1>16 DEF FileOK, Writing, RenameTmp
  <2>3. call[w].value \in Profiles /\ call[w].value = Resolve(call[w].value)
    BY <1>0 DEF TypeOK, Call, Profiles, Resolve
  <2>4. CASE w = Setup
    <3>1. ~disturbed => pc'[w] = "flip" /\ call'[w] = call[w]
      BY <1>0, <1>1, <1>16, <2>1, <2>4, GotoWhere DEF RenameTmp, AfterRename
    <3> QED BY <1>1, <1>8, <1>16, <2>1, <2>2, <2>3, <2>4, <3>1 DEF RenameTmp, AfterRename, AgreeAt
  <2>5. CASE w # Setup
    BY <1>1, <1>8, <1>16, <2>1, <2>2, <2>3, <2>5 DEF RenameTmp, AfterRename, AgreeAt
  <2> QED BY <2>4, <2>5
<1>17. ASSUME NEW w \in Shared, FileFails(w) PROVE AgreeOK'
  <2>1. InFlight(w) /\ UNCHANGED <<memory, disk>> BY <1>17 DEF FileFails, InFlight
  <2>2. CASE w = Setup
    <3>1. ~disturbed => pc'[w] = "login" /\ call'[w] = call[w]
      BY <1>0, <1>1, <1>17, <2>1, <2>2, GotoWhere DEF FileFails
    <3>2. disturbed' = disturbed /\ Goto(w, "login") BY <1>0, <1>17, <2>2 DEF FileFails, TypeOK
    <3> QED BY <1>1, <1>8, <1>17, <2>1, <2>2, <3>1, <3>2 DEF FileFails, AgreeAt
  <2>3. CASE w \in Switches BY <1>17, <2>3 DEF FileFails, AgreeOK
  <2>4. CASE w = Bootstrap BY <1>1, <1>17, <2>1, <2>4 DEF FileFails, AgreeOK
  <2> QED BY <2>2, <2>3, <2>4 DEF Shared
<1>18. CASE Restart
  <2>1. /\ memory' = Resolve(disk') /\ dropped' = {}
        /\ ~disturbed' => \A x \in Callers : ~InFlight(x)'
    BY <1>0, <1>18 DEF TypeOK, Restart, InFlight, After
  <2> QED BY <2>1 DEF AgreeOK
<1>19. ASSUME UNCHANGED <<memory, disk, pc, call, dropped, disturbed>> PROVE AgreeOK'
  BY <1>0, <1>19 DEF AgreeOK, AgreeAt, InFlight
<1> QED
  BY <1>3, <1>4, <1>5, <1>6, <1>7, <1>9, <1>10, <1>11, <1>12, <1>13, <1>14, <1>15, <1>16,
     <1>17, <1>18, <1>19
  DEF Next, SwitchStep, FileStep, DemoAutoLogin, PasswordLogin, vars

-----------------------------------------------------------------------------
\* The invariant holds in every behaviour.
THEOREM Invariant == ASSUME CallersAssumption PROVE Spec => []IInv
<1>1. ASSUME CallersAssumption, IInv, [Next]_vars PROVE IInv'
  BY <1>1, TypeStep, StepsStep, SessionsStep, FileOKStep, AgreeStep DEF IInv
<1> QED BY InitInv, <1>1, PTL DEF Spec

\* Every reachable state is of its type: each caller is at a step of its handler and
\* remembers a profile, a session and a cookie of its kind.
THEOREM TypeCorrect == ASSUME CallersAssumption PROVE Spec => []TypeOK
<1>1. IInv => TypeOK BY DEF IInv
<1> QED BY <1>1, Invariant, PTL

\* Memory and active_profile agree whenever nobody is switching, whatever a lone switch,
\* rollback, setup or admin command did and failed at (profile_switch, vertical_setup);
\* and only two writers of active_profile.tmp at a time can tear the file.
THEOREM Kept == ASSUME CallersAssumption PROVE Spec => []ProfileKept
<1>1. IInv => ProfileKept BY DEF IInv, AgreeOK, ProfileKept, Agreement
<1> QED BY <1>1, Invariant, PTL

\* Whoever signed in to production finds its account again, after any number of
\* switches of any number of overlapping requests.
THEOREM Returned == ASSUME CallersAssumption PROVE Spec => []ReturnTrip
<1>1. IInv => ReturnTrip BY DEF IInv, SessionsOK, Returns, ReturnTrip
<1> QED BY <1>1, Invariant, PTL
=============================================================================
