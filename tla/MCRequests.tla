------------------------------ MODULE MCRequests ------------------------------
\* What requests find and do: the active profile with everything that changes it, the
\* layers on the way to the database of one of the profiles, the sessions of a PIN
\* recovery, the names and hosts they name, the errors they end in. No two share state,
\* so each behaviour is one of a single component; part says of which.
EXTENDS PinRecovery, TLC

CONSTANTS Letters, HostLetters, MaxText, MaxSlugLen, InputCap

CONSTANTS NoReply

CONSTANTS Switches, AdminSwitches, Setup, Command, Cookies, Staff, DemoAdmin, MaxInFlight, None

CONSTANTS Unknown, Pages, MaxChanges, Nobody

VARIABLES part,
          input, use, read, buf, last_was_hyphen, outcome,
          origin, via, adapter, err, reply,
          memory, disk, tmp, opened, sessions, accounts, setup_completed, pc, call, dropped,
          disturbed, clash,
          config, active, demo_install_ok, account, session, request, layer, seen, changes

Name == INSTANCE Names

ASSUME NameConstants == Name!LengthsAssumption

Error == INSTANCE Errors

Profile == INSTANCE ActiveProfile WITH Emails <- Staff, Bootstrap <- Command

ASSUME ProfileConstants == Profile!CallersAssumption

Path == INSTANCE RequestPath WITH
    Stranger <- Unknown, Familiar <- Pages, req <- request, pc <- layer

ASSUME PathConstants == Path!NobodyAssumption

profileVars == <<memory, disk, tmp, opened, sessions, accounts, setup_completed, pc, call,
                 dropped, disturbed, clash>>
pathVars == <<config, active, demo_install_ok, account, session, request, layer, seen, changes>>

Symmetry == Permutations(Requests) \cup Permutations(Completions)

\* A component that is not in motion waits in one of its initial states.
MCInit ==
    /\ part \in {"pin", "name", "error", "profile", "path"}
    /\ Init /\ Profile!Init
    /\ IF part = "name" THEN Name!Init
       ELSE /\ use = "slug" /\ input = <<>> /\ read = 0 /\ buf = <<>>
            /\ last_was_hyphen = FALSE /\ outcome = "scan"
    /\ IF part = "error" THEN Error!Init
       ELSE /\ via = "plain" /\ origin = Error!E("domain", "NotFound", "told")
            /\ adapter = "http" /\ err = origin /\ reply = NoReply
    /\ IF part = "path" THEN Path!Init
       ELSE /\ config = [mode |-> "lan", hosts |-> {}] /\ active = "demo"
            /\ demo_install_ok = TRUE /\ session = Nobody /\ changes = 0
            /\ account = [p \in Path!Profiles |-> [there |-> TRUE, hash |-> 0]]
            /\ request = [r \in Path!Incoming |-> Path!Good]
            /\ layer = [r \in Path!Incoming |-> "host"]
            /\ seen = [r \in Path!Incoming |-> Path!Start]

Only(p) ==
    /\ UNCHANGED part
    /\ p # "pin" => UNCHANGED vars
    /\ p # "name" => UNCHANGED <<input, use, read, buf, last_was_hyphen, outcome>>
    /\ p # "error" => UNCHANGED <<origin, via, adapter, err, reply>>
    /\ p # "profile" => UNCHANGED profileVars
    /\ p # "path" => UNCHANGED pathVars

PinNext ==
    \/ \E r \in Requests :
          \/ \E e \in Emails : FindUser(r, e)
          \/ RequestStep(r)
    \/ \E c \in Completions :
          \/ \E s \in Requests \cup {NoSession}, right \in BOOLEAN :
                RecoverComplete(c, s, right)
          \/ \E e \in Emails, right \in BOOLEAN : ResetPassword(c, e, right)
          \/ CompletionStep(c)
    \/ Sweep
    \/ Tick
    \/ SetClockBack
    \/ \E u \in Users : SoftDelete(u)

NameNext ==
    \/ Name!TooLong
    \/ Name!ReadByte
    \/ Name!Derive
    \/ Name!ParsePattern

ErrorNext ==
    \/ Error!ToControl
    \/ Error!ToApp
    \/ Error!ToShop
    \/ Error!AnswerDomain
    \/ Error!AnswerApp
    \/ Error!AnswerSqlx
    \/ Error!AnswerShop
    \/ Error!AnswerControl

ProfileNext ==
    \/ \E r \in Switches :
          \/ \E c \in Cookies, target \in Profile!Profiles :
                Profile!BeginSwitch(r, c, target)
          \/ Profile!Logout(r)
          \/ Profile!SwitchFails(r)
    \/ \E a \in AdminSwitches, target \in Profile!Profiles :
          Profile!BeginAdminSwitch(a, target)
    \/ \E x \in Switches \cup AdminSwitches \cup {Setup} :
          \/ Profile!Persist(x)
          \/ Profile!PersistFails(x)
          \/ Profile!Flip(x)
          \/ Profile!HangUp(x)
    \/ \E x \in Switches \cup {Setup}, c \in Cookies : Profile!Login(x, c)
    \/ \E w \in Profile!Shared :
          \/ Profile!OpenTmp(w)
          \/ Profile!WriteTmp(w)
          \/ Profile!RenameTmp(w)
          \/ Profile!FileFails(w)
    \/ \E e \in Staff :
          \/ Profile!SetupAdmin(e)
          \/ Profile!BootstrapAdmin(e)
          \/ \E c \in Cookies : Profile!PasswordLogin(c, e)
    \/ Profile!SetupLoginFails
    \/ \E c \in Cookies : Profile!DemoAutoLogin(c)
    \/ Profile!Restart

PathNext ==
    \/ \E r \in Path!Incoming :
          \/ Path!RefuseHost(r)
          \/ Path!PassHost(r)
          \/ Path!RefuseForwarded(r)
          \/ Path!PassForwarded(r)
          \/ Path!LoadUser(r)
          \/ Path!RefuseCsrf(r)
          \/ Path!PassCsrf(r)
          \/ Path!PickDatabase(r)
          \/ Path!GuardInstall(r)
          \/ Path!Login(r)
          \/ Path!FindAdmin(r)
          \/ Path!AutoLogin(r)
          \/ Path!AutoLoginFails(r)
          \/ Path!Handle(r)
    \/ Path!Switch
    \/ \E p \in Path!Profiles :
          \/ Path!ChangePassword(p)
          \/ Path!SoftDelete(p)

MCNext ==
    \/ part = "pin" /\ PinNext /\ Only("pin")
    \/ part = "name" /\ NameNext /\ Only("name")
    \/ part = "error" /\ ErrorNext /\ Only("error")
    \/ part = "profile" /\ ProfileNext /\ Only("profile")
    \/ part = "path" /\ PathNext /\ Only("path")

allVars == <<part, vars, Name!vars, Error!vars, profileVars, pathVars>>

MCSpec == MCInit /\ [][MCNext]_allVars

-----------------------------------------------------------------------------
\* A derived slug is the words of the name and passes its own rules, and a host that
\* was listed is found again in whatever form a browser sends it.
NamesFit == part = "name" => Name!SlugFits /\ Name!SlugStable /\ Name!ListedHostFound

\* Both transports answer an error with the fixed status and code and without the words
\* of a database.
WireAgrees == Error!WireAgrees

\* Memory and file agree unless something disturbed them, and the file is whole.
ProfileKept == part = "profile" => Profile!ProfileKept

\* Whoever signed in to production and went to the demo profile can go back.
ReturnTrip == part = "profile" => Profile!ReturnTrip

\* A handler that changes something outside a LAN was asked to by a page of ours under
\* a name of ours; a session is no better than its account and password when the
\* request came, and works on its own profile's database; only a proxy names clients.
RequestRight ==
    part = "path" =>
        /\ Path!ChangesAreOurs /\ Path!AddressTrusted
        /\ Path!CredentialsCurrent /\ Path!SessionsDatabase
=============================================================================
