----------------------------- MODULE RequestPath -----------------------------
(* A request on its way through the layers of the data plane: host names, the  *)
(* forwarded address, the session's user, the CSRF check, the database of the  *)
(* profile, the gate of the protected routes with its demo login, the handler. *)
(* Meanwhile the active profile is switched, passwords change and accounts are *)
(* deleted. All requests come from one browser with one session cookie.        *)
(* Names and tokens are compared as the code has normalised them.              *)
EXTENDS Integers, FiniteSets

CONSTANTS
  Stranger,    \* the request whose headers may be anything
  Familiar,      \* requests of a browser on a page of ours
  MaxChanges,  \* bound: switches, password changes and deletions
  Nobody       \* no user, no session, no database

Incoming == {Stranger} \cup Familiar
Profiles == {"demo", "production"}

VARIABLES
  config,           \* deployment mode and allowed_hosts
  active,           \* PlatformState::active_profile
  demo_install_ok,  \* PlatformState::demo_install_ok
  account,          \* the administrator of each profile's database
  session,          \* what the session cookie stands for
  req,              \* headers and path of each request
  pc,               \* the layer it is at, or how it was answered
  seen,             \* what the layers have put into its extensions
  changes           \* bound

Session == [profile : Profiles, hash : Nat]
Accounts == [Profiles -> [there : BOOLEAN, hash : Nat]]

NobodyAssumption == Nobody \notin Session \cup Profiles \cup Accounts

vars == <<config, active, demo_install_ok, account, session, req, pc, seen, changes>>
world == <<config, active, demo_install_ok, account, req, changes>>

Modes == {"lan", "internet", "reverse-proxy"}

HeaderValues ==
  [host |-> {"loopback", "shop", "foreign", "none", "two"},
   forwarded |-> {"none", "client", "malformed"},
   origin |-> {"ours", "foreign", "none"}, referer |-> {"ours", "foreign", "none"},
   cookie |-> {"t1", "t2", "none"}, header |-> {"t1", "t2", "none"},
   unsafe |-> BOOLEAN,
   path |-> {"public", "protected", "demo_reset", "unknown_api", "page"}]

Good == [host |-> "shop", forwarded |-> "client", origin |-> "ours", referer |-> "ours",
         cookie |-> "t1", header |-> "t1", unsafe |-> TRUE, path |-> "protected"]

(* Any two headers other than those of a good request.                         *)
Change(h, f) == {[h EXCEPT ![f] = v] : v \in HeaderValues[f]}
Odd == UNION {Change(h, g) : h \in UNION {Change(Good, f) : f \in DOMAIN Good}, g \in DOMAIN Good}
Local(path) == [Good EXCEPT !.host = "loopback", !.path = path]
Plain == {Local(p) : p \in HeaderValues.path}

(* DataPlaneConfig::new refuses the other modes without a host.                *)
Configs == {c \in [mode : Modes, hosts : SUBSET {"loopback", "shop"}] :
              c.mode # "lan" => c.hosts # {}}

Start == [user |-> Nobody, from |-> "session", db |-> Nobody, ip |-> "peer",
          then |-> Nobody]  \* history: the accounts when the request came

Init ==
  /\ config \in Configs
  /\ account = [p \in Profiles |-> [there |-> TRUE, hash |-> 0]]
  /\ session \in {Nobody} \cup [profile : Profiles, hash : {0}]
  /\ \/ /\ config = [mode |-> "lan", hosts |-> {}]
        /\ req \in {[r \in Incoming |-> IF r = Stranger THEN h ELSE Local("protected")] : h \in Plain}
        /\ changes = 0 /\ active \in Profiles /\ demo_install_ok \in BOOLEAN
        /\ pc = [r \in Incoming |-> "host"]
     \/ /\ req \in {[r \in Incoming |-> IF r = Stranger THEN h ELSE Good] : h \in Odd}
        /\ changes = MaxChanges /\ active = "production" /\ demo_install_ok = TRUE
        /\ pc = [r \in Incoming |-> IF r = Stranger THEN "host" ELSE "never"]
  /\ seen = [r \in Incoming |-> Start]

-----------------------------------------------------------------------------
(* HostHeaderAllowList::from_config: loopback of itself only on the LAN.       *)

(* Mutant of Admitted: loopback in every mode.                                 *)
AdmittedLoopback == {"loopback"} \cup config.hosts

Admitted == (IF config.mode = "lan" THEN {"loopback"} ELSE {}) \cup config.hosts

Answer(r, a) == pc' = [pc EXCEPT ![r] = a] /\ UNCHANGED <<world, session, seen>>

Goes(r, next, s) ==
  /\ pc' = [pc EXCEPT ![r] = next] /\ seen' = [seen EXCEPT ![r] = s]
  /\ UNCHANGED <<world, session>>

(* No host, two of them, or one that is not listed.                            *)
RefuseHost(r) == pc[r] = "host" /\ req[r].host \notin Admitted /\ Answer(r, "host_not_allowed")

PassHost(r) ==
  /\ pc[r] = "host" /\ req[r].host \in Admitted
  /\ Goes(r, "forwarded", [seen[r] EXCEPT !.then = account])

(* ForwardedLayer: behind a proxy the header names the client, elsewhere it is *)
(* stripped. The per-IP limit keys on the result.                              *)
RefuseForwarded(r) ==
  /\ pc[r] = "forwarded" /\ config.mode = "reverse-proxy" /\ req[r].forwarded = "malformed"
  /\ Answer(r, "malformed_forwarded")

PassForwarded(r) ==
  /\ pc[r] = "forwarded" /\ ~ (config.mode = "reverse-proxy" /\ req[r].forwarded = "malformed")
  /\ Goes(r, "auth", [seen[r] EXCEPT
       !.ip = IF config.mode = "reverse-proxy" /\ req[r].forwarded = "client" THEN "client" ELSE "peer"])

(* axum-login with Backend::get_user: the row in the database of the session's *)
(* profile, if it is there and its password is still the one of the login.     *)
Valid(s) == s # Nobody /\ account[s.profile].there /\ account[s.profile].hash = s.hash

(* Mutant of LoadUser: the session is taken at its word.                       *)
LoadUserTrusting(r) ==
  pc[r] = "auth" /\ Goes(r, "csrf", [seen[r] EXCEPT !.user = session])

LoadUser(r) ==
  /\ pc[r] = "auth"
  /\ pc' = [pc EXCEPT ![r] = "csrf"]
  /\ seen' = [seen EXCEPT ![r].user = IF Valid(session) THEN session ELSE Nobody]
  /\ session' = IF session # Nobody /\ account[session.profile].there /\ ~ Valid(session)
                THEN Nobody ELSE session
  /\ UNCHANGED world

(* check_origin: the Referer only where there is no Origin.                    *)
OriginOk(h) == h.origin = "ours" \/ (h.origin = "none" /\ h.referer = "ours")

(* Mutant of TokensMatch: two missing tokens match.                            *)
TokensEqual(h) == h.cookie = h.header

TokensMatch(h) == h.cookie = h.header /\ h.cookie # "none"

CsrfOk(h) == config.mode = "lan" \/ ~ h.unsafe \/ (OriginOk(h) /\ TokensMatch(h))

RefuseCsrf(r) == pc[r] = "csrf" /\ ~ CsrfOk(req[r]) /\ Answer(r, "csrf_rejected")

PassCsrf(r) == pc[r] = "csrf" /\ CsrfOk(req[r]) /\ Goes(r, "database", seen[r])

(* profile_db_middleware: the user's profile, else the active one.             *)

(* Mutant of DatabaseFor: always the active profile.                           *)
DatabaseActive(user) == active

DatabaseFor(user) == IF user = Nobody THEN active ELSE user.profile

PickDatabase(r) ==
  /\ pc[r] = "database"
  /\ Goes(r, CASE req[r].path \in {"protected", "demo_reset"} -> "gate"
               [] req[r].path = "public" -> "handler"
               [] req[r].path = "unknown_api" -> "not_found"
               [] OTHER -> "shell",
          [seen[r] EXCEPT !.db = DatabaseFor(seen[r].user)])

-----------------------------------------------------------------------------
(* require_auth_with_demo_auto_login reads the active profile twice.           *)

GuardInstall(r) ==
  /\ pc[r] = "gate"
  /\ Goes(r, IF active = "demo" /\ ~ demo_install_ok
             THEN IF req[r].path = "demo_reset" THEN "handler" ELSE "setup_required"
             ELSE "login", seen[r])

Login(r) ==
  /\ pc[r] = "login"
  /\ Goes(r, IF seen[r].user # Nobody THEN "handler"
             ELSE IF active = "demo" THEN "find_admin" ELSE "unauthorized", seen[r])

FindAdmin(r) ==
  /\ pc[r] = "find_admin"
  /\ IF account["demo"].there
     THEN Goes(r, "auto_login", [seen[r] EXCEPT !.from = "auto",
                 !.user = [profile |-> "demo", hash |-> account["demo"].hash]])
     ELSE Answer(r, "unavailable")

AutoLogin(r) ==
  /\ pc[r] = "auto_login"
  /\ session' = seen[r].user
  /\ pc' = [pc EXCEPT ![r] = "handler"]
  /\ UNCHANGED <<world, seen>>

(* The session store fails: a warning, and the user stays unset.               *)
AutoLoginFails(r) ==
  /\ pc[r] = "auto_login"
  /\ Goes(r, "unauthorized", [seen[r] EXCEPT !.user = Nobody])

Handle(r) == pc[r] = "handler" /\ Answer(r, "handled")

-----------------------------------------------------------------------------
(* What other requests do meanwhile.                                           *)

Counted == changes < MaxChanges /\ changes' = changes + 1

Switch ==
  /\ Counted
  /\ active' \in Profiles \ {active}
  /\ UNCHANGED <<config, demo_install_ok, account, session, req, pc, seen>>

ChangePassword(p) ==
  /\ Counted
  /\ account[p].there
  /\ account' = [account EXCEPT ![p].hash = @ + 1]
  /\ UNCHANGED <<config, active, demo_install_ok, session, req, pc, seen>>

SoftDelete(p) ==
  /\ Counted
  /\ account[p].there
  /\ account' = [account EXCEPT ![p].there = FALSE]
  /\ UNCHANGED <<config, active, demo_install_ok, session, req, pc, seen>>

Step(r) ==
  \/ RefuseHost(r) \/ PassHost(r) \/ RefuseForwarded(r) \/ PassForwarded(r)
  \/ LoadUser(r) \/ RefuseCsrf(r) \/ PassCsrf(r) \/ PickDatabase(r)
  \/ GuardInstall(r) \/ Login(r) \/ FindAdmin(r) \/ AutoLogin(r) \/ AutoLoginFails(r)
  \/ Handle(r)

Next ==
  \/ \E r \in Incoming : Step(r)
  \/ Switch
  \/ \E p \in Profiles : ChangePassword(p) \/ SoftDelete(p)

Spec == Init /\ [][Next]_vars

-----------------------------------------------------------------------------
(* Properties                                                                  *)

Served(r) == pc[r] \in {"handler", "handled"}

(* Outside a LAN a handler runs only for a host that was configured, and for a *)
(* change only if the page that asked is one of ours and shows our token.      *)
ChangesAreOurs ==
  \A r \in Incoming : Served(r) /\ config.mode # "lan" =>
    LET h == req[r] IN
    /\ h.host \in config.hosts
    /\ h.unsafe => /\ h.origin # "foreign" /\ "ours" \in {h.origin, h.referer}
                   /\ h.cookie # "none" /\ h.cookie = h.header

(* The address the limit counts is one a client can choose only by a proxy.    *)
AddressTrusted ==
  \A r \in Incoming : seen[r].ip = "client" =>
    config.mode = "reverse-proxy" /\ req[r].forwarded = "client"

(* A session does not outlive its account or password for the next request.    *)
CredentialsCurrent ==
  \A r \in Incoming : Served(r) /\ seen[r].user # Nobody /\ seen[r].from = "session" =>
    LET then == seen[r].then[seen[r].user.profile] IN
    then.there /\ seen[r].user.hash >= then.hash

(* Whoever came with a session works on the database of that session's         *)
(* profile, whatever is switched meanwhile; nobody gets to a protected handler *)
(* without a user, but for the reset of a demo that is not installed.          *)
SessionsDatabase ==
  \A r \in Incoming : Served(r) =>
    /\ seen[r].user # Nobody /\ seen[r].from = "session" => seen[r].db = seen[r].user.profile
    /\ req[r].path = "protected" => seen[r].user # Nobody
    /\ req[r].path = "demo_reset" /\ demo_install_ok => seen[r].user # Nobody

(* Every request sees the database of its own session, the one that the demo   *)
(* login has just opened included.                                             *)
OwnDatabase ==
  \A r \in Incoming : Served(r) /\ seen[r].user # Nobody => seen[r].db = seen[r].user.profile

(* On the LAN the name the server announces by mDNS, here the shop's, is let   *)
(* through.                                                                    *)
AnnouncedNameAdmitted ==
  \A r \in Incoming : config.mode = "lan" /\ req[r].host = "shop" => pc[r] # "host_not_allowed"
=============================================================================
