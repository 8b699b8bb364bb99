-------------------------------- MODULE Errors --------------------------------
(* The way of an error to its answer: domain and database errors become errors *)
(* of the control plane or of a vertical, these become AppErrors on the TCP    *)
(* side or are rendered as they are on the admin socket. A message is "told",  *)
(* written for the caller, or the "cause", what a database or a file said.     *)
EXTENDS Naturals

CONSTANTS NoReply

VARIABLES
  origin,  \* the error as it was raised
  via,     \* the handlers it passes through
  adapter, \* the transport: "http" or "uds"
  err,     \* the error as it is now
  reply    \* status, code, message and details, or NoReply

vars == <<origin, via, adapter, err, reply>>

E(layer, kind, text) == [layer |-> layer, kind |-> kind, text |-> text]

Domain ==
  {E("domain", k, "told") : k \in {"NotFound", "Conflict", "Validation"}}
    \cup {E("domain", "Internal", "cause")}

Sqlx == {E("sqlx", k, "cause") : k \in {"RowNotFound", "Other"}}

Bootstrap == {E("bootstrap", "AlreadyBootstrapped", "told")}

Logo ==
  {E("logo", k, "told") : k \in {"FormatUnsupported", "TooLarge", "DimensionsExceeded", "Malformed"}}

(* What the handlers raise themselves.                                         *)
Control == {E("control", k, "told") : k \in {"NotFound", "PermissionDenied", "Validation"}}

Shop ==
  {E("shop", k, "told") : k \in {"ShopForbidden", "Unauthorized", "TooManyRequests", "ShopBadRequest", "ShopNotFound"}}
    \cup {E("shop", "Internal", "cause")}

App ==
  {E("app", k, "told") : k \in {"Unauthorized", "Forbidden", "UnprocessableEntity", "BadRequest",
     "TooManyRequests", "ServiceUnavailable", "StateConflict", "DemoSetupRequired", "AccountLocked"}}
    \cup {E("app", "InternalError", "cause")}

(* The users and bootstrap handlers are those of the admin socket too.         *)
Ways ==
  [users |-> Domain \cup Control, last_admin |-> Domain, bootstrap |-> Domain \cup Bootstrap,
   customer |-> Domain, logo |-> Domain \cup Logo \cup Shop, plain |-> Domain \cup Sqlx \cup App]

Init ==
  /\ via \in DOMAIN Ways
  /\ origin \in Ways[via]
  /\ adapter \in IF via \in {"users", "last_admin", "bootstrap"} THEN {"http", "uds"} ELSE {"http"}
  /\ err = origin /\ reply = NoReply

-----------------------------------------------------------------------------
(* domain_error_to_control_plane, and the variants for the last administrator  *)
(* and for the bootstrap.                                                      *)
DomainToControl(e) ==
  CASE e.kind = "NotFound" -> E("control", "NotFound", "told")
    [] e.kind = "Validation" -> E("control", "Validation", "told")
    [] e.kind = "Internal" -> E("control", "Internal", e.text)
    [] e.kind = "AlreadyBootstrapped" -> E("control", "AlreadyBootstrapped", "told")
    [] e.kind = "Conflict" ->
         CASE via = "last_admin" -> E("control", "LastAdminProtected", e.text)
           [] via = "bootstrap" -> E("control", "Validation", e.text)
           [] OTHER -> E("control", "Internal", e.text)

ToControl ==
  /\ via \in {"users", "last_admin", "bootstrap"} /\ err.layer \in {"domain", "bootstrap"}
  /\ err' = DomainToControl(err)
  /\ UNCHANGED <<origin, via, adapter, reply>>

(* Mutant of ControlToApp: a validation error goes the way of the domain's.    *)
ControlToAppDomain(e) ==
  CASE e.kind \in {"NotFound", "Validation"} -> E("app", e.kind, "told")
    [] e.kind \in {"AlreadyBootstrapped", "LastAdminProtected"} -> E("app", e.kind, e.text)
    [] e.kind = "PermissionDenied" -> E("app", "Forbidden", "told")
    [] OTHER -> E("app", "InternalError", e.text)

ControlToApp(e) ==
  CASE e.kind = "NotFound" -> E("app", "NotFound", "told")
    [] e.kind \in {"AlreadyBootstrapped", "LastAdminProtected"} -> E("app", e.kind, e.text)
    [] e.kind = "Validation" -> E("app", "BadRequest", e.text)
    [] e.kind = "PermissionDenied" -> E("app", "Forbidden", "told")
    [] OTHER -> E("app", "InternalError", e.text)

ToApp ==
  /\ adapter = "http" /\ err.layer = "control"
  /\ err' = ControlToApp(err)
  /\ UNCHANGED <<origin, via, adapter, reply>>

ToShop ==
  /\ err.layer = "logo"
  /\ err' = E("shop", "ShopUnprocessable", "told")
  /\ UNCHANGED <<origin, via, adapter, reply>>

-----------------------------------------------------------------------------
R(status, code, text) == [status |-> status, code |-> code, text |-> text]

Redacted == R(500, "internal_error", "generic")

RenderDomain(e) ==
  CASE e.kind = "NotFound" -> R(404, "not_found", e.text)
    [] e.kind = "Conflict" -> R(409, "conflict", e.text)
    [] e.kind = "Validation" -> R(422, "validation_error", "told")
    [] OTHER -> Redacted

(* The variants that carry a code of their caller's have the code "own".       *)
RenderApp(e) ==
  CASE e.kind \in {"NotFound", "Validation"} -> RenderDomain(e)
    [] e.kind = "Unauthorized" -> R(401, "own", e.text)
    [] e.kind = "Forbidden" -> R(403, IF via = "plain" THEN "own" ELSE "forbidden", e.text)
    [] e.kind = "UnprocessableEntity" -> R(422, "own", e.text)
    [] e.kind = "BadRequest" -> R(400, IF via = "plain" THEN "own" ELSE "validation_error", e.text)
    [] e.kind = "TooManyRequests" -> R(429, "rate_limited", e.text)
    [] e.kind = "ServiceUnavailable" -> R(503, "internal_error", e.text)
    [] e.kind = "StateConflict" -> R(409, "own", e.text)
    [] e.kind = "AlreadyBootstrapped" -> R(409, "already_bootstrapped", e.text)
    [] e.kind = "LastAdminProtected" -> R(409, "conflict", e.text)
    [] e.kind = "DemoSetupRequired" -> R(423, "demo_setup_required", "told")
    [] e.kind = "AccountLocked" -> R(423, "account_locked", e.text)
    [] OTHER -> Redacted

RenderSqlx(e) == IF e.kind = "RowNotFound" THEN R(404, "not_found", "told") ELSE Redacted

RenderShop(e) ==
  CASE e.kind = "ShopForbidden" -> R(403, "own", e.text)
    [] e.kind = "Unauthorized" -> R(401, "own", e.text)
    [] e.kind = "TooManyRequests" -> R(429, "rate_limited", e.text)
    [] e.kind = "ShopBadRequest" -> R(400, "own", e.text)
    [] e.kind = "ShopUnprocessable" -> R(422, "own", e.text)
    [] e.kind = "ShopNotFound" -> R(404, "own", e.text)
    [] OTHER -> Redacted

(* ControlPlaneError's own response, for the admin socket.                     *)
RenderControl(e) ==
  CASE e.kind = "NotFound" -> R(404, "not_found", "told")
    [] e.kind = "AlreadyBootstrapped" -> R(409, "already_bootstrapped", "told")
    [] e.kind = "LastAdminProtected" -> R(409, "conflict", e.text)
    [] e.kind = "Validation" -> R(400, "validation_error", e.text)
    [] e.kind = "PermissionDenied" -> R(403, "forbidden", "told")
    [] OTHER -> Redacted

Answer(layer, r) ==
  /\ reply = NoReply /\ err.layer = layer
  /\ reply' = r
  /\ UNCHANGED <<origin, via, adapter, err>>

(* Handlers of the customers and of the logo render the domain's errors by     *)
(* copies of the same rules.                                                   *)
AnswerDomain ==
  /\ via \in {"customer", "logo", "plain"}
  /\ Answer("domain", RenderDomain(err))

AnswerApp == Answer("app", RenderApp(err))
AnswerSqlx == Answer("sqlx", RenderSqlx(err))
AnswerShop == Answer("shop", RenderShop(err))
AnswerControl == adapter = "uds" /\ Answer("control", RenderControl(err))

Next ==
  \/ ToControl \/ ToApp \/ ToShop
  \/ AnswerDomain \/ AnswerApp \/ AnswerSqlx \/ AnswerShop \/ AnswerControl

Spec == Init /\ [][Next]_vars

-----------------------------------------------------------------------------
(* Properties                                                                  *)

(* The code and status that the control plane's feature file fixes.            *)
Pinned ==
  [NotFound |-> <<404, "not_found">>, AlreadyBootstrapped |-> <<409, "already_bootstrapped">>,
   LastAdminProtected |-> <<409, "conflict">>, Validation |-> <<400, "validation_error">>,
   PermissionDenied |-> <<403, "forbidden">>, Internal |-> <<500, "internal_error">>]

(* Both transports answer an error of the control plane as it is fixed, no     *)
(* answer repeats what a database said, and only what is not the caller's      *)
(* fault is a server error.                                                    *)
WireAgrees ==
  reply # NoReply =>
    /\ via \in {"users", "last_admin", "bootstrap"} =>
         <<reply.status, reply.code>> =
           Pinned[IF origin.layer = "control" THEN origin.kind ELSE DomainToControl(origin).kind]
    /\ reply.text # "cause"
    /\ reply.status = 500 =>
         origin.text = "cause" \/ (origin.kind = "Conflict" /\ via = "users")
=============================================================================
