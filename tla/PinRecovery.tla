----------------------------- MODULE PinRecovery -----------------------------
(***************************************************************************)
(* The file-drop password reset of kikan: recover_request mints a session   *)
(* and drops its PIN in a file, recover_complete redeems it, the legacy     *)
(* reset-password shim resolves a user to a session first, and a background *)
(* sweep evicts abandoned sessions.  Handlers run concurrently; one action  *)
(* is the code between two points where another task can run: an await, or  *)
(* two separate calls on the shared DashMap.                                *)
(*                                                                          *)
(* Every request mints one session and one PIN, so a request's name also    *)
(* stands for its session id and for its PIN (256-bit ids do not collide;   *)
(* a PIN guess is either right or wrong).                                   *)
(***************************************************************************)
EXTENDS Integers, FiniteSets

CONSTANTS
    Requests,        \* recover_request calls, and the sessions they mint
    Completions,     \* concurrent recover_complete calls
    Users,           \* accounts, each with one email
    Stranger,        \* an email no account has
    NoSession,       \* a random token: a session id that was never minted
    Absent,          \* no entry, no file
    MaxPinAttempts,  \* MAX_PIN_ATTEMPTS
    PinExpiry,       \* PIN_EXPIRY, in ticks
    MaxClockJump     \* how far the wall clock may be set back in all

ASSUME BoundAssumption ==
    /\ MaxPinAttempts \in Nat \ {0}
    /\ PinExpiry \in Nat
    /\ MaxClockJump \in Nat

VARIABLES
    resetPins,  \* PlatformState::reset_pins, by session id
    artifact,   \* the recovery file of each email: whose PIN it shows
    deleted,    \* accounts with deleted_at set
    req,        \* the recover_request calls in flight
    comp,       \* the recover_complete calls in flight
    jumped,     \* how far the wall clock has been set back
    tries,      \* history: PINs evaluated against a session
    redeemed,   \* history: passwords changed by a session
    tidied      \* history: sessions whose cleanup removed the file

vars == <<resetPins, artifact, deleted, req, comp, jumped, tries, redeemed, tidied>>
history == <<tries, redeemed, tidied>>

Emails == Users \cup {Stranger}

\* Ages saturate where no check can tell them apart any more.
AgeCap == PinExpiry + 1 + MaxClockJump

\* PendingReset. `age' is what SystemTime::elapsed reports, `real' the time
\* that has passed; they differ only after the wall clock was set back.
PendingReset ==
    [user : Users, attempts : 0 .. MaxPinAttempts - 1, age : Int, real : Nat]

ASSUME SentinelAssumption ==
    /\ Stranger \notin Users
    /\ NoSession \notin Requests
    /\ Absent \notin Requests \cup Users \cup PendingReset

Entry == PendingReset \cup {Absent}

Call == [pc : {"idle", "found", "written", "retained", "done", "failed"},
         email : Emails, user : Users \cup {Absent}]

Redemption == [pc : {"idle", "resolved", "held", "update", "cleanup"},
               sid : Requests \cup {NoSession}, right : BOOLEAN, entry : Entry]

IdleRedemption == [pc |-> "idle", sid |-> NoSession, right |-> FALSE, entry |-> Absent]

CallAt(r, pc) == [pc |-> pc, email |-> req[r].email, user |-> req[r].user]

RedemptionAt(c, pc) ==
    [pc |-> pc, sid |-> comp[c].sid, right |-> comp[c].right, entry |-> comp[c].entry]

TypeOK ==
    /\ resetPins \in [Requests -> Entry]
    /\ artifact \in [Emails -> Requests \cup {Absent}]
    /\ deleted \in SUBSET Users
    /\ req \in [Requests -> Call]
    /\ comp \in [Completions -> Redemption]
    /\ jumped \in 0 .. MaxClockJump
    /\ tries \in [Requests -> Nat]
    /\ redeemed \in [Requests -> Nat]
    /\ tidied \in SUBSET Requests

Init ==
    /\ resetPins = [s \in Requests |-> Absent]
    /\ artifact = [e \in Emails |-> Absent]
    /\ deleted = {}
    /\ req = [r \in Requests |-> [pc |-> "idle", email |-> Stranger, user |-> Absent]]
    /\ comp = [c \in Completions |-> IdleRedemption]
    /\ jumped = 0
    /\ tries = [s \in Requests |-> 0]
    /\ redeemed = [s \in Requests |-> 0]
    /\ tidied = {}

-----------------------------------------------------------------------------
(* recover_request *)

\* find_by_email: the account is looked up once and carried along.
FindUser(r, e) ==
    /\ req[r].pc = "idle"
    /\ req' = [req EXCEPT ![r] = [pc |-> "found", email |-> e,
                                  user |-> IF e \in Users \ deleted THEN e ELSE Absent]]
    /\ UNCHANGED <<resetPins, artifact, deleted, comp, jumped, history>>

\* The writer renames a fresh file over the one path the email has.
WriteArtifact(r) ==
    /\ req[r].pc = "found"
    /\ artifact' = [artifact EXCEPT ![req[r].email] = r]
    /\ req' = [req EXCEPT ![r] = CallAt(r, "written")]
    /\ UNCHANGED <<resetPins, deleted, comp, jumped, history>>

\* After the PIN is hashed: drop the user's earlier sessions ...
RetainOthers(r) ==
    /\ req[r].pc = "written"
    /\ req[r].user # Absent
    /\ resetPins' = [s \in Requests |->
                        IF resetPins[s] # Absent /\ resetPins[s].user = req[r].user
                        THEN Absent ELSE resetPins[s]]
    /\ req' = [req EXCEPT ![r] = CallAt(r, "retained")]
    /\ UNCHANGED <<artifact, deleted, comp, jumped, history>>

\* ... and insert the new one: a second call on the map.
InsertSession(r) ==
    /\ req[r].pc = "retained"
    /\ resetPins' = [resetPins EXCEPT ![r] =
                        [user |-> req[r].user, attempts |-> 0, age |-> 0, real |-> 0]]
    /\ req' = [req EXCEPT ![r] = CallAt(r, "done")]
    /\ UNCHANGED <<artifact, deleted, comp, jumped, history>>

\* Unknown email: no session, and the throwaway file is removed (best effort).
DiscardArtifact(r) ==
    /\ req[r].pc = "written"
    /\ req[r].user = Absent
    /\ artifact' \in {[artifact EXCEPT ![req[r].email] = Absent], artifact}
    /\ req' = [req EXCEPT ![r] = CallAt(r, "done")]
    /\ UNCHANGED <<resetPins, deleted, comp, jumped, history>>

\* A failed write or hash, or a client that hangs up while the handler waits.
RequestFails(r) ==
    /\ req[r].pc \in {"found", "written"}
    /\ req' = [req EXCEPT ![r] = CallAt(r, "failed")]
    /\ UNCHANGED <<resetPins, artifact, deleted, comp, jumped, history>>

-----------------------------------------------------------------------------
(* recover_complete *)

\* Mutant of TakeEntry: reads the entry and leaves it in the map.
PeekEntry(c, s, right) ==
    /\ comp' = [comp EXCEPT ![c] =
                    [pc |-> "held", sid |-> s, right |-> right,
                     entry |-> IF s \in Requests THEN resetPins[s] ELSE Absent]]
    /\ UNCHANGED <<resetPins, artifact, deleted, req, jumped, history>>

\* DashMap::remove is the one atomic step that hands the entry to a caller.
TakeEntry(c, s, right) ==
    /\ comp' = [comp EXCEPT ![c] =
                    [pc |-> "held", sid |-> s, right |-> right,
                     entry |-> IF s \in Requests THEN resetPins[s] ELSE Absent]]
    /\ resetPins' = [t \in Requests |-> IF t = s THEN Absent ELSE resetPins[t]]
    /\ UNCHANGED <<artifact, deleted, req, jumped, history>>

\* The canonical endpoint presents the session id itself.
RecoverComplete(c, s, right) ==
    /\ comp[c].pc = "idle"
    /\ TakeEntry(c, s, right)

\* The legacy shim scans the map for some session of the user; a miss, or an
\* unknown email, becomes a random token.
ResetPassword(c, e, right) ==
    LET mine == {s \in Requests : resetPins[s] # Absent /\ resetPins[s].user = e}
    IN /\ comp[c].pc = "idle"
       /\ \E s \in IF e \in Users \ deleted /\ mine # {} THEN mine ELSE {NoSession} :
             comp' = [comp EXCEPT ![c] = [pc |-> "resolved", sid |-> s,
                                          right |-> right, entry |-> Absent]]
       /\ UNCHANGED <<resetPins, artifact, deleted, req, jumped, history>>

ResetPasswordTake(c) ==
    /\ comp[c].pc = "resolved"
    /\ TakeEntry(c, comp[c].sid, comp[c].right)

Finish(c) == comp' = [comp EXCEPT ![c] = IdleRedemption]

\* Mutant of Usable: no age check.
UsableForever(entry) == entry # Absent

\* There is an entry, and it has not expired; `elapsed' errs on a negative age,
\* which counts as expired.
Usable(entry) == entry # Absent /\ entry.age >= 0 /\ entry.age <= PinExpiry

\* Missing or expired session: the uniform refusal, the entry is gone.
RejectSession(c) ==
    /\ comp[c].pc = "held"
    /\ ~Usable(comp[c].entry)
    /\ Finish(c)
    /\ UNCHANGED <<resetPins, artifact, deleted, req, jumped, history>>

OneMoreAttempt(entry) ==
    [user |-> entry.user, attempts |-> entry.attempts + 1,
     age |-> entry.age, real |-> entry.real]

\* Mutant of WrongPin: the re-insert forgets the attempt.
WrongPinUncounted(c) ==
    /\ comp[c].pc = "held"
    /\ Usable(comp[c].entry)
    /\ ~comp[c].right
    /\ resetPins' = [resetPins EXCEPT ![comp[c].sid] = comp[c].entry]
    /\ tries' = [tries EXCEPT ![comp[c].sid] = @ + 1]
    /\ Finish(c)
    /\ UNCHANGED <<artifact, deleted, req, jumped, redeemed, tidied>>

\* Wrong PIN: re-insert with one more attempt while attempts remain.
WrongPin(c) ==
    LET s == comp[c].sid
        entry == comp[c].entry
    IN /\ comp[c].pc = "held"
       /\ Usable(entry)
       /\ ~comp[c].right
       /\ resetPins' = IF entry.attempts + 1 < MaxPinAttempts
                       THEN [resetPins EXCEPT ![s] = OneMoreAttempt(entry)]
                       ELSE resetPins
       /\ tries' = [tries EXCEPT ![s] = @ + 1]
       /\ Finish(c)
       /\ UNCHANGED <<artifact, deleted, req, jumped, redeemed, tidied>>

RightPin(c) ==
    /\ comp[c].pc = "held"
    /\ Usable(comp[c].entry)
    /\ comp[c].right
    /\ comp' = [comp EXCEPT ![c] = RedemptionAt(c, "update")]
    /\ tries' = [tries EXCEPT ![comp[c].sid] = @ + 1]
    /\ UNCHANGED <<resetPins, artifact, deleted, req, jumped, redeemed, tidied>>

\* update_password touches only an account that is not deleted; on NotFound the
\* call fails and the session stays consumed.
UpdatePassword(c) ==
    /\ comp[c].pc = "update"
    /\ IF comp[c].entry.user \in deleted
       THEN /\ Finish(c)
            /\ UNCHANGED redeemed
       ELSE /\ comp' = [comp EXCEPT ![c] = RedemptionAt(c, "cleanup")]
            /\ redeemed' = [redeemed EXCEPT ![comp[c].sid] = @ + 1]
    /\ UNCHANGED <<resetPins, artifact, deleted, req, jumped, tries, tidied>>

\* Mutant of RemoveArtifact: the file stays.
KeepArtifact(c) ==
    /\ comp[c].pc = "cleanup"
    /\ tidied' = tidied \cup {comp[c].sid}
    /\ Finish(c)
    /\ UNCHANGED <<resetPins, artifact, deleted, req, jumped, tries, redeemed>>

\* The file is removed by path, whoever wrote it last; a failure is only logged.
RemoveArtifact(c) ==
    /\ comp[c].pc = "cleanup"
    /\ \/ /\ artifact' = [artifact EXCEPT ![comp[c].entry.user] = Absent]
          /\ tidied' = tidied \cup {comp[c].sid}
       \/ UNCHANGED <<artifact, tidied>>
    /\ Finish(c)
    /\ UNCHANGED <<resetPins, deleted, req, jumped, tries, redeemed>>

\* A failed hash or query, or a client that hangs up: the entry is lost with the
\* handler that held it. A commit under way when that happens may still land.
CompletionFails(c) ==
    /\ comp[c].pc \in {"held", "update"}
    /\ \/ UNCHANGED redeemed
       \/ /\ comp[c].pc = "update"
          /\ comp[c].entry.user \notin deleted
          /\ redeemed' = [redeemed EXCEPT ![comp[c].sid] = @ + 1]
    /\ Finish(c)
    /\ UNCHANGED <<resetPins, artifact, deleted, req, jumped, tries, tidied>>

-----------------------------------------------------------------------------
(* The sweep, the clock, and an administrator deleting an account *)

ElapsedOrZero(entry) == IF entry.age < 0 THEN 0 ELSE entry.age

\* Mutant of Sweep: the comparison the wrong way round.
SweepFresh ==
    /\ resetPins' = [s \in Requests |->
                        IF resetPins[s] # Absent /\ ElapsedOrZero(resetPins[s]) >= PinExpiry
                        THEN resetPins[s] ELSE Absent]
    /\ UNCHANGED <<artifact, deleted, req, comp, jumped, history>>

Sweep ==
    /\ resetPins' = [s \in Requests |->
                        IF resetPins[s] # Absent /\ ElapsedOrZero(resetPins[s]) < PinExpiry
                        THEN resetPins[s] ELSE Absent]
    /\ UNCHANGED <<artifact, deleted, req, comp, jumped, history>>

Capped(n) == IF n > AgeCap THEN AgeCap ELSE n

\* Time that passes is seen by the stored entries and by those a handler holds.
Aged(entry, wall, real) ==
    IF entry = Absent THEN Absent
    ELSE [user |-> entry.user, attempts |-> entry.attempts,
          age |-> Capped(entry.age + wall), real |-> Capped(entry.real + real)]

Age(wall, real) ==
    /\ resetPins' = [s \in Requests |-> Aged(resetPins[s], wall, real)]
    /\ comp' = [c \in Completions |->
                    IF comp[c].pc = "held"
                    THEN [pc |-> "held", sid |-> comp[c].sid, right |-> comp[c].right,
                          entry |-> Aged(comp[c].entry, wall, real)]
                    ELSE comp[c]]
    /\ UNCHANGED <<artifact, deleted, req, history>>

Tick == Age(1, 1) /\ UNCHANGED jumped

SetClockBack ==
    /\ jumped < MaxClockJump
    /\ jumped' = jumped + 1
    /\ Age(-1, 0)

SoftDelete(u) ==
    /\ u \notin deleted
    /\ deleted' = deleted \cup {u}
    /\ UNCHANGED <<resetPins, artifact, req, comp, jumped, history>>

-----------------------------------------------------------------------------
RequestStep(r) ==
    \/ WriteArtifact(r)
    \/ RetainOthers(r)
    \/ InsertSession(r)
    \/ DiscardArtifact(r)
    \/ RequestFails(r)

CompletionStep(c) ==
    \/ ResetPasswordTake(c)
    \/ RejectSession(c)
    \/ WrongPin(c)
    \/ RightPin(c)
    \/ UpdatePassword(c)
    \/ RemoveArtifact(c)
    \/ CompletionFails(c)

Next ==
    \/ \E r \in Requests : (\E e \in Emails : FindUser(r, e)) \/ RequestStep(r)
    \/ \E c \in Completions :
          \/ \E s \in Requests \cup {NoSession}, right \in BOOLEAN :
                RecoverComplete(c, s, right)
          \/ \E e \in Emails, right \in BOOLEAN : ResetPassword(c, e, right)
          \/ CompletionStep(c)
    \/ Sweep
    \/ Tick
    \/ SetClockBack
    \/ \E u \in Users : SoftDelete(u)

\* The runtime keeps polling handlers that can go on, the sweep task wakes every
\* minute, and time passes. Nobody has to send a request.
Fairness ==
    /\ \A r \in Requests : WF_vars(RequestStep(r))
    /\ \A c \in Completions : WF_vars(CompletionStep(c))
    /\ WF_vars(Sweep)
    /\ WF_vars(Tick)

Spec == Init /\ [][Next]_vars /\ Fairness

-----------------------------------------------------------------------------
Holds(c, s) == comp[c].sid = s /\ comp[c].entry # Absent

\* "Exactly one wins the remove": a session's record is in the map or in the
\* hands of one recover_complete call, never in two places, and is in neither
\* before its recover_request call has inserted it.
SingleCustody ==
    \A s \in Requests :
        /\ \A c, d \in Completions : Holds(c, s) /\ Holds(d, s) => c = d
        /\ \A c \in Completions : Holds(c, s) => resetPins[s] = Absent
        /\ req[s].pc # "done" =>
              resetPins[s] = Absent /\ \A c \in Completions : ~Holds(c, s)

\* However submissions race, at most MAX_PIN_ATTEMPTS PINs are ever evaluated
\* against one session, and the stored counter is the number evaluated so far.
AttemptsBounded ==
    \A s \in Requests :
        /\ tries[s] <= MaxPinAttempts
        /\ resetPins[s] # Absent => resetPins[s].attempts = tries[s]

\* A session changes the password at most once, and after that the record is
\* nowhere a later recover_complete could find it.
RedeemedOnce ==
    \A s \in Requests :
        /\ redeemed[s] <= 1
        /\ redeemed[s] = 1 => resetPins[s] = Absent

\* recover_complete leaves no plaintext PIN behind: once its cleanup ran, the
\* file on disk is not the redeemed session's, whatever requests overlap it.
RedeemedPinGone == \A s \in tidied : \A e \in Emails : artifact[e] # s

\* A password is changed only for a session that is at most PIN_EXPIRY old when
\* recover_complete checks it, and what the wall clock has been set back by. The
\* comment on PendingReset::created_at promises the first without the second ("a
\* backwards clock jump never extends a session beyond PIN_EXPIRY"); the code does
\* not keep that: a session that only looks younger passes the check.
NoLateRedemption ==
    \A c \in Completions :
        comp[c].pc = "update" => comp[c].entry.real <= PinExpiry + jumped

\* The steps at which completions hold the record of s.
HeldAt(s, calls) ==
    {calls[c].pc : c \in {d \in Completions : calls[d].sid = s /\ calls[d].entry # Absent}}

\* Where a session is: in the map, with a completion before or after its PIN was found
\* right, or gone.
TicketState(entry, uses, held, pc) ==
    IF entry # Absent THEN "offered"
    ELSE IF uses > 0 THEN "used"
    ELSE IF "held" \in held THEN "taken"
    ELSE IF "update" \in held THEN "accepted"
    ELSE IF pc # "done" THEN "unissued" ELSE "void"

Ticket == INSTANCE PinTicket WITH
              Tickets <- Requests, MaxTries <- MaxPinAttempts,
              state <- [s \in Requests |->
                          TicketState(resetPins[s], redeemed[s], HeldAt(s, comp), req[s].pc)]

\* The refinement: every step of a handler, the sweep or the clock is a step of
\* PinTicket or moves no session.
SessionsAreTickets == Ticket!Spec

\* Abandoned or not, every minted session is gone for good in the end: redeemed,
\* exhausted, lost, or evicted by the sweep.
SessionsEnd == \A s \in Requests : <>[](resetPins[s] = Absent)
=============================================================================
