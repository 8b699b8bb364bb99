------------------------------ MODULE PinTicket ------------------------------
(***************************************************************************)
(* What a PIN recovery promises, without the map its sessions are in and the *)
(* handlers that pass them on: each session is a ticket, issued once, in one  *)
(* place at a time, tried a bounded number of times, good for one change of   *)
(* the password, and lost whenever anything goes wrong.                       *)
(***************************************************************************)
EXTENDS Naturals

CONSTANTS Tickets, MaxTries

VARIABLES
    state,  \* of each ticket
    tries   \* PINs tried with it

vars == <<state, tries>>

Init ==
    /\ state = [s \in Tickets |-> "unissued"]
    /\ tries = [s \in Tickets |-> 0]

Becomes(s, to) == state' = [state EXCEPT ![s] = to]

Issue(s) ==
    /\ state[s] = "unissued"
    /\ Becomes(s, "offered")
    /\ UNCHANGED tries

Take(s) ==
    /\ state[s] = "offered"
    /\ Becomes(s, "taken")
    /\ UNCHANGED tries

\* A PIN is compared: the right one is accepted; after a wrong one the ticket is
\* offered again, or void if that was the last try.
Try(s) ==
    /\ state[s] = "taken"
    /\ tries[s] < MaxTries
    /\ tries' = [tries EXCEPT ![s] = @ + 1]
    /\ \/ Becomes(s, "accepted")
       \/ tries'[s] < MaxTries /\ Becomes(s, "offered")
       \/ tries'[s] = MaxTries /\ Becomes(s, "void")

Use(s) ==
    /\ state[s] = "accepted"
    /\ Becomes(s, "used")
    /\ UNCHANGED tries

\* Tickets are evicted, or lost with who had them; a used one stays used.
Void(lost) ==
    /\ \A s \in lost : state[s] # "used"
    /\ state' = [s \in Tickets |-> IF s \in lost THEN "void" ELSE state[s]]
    /\ UNCHANGED tries

Next ==
    \/ \E lost \in SUBSET Tickets : Void(lost)
    \/ \E s \in Tickets : Issue(s) \/ Take(s) \/ Try(s) \/ Use(s)

Spec == Init /\ [][Next]_vars
=============================================================================
