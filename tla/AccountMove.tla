----------------------------- MODULE AccountMove -----------------------------
(***************************************************************************)
(* What the legacy upgrade of kikan promises about the accounts of an       *)
(* install, without its boot sequence: they move from the production         *)
(* database to meta.db by one copy of all of them, the originals go only     *)
(* once every account has its copy, and after the install is registered in   *)
(* meta.profiles nothing is moved again.                                     *)
(***************************************************************************)
EXTENDS Naturals

CONSTANT Emails

VARIABLES
    source,      \* accounts in the production database
    target,      \* accounts in meta.db
    registered,  \* the install has its row in meta.profiles
    resets       \* how often the operator has deleted the production database

vars == <<source, target, registered, resets>>

Init == source = {} /\ target = {} /\ registered = FALSE /\ resets = 0

Join ==
    /\ \E e \in Emails : source' = source \cup {e}
    /\ UNCHANGED <<target, registered, resets>>

Copy ==
    /\ ~registered
    /\ target' = target \cup source
    /\ UNCHANGED <<source, registered, resets>>

Discard ==
    /\ ~registered
    /\ source \subseteq target
    /\ source' = {}
    /\ UNCHANGED <<target, registered, resets>>

Register ==
    /\ ~registered
    /\ source = {}
    /\ registered' = TRUE
    /\ UNCHANGED <<source, target, resets>>

Reset ==
    /\ source' = {}
    /\ resets' = resets + 1
    /\ UNCHANGED <<target, registered>>

Next == Join \/ Copy \/ Discard \/ Register \/ Reset

Spec == Init /\ [][Next]_vars
=============================================================================
