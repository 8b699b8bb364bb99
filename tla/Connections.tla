---------------------------- MODULE Connections ----------------------------
(* WebSocket connections: the fan-out of events to every connection, and the   *)
(* two tasks of each, a receiver loop that watches the client and a sender     *)
(* that relays events, heartbeats and the notice of a shutdown.                *)
EXTENDS Naturals, FiniteSets

CONSTANTS
  Conns,        \* upgrades
  MaxEvents,    \* bound: events published
  Capacity      \* of the fan-out channel

VARIABLES
  published,    \* events sent to the channel so far
  shutdown,     \* the shutdown token is cancelled
  table,        \* ConnectionManager.connections
  socket,       \* the client's end: reading, stalled (it stops reading) or gone
  receiver,     \* the receiver loop: none, loop, awaiting the sender, done
  sender,       \* the sender task: none, loop, notice, closing, done
  cancelled,    \* sender_cancel
  next,         \* the event the receiver of the channel reads next
  missed,       \* a gap was reported (Lagged)
  inbox         \* what the client has been sent: events, the notice, the close

vars == <<published, shutdown, table, socket, receiver, sender, cancelled, next, missed, inbox>>

TypeOK ==
  /\ published \in 0 .. MaxEvents
  /\ shutdown \in BOOLEAN
  /\ table \subseteq Conns
  /\ socket \in [Conns -> {"reading", "stalled", "gone"}]
  /\ receiver \in [Conns -> {"none", "loop", "awaiting", "done"}]
  /\ sender \in [Conns -> {"none", "loop", "notice", "closing", "done"}]
  /\ cancelled \subseteq Conns
  /\ next \in [Conns -> 1 .. MaxEvents + 1]
  /\ missed \subseteq Conns
  /\ inbox \in [Conns -> [events: SUBSET (1 .. MaxEvents), notice: BOOLEAN, close: BOOLEAN]]

Nothing == [events |-> {}, notice |-> FALSE, close |-> FALSE]

Init ==
  /\ published = 0 /\ shutdown = FALSE
  /\ table = {} /\ cancelled = {} /\ missed = {}
  /\ socket = [c \in Conns |-> "reading"]
  /\ receiver = [c \in Conns |-> "none"]
  /\ sender = [c \in Conns |-> "none"]
  /\ next = [c \in Conns |-> 1]
  /\ inbox = [c \in Conns |-> Nothing]

Sends(c, s) == sender' = [sender EXCEPT ![c] = s]
Receives(c, s) == receiver' = [receiver EXCEPT ![c] = s]

(* handle_socket: subscribe, enter the table, spawn the sender.                *)
Connect(c) ==
  /\ receiver[c] = "none" /\ socket[c] = "reading"
  /\ table' = table \cup {c}
  /\ next' = [next EXCEPT ![c] = published + 1]
  /\ Receives(c, "loop") /\ Sends(c, "loop")
  /\ UNCHANGED <<published, shutdown, socket, cancelled, missed, inbox>>

Publish ==
  /\ published < MaxEvents
  /\ published' = published + 1
  /\ UNCHANGED <<shutdown, table, socket, receiver, sender, cancelled, next, missed, inbox>>

(* Clients stop reading, go on, or leave.                                      *)
SocketChanges(c, s) ==
  /\ receiver[c] # "none"
  /\ socket[c] # "gone" /\ socket[c] # s
  /\ socket' = [socket EXCEPT ![c] = s]
  /\ UNCHANGED <<published, shutdown, table, receiver, sender, cancelled, next, missed, inbox>>

Shutdown ==
  /\ ~ shutdown
  /\ shutdown' = TRUE
  /\ UNCHANGED <<published, table, socket, receiver, sender, cancelled, next, missed, inbox>>

-----------------------------------------------------------------------------
(* The sender task: a turn of its select!. A send to a stalled client does not *)
(* return, a send to one that left fails and ends the loop.                    *)

CanSend(c) == sender[c] = "loop" /\ socket[c] # "stalled"

Relay(c) ==
  /\ CanSend(c)
  /\ next[c] <= published /\ published < next[c] + Capacity
  /\ next' = [next EXCEPT ![c] = @ + 1]
  /\ IF socket[c] = "gone"
     THEN Sends(c, "done") /\ UNCHANGED inbox
     ELSE inbox' = [inbox EXCEPT ![c].events = @ \cup {next[c]}] /\ UNCHANGED sender
  /\ UNCHANGED <<published, shutdown, table, socket, receiver, cancelled, missed>>

(* Mutant of Lagged: a sender that has fallen behind gives up.                 *)
LaggedStops(c) ==
  /\ sender[c] = "loop"
  /\ published >= next[c] + Capacity
  /\ Sends(c, "done")
  /\ missed' = missed \cup {c}
  /\ UNCHANGED <<published, shutdown, table, socket, receiver, cancelled, next, inbox>>

(* RecvError::Lagged: the oldest event still held is next.                     *)
Lagged(c) ==
  /\ sender[c] = "loop"
  /\ published >= next[c] + Capacity
  /\ next' = [next EXCEPT ![c] = published + 1 - Capacity]
  /\ missed' = missed \cup {c}
  /\ UNCHANGED <<published, shutdown, table, socket, receiver, sender, cancelled, inbox>>

(* Heartbeat and ping; only a failure changes anything.                        *)
Heartbeat(c) ==
  /\ CanSend(c) /\ socket[c] = "gone"
  /\ Sends(c, "done")
  /\ UNCHANGED <<published, shutdown, table, socket, receiver, cancelled, next, missed, inbox>>

SeesShutdown(c) ==
  /\ sender[c] = "loop" /\ shutdown
  /\ Sends(c, "notice")
  /\ UNCHANGED <<published, shutdown, table, socket, receiver, cancelled, next, missed, inbox>>

(* The event and then the close frame; a failure of either is only logged.     *)
SendNotice(c) ==
  /\ sender[c] = "notice" /\ socket[c] # "stalled"
  /\ Sends(c, "closing")
  /\ inbox' = IF socket[c] = "gone" THEN inbox ELSE [inbox EXCEPT ![c].notice = TRUE]
  /\ UNCHANGED <<published, shutdown, table, socket, receiver, cancelled, next, missed>>

SendClose(c) ==
  /\ sender[c] = "closing" /\ socket[c] # "stalled"
  /\ Sends(c, "done")
  /\ inbox' = IF socket[c] = "gone" THEN inbox ELSE [inbox EXCEPT ![c].close = TRUE]
  /\ UNCHANGED <<published, shutdown, table, socket, receiver, cancelled, next, missed>>

SeesCancel(c) ==
  /\ sender[c] = "loop" /\ c \in cancelled
  /\ Sends(c, "done")
  /\ UNCHANGED <<published, shutdown, table, socket, receiver, cancelled, next, missed, inbox>>

-----------------------------------------------------------------------------
(* The receiver loop.                                                          *)

(* Mutant of LeaveLoop: the sender is cancelled in any case.                   *)
LeaveLoopCancelling(c) ==
  /\ receiver[c] = "loop"
  /\ socket[c] = "gone" \/ shutdown
  /\ Receives(c, "awaiting")
  /\ cancelled' = cancelled \cup {c}
  /\ UNCHANGED <<published, shutdown, table, socket, sender, next, missed, inbox>>

(* Mutant of LeaveLoop: only a shutdown ends the loop.                         *)
LeaveLoopOnShutdown(c) ==
  /\ receiver[c] = "loop"
  /\ shutdown
  /\ Receives(c, "awaiting")
  /\ UNCHANGED <<published, shutdown, table, socket, sender, cancelled, next, missed, inbox>>

(* The socket ended or the server stops. The sender is cancelled only when the *)
(* server goes on: in a shutdown it has its own notice to send.                *)
LeaveLoop(c) ==
  /\ receiver[c] = "loop"
  /\ socket[c] = "gone" \/ shutdown
  /\ Receives(c, "awaiting")
  /\ cancelled' = IF shutdown THEN cancelled ELSE cancelled \cup {c}
  /\ UNCHANGED <<published, shutdown, table, socket, sender, next, missed, inbox>>

(* sender.await, then remove.                                                  *)
Remove(c) ==
  /\ receiver[c] = "awaiting" /\ sender[c] = "done"
  /\ Receives(c, "done")
  /\ table' = table \ {c}
  /\ UNCHANGED <<published, shutdown, socket, sender, cancelled, next, missed, inbox>>

SenderStep(c) ==
  \/ Relay(c) \/ Lagged(c) \/ Heartbeat(c)
  \/ SeesShutdown(c) \/ SendNotice(c) \/ SendClose(c) \/ SeesCancel(c)

Next ==
  \/ Publish \/ Shutdown
  \/ \E c \in Conns :
       \/ Connect(c) \/ LeaveLoop(c) \/ Remove(c)
       \/ Relay(c) \/ Lagged(c) \/ Heartbeat(c)
       \/ SeesShutdown(c) \/ SendNotice(c) \/ SendClose(c) \/ SeesCancel(c)
       \/ \E s \in {"reading", "stalled", "gone"} : SocketChanges(c, s)

(* The runtime goes on polling both tasks of a connection; select! picks among *)
(* its ready branches at random.                                               *)
Fairness ==
  \A c \in Conns :
    /\ WF_vars(SenderStep(c)) /\ WF_vars(LeaveLoop(c)) /\ WF_vars(Remove(c))
    /\ SF_vars(SeesShutdown(c)) /\ SF_vars(SeesCancel(c))
    /\ WF_vars(SendNotice(c)) /\ WF_vars(SendClose(c))

Spec == Init /\ [][Next]_vars /\ Fairness

-----------------------------------------------------------------------------
(* Properties                                                                  *)

(* A connection whose client is gone leaves the table, whichever task notices. *)
GoneLeaves == \A c \in Conns : (socket[c] = "gone" /\ c \in table) ~> c \notin table

(* In a shutdown every connection is told, closed and removed, unless its      *)
(* client has left or stopped reading.                                         *)
ShutdownAnnounced ==
  \A c \in Conns :
    (shutdown /\ c \in table) ~>
      \/ socket[c] # "reading"
      \/ c \notin table /\ inbox[c].notice /\ inbox[c].close

(* Falling behind costs a client events, never its connection: a sender ends   *)
(* only for a client that left or for a shutdown.                              *)
LagNeverCloses ==
  \A c \in Conns :
    sender[c] = "done" => socket[c] = "gone" \/ c \in cancelled \/ shutdown
=============================================================================
