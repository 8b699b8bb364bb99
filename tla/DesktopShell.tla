------------------------------ MODULE DesktopShell ------------------------------
(* The desktop application around its server: the window, the tray and its poll *)
(* task, closing and quitting, and what each of them knows of the server after  *)
(* the restart loop has built another one. What the restart loop does to the    *)
(* server itself is ServerRun.                                                  *)
EXTENDS Naturals

CONSTANTS
  MaxInstances,  \* bound on servers built
  MaxClients     \* bound on connected clients

VARIABLES
  instance,   \* the server built last
  serving,    \* it serves
  port,       \* port[i] of server i, from the operating system
  clients,    \* clients[i]: WebSocket connections of server i
  webview,    \* the port the window's page was loaded from
  window,     \* "visible" or "hidden"
  polling,    \* the tray's poll task runs
  tooltip,    \* what the tray shows
  asked,      \* the quit dialog: the clients it names, or Nobody when it is not open
  stray,      \* history: the window could not follow a new port
  confirmed,  \* history: somebody agreed to quit, or quit with no window to ask in
  proc,       \* "up", "exiting" or "down"
  tray        \* there is a system tray to hide in

vars == <<instance, serving, port, clients, webview, window, polling, tooltip, asked, stray,
          confirmed, proc, tray>>

(* There is a first server.                                                     *)
DesktopShellAssumption == MaxInstances \in Nat \ {0} /\ MaxClients \in Nat

Instances == 1..MaxInstances
Ports == 1..2
NotAsked == MaxClients + 1

TypeOK ==
  /\ instance \in Instances /\ serving \in BOOLEAN
  /\ port \in [Instances -> Ports] /\ clients \in [Instances -> 0..MaxClients]
  /\ webview \in Ports /\ window \in {"visible", "hidden"}
  /\ polling \in BOOLEAN /\ tooltip \in [port: Ports, clients: 0..MaxClients]
  /\ asked \in 0..NotAsked
  /\ proc \in {"up", "exiting", "down"} /\ tray \in BOOLEAN

(* init_server, the window over initial_webview_url, the tray and its menu.     *)
Init ==
  /\ instance = 1 /\ serving = TRUE
  /\ port \in [Instances -> Ports]
  /\ clients = [i \in Instances |-> 0]
  /\ webview = port[1] /\ window = "visible"
  /\ tray \in BOOLEAN /\ polling = tray
  /\ tooltip = [port |-> port[1], clients |-> 0]
  /\ asked = NotAsked
  /\ stray = FALSE /\ confirmed = FALSE /\ proc = "up"

--------------------------------------------------------------------------------
(* External: pages open and close their connection.                             *)
Connect ==
  /\ serving /\ clients[instance] < MaxClients
  /\ clients' = [clients EXCEPT ![instance] = @ + 1]
  /\ UNCHANGED <<instance, serving, port, webview, window, polling, tooltip, asked, stray,
                 confirmed, proc, tray>>

Disconnect ==
  /\ clients[instance] > 0
  /\ clients' = [clients EXCEPT ![instance] = @ - 1]
  /\ UNCHANGED <<instance, serving, port, webview, window, polling, tooltip, asked, stray,
                 confirmed, proc, tray>>

(* A demo reset cancels the server's token, which the poll task waits for too   *)
(* when the server is the first one.                                            *)
ServerStops ==
  /\ serving /\ proc = "up" /\ instance < MaxInstances
  /\ serving' = FALSE
  /\ clients' = [clients EXCEPT ![instance] = 0]
  /\ UNCHANGED <<instance, port, webview, window, polling, tooltip, asked, stray, confirmed, proc, tray>>

\* Mutant of PortChanged: the loop keeps the port of the first server to compare with.
PortChangedSinceFirst == port[instance + 1] # port[1]

PortChanged == port[instance + 1] # port[instance]

(* The listener is bound, the window is navigated when the port differs from    *)
(* the one before, the server is built and serves. A navigation that fails is   *)
(* only logged.                                                                 *)
Restart ==
  /\ ~ serving /\ proc = "up" /\ instance < MaxInstances
  /\ instance' = instance + 1
  /\ serving' = TRUE
  /\ \E navigates \in BOOLEAN :
       IF PortChanged
         THEN /\ webview' = IF navigates THEN port[instance + 1] ELSE webview
              /\ stray' = ~ navigates
         ELSE UNCHANGED <<webview, stray>>
  /\ UNCHANGED <<port, clients, window, polling, tooltip, asked, confirmed, proc, tray>>

--------------------------------------------------------------------------------
(* The poll task reads the status and the connections of the first server.      *)
Poll ==
  /\ polling /\ proc = "up"
  /\ tooltip' = [port |-> port[1], clients |-> clients[1]]
  /\ UNCHANGED <<instance, serving, port, clients, webview, window, polling, asked, stray,
                 confirmed, proc, tray>>

PollSeesToken ==
  /\ polling /\ (~ serving \/ instance > 1 \/ proc = "exiting")
  /\ polling' = FALSE
  /\ UNCHANGED <<instance, serving, port, clients, webview, window, tooltip, asked, stray,
                 confirmed, proc, tray>>

--------------------------------------------------------------------------------
(* handle_quit: a visible window asks, and names the connections of the manager *)
(* it knows, the first server's; a hidden one notifies and goes.                *)
QuitRequested ==
  /\ proc = "up" /\ asked = NotAsked
  /\ IF window = "visible"
       THEN asked' = clients[1] /\ UNCHANGED <<proc, confirmed>>
       ELSE proc' = "exiting" /\ confirmed' = TRUE /\ UNCHANGED asked
  /\ UNCHANGED <<instance, serving, port, clients, webview, window, polling, tooltip, stray, tray>>

(* on_close_requested: hidden in the tray, or asked as for quitting.            *)
Close ==
  /\ proc = "up" /\ window = "visible"
  /\ IF tray
       THEN window' = "hidden" /\ UNCHANGED asked
       ELSE asked' = clients[1] /\ UNCHANGED window
  /\ UNCHANGED <<instance, serving, port, clients, webview, polling, tooltip, stray, confirmed, proc, tray>>

Reopen ==
  /\ window = "hidden" /\ proc = "up"
  /\ window' = "visible"
  /\ UNCHANGED <<instance, serving, port, clients, webview, polling, tooltip, asked, stray,
                 confirmed, proc, tray>>

AnswerDialog(yes) ==
  /\ asked # NotAsked /\ proc = "up"
  /\ asked' = NotAsked
  /\ IF yes THEN proc' = "exiting" /\ confirmed' = TRUE ELSE UNCHANGED <<proc, confirmed>>
  /\ UNCHANGED <<instance, serving, port, clients, webview, window, polling, tooltip, stray, tray>>

(* ExitRequested: the server is drained for ten seconds at most.                *)
Exit ==
  /\ proc = "exiting"
  /\ proc' = "down" /\ serving' = FALSE /\ polling' = FALSE
  /\ clients' = [i \in Instances |-> 0]
  /\ UNCHANGED <<instance, port, webview, window, tooltip, asked, stray, confirmed, tray>>

Next ==
  \/ Connect \/ Disconnect \/ ServerStops \/ Restart
  \/ Poll \/ PollSeesToken
  \/ QuitRequested \/ Close \/ Reopen \/ Exit
  \/ \E yes \in BOOLEAN : AnswerDialog(yes)

Fairness == WF_vars(Poll) /\ WF_vars(PollSeesToken) /\ WF_vars(Exit)

Spec == Init /\ [][Next]_vars /\ Fairness

--------------------------------------------------------------------------------
(* The window shows a page of the server that serves, unless it could not be    *)
(* told of a new port.                                                          *)
WindowFollows == serving /\ ~ stray => webview = port[instance]

(* Closing the window never ends the process: somebody agreed, or asked for it  *)
(* with no window open.                                                         *)
QuitAgreed == proc # "up" => confirmed

ShellRight == WindowFollows /\ QuitAgreed

(* While the first server serves, the tray catches up with its connections      *)
(* whenever their number stays as it is; after a restart it shows what it last  *)
(* knew for good.                                                               *)
TrayCatchesUp ==
  tray /\ instance = 1 /\ serving /\ proc = "up" ~>
    tooltip.clients = clients[1] \/ instance > 1 \/ ~ serving \/ proc # "up"
================================================================================
