------------------------------ MODULE MCProcess ------------------------------
\* What runs beside the requests: the server and its run loop, its WebSocket
\* connections, its background tasks with the announcement on the LAN, the window and
\* tray of the desktop application, the sweep of PIN sessions, the requests that create
\* the first administrator and those that contend for the write lock. No two share state,
\* so each behaviour is one of a single component; part says of which.
EXTENDS FirstAdmin

CONSTANTS w1, w2, w3, b1, b2

CONSTANTS Requests, Completions, Users, Stranger, NoSession, Absent, MaxPinAttempts,
          PinExpiry, MaxClockJump

CONSTANTS Desktop, Resets, MaxLaunches

CONSTANTS Conns, MaxEvents, Capacity

CONSTANTS Callers, Accounts, Founder

CONSTANTS NoAddress, Addresses, NoName, MaxAttempts, MaxInstances, MaxClients

VARIABLES part,
          resetPins, artifact, deleted, req, comp, jumped, tries, redeemed, tidied,
          proc, launches, server, instance, cancelled, published, boot_failed, pool,
          install_ok, demo, sidecar, sentinel, reset, timers,
          events, shutdown, table, socket, receiver, sender, stopped, next, missed, inbox,
          userRow, userWriter, userReading, op, refused,
          tasks, closed, local_ip, optimized,
          loopback, consent, daemon, name, status, holder, retry, joining, cancel, renames,
          round, serving, port, clients, webview, window, polling, tooltip, asked, stray,
          confirmed, app, tray

Pin == INSTANCE PinRecovery

Server == INSTANCE ServerRun

Conn == INSTANCE Connections WITH published <- events, cancelled <- stopped

Admin == INSTANCE UserAdmin WITH
    Clients <- Callers, Users <- Accounts, FirstAdmin <- Founder,
    db <- userRow, writer <- userWriter, reading <- userReading

Background == INSTANCE BackgroundTasks WITH shutdown <- cancel

Shell == INSTANCE DesktopShell WITH instance <- round, proc <- app

MCWizard == {w1, w2, w3}
MCBootstrap == {b1, b2}
MCClients == MCWizard \cup MCBootstrap

ASSUME ServerConstants == Server!ServerRunAssumption
ASSUME LanConstants == Background!DiscoveryAssumption
ASSUME ShellConstants == Shell!DesktopShellAssumption

pinVars == <<resetPins, artifact, deleted, req, comp, jumped, tries, redeemed, tidied>>
serverVars == <<proc, launches, server, instance, cancelled, published, boot_failed, pool,
                install_ok, demo, sidecar, sentinel, reset, timers>>
connVars == <<events, shutdown, table, socket, receiver, sender, stopped, next, missed, inbox>>
userVars == <<userRow, userWriter, userReading, op, refused>>

taskVars == <<loopback, consent, daemon, name, status, holder, retry, joining, cancel, renames,
              tasks, closed, local_ip, optimized>>
shellVars == <<round, serving, port, clients, webview, window, polling, tooltip, asked, stray,
               confirmed, app, tray>>

MCInit ==
    /\ part \in {"first", "pin", "server", "conn", "user", "tasks", "shell"}
    /\ part # "tasks" => local_ip = NoAddress /\ loopback = TRUE /\ consent = TRUE
    /\ part # "shell" => tray = TRUE /\ port = [i \in Shell!Instances |-> 1]
    /\ Background!Init /\ Shell!Init
    /\ Init /\ Pin!Init /\ Conn!Init /\ Admin!Init
    /\ part # "server" =>
          /\ demo = [copy |-> 0, content |-> "absent"]
          /\ sidecar = "missing" /\ sentinel = FALSE
    /\ Server!Init

Only(p) ==
    /\ UNCHANGED part
    /\ p # "first" => UNCHANGED vars
    /\ p # "pin" => UNCHANGED pinVars
    /\ p # "server" => UNCHANGED serverVars
    /\ p # "conn" => UNCHANGED connVars
    /\ p # "user" => UNCHANGED userVars
    /\ p # "tasks" => UNCHANGED taskVars
    /\ p # "shell" => UNCHANGED shellVars

FirstNext ==
    \/ \E w \in Wizard :
          \/ Guard1(w)
          \/ Guard2(w)
          \/ \E valid \in BOOLEAN : Guard3(w, valid)
          \/ WizardInsert(w)
          \/ WizardCommit(w)
          \/ WizardFails(w)
          \/ Publish(w)
          \/ Release(w)
          \/ HangUp(w)
    \/ \E b \in Bootstrap :
          \/ BootstrapCount(b)
          \/ BootstrapInsert(b)
          \/ BootstrapCommit(b)
          \/ BootstrapFails(b)
    \/ Restart

PinNext ==
    \/ \E r \in Requests :
          \/ \E e \in Pin!Emails : Pin!FindUser(r, e)
          \/ Pin!RequestStep(r)
    \/ \E c \in Completions :
          \/ \E s \in Requests \cup {NoSession}, right \in BOOLEAN :
                Pin!RecoverComplete(c, s, right)
          \/ \E e \in Pin!Emails, right \in BOOLEAN :
                Pin!ResetPassword(c, e, right)
          \/ Pin!CompletionStep(c)
    \/ Pin!Sweep
    \/ Pin!Tick
    \/ Pin!SetClockBack
    \/ \E u \in Users : Pin!SoftDelete(u)

ServerNext ==
    \/ Server!Launch
    \/ Server!StopServing
    \/ Server!ClaimSentinel
    \/ Server!Rebuild
    \/ Server!CopySidecar
    \/ Server!BootServer
    \/ Server!BootFails
    \/ Server!Quit
    \/ Server!Exit
    \/ Server!Crash
    \/ \E r \in Resets :
          \/ Server!ResetClose(r)
          \/ Server!ResetCopy(r)
          \/ Server!ResetValidate(r)
          \/ Server!ResetCannotOpen(r)
          \/ Server!ResetAnswer(r)
    \/ \E i \in timers : Server!CancelToken(i)

ConnNext ==
    \/ Conn!Publish
    \/ Conn!Shutdown
    \/ \E c \in Conns :
          \/ Conn!Connect(c)
          \/ Conn!LeaveLoop(c)
          \/ Conn!Remove(c)
          \/ Conn!Relay(c)
          \/ Conn!Lagged(c)
          \/ Conn!Heartbeat(c)
          \/ Conn!SeesShutdown(c)
          \/ Conn!SendNotice(c)
          \/ Conn!SendClose(c)
          \/ Conn!SeesCancel(c)
          \/ \E s \in {"reading", "stalled", "gone"} :
                Conn!SocketChanges(c, s)

UserNext ==
    \E c \in Callers :
        \/ \E caller, u \in Accounts, to \in Admin!Status \ {"absent"} :
              Admin!Start(c, caller, u, to)
        \/ \E u \in Accounts, role \in Admin!Roles :
              Admin!CreateUser(c, u, role)
        \/ Admin!Step(c)

MCNext ==
    \/ part = "first" /\ FirstNext /\ Only("first")
    \/ part = "pin" /\ PinNext /\ Only("pin")
    \/ part = "server" /\ ServerNext /\ Only("server")
    \/ part = "conn" /\ ConnNext /\ Only("conn")
    \/ part = "user" /\ UserNext /\ Only("user")
    \/ part = "tasks" /\ Background!Next /\ Only("tasks")
    \/ part = "shell" /\ Shell!Next /\ Only("shell")

\* The fairness of each component, for the behaviours that are its own.
MCFairness ==
    /\ \A r \in Requests : WF_pinVars(part = "pin" /\ Pin!RequestStep(r) /\ Only("pin"))
    /\ \A c \in Completions : WF_pinVars(part = "pin" /\ Pin!CompletionStep(c) /\ Only("pin"))
    /\ WF_pinVars(part = "pin" /\ Pin!Sweep /\ Only("pin"))
    /\ WF_pinVars(part = "pin" /\ Pin!Tick /\ Only("pin"))
    /\ WF_serverVars(part = "server" /\ Server!LoopStep /\ Only("server"))
    /\ WF_serverVars(part = "server" /\ Server!Exit /\ Only("server"))
    /\ \A r \in Resets : WF_serverVars(part = "server" /\ Server!ResetStep(r) /\ Only("server"))
    /\ WF_serverVars(part = "server" /\ (\E i \in timers : Server!CancelToken(i)) /\ Only("server"))
    /\ \A c \in Conns :
          /\ WF_connVars(part = "conn" /\ Conn!SenderStep(c) /\ Only("conn"))
          /\ WF_connVars(part = "conn" /\ Conn!LeaveLoop(c) /\ Only("conn"))
          /\ WF_connVars(part = "conn" /\ Conn!Remove(c) /\ Only("conn"))
          /\ WF_connVars(part = "conn" /\ Conn!SendNotice(c) /\ Only("conn"))
          /\ WF_connVars(part = "conn" /\ Conn!SendClose(c) /\ Only("conn"))
          /\ SF_connVars(part = "conn" /\ Conn!SeesShutdown(c) /\ Only("conn"))
          /\ SF_connVars(part = "conn" /\ Conn!SeesCancel(c) /\ Only("conn"))
    /\ \A c \in Callers : WF_userVars(part = "user" /\ Admin!Step(c) /\ Only("user"))
    /\ WF_taskVars(part = "tasks" /\ Background!Ends /\ Only("tasks"))
    /\ WF_taskVars(part = "tasks" /\ (Background!SleepEnds \/ Background!TryRegister) /\ Only("tasks"))
    /\ SF_taskVars(part = "tasks" /\ Background!RetryStops /\ Only("tasks"))
    /\ WF_taskVars(part = "tasks" /\ Background!CancelReturns /\ Only("tasks"))
    /\ WF_shellVars(part = "shell" /\ Shell!Poll /\ Only("shell"))

allVars == <<part, vars, pinVars, serverVars, connVars, userVars, taskVars, shellVars>>

MCSpec == MCInit /\ [][MCNext]_allVars /\ MCFairness

-----------------------------------------------------------------------------
\* Every minted PIN session is gone for good in the end.
SessionsEnd == Pin!SessionsEnd

\* No reset, and no two that overlap, leaves a running process without a server, or an
\* open pool on a file that was replaced.
ResetSafe == Server!NeverStranded /\ Server!PoolReadsDemo

\* After a reset that announced a restart another server is built, and a process that
\* is told to exit does.
RestartsAndQuits == Server!ResetRestarts /\ Server!QuitEnds

\* A connection whose client is gone leaves the table of connections, a shutdown is
\* announced to every connection that still reads, and lag closes none.
ConnectionsEnd == Conn!GoneLeaves /\ Conn!ShutdownAnnounced /\ []Conn!LagNeverCloses

\* The write lock on the users table is always given back.
LockReleased == Admin!LockReleased

\* An announcement can be withdrawn and the LAN is told what is announced; the window
\* shows the server that serves, and quitting is agreed to.
ShellRight ==
    /\ part = "tasks" => Background!DiscoveryRight
    /\ part = "shell" => Shell!ShellRight

\* After a shutdown every background task ends, and until then no known address is
\* forgotten; a cancelled registration hands back its result, and the tray catches up.
TasksEnd ==
    /\ Background!TasksEnd /\ Background!AddressKept
    /\ Background!CancelEnds
    /\ Shell!TrayCatchesUp
=============================================================================
