------------------------------ MODULE ServerRun ------------------------------
(***************************************************************************)
(* The process around the HTTP server: launch, boot over the demo database, *)
(* the demo reset that replaces that database under the running server, the *)
(* .restart sentinel it leaves for the run loop, the shutdown tokens, quit, *)
(* drain and crash.  Desktop is the application with its restart loop;      *)
(* otherwise the process is the headless mokumo-server.                     *)
(***************************************************************************)
EXTENDS Naturals

CONSTANTS Desktop,      \* which of the two processes
          Resets,       \* requests to reset the demo
          MaxLaunches   \* bound on starts of the process

ServerRunAssumption == Desktop \in BOOLEAN /\ MaxLaunches \in Nat

VARIABLES
    proc,        \* the process: "exiting" once its exit was requested
    launches,    \* history: starts so far
    server,      \* where the server task is
    instance,    \* the server built last; each has its own shutdown token
    cancelled,   \* instances whose token is cancelled
    published,   \* the instance whose token ShutdownState holds
    boot_failed, \* the restart loop could not build another server
    pool,        \* the demo pool: is it open, and on which copy of the file
    install_ok,  \* demo_install_ok
    demo,        \* demo/mokumo.db
    sidecar,     \* the bundled demo.db
    sentinel,    \* .restart is there
    reset,       \* each reset, and the instance that serves it
    timers       \* instances with a cancellation 100 ms away

disk == <<demo, sidecar, sentinel>>
task == <<proc, launches, server, instance, published, boot_failed>>
vars == <<task, cancelled, pool, install_ok, disk, reset, timers>>

\* "broken": a partial copy, or a copy of a sidecar no boot accepts.
Contents == {"absent", "broken", "empty", "used", "fresh"}
InFlight == {"closed", "copied", "validated"}
Answers == {"ok", "failed", "lost"}

TypeOK ==
    /\ proc \in {"down", "starting", "up", "exiting"}
    /\ server \in {"none", "copying", "booting", "serving", "stopped", "claimed", "over"}
    /\ launches \in 0..MaxLaunches
    /\ {instance, published} \subseteq Nat
    /\ cancelled \cup timers \subseteq 1..instance
    /\ {boot_failed, install_ok, sentinel} \subseteq BOOLEAN
    /\ pool \in [open : BOOLEAN, copy : Nat]
    /\ demo \in [copy : Nat, content : Contents]
    /\ sidecar \in {"missing", "broken", "fresh"}
    /\ reset \in [Resets -> [pc : {"idle"} \cup InFlight \cup Answers, at : Nat]]

Init ==
    /\ proc = "down" /\ server = "none"
    /\ launches = 0 /\ instance = 0 /\ published = 0
    /\ cancelled = {} /\ timers = {}
    /\ boot_failed = FALSE /\ install_ok = FALSE
    /\ pool = [open |-> FALSE, copy |-> 0]
    /\ demo \in [copy : {0}, content : {"absent", "used"}]
    /\ sidecar \in {"missing", "broken", "fresh"}
    /\ sentinel \in BOOLEAN
    /\ reset = [r \in Resets |-> [pc |-> "idle", at |-> 0]]

Content(c) == [demo EXCEPT !.content = c]
Move(r, pc) == reset' = [reset EXCEPT ![r].pc = pc]
Serving(r) == reset[r].pc \in InFlight
Idle == \A r \in Resets : ~Serving(r)

------------------------------------------------------------------------------
(* Boot *)

\* init_server up to prepare_database's copy of an absent demo database, which is
\* written in place.
BeginBoot ==
    IF demo.content = "absent" /\ sidecar # "missing"
    THEN server' = "copying" /\ demo' = Content("broken")
    ELSE server' = "booting" /\ UNCHANGED demo

NewInstance ==
    /\ instance' = instance + 1
    /\ published' = instance + 1

Launch ==
    /\ proc = "down" /\ launches < MaxLaunches
    /\ proc' = "starting"
    /\ launches' = launches + 1
    /\ NewInstance
    /\ BeginBoot
    /\ UNCHANGED <<boot_failed, cancelled, pool, install_ok, sidecar, sentinel, reset, timers>>

\* copy_sidecar_if_needed: its failure is only logged.
CopySidecar ==
    /\ server = "copying"
    /\ \E c \in {sidecar, "broken", "absent"} : demo' = Content(c)
    /\ server' = "booting"
    /\ UNCHANGED <<proc, launches, instance, published, boot_failed, cancelled, pool,
                   install_ok, sidecar, sentinel, reset, timers>>

\* What opening a database leaves there: rwc creates an absent one.
Opened == IF demo.content = "absent" THEN "empty" ELSE demo.content

\* The guards and migrations of setup_profile_db pass, and the server listens.
BootServer ==
    /\ server = "booting" /\ demo.content # "broken"
    /\ server' = "serving"
    /\ proc' = IF proc = "starting" THEN "up" ELSE proc
    /\ demo' = Content(Opened)
    /\ pool' = [open |-> TRUE, copy |-> demo.copy]
    /\ install_ok' = (Opened # "empty")
    /\ UNCHANGED <<launches, instance, published, boot_failed, cancelled, sidecar, sentinel,
                   reset, timers>>

\* The process is gone, with everything it had in memory.
Down ==
    /\ proc' = "down" /\ server' = "none"
    /\ boot_failed' = FALSE
    /\ cancelled' = {} /\ timers' = {}
    /\ pool' = [pool EXCEPT !.open = FALSE]
    /\ reset' = [r \in Resets |-> IF Serving(r) THEN [reset[r] EXCEPT !.pc = "lost"] ELSE reset[r]]
    /\ UNCHANGED <<launches, instance, published, install_ok, sidecar, sentinel>>

\* At launch an error ends the process; in the restart loop it ends the loop.
BootFails ==
    /\ server = "booting"
    /\ IF proc = "starting"
       THEN Down /\ UNCHANGED demo
       ELSE /\ server' = "over" /\ boot_failed' = TRUE
            /\ UNCHANGED <<proc, launches, instance, published, cancelled, pool, install_ok,
                           disk, reset, timers>>

------------------------------------------------------------------------------
(* demo_reset *)

\* Mutant of ResetClose: the pool stays open over the file that is replaced.
ResetKeepsPool(r) ==
    /\ reset[r].pc = "idle" /\ server = "serving"
    /\ reset' = [reset EXCEPT ![r] = [pc |-> "closed", at |-> instance]]
    /\ UNCHANGED <<task, cancelled, pool, install_ok, disk, timers>>

\* Mutant of ResetClose: the request takes no note of the server it is served by.
ResetForgetsServer(r) ==
    /\ reset[r].pc = "idle" /\ server = "serving"
    /\ reset' = [reset EXCEPT ![r] = [pc |-> "closed"]]
    /\ pool' = [pool EXCEPT !.open = FALSE]
    /\ UNCHANGED <<task, cancelled, install_ok, disk, timers>>

\* Refused unless the active profile is demo, which it is here; anybody with a
\* session gets in, a production session also when the demo pool is closed. The
\* pool is closed before the file is replaced.
ResetClose(r) ==
    /\ reset[r].pc = "idle" /\ server = "serving"
    /\ reset' = [reset EXCEPT ![r] = [pc |-> "closed", at |-> instance]]
    /\ pool' = [pool EXCEPT !.open = FALSE]
    /\ UNCHANGED <<task, cancelled, install_ok, disk, timers>>

\* force_copy_sidecar: temporary file and rename. The fallback for a rename that
\* fails removes the database first.
ResetCopy(r) ==
    /\ reset[r].pc = "closed"
    /\ \/ /\ sidecar # "missing"
          /\ demo' = [copy |-> demo.copy + 1, content |-> sidecar]
          /\ Move(r, "copied")
       \/ /\ demo' \in {demo, Content("absent")}
          /\ Move(r, "failed")
    /\ UNCHANGED <<task, cancelled, pool, install_ok, sidecar, sentinel, timers>>

\* The sentinel first, the cancellation of this instance's token only after it.
ScheduleRestart ==
    /\ sentinel' = TRUE
    /\ timers' = timers \cup {instance}

\* Mutant of CannotSchedule: the shutdown goes ahead without the sentinel.
ShutdownAnyway ==
    /\ timers' = timers \cup {instance}
    /\ UNCHANGED sentinel

CannotSchedule == UNCHANGED <<sentinel, timers>>

\* The copy is opened, migrated and validated.
ResetValidate(r) ==
    /\ reset[r].pc = "copied"
    /\ demo.content # "broken"
    /\ demo' = Content(Opened)
    /\ install_ok' = (Opened # "empty")
    /\ Move(r, "validated")
    /\ UNCHANGED <<task, cancelled, pool, sidecar, sentinel, timers>>

ResetCannotOpen(r) ==
    /\ reset[r].pc = "copied"
    /\ install_ok' = FALSE
    /\ ScheduleRestart \/ CannotSchedule
    /\ Move(r, "failed")
    /\ UNCHANGED <<task, cancelled, pool, demo, sidecar>>

ResetAnswer(r) ==
    /\ reset[r].pc = "validated"
    /\ \/ ScheduleRestart /\ Move(r, "ok")
       \/ CannotSchedule /\ Move(r, "failed")
    /\ UNCHANGED <<task, cancelled, pool, install_ok, demo, sidecar>>

ResetStep(r) ==
    ResetCopy(r) \/ ResetValidate(r) \/ ResetCannotOpen(r) \/ ResetAnswer(r)

\* shutdown.cancel(), on the token the handler's own server was given.
CancelToken(i) ==
    /\ i \in timers
    /\ timers' = timers \ {i}
    /\ cancelled' = cancelled \cup {i}
    /\ UNCHANGED <<task, pool, install_ok, disk, reset>>

------------------------------------------------------------------------------
(* The run loop *)

\* What the graceful shutdown waits for: the instance's token on the desktop, a
\* signal to the process on the headless server.
ShutdownSeen == IF Desktop THEN instance \in cancelled ELSE proc = "exiting"

\* axum::serve returns when the requests in flight are answered.
StopServing ==
    /\ server = "serving" /\ ShutdownSeen /\ Idle
    /\ server' = "stopped"
    /\ UNCHANGED <<proc, launches, instance, published, boot_failed, cancelled, pool,
                   install_ok, disk, reset, timers>>

\* Mutant of ClaimSentinel: the loop ends without a look at the sentinel.
ClaimNothing ==
    /\ Desktop /\ server = "stopped"
    /\ server' = "over"
    /\ UNCHANGED <<proc, launches, instance, published, boot_failed, cancelled, pool,
                   install_ok, disk, reset, timers>>

ClaimSentinel ==
    /\ Desktop /\ server = "stopped"
    /\ server' = IF sentinel THEN "claimed" ELSE "over"
    /\ sentinel' = FALSE
    /\ UNCHANGED <<proc, launches, instance, published, boot_failed, cancelled, pool,
                   install_ok, demo, sidecar, reset, timers>>

\* A new token, in ShutdownState too, and a new listener.
Rebuild ==
    /\ server = "claimed"
    /\ NewInstance
    /\ \/ BeginBoot /\ UNCHANGED boot_failed
       \/ server' = "over" /\ boot_failed' = TRUE /\ UNCHANGED demo
    /\ UNCHANGED <<proc, launches, cancelled, pool, install_ok, sidecar, sentinel, reset, timers>>

\* ExitRequested, or the signal; it cancels the token it finds in ShutdownState.
Quit ==
    /\ proc = "up"
    /\ proc' = "exiting"
    /\ cancelled' = cancelled \cup {published}
    /\ UNCHANGED <<launches, server, instance, published, boot_failed, pool, install_ok, disk,
                   reset, timers>>

\* The drain is awaited for DRAIN_TIMEOUT_SECS.
Drained == IF Desktop THEN server = "over" ELSE server = "stopped"

\* Mutant of DrainTimedOut: the drain is awaited without a limit.
DrainWaits == FALSE

DrainTimedOut == Desktop
Exit ==
    /\ proc = "exiting" /\ (Drained \/ DrainTimedOut)
    /\ Down
    /\ UNCHANGED demo

Crash ==
    /\ proc # "down"
    /\ Down
    /\ UNCHANGED demo

LoopStep == StopServing \/ ClaimSentinel \/ Rebuild \/ CopySidecar \/ BootServer \/ BootFails

Next ==
    \/ Launch \/ LoopStep \/ Quit \/ Exit \/ Crash
    \/ \E r \in Resets : ResetClose(r) \/ ResetStep(r)
    \/ \E i \in timers : CancelToken(i)

\* The runtime polls the server task and the handlers, timers fire, and an exit
\* that is requested is carried out. Nobody has to launch, reset or quit.
Fairness ==
    /\ WF_vars(LoopStep)
    /\ WF_vars(Exit)
    /\ \A r \in Resets : WF_vars(ResetStep(r))
    /\ WF_vars(\E i \in timers : CancelToken(i))

Spec == Init /\ [][Next]_vars /\ Fairness
------------------------------------------------------------------------------
\* An open demo pool reads the file that is at the demo database's path, never one
\* that a reset has replaced.
PoolReadsDemo == pool.open => pool.copy = demo.copy

\* No reset, and no two that overlap, ends the run loop without a new server:
\* only a failed boot does ("stopping the server without restarting it would
\* leave the shop with no running server").
NeverStranded == Desktop /\ proc = "up" /\ server = "over" => boot_failed

\* "Server will restart": after a reset that said so another server is built,
\* unless the process exits or the boot fails.
ResetRestarts ==
    \A r \in Resets :
        reset[r].pc = "ok" ~> instance > reset[r].at \/ boot_failed \/ proc # "up"

\* A process that is told to exit does, whatever the run loop is in the middle of.
QuitEnds == proc = "exiting" ~> proc = "down"
==============================================================================
