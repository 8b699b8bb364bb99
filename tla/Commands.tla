------------------------------ MODULE Commands ------------------------------
(* The processes that share one data directory: mokumo-server serving, and its *)
(* subcommands. serve, restore and reset-db hold the lock on mokumo.lock; the  *)
(* other writers take none; the readers ask the server over admin.sock and, if *)
(* that fails, open the databases themselves. The admin socket is served by a  *)
(* task of its own. What a command does to a database is in other modules.     *)
EXTENDS Naturals

CONSTANTS
  Procs,     \* processes
  Nobody,    \* no process
  MaxStarts  \* bound: commands given to one process after another

ProcsAssumption == Nobody \notin Procs

VARIABLES
  lock,       \* the holder of the flock
  sock_file,  \* admin.sock: "none", "other" (no socket), or the process that bound it
  cmd,        \* what each process was started as
  pc,         \* where its main task is
  admin,      \* where the task of its admin socket is
  cancelled,  \* its shutdown token
  stalled,    \* its tasks that have a request in flight which does not end
  exit,       \* its exit code
  starts      \* bound

vars == <<lock, sock_file, cmd, pc, admin, cancelled, stalled, exit, starts>>

Readers == {"diagnose", "profile_list", "migrate_status", "backup_list"}
Lockers == {"serve", "restore", "reset_db"}
Direct == {"bootstrap", "reset_password", "backup_create"}
Commands == Lockers \cup Direct \cup Readers \cup {"profile_switch"}

Tasks == {"data", "admin"}

Init ==
  /\ lock = Nobody
  /\ sock_file \in {"none", "other"}
  /\ cmd = [p \in Procs |-> "none"] /\ pc = [p \in Procs |-> "off"]
  /\ admin = [p \in Procs |-> "off"] /\ cancelled = [p \in Procs |-> FALSE]
  /\ stalled = [p \in Procs |-> {}] /\ exit = [p \in Procs |-> 0]
  /\ starts = 0

At(p, here, there) == pc[p] = here /\ pc' = [pc EXCEPT ![p] = there]

(* The process is gone: the system frees the flock and closes the listener.    *)
Ends(p, code) ==
  /\ pc' = [pc EXCEPT ![p] = "off"] /\ exit' = [exit EXCEPT ![p] = code]
  /\ lock' = IF lock = p THEN Nobody ELSE lock
  /\ admin' = [admin EXCEPT ![p] = "off"]
  /\ UNCHANGED <<sock_file, cmd, cancelled, stalled, starts>>

(* main: arguments are parsed, then one cmd_ function runs.                    *)
Start(p, c) ==
  /\ starts < MaxStarts /\ starts' = starts + 1
  /\ At(p, "off", CASE c \in Lockers -> "lock"
                    [] c \in Direct -> "work"
                    [] OTHER -> "ask")
  /\ cmd' = [cmd EXCEPT ![p] = c]
  /\ cancelled' = [cancelled EXCEPT ![p] = FALSE] /\ stalled' = [stalled EXCEPT ![p] = {}]
  /\ UNCHANGED <<lock, sock_file, admin, exit>>

(* serve with unusable flags exits 2, a data directory or a lock file that     *)
(* cannot be made exits 1, both before the lock.                               *)
Refused(p) == pc[p] = "lock" /\ \E code \in {1, 2} : Ends(p, code)

(* try_write: whoever does not get it at once gives up.                        *)
LockHeld(p) == pc[p] = "lock" /\ lock # Nobody /\ Ends(p, 1)

(* Mutant of TakeLock: the guard is not bound to a name and dropped at once.   *)
TakeLockDropped(p) ==
  /\ lock = Nobody
  /\ At(p, "lock", IF cmd[p] = "serve" THEN "boot" ELSE "work")
  /\ UNCHANGED <<lock, sock_file, cmd, admin, cancelled, stalled, exit, starts>>

TakeLock(p) ==
  /\ lock = Nobody /\ lock' = p
  /\ At(p, "lock", IF cmd[p] = "serve" THEN "boot" ELSE "work")
  /\ UNCHANGED <<sock_file, cmd, admin, cancelled, stalled, exit, starts>>

(* The bodies of the commands that work on the files: done or given up. A file *)
(* that reset-db could not delete makes it exit 1, as does the missing --force *)
(* that it looks for only here; bootstrap prepares both databases unlocked.    *)
Does(p, place, c, codes) ==
  pc[p] = place /\ cmd[p] = c /\ \E code \in codes : Ends(p, code)

Bootstrap(p) == Does(p, "work", "bootstrap", {0, 1})
BackupCreate(p) == Does(p, "work", "backup_create", {0, 1})
ResetPassword(p) == Does(p, "work", "reset_password", {0, 1})
ResetDb(p) == Does(p, "work", "reset_db", {0, 1})
Restore(p) == Does(p, "work", "restore", {0, 1})

-----------------------------------------------------------------------------
(* serve: databases, session store, engine and TCP port, in one step here; any *)
(* of them may fail. The one assumption on time: all this takes longer than a  *)
(* runtime takes to end in a process whose main has returned.                  *)
Boot(p) ==
  /\ \A q \in Procs : pc[q] # "leaving"
  /\ At(p, "boot", "ready")
  /\ admin' = [admin EXCEPT ![p] = "spawned"]
  /\ UNCHANGED <<lock, sock_file, cmd, cancelled, stalled, exit, starts>>

BootFails(p) == pc[p] = "boot" /\ \E code \in {1, 2} : Ends(p, code)

AdminGoes(p, next) ==
  /\ admin' = [admin EXCEPT ![p] = next]
  /\ UNCHANGED <<lock, cmd, pc, cancelled, stalled, exit, starts>>

(* serve_unix_socket: a socket left behind is removed, anything else refused.  *)
RemoveStale(p) ==
  /\ admin[p] = "spawned"
  /\ sock_file # "other"
  /\ sock_file' = "none"
  /\ AdminGoes(p, "bind")

Bind(p) ==
  /\ admin[p] = "bind"
  /\ sock_file = "none" /\ sock_file' = p
  /\ AdminGoes(p, "listening")

(* A file that is no socket, one that is there again, or a failed system call. *)
BindFails(p) ==
  /\ admin[p] \in {"spawned", "bind"}
  /\ AdminGoes(p, "failed") /\ UNCHANGED sock_file

(* After 50 ms an error that has come by then ends the process; otherwise it   *)
(* serves.                                                                     *)
EarlyFailure(p) == pc[p] = "ready" /\ admin[p] = "failed" /\ Ends(p, 1)

Ready(p) ==
  /\ admin[p] # "failed"
  /\ At(p, "ready", "serving")
  /\ UNCHANGED <<lock, sock_file, cmd, admin, cancelled, stalled, exit, starts>>

Stall(p, t) ==
  /\ pc[p] \in {"serving", "draining"} /\ t \notin stalled[p]
  /\ t = "admin" => admin[p] = "listening"
  /\ stalled' = [stalled EXCEPT ![p] = @ \cup {t}]
  /\ UNCHANGED <<lock, sock_file, cmd, pc, admin, cancelled, exit, starts>>

Unstall(p, t) ==
  /\ t \in stalled[p]
  /\ stalled' = [stalled EXCEPT ![p] = @ \ {t}]
  /\ UNCHANGED <<lock, sock_file, cmd, pc, admin, cancelled, exit, starts>>

(* SIGTERM or SIGINT starts the drain of the data plane, and cancels the token *)
(* the admin task waits for.                                                   *)
Signal(p) ==
  /\ At(p, "serving", "draining")
  /\ cancelled' = [cancelled EXCEPT ![p] = TRUE]
  /\ UNCHANGED <<lock, sock_file, cmd, admin, stalled, exit, starts>>

(* A demo reset or a restore has cancelled the token: the admin task stops, but*)
(* the data plane waits for a signal and serves on.                            *)
RestartRequested(p) ==
  /\ pc[p] = "serving" /\ ~ cancelled[p]
  /\ cancelled' = [cancelled EXCEPT ![p] = TRUE]
  /\ UNCHANGED <<lock, sock_file, cmd, pc, admin, stalled, exit, starts>>

(* The data plane waits for its requests without a limit.                      *)
Drained(p) ==
  /\ "data" \notin stalled[p]
  /\ At(p, "draining", "join")
  /\ UNCHANGED <<lock, sock_file, cmd, admin, cancelled, stalled, exit, starts>>

AdminStops(p) ==
  /\ admin[p] = "listening" /\ cancelled[p]
  /\ AdminGoes(p, "closed") /\ UNCHANGED sock_file

(* cleanup_socket removes whatever is at the path by then.                     *)
Cleanup(p) ==
  /\ admin[p] = "closed" /\ "admin" \notin stalled[p]
  /\ sock_file' = "none"
  /\ AdminGoes(p, "joined")

(* The admin task is waited for up to five seconds, then cmd_serve returns,    *)
(* which drops the guard of the lock; what is left of the task goes on until   *)
(* the runtime ends.                                                           *)
Join(p) ==
  /\ At(p, "join", "leaving")
  /\ lock' = Nobody
  /\ UNCHANGED <<sock_file, cmd, admin, cancelled, stalled, exit, starts>>

RuntimeEnds(p) == pc[p] = "leaving" /\ Ends(p, 0)

Crash(p) == pc[p] # "off" /\ Ends(p, 137)

-----------------------------------------------------------------------------
(* The readers and the switch: UdsClient looks for the file, then connects.    *)
Listening == {p \in Procs : admin[p] = "listening"}

Answers == sock_file \in Listening

NoSocket(p) ==
  /\ pc[p] = "ask" /\ sock_file = "none"
  /\ IF cmd[p] = "profile_switch" THEN Ends(p, 10)
     ELSE /\ At(p, "ask", "direct")
          /\ UNCHANGED <<lock, sock_file, cmd, admin, cancelled, stalled, exit, starts>>

(* Refused, cut off, or answered with an error.                                *)
RequestFails(p) ==
  /\ pc[p] = "ask" /\ sock_file # "none"
  /\ IF cmd[p] = "profile_switch"
     THEN \E code \in IF Answers THEN {1, 12, 13} ELSE {1, 11} : Ends(p, code)
     ELSE /\ At(p, "ask", "direct")
          /\ UNCHANGED <<lock, sock_file, cmd, admin, cancelled, stalled, exit, starts>>

AskDaemon(p) == pc[p] = "ask" /\ Answers /\ Ends(p, 0)

(* The databases are opened read-only, one that is missing is an empty one in  *)
(* memory; only diagnose wants one to exist. backup list reads directories and *)
(* warns of those it cannot.                                                   *)
Diagnose(p) == Does(p, "direct", "diagnose", {0, 1})
ProfileList(p) == Does(p, "direct", "profile_list", {0, 1})
MigrateStatus(p) == Does(p, "direct", "migrate_status", {0, 1})
BackupList(p) == Does(p, "direct", "backup_list", {0})

-----------------------------------------------------------------------------
MainStep(p) ==
  \/ LockHeld(p) \/ TakeLock(p) \/ Boot(p) \/ EarlyFailure(p) \/ Ready(p)
  \/ Bootstrap(p) \/ BackupCreate(p) \/ ResetPassword(p) \/ ResetDb(p) \/ Restore(p)
  \/ Drained(p) \/ Join(p) \/ RuntimeEnds(p)
  \/ NoSocket(p) \/ RequestFails(p) \/ AskDaemon(p)
  \/ Diagnose(p) \/ ProfileList(p) \/ MigrateStatus(p) \/ BackupList(p)

AdminStep(p) == RemoveStale(p) \/ Bind(p) \/ BindFails(p) \/ AdminStops(p) \/ Cleanup(p)

Next == \E p \in Procs :
  \/ \E c \in Commands : Start(p, c)
  \/ MainStep(p) \/ AdminStep(p)
  \/ Refused(p) \/ BootFails(p) \/ Signal(p) \/ RestartRequested(p) \/ Crash(p)
  \/ \E t \in Tasks : Stall(p, t) \/ Unstall(p, t)

Spec == Init /\ [][Next]_vars /\ \A p \in Procs : WF_vars(MainStep(p)) /\ WF_vars(AdminStep(p))

-----------------------------------------------------------------------------
(* Properties                                                                  *)

(* The files of the directory belong to one process at a time: while a restore *)
(* or a reset works on them no server has them open, and of two servers at     *)
(* most one gets past the lock. What the runtime of one that has returned from *)
(* cmd_serve still does is not under the lock.                                 *)
Owns(p) == cmd[p] \in Lockers /\ pc[p] \in {"work", "boot", "ready", "serving", "draining", "join"}

OneOwner == \A p, q \in Procs : Owns(p) /\ Owns(q) => p = q

(* The path of the admin socket leads to the server that listens, never to     *)
(* nothing because another one cleaned up, and a listener is the lock's owner  *)
(* until its main has returned.                                                *)
SocketIsOurs ==
  \A p \in Procs :
    admin[p] = "listening" => sock_file = p /\ (lock = p \/ pc[p] = "leaving")

(* A server that is told to stop does, whatever its clients do.                *)
ServeExits == \A p \in Procs : pc[p] = "draining" ~> pc[p] = "off"
=============================================================================
