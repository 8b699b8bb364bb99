---------------------------- MODULE BackgroundTasks ----------------------------
(* What a server runs beside its requests until its shutdown token is cancelled: *)
(* its announcement on the LAN, with registration, the monitor of name           *)
(* collisions, the retry task with its handle, deregistration, and what          *)
(* server_info tells of it; the refresh of the local address, the optimization   *)
(* of the databases, the expiry of sessions. The caller of the announcement is   *)
(* any that keeps to the types: a handle is used once. The desktop binds         *)
(* loopback only, the headless server registers without asking for consent and   *)
(* keeps its handle until the process ends; neither starts a retry.              *)
EXTENDS Naturals

CONSTANTS NoName, MaxAttempts,  \* bound on attempts of the retry task
          NoAddress, Addresses

VARIABLES
  loopback,    \* bound to a loopback address
  consent,     \* LAN access was enabled
  daemon,      \* "none", "on" or "off"
  name,        \* the host name the daemon announces
  status,      \* MdnsStatus
  holder,      \* who has the MdnsHandle: "nobody", "caller", "leaving", "task"
  retry,       \* the retry task
  joining,     \* the caller is in MdnsRetryHandle::cancel
  shutdown,    \* the server's token is cancelled
  renames,     \* events the collision monitor has not read
  tasks,       \* the tasks that run
  closed,      \* a demo reset has closed the demo pool
  local_ip,    \* what the server believes its address to be
  optimized    \* the databases the last shutdown optimized

lanVars == <<loopback, consent, daemon, name, status, holder, retry, joining, renames>>
taskVars == <<tasks, closed, local_ip, optimized>>
vars == <<lanVars, shutdown, taskVars>>

Names == {"mokumo", "mokumo-2"}
Kinds == {"host", "service"}
Tasks == {"local_ip", "optimize", "expiry"}
Pools == {"demo", "production"}

(* No name is not a name.                                                       *)
DiscoveryAssumption == NoName \notin Names /\ MaxAttempts \in Nat

NoRetry == [at |-> "none", attempt |-> 0, cancel |-> FALSE, dropped |-> FALSE]

TypeOK ==
  /\ daemon \in {"none", "on", "off"} /\ name \in Names
  /\ status \in [active: BOOLEAN, hostname: Names \cup {NoName}]
  /\ holder \in {"nobody", "caller", "leaving", "task"}
  /\ retry \in [at: {"none", "sleeping", "trying", "over"}, attempt: 0..MaxAttempts,
                cancel: BOOLEAN, dropped: BOOLEAN]
  /\ renames \in {<<>>} \cup {<<k>> : k \in Kinds}
  /\ tasks \subseteq Tasks /\ closed \in BOOLEAN /\ optimized \subseteq Pools
  /\ local_ip \in Addresses \cup {NoAddress}

(* build_domain_state looks the address up, then the tasks are spawned.         *)
Init ==
  /\ loopback \in BOOLEAN /\ consent \in BOOLEAN
  /\ daemon = "none" /\ name = "mokumo"
  /\ status = [active |-> FALSE, hostname |-> NoName]
  /\ holder = "nobody" /\ retry = NoRetry /\ joining = FALSE
  /\ shutdown = FALSE /\ renames = <<>>
  /\ tasks = Tasks /\ closed = FALSE /\ optimized = {}
  /\ local_ip \in Addresses \cup {NoAddress}

--------------------------------------------------------------------------------
(* The announcement.                                                            *)

(* register_mdns: off loopback, the daemon's answer, the status.                *)
RegisterOk(by) ==
  /\ ~ loopback
  /\ daemon' = "on" /\ name' = "mokumo"
  /\ status' = [active |-> TRUE, hostname |-> "mokumo"]
  /\ holder' = by

RegisterFails == UNCHANGED <<daemon, name, status, holder>>

(* register_mdns_with_consent, as the desktop calls it, or register_mdns.       *)
Register(asks) ==
  /\ daemon = "none" /\ retry.at = "none" /\ ~ shutdown
  /\ (asks => consent)
  /\ RegisterOk("caller")
  /\ UNCHANGED <<taskVars, loopback, consent, retry, joining, shutdown, renames>>

(* spawn_mdns_retry, after a registration that failed.                          *)
StartRetry ==
  /\ daemon = "none" /\ retry.at = "none"
  /\ retry' = [retry EXCEPT !.at = "sleeping"]
  /\ UNCHANGED <<taskVars, loopback, consent, daemon, name, status, holder, joining, shutdown, renames>>

(* backoff_delay: the last delay of the schedule holds for good.                *)
BackoffSchedule == <<60, 120, 300>>
BackoffDelay(attempt) == BackoffSchedule[IF attempt < 3 THEN attempt + 1 ELSE 3]

SleepEnds ==
  /\ retry.at = "sleeping" /\ BackoffDelay(retry.attempt) > 0
  /\ retry' = [retry EXCEPT !.at = "trying"]
  /\ UNCHANGED <<taskVars, loopback, consent, daemon, name, status, holder, joining, shutdown, renames>>

(* The select may see the end of the sleep or either token.                     *)
RetryStops ==
  /\ retry.at = "sleeping" /\ (retry.cancel \/ shutdown)
  /\ retry' = [retry EXCEPT !.at = "over"]
  /\ UNCHANGED <<taskVars, loopback, consent, daemon, name, status, holder, joining, shutdown, renames>>

(* The handle is the result of the task; without anybody to join the task it is *)
(* gone with it.                                                                *)
TryRegister ==
  /\ retry.at = "trying"
  /\ \/ /\ RegisterOk(IF retry.dropped THEN "nobody" ELSE "task")
        /\ retry' = [retry EXCEPT !.at = "over"]
     \/ /\ RegisterFails
        /\ retry' = [retry EXCEPT !.at = "sleeping",
                                  !.attempt = IF @ < MaxAttempts THEN @ + 1 ELSE @]
  /\ UNCHANGED <<taskVars, loopback, consent, joining, shutdown, renames>>

(* MdnsRetryHandle::cancel and its drop.                                        *)
CancelRetry ==
  /\ retry.at # "none" /\ ~ retry.cancel
  /\ retry' = [retry EXCEPT !.cancel = TRUE]
  /\ joining' = TRUE
  /\ UNCHANGED <<taskVars, loopback, consent, daemon, name, status, holder, shutdown, renames>>

\* Mutant of Joined: the task is left to itself once its token is cancelled.
JoinedAtOnce == TRUE

Joined == retry.at = "over"

CancelReturns ==
  /\ joining /\ Joined
  /\ joining' = FALSE
  /\ holder' = IF holder = "task" THEN "caller" ELSE holder
  /\ UNCHANGED <<taskVars, loopback, consent, daemon, name, status, retry, shutdown, renames>>

DropRetry ==
  /\ retry.at # "none" /\ ~ retry.cancel
  /\ retry' = [retry EXCEPT !.cancel = TRUE, !.dropped = TRUE]
  /\ holder' = IF holder = "task" THEN "nobody" ELSE holder
  /\ UNCHANGED <<taskVars, loopback, consent, daemon, name, status, joining, shutdown, renames>>

(* deregister_mdns: the daemon first, the status after it.                      *)
StopDaemon ==
  /\ holder = "caller"
  /\ holder' = "leaving"
  /\ daemon' = "off"
  /\ UNCHANGED <<taskVars, loopback, consent, name, status, retry, joining, shutdown, renames>>

ClearStatus ==
  /\ holder = "leaving"
  /\ holder' = "nobody"
  /\ status' = [active |-> FALSE, hostname |-> NoName]
  /\ UNCHANGED <<taskVars, loopback, consent, daemon, name, retry, joining, shutdown, renames>>

(* External: another host has the name.                                         *)
Collide(kind) ==
  /\ daemon = "on" /\ name = "mokumo" /\ renames = <<>>
  /\ name' = IF kind = "host" THEN "mokumo-2" ELSE name
  /\ renames' = <<kind>>
  /\ UNCHANGED <<taskVars, loopback, consent, daemon, status, holder, retry, joining, shutdown>>

(* spawn_collision_monitor reads on until the daemon's channel is empty.        *)
MonitorReads ==
  /\ renames # <<>>
  /\ renames' = <<>>
  /\ status' = IF renames[1] = "host" THEN [status EXCEPT !.hostname = "mokumo-2"] ELSE status
  /\ UNCHANGED <<taskVars, loopback, consent, daemon, name, holder, retry, joining, shutdown>>

Shutdown ==
  /\ ~ shutdown /\ shutdown' = TRUE
  /\ UNCHANGED <<taskVars, loopback, consent, daemon, name, status, holder, retry, joining, renames>>

--------------------------------------------------------------------------------
(* The other tasks.                                                             *)
\* Mutant of Refreshed: a lookup that fails clears the address.
RefreshedBlank(found) == found

(* A lookup that fails keeps the last known value.                              *)
Refreshed(found) == IF found = NoAddress THEN local_ip ELSE found

RefreshIp(found) ==
  /\ "local_ip" \in tasks
  /\ local_ip' = Refreshed(found)
  /\ UNCHANGED <<lanVars, shutdown, tasks, closed, optimized>>

(* Sessions are no longer expired after the first error of the store.           *)
ExpiryFails ==
  /\ "expiry" \in tasks
  /\ tasks' = tasks \ {"expiry"}
  /\ UNCHANGED <<lanVars, shutdown, closed, local_ip, optimized>>

ResetDemo ==
  /\ ~ shutdown
  /\ closed' = TRUE
  /\ UNCHANGED <<lanVars, shutdown, tasks, local_ip, optimized>>

(* The pools are optimized once more, one after the other; an error, as of a    *)
(* closed pool, is only logged.                                                 *)
OptimizeEnds ==
  /\ shutdown /\ "optimize" \in tasks
  /\ tasks' = tasks \ {"optimize"}
  /\ optimized' = {p \in Pools : p = "demo" => ~ closed}
  /\ UNCHANGED <<lanVars, shutdown, closed, local_ip>>

TaskEnds(t) ==
  /\ shutdown /\ t \in tasks \ {"optimize"}
  /\ tasks' = tasks \ {t}
  /\ UNCHANGED <<lanVars, shutdown, closed, local_ip, optimized>>

Ends == OptimizeEnds \/ \E t \in Tasks : TaskEnds(t)

Next ==
  \/ \E asks \in BOOLEAN : Register(asks)
  \/ StartRetry \/ SleepEnds \/ RetryStops \/ TryRegister
  \/ CancelRetry \/ CancelReturns \/ DropRetry
  \/ StopDaemon \/ ClearStatus
  \/ \E kind \in Kinds : Collide(kind)
  \/ MonitorReads \/ Shutdown
  \/ \E found \in Addresses \cup {NoAddress} : RefreshIp(found)
  \/ ExpiryFails \/ ResetDemo \/ Ends

Fairness ==
  /\ WF_vars(SleepEnds \/ TryRegister) /\ SF_vars(RetryStops)
  /\ WF_vars(CancelReturns) /\ WF_vars(ClearStatus) /\ WF_vars(MonitorReads)
  /\ WF_vars(Ends)

Spec == Init /\ [][Next]_vars /\ Fairness

--------------------------------------------------------------------------------
(* server_info: what a client of the LAN is told.                               *)
LanUrl == IF status.active THEN status.hostname ELSE NoName

(* An announced service can be withdrawn: somebody holds its handle, unless the *)
(* retry handle was dropped instead of cancelled. In particular a cancel that   *)
(* has returned leaves no registration behind its caller's back.                *)
HandleKept ==
  daemon = "on" =>
    \/ holder = "caller"
    \/ holder = "task" /\ retry.at = "over" /\ (joining \/ ~ retry.cancel)
    \/ retry.dropped

(* The address server_info gives out is announced, under the name that won, as  *)
(* soon as the monitor has read what happened and the withdrawal is through.    *)
LanUrlTruthful ==
  renames = <<>> /\ holder # "leaving" =>
    IF daemon = "on" THEN LanUrl = name ELSE LanUrl = NoName

DiscoveryRight == HandleKept /\ LanUrlTruthful

(* A cancelled retry hands back its result: cancel returns.                     *)
CancelEnds == joining ~> ~ joining

(* The address, once known, is not forgotten while the network is away.         *)
AddressKept == [][local_ip # NoAddress => local_ip' # NoAddress]_vars

(* After a shutdown every task ends.                                            *)
TasksEnd == shutdown ~> tasks = {}
================================================================================
