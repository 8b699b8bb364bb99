----------------------------- MODULE RestoreSlot -----------------------------
(* POST /api/shop/restore: an uploaded database is validated and copied into   *)
(* the empty production slot on first launch. The guard, the copy (a blocking  *)
(* task that outlives a client that hangs up), the profile file, the restart   *)
(* sentinel and their rollbacks, with overlapping requests and restarts.       *)
EXTENDS Naturals, FiniteSets

CONSTANTS
  Requests,    \* restore requests; each uploads a database of its own
  Boot,        \* the database a boot creates in the slot
  None         \* no file

SlotAssumption == None \notin Requests /\ Boot \notin Requests \cup {None}

VARIABLES
  slot,        \* production/mokumo.db: whose database it is, or None
  temp,        \* mokumo.db.restore-tmp: whose database it will be, or None
  written,     \* databases that are written in full, wherever they lie
  profile,     \* content of active_profile, or None
  sentinel,    \* .restart is there
  first,       \* is_first_launch, in memory
  busy,        \* restore_in_progress, in memory
  up,          \* the server runs
  req,         \* step of each request
  task,        \* step of its blocking copy
  hung         \* clients that hung up since the boot (history)

vars == <<slot, temp, written, profile, sentinel, first, busy, up, req, task, hung>>

Steps == {"idle", "launch", "exists", "claim", "again", "copy", "profile", "rename", "sentinel",
          "success", "failed", "critical", "refused"}

TypeOK ==
  /\ slot \in Requests \cup {Boot, None} /\ temp \in Requests \cup {None}
  /\ written \subseteq Requests
  /\ profile \in {"demo", "production", None}
  /\ {sentinel, first, busy, up} \subseteq BOOLEAN
  /\ req \in [Requests -> Steps]
  /\ task \in [Requests -> {"none", "check", "open", "write", "rename", "ok", "error"}]
  /\ hung \subseteq Requests

Init ==
  /\ slot = Boot /\ temp = None /\ written = {}
  /\ profile = None /\ sentinel = FALSE
  /\ first = TRUE /\ busy = FALSE /\ up = TRUE
  /\ req = [r \in Requests |-> "idle"] /\ task = [r \in Requests |-> "none"]
  /\ hung = {}

Go(r, s) == req' = [req EXCEPT ![r] = s]
files == <<slot, temp, written, profile, sentinel>>

(* External: the operator moves the production database away.                  *)
RemoveProduction ==
  /\ up /\ slot = Boot
  /\ slot' = None
  /\ UNCHANGED <<temp, written, profile, sentinel, first, busy, up, req, task, hung>>

--------------------------------------------------------------------------------
(* RestoreGuard::acquire, its four looks in order; a request that is turned    *)
(* away may be sent again.                                                     *)
Send(r) ==
  /\ up /\ req[r] \in {"idle", "refused"}
  /\ Go(r, "launch")
  /\ UNCHANGED <<files, first, busy, up, task, hung>>

FirstLaunch(r) ==
  /\ req[r] = "launch"
  /\ Go(r, IF first THEN "exists" ELSE "refused")
  /\ UNCHANGED <<files, first, busy, up, task, hung>>

SlotFree(r) ==
  /\ req[r] = "exists"
  /\ Go(r, IF slot = None THEN "claim" ELSE "refused")
  /\ UNCHANGED <<files, first, busy, up, task, hung>>

\* Mutant of Claim: a plain load and store.
ClaimAnyway(r) ==
  /\ req[r] = "claim"
  /\ Go(r, "again") /\ busy' = TRUE
  /\ UNCHANGED <<files, first, up, task, hung>>

Claim(r) ==
  /\ req[r] = "claim"
  /\ IF busy THEN Go(r, "refused") /\ UNCHANGED busy
             ELSE Go(r, "again") /\ busy' = TRUE
  /\ UNCHANGED <<files, first, up, task, hung>>

(* The second look at is_first_launch; then the rate limiter, the body and the *)
(* validation, each of which may end the request with the guard released.      *)
StillFirstLaunch(r) ==
  /\ req[r] = "again" /\ first
  /\ Go(r, "copy") /\ task' = [task EXCEPT ![r] = "check"]
  /\ UNCHANGED <<files, first, busy, up, hung>>

TurnedAway(r) ==
  /\ req[r] = "again"
  /\ Go(r, "refused") /\ busy' = FALSE
  /\ UNCHANGED <<files, first, up, task, hung>>

--------------------------------------------------------------------------------
(* copy_to_production on the blocking pool.                                    *)
Turn(r, s) == task' = [task EXCEPT ![r] = s]

CopyCheck(r) ==
  /\ task[r] = "check"
  /\ Turn(r, IF slot = None THEN "open" ELSE "error")
  /\ UNCHANGED <<files, first, busy, up, req, hung>>

(* A stale temporary file goes, another takes its name.                        *)
CopyOpen(r) ==
  /\ task[r] = "open"
  /\ Turn(r, "write")
  /\ temp' = r
  /\ UNCHANGED <<slot, written, profile, sentinel, first, busy, up, req, hung>>

(* The online backup writes to the file it has open, whatever its name is now. *)
CopyWrite(r) ==
  /\ task[r] = "write"
  /\ Turn(r, "rename")
  /\ written' = written \cup {r}
  /\ UNCHANGED <<slot, temp, profile, sentinel, first, busy, up, req, hung>>

(* The removal of a stale file, the copy or the rename; after the last two     *)
(* whatever has the name of the temporary file goes.                           *)
CopyFails(r) ==
  /\ task[r] \in {"open", "write", "rename"}
  /\ Turn(r, "error")
  /\ temp' = IF task[r] = "open" THEN temp ELSE None
  /\ UNCHANGED <<slot, written, profile, sentinel, first, busy, up, req, hung>>

CopyRename(r) ==
  /\ task[r] = "rename"
  /\ IF temp = None THEN Turn(r, "error") /\ UNCHANGED <<slot, temp>>
                    ELSE Turn(r, "ok") /\ slot' = temp /\ temp' = None
  /\ UNCHANGED <<written, profile, sentinel, first, busy, up, req, hung>>

Copied(r) ==
  /\ req[r] = "copy" /\ task[r] \in {"ok", "error"}
  /\ IF task[r] = "ok" THEN Go(r, "profile") /\ UNCHANGED busy
                       ELSE Go(r, "failed") /\ busy' = FALSE
  /\ Turn(r, "none")
  /\ UNCHANGED <<files, first, up, hung>>

--------------------------------------------------------------------------------
(* active_profile by a temporary file and a rename, then .restart. A failure   *)
(* takes back what was done; when that fails too the answer says so.           *)
ProfileTmp(r) ==
  /\ req[r] = "profile"
  /\ Go(r, "rename")
  /\ UNCHANGED <<files, first, busy, up, task, hung>>

ProfileRename(r) ==
  /\ req[r] = "rename"
  /\ Go(r, "sentinel") /\ profile' = "production"
  /\ UNCHANGED <<slot, temp, written, sentinel, first, busy, up, task, hung>>

WriteSentinel(r) ==
  /\ req[r] = "sentinel"
  /\ Go(r, "success") /\ sentinel' = TRUE /\ busy' = FALSE
  /\ UNCHANGED <<slot, temp, written, profile, first, up, task, hung>>

\* Mutant of RollBack: the database is left where it is.
RollBackProfileOnly(r) ==
  /\ req[r] \in {"profile", "rename", "sentinel"}
  /\ Go(r, "failed") /\ busy' = FALSE
  /\ profile' = IF req[r] = "sentinel" THEN None ELSE profile
  /\ UNCHANGED <<slot, temp, written, sentinel, first, up, task, hung>>

RollBack(r) ==
  /\ req[r] \in {"profile", "rename", "sentinel"}
  /\ Go(r, "failed") /\ busy' = FALSE
  /\ slot' = None
  /\ profile' = IF req[r] = "sentinel" THEN None ELSE profile
  /\ UNCHANGED <<temp, written, sentinel, first, up, task, hung>>

RollBackFails(r) ==
  /\ req[r] \in {"profile", "rename", "sentinel"}
  /\ Go(r, "critical") /\ busy' = FALSE
  /\ slot' \in IF req[r] = "sentinel" THEN {slot, None} ELSE {slot}
  /\ UNCHANGED <<temp, written, profile, sentinel, first, up, task, hung>>

(* The client hangs up: the handler is dropped where it waits, its guard with  *)
(* it; a copy that has begun goes on.                                          *)
HangUp(r) ==
  /\ req[r] \in {"again", "copy", "profile", "rename", "sentinel"}
  /\ Go(r, "idle") /\ busy' = FALSE
  /\ hung' = hung \cup {r}
  /\ UNCHANGED <<files, first, up, task>>

(* Another request selects the demo profile meanwhile (module ActiveProfile).  *)
SelectDemo ==
  /\ up /\ first
  /\ first' = FALSE /\ profile' = "demo"
  /\ UNCHANGED <<slot, temp, written, sentinel, busy, up, req, task, hung>>

(* The server stops or dies, and with it every request and copy.               *)
Stop ==
  /\ up
  /\ up' = FALSE
  /\ req' = [r \in Requests |-> "idle"] /\ task' = [r \in Requests |-> "none"]
  /\ UNCHANGED <<files, first, busy, hung>>

(* A boot claims the sentinel, opens the databases of both profiles and so     *)
(* creates a missing one.                                                      *)
Restart ==
  /\ ~ up
  /\ up' = TRUE /\ sentinel' = FALSE /\ busy' = FALSE
  /\ first' = (profile = None)
  /\ slot' = IF slot = None THEN Boot ELSE slot
  /\ hung' = {}
  /\ UNCHANGED <<temp, written, profile, req, task>>

Next ==
  \/ RemoveProduction \/ SelectDemo \/ Stop \/ Restart
  \/ \E r \in Requests :
       \/ Send(r) \/ FirstLaunch(r) \/ SlotFree(r) \/ Claim(r) \/ StillFirstLaunch(r) \/ TurnedAway(r)
       \/ CopyCheck(r) \/ CopyOpen(r) \/ CopyWrite(r) \/ CopyFails(r) \/ CopyRename(r) \/ Copied(r)
       \/ ProfileTmp(r) \/ ProfileRename(r) \/ WriteSentinel(r) \/ RollBack(r) \/ RollBackFails(r)
       \/ HangUp(r)

Spec == Init /\ [][Next]_vars

--------------------------------------------------------------------------------
(* As long as no client hangs up on a copy: the answer "imported successfully" *)
(* is given when the slot holds the database of that request, written in full, *)
(* and a restart is due; an ordinary error leaves nothing of the request in    *)
(* the slot, so the restore can be tried again.                                *)
SuccessOrNothing ==
  hung = {} =>
    \A r \in Requests :
      /\ req[r] = "success" => slot = r /\ r \in written /\ sentinel
      /\ req[r] = "failed" => slot # r

================================================================================
