------------------------------ MODULE Customers ------------------------------
(* Customers and their activity log: create, update, soft delete and restore,  *)
(* each one transaction that writes the row, reads it back and logs it. A      *)
(* request can be refused, find the database busy, fail to log or be dropped.  *)
EXTENDS SqliteWal, Naturals, Sequences

CONSTANTS
  Ids,         \* customer ids (fresh UUIDs)
  Values,      \* what a field may hold
  MaxChanges,  \* bound: committed changes
  Absent       \* no row, no value, or a field a request does not touch

ConstantsAssumption ==
  /\ Ids # {}
  /\ "clear" \notin Values \cup {Absent}
  /\ Absent \notin [name: Values, phone: Values \cup {Absent}, live: BOOLEAN]

VARIABLES
  op,          \* the request of each client
  commits      \* committed changes (bound)

vars == <<db, writer, reading, op, commits>>

(* Two fields stand for the columns: the required name and one of those that   *)
(* an update may leave, set or clear.                                          *)
Row == [name: Values, phone: Values \cup {Absent}, live: BOOLEAN]
Request == [name: Values \cup {Absent}, phone: Values \cup {Absent, "clear"}]
Actions == {"created", "updated", "soft_deleted", "restored"}

TypeOK ==
  /\ db.row \in [Ids -> Row \cup {Absent}]
  /\ \A i \in Ids : \A n \in 1 .. Len(db.log[i]) :
       db.log[i][n].action \in Actions /\ db.log[i][n].row \in Row
  /\ SqlTypeOK
  /\ op \in [Clients -> [pc: {"idle", "find", "write", "log"}, action: Actions,
                         id: Ids, req: Request]]
  /\ commits \in 0 .. MaxChanges

Init ==
  /\ db = [row |-> [i \in Ids |-> Absent], log |-> [i \in Ids |-> <<>>]]
  /\ SqlInit
  /\ op \in [Clients -> [pc: {"idle"}, action: {"created"}, id: {CHOOSE i \in Ids : TRUE},
                         req: {[name |-> Absent, phone |-> Absent]}]]
  /\ commits = 0

Goto(c, pc) == op' = [op EXCEPT ![c].pc = pc]
Begin(c, pc, action, i, req) ==
  /\ op[c].pc = "idle" /\ commits < MaxChanges
  /\ op' = [op EXCEPT ![c] = [pc |-> pc, action |-> action, id |-> i, req |-> req]]
  /\ UNCHANGED <<sqlVars, commits>>

NoFields == [name |-> Absent, phone |-> Absent]

(* The service refuses a blank name; a create needs one.                       *)
BeginCreate(c, i, v, p) ==
  /\ db.row[i] = Absent /\ \A d \in Clients \ {c} : op[d].pc = "idle" \/ op[d].id # i
  /\ Begin(c, "write", "created", i, [name |-> v, phone |-> p])

BeginUpdate(c, i, req) == Begin(c, "find", "updated", i, req)

BeginSetDeleted(c, i, action) == Begin(c, "write", action, i, NoFields)

IsLive(i) == db.row[i] # Absent /\ db.row[i].live

(* update counts the live rows of the id, the first read of its transaction.   *)
Exists(c) ==
  /\ op[c].pc = "find"
  /\ IF IsLive(op[c].id)
     THEN TakeSnapshot(c) /\ Goto(c, "write")
     ELSE UNCHANGED sqlVars /\ Goto(c, "idle")
  /\ UNCHANGED commits

(* The row a change leaves: only the fields the request names are touched.     *)
Field(old, v) == IF v = Absent THEN old ELSE IF v = "clear" THEN Absent ELSE v

Changed(c) ==
  LET i == op[c].id  req == op[c].req IN
  CASE op[c].action = "created" ->
         [name |-> req.name, phone |-> Field(Absent, req.phone), live |-> TRUE]
    [] op[c].action = "updated" ->
         [db.row[i] EXCEPT !.name = Field(@, req.name), !.phone = Field(@, req.phone)]
    [] op[c].action = "soft_deleted" -> [db.row[i] EXCEPT !.live = FALSE]
    [] OTHER -> [db.row[i] EXCEPT !.live = TRUE]

(* Mutant of Matches: a restore does not look whether the customer is deleted. *)
MatchesRestoreAny(c) ==
  CASE op[c].action = "soft_deleted" -> IsLive(op[c].id)
    [] op[c].action = "restored" -> db.row[op[c].id] # Absent
    [] OTHER -> TRUE

(* The filter of the UPDATE statements on deleted_at: no row, NotFound.        *)
Matches(c) ==
  CASE op[c].action = "soft_deleted" -> IsLive(op[c].id)
    [] op[c].action = "restored" -> db.row[op[c].id] # Absent /\ ~ db.row[op[c].id].live
    [] OTHER -> TRUE

(* INSERT or UPDATE: the first write of the transaction.                       *)
Write(c) ==
  /\ op[c].pc = "write" /\ CanWrite(c)
  /\ IF Matches(c) THEN TakeWriteLock(c) /\ Goto(c, "log")
                   ELSE Rollback(c) /\ Goto(c, "idle")
  /\ UNCHANGED commits

(* Mutant of LogAndCommit: the fields of the request are logged.               *)
LogRequested(c) ==
  LET i == op[c].id
      entry == [action |-> op[c].action,
                row |-> [Changed(c) EXCEPT !.phone = Field(Absent, op[c].req.phone)]] IN
  /\ op[c].pc = "log" /\ commits < MaxChanges
  /\ Commit(c, [row |-> [db.row EXCEPT ![i] = Changed(c)],
                log |-> [db.log EXCEPT ![i] = Append(@, entry)]])
  /\ commits' = commits + 1
  /\ Goto(c, "idle")

(* The row is read back, logged in the same transaction, and committed.        *)
LogAndCommit(c) ==
  LET i == op[c].id
      entry == [action |-> op[c].action, row |-> Changed(c)] IN
  /\ op[c].pc = "log" /\ commits < MaxChanges
  /\ Commit(c, [row |-> [db.row EXCEPT ![i] = Changed(c)],
                log |-> [db.log EXCEPT ![i] = Append(@, entry)]])
  /\ commits' = commits + 1
  /\ Goto(c, "idle")

Busy(c) ==
  /\ op[c].pc = "write" /\ IsBusy(c)
  /\ Rollback(c)
  /\ Goto(c, "idle")
  /\ UNCHANGED commits

(* The log entry cannot be written, or the request is dropped: the transaction *)
(* goes with it.                                                               *)
Abandon(c) ==
  /\ op[c].pc # "idle"
  /\ Rollback(c)
  /\ Goto(c, "idle")
  /\ UNCHANGED commits

Next ==
  \E c \in Clients :
    \/ \E i \in Ids :
         \/ \E v \in Values, p \in Values \cup {Absent} : BeginCreate(c, i, v, p)
         \/ \E req \in Request : BeginUpdate(c, i, req)
         \/ BeginSetDeleted(c, i, "soft_deleted")
         \/ BeginSetDeleted(c, i, "restored")
    \/ Exists(c) \/ Write(c) \/ LogAndCommit(c) \/ Busy(c) \/ Abandon(c)

Spec == Init /\ [][Next]_vars

-----------------------------------------------------------------------------
(* Properties                                                                  *)

(* The activity log of a customer tells its whole history: the last entry is   *)
(* the row as it stands, the first is its creation, and each entry follows     *)
(* from the one before by the action it names. Nothing is logged twice, out of *)
(* order, or without having happened.                                          *)
Follows(before, entry) ==
  CASE entry.action = "updated" -> before.live /\ entry.row.live
    [] entry.action = "soft_deleted" -> before.live /\ entry.row = [before EXCEPT !.live = FALSE]
    [] entry.action = "restored" -> ~ before.live /\ entry.row = [before EXCEPT !.live = TRUE]
    [] OTHER -> FALSE

LogTellsHistory ==
  \A i \in Ids : LET log == db.log[i] IN
    IF log = <<>> THEN db.row[i] = Absent
    ELSE /\ log[Len(log)].row = db.row[i]
         /\ log[1].action = "created" /\ log[1].row.live
         /\ \A n \in 2 .. Len(log) : Follows(log[n - 1].row, log[n])
=============================================================================
