------------------------------ MODULE ShopLogo ------------------------------
(* The shop's logo: a file logo.<ext> and the row of shop_settings that names  *)
(* its extension, written one after the other by uploads and deletions that    *)
(* may overlap, fail at the database or be dropped between two steps.          *)
EXTENDS Naturals, FiniteSets

CONSTANTS
  Requests,    \* requests of administrators
  Exts,        \* png, jpeg, webp
  None         \* no logo

VARIABLES
  row,         \* logo_extension, or None
  files,       \* extensions e of which logo.<e> exists
  req,         \* what each request is doing
  mixed,       \* two changes have overlapped (history)
  failed       \* an upload that kept the extension failed at the database (history)

vars == <<row, files, req, mixed, failed>>

Idle == [step |-> "idle", new |-> None, old |-> None]

TypeOK ==
  /\ row \in Exts \cup {None}
  /\ files \subseteq Exts
  /\ req \in [Requests -> [step: {"idle", "file", "row", "undo", "stale", "clear", "remove"},
                           new: Exts \cup {None}, old: Exts \cup {None}]]
  /\ {mixed, failed} \subseteq BOOLEAN

Init ==
  /\ row \in Exts \cup {None}
  /\ files = {row} \ {None}
  /\ req = [r \in Requests |-> Idle]
  /\ mixed = FALSE /\ failed = FALSE

Go(r, s) == req' = [req EXCEPT ![r].step = s]
Ends(r) == req' = [req EXCEPT ![r] = Idle]
Alone == \A r \in Requests : req[r].step = "idle"

(* upload_logo_impl: the extension in use is read before anything is written.  *)
Upload(r, e) ==
  /\ req[r].step = "idle"
  /\ req' = [req EXCEPT ![r] = [step |-> "file", new |-> e, old |-> row]]
  /\ mixed' = (mixed \/ ~ Alone)
  /\ UNCHANGED <<row, files, failed>>

(* write_logo_bytes: a temporary file of its own, renamed.                     *)
WriteFile(r) ==
  /\ req[r].step = "file"
  /\ Go(r, "row")
  /\ files' = files \cup {req[r].new}
  /\ UNCHANGED <<row, mixed, failed>>

(* upsert_logo, the row and its activity entry in one transaction.             *)
UpsertLogo(r) ==
  /\ req[r].step = "row"
  /\ Go(r, "stale")
  /\ row' = req[r].new
  /\ UNCHANGED <<files, mixed, failed>>

(* It fails: the file just written goes.                                       *)
UpsertFails(r) ==
  /\ req[r].step = "row"
  /\ Go(r, "undo")
  /\ failed' = (failed \/ req[r].old = req[r].new)
  /\ UNCHANGED <<row, files, mixed>>

UndoFile(r) ==
  /\ req[r].step = "undo"
  /\ Ends(r)
  /\ files' = files \ {req[r].new}
  /\ UNCHANGED <<row, mixed, failed>>

\* Mutant of RemoveStale: the file of the old extension goes though it is the new one.
RemoveOld(r) ==
  /\ req[r].step = "stale"
  /\ Ends(r)
  /\ files' = files \ {req[r].old}
  /\ UNCHANGED <<row, mixed, failed>>

RemoveStale(r) ==
  /\ req[r].step = "stale"
  /\ Ends(r)
  /\ files' = IF req[r].old = req[r].new THEN files ELSE files \ {req[r].old}
  /\ UNCHANGED <<row, mixed, failed>>

(* delete_logo_impl: the row first, the file it named after it.                *)
Delete(r) ==
  /\ req[r].step = "idle" /\ row # None
  /\ req' = [req EXCEPT ![r] = [step |-> "clear", new |-> None, old |-> row]]
  /\ mixed' = (mixed \/ ~ Alone)
  /\ UNCHANGED <<row, files, failed>>

\* Mutant of ClearRow: the file goes before the row.
RemoveFirst(r) ==
  /\ req[r].step = "clear"
  /\ Go(r, "remove")
  /\ files' = files \ {req[r].old}
  /\ UNCHANGED <<row, mixed, failed>>

ClearRow(r) ==
  /\ req[r].step = "clear"
  /\ Go(r, "remove")
  /\ row' = None
  /\ UNCHANGED <<files, mixed, failed>>

RemoveFile(r) ==
  /\ req[r].step = "remove"
  /\ Ends(r)
  /\ files' = files \ {req[r].old}
  /\ UNCHANGED <<row, mixed, failed>>

(* The client hangs up, the server stops, or a step of its own fails.          *)
Dropped(r) ==
  /\ req[r].step # "idle"
  /\ Ends(r)
  /\ UNCHANGED <<row, files, mixed, failed>>

Next == \E r \in Requests :
  \/ \E e \in Exts : Upload(r, e)
  \/ WriteFile(r) \/ UpsertLogo(r) \/ UpsertFails(r) \/ UndoFile(r) \/ RemoveStale(r)
  \/ Delete(r) \/ ClearRow(r) \/ RemoveFile(r) \/ Dropped(r)

Spec == Init /\ [][Next]_vars

--------------------------------------------------------------------------------
(* Wherever a change is cut short, the row names a file that is there: as long *)
(* as changes do not overlap, and none fails at the database that keeps the    *)
(* extension. (Both happen to break it: README, Observations.)                 *)
RowNamesFile == ~ mixed /\ ~ failed /\ row # None => row \in files

================================================================================
