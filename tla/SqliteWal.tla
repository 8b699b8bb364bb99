------------------------------ MODULE SqliteWal ------------------------------
(***************************************************************************)
(* What the repository relies on from SQLite in WAL mode (external): any    *)
(* number of readers, one writer, and snapshot isolation.  A DEFERRED       *)
(* transaction takes its snapshot at its first read and the write lock at   *)
(* its first write; if somebody committed in between, the upgrade fails at  *)
(* once (SQLITE_BUSY_SNAPSHOT).  A transaction does all its reads from one  *)
(* snapshot, so they are modelled at the moment the snapshot is taken.      *)
(***************************************************************************)
CONSTANTS Clients, NoClient

ASSUME NoClientAssumption == NoClient \notin Clients

VARIABLES
    db,       \* the committed contents
    writer,   \* the connection holding the write lock
    reading   \* "none", or a snapshot: "fresh" (of db) or "stale"

sqlVars == <<db, writer, reading>>

SqlTypeOK ==
    /\ writer \in Clients \cup {NoClient}
    /\ reading \in [Clients -> {"none", "fresh", "stale"}]

SqlInit ==
    /\ writer = NoClient
    /\ reading = [c \in Clients |-> "none"]

\* The first read of a transaction.
TakeSnapshot(c) ==
    /\ reading[c] = "none"
    /\ reading' = [reading EXCEPT ![c] = "fresh"]
    /\ UNCHANGED <<db, writer>>

\* The first write: needs the lock and, after a read, a current snapshot.
CanWrite(c) == writer = NoClient /\ reading[c] # "stale"

TakeWriteLock(c) ==
    /\ CanWrite(c)
    /\ writer' = c
    /\ reading' = [reading EXCEPT ![c] = "fresh"]
    /\ UNCHANGED db

\* The first write fails: stale snapshot, or busy_timeout ran out.
IsBusy(c) == reading[c] = "stale" \/ writer \notin {NoClient, c}

\* Everybody else's snapshot is now of an older version.
Commit(c, contents) ==
    /\ writer = c
    /\ db' = contents
    /\ writer' = NoClient
    /\ reading' = [d \in Clients |->
                      IF d = c THEN "none"
                      ELSE IF reading[d] = "fresh" THEN "stale" ELSE reading[d]]

Rollback(c) ==
    /\ writer' = IF writer = c THEN NoClient ELSE writer
    /\ reading' = [reading EXCEPT ![c] = "none"]
    /\ UNCHANGED db
=============================================================================
