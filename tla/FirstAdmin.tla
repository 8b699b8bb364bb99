----------------------------- MODULE FirstAdmin -----------------------------
(***************************************************************************)
(* How an empty installation gets its first administrator: the setup wizard  *)
(* (setup_admin, an HTTP request guarded by two flags in the server's        *)
(* memory) and `bootstrap' (a second process on the same database, guarded   *)
(* by a count inside its transaction).  The server may restart at any time   *)
(* and an HTTP client may hang up, which drops the handler at its await.     *)
(***************************************************************************)
EXTENDS SqliteWal, FiniteSets, Naturals

CONSTANTS Wizard,    \* wizard requests
          Bootstrap  \* runs of the bootstrap command

ASSUME ClientsAssumption == Clients = Wizard \cup Bootstrap
ASSUME DisjointAssumption == Wizard \cap Bootstrap = {}

VARIABLES setup_completed,    \* PlatformState, in memory
          setup_in_progress,  \* ControlPlaneState, in memory
          pc                  \* where each request or command is

vars == <<db, writer, reading, setup_completed, setup_in_progress, pc>>

\* An administrator is named after the client that inserted it; setup_complete
\* is the row of the settings table.
Contents == [admins : SUBSET Clients, setup_complete : BOOLEAN]
Steps == {"begin", "cas", "recheck", "insert", "commit", "publish", "release", "done"}

TypeOK ==
    /\ SqlTypeOK
    /\ db \in Contents
    /\ setup_completed \in BOOLEAN
    /\ setup_in_progress \in BOOLEAN
    /\ pc \in [Clients -> Steps]

Init ==
    /\ SqlInit
    /\ db = [admins |-> {}, setup_complete |-> FALSE]
    /\ setup_completed = FALSE
    /\ setup_in_progress = FALSE
    /\ pc = [c \in Clients |-> "begin"]

Goto(c, step) == pc' = [pc EXCEPT ![c] = step]
flags == <<setup_completed, setup_in_progress>>

\* Mutant of WithAdmin: the settings row is dropped instead of written.
WithAdminUnset(c) == [admins |-> db.admins \cup {c}]

\* The insert and mark_setup_complete share one transaction.
WithAdmin(c) == [admins |-> db.admins \cup {c}, setup_complete |-> TRUE]

-----------------------------------------------------------------------------
\* The wizard's three guards are separate atomic operations of one thread.
Guard1(w) ==
    /\ pc[w] = "begin"
    /\ Goto(w, IF setup_completed THEN "done" ELSE "cas")
    /\ UNCHANGED <<sqlVars, flags>>

Guard2(w) ==
    /\ pc[w] = "cas"
    /\ setup_in_progress' = TRUE
    /\ Goto(w, IF setup_in_progress THEN "done" ELSE "recheck")
    /\ UNCHANGED <<sqlVars, setup_completed>>

\* Mutant of Guard3: without the re-check.
Guard3Token(w, valid) ==
    /\ pc[w] = "recheck"
    /\ IF valid
       THEN Goto(w, "insert") /\ UNCHANGED setup_in_progress
       ELSE Goto(w, "done") /\ setup_in_progress' = FALSE
    /\ UNCHANGED <<sqlVars, setup_completed>>

\* The re-check, then the token and the fields.
Guard3(w, valid) ==
    /\ pc[w] = "recheck"
    /\ IF valid /\ ~setup_completed
       THEN Goto(w, "insert") /\ UNCHANGED setup_in_progress
       ELSE Goto(w, "done") /\ setup_in_progress' = FALSE
    /\ UNCHANGED <<sqlVars, setup_completed>>

\* Mutant of WizardInsert: the flag is stored before the transaction.
WizardInsertEarly(w) ==
    /\ w \in Wizard
    /\ pc[w] = "insert"
    /\ TakeWriteLock(w)
    /\ Goto(w, "commit")
    /\ setup_completed' = TRUE
    /\ UNCHANGED setup_in_progress

\* create_admin_with_setup: nothing is read before the insert.
WizardInsert(w) ==
    /\ w \in Wizard
    /\ pc[w] = "insert"
    /\ TakeWriteLock(w)
    /\ Goto(w, "commit")
    /\ UNCHANGED flags

WizardCommit(w) ==
    /\ w \in Wizard
    /\ pc[w] = "commit"
    /\ Commit(w, WithAdmin(w))
    /\ Goto(w, "publish")
    /\ UNCHANGED flags

\* A failed hash, insert or commit clears the flag again.
WizardFails(w) ==
    /\ pc[w] \in {"insert", "commit"}
    /\ Rollback(w)
    /\ Goto(w, "done")
    /\ setup_in_progress' = FALSE
    /\ UNCHANGED setup_completed

Publish(w) ==
    /\ pc[w] = "publish"
    /\ setup_completed' = TRUE
    /\ Goto(w, "release")
    /\ UNCHANGED <<sqlVars, setup_in_progress>>

Release(w) ==
    /\ pc[w] = "release"
    /\ setup_in_progress' = FALSE
    /\ Goto(w, "done")
    /\ UNCHANGED <<sqlVars, setup_completed>>

\* The client hangs up while the handler awaits the database: the future is
\* dropped, and nothing clears setup_in_progress. The commit may still succeed.
HangUp(w) ==
    /\ pc[w] \in {"insert", "commit"}
    /\ \/ Rollback(w)
       \/ Commit(w, WithAdmin(w))
    /\ Goto(w, "done")
    /\ UNCHANGED flags

\* The server process ends and boots again; setup_completed is read from disk.
\* Bootstrap commands are other processes.
Restart ==
    /\ pc' = [c \in Clients |-> IF c \in Wizard /\ pc[c] # "begin" THEN "done" ELSE pc[c]]
    /\ setup_in_progress' = FALSE
    /\ setup_completed' = db.setup_complete
    /\ writer' = IF writer \in Wizard THEN NoClient ELSE writer
    /\ reading' = [c \in Clients |-> IF c \in Wizard THEN "none" ELSE reading[c]]
    /\ UNCHANGED db

-----------------------------------------------------------------------------
\* Mutant of BootstrapCount: the count is taken outside the transaction.
BootstrapCountDetached(b) ==
    /\ pc[b] = "begin"
    /\ Goto(b, IF db.admins = {} THEN "insert" ELSE "done")
    /\ UNCHANGED <<sqlVars, flags>>

\* bootstrap_admin_with_codes counts administrators in its transaction.
BootstrapCount(b) ==
    /\ pc[b] = "begin"
    /\ IF db.admins = {}
       THEN TakeSnapshot(b) /\ Goto(b, "insert")
       ELSE UNCHANGED sqlVars /\ Goto(b, "done")
    /\ UNCHANGED flags

BootstrapInsert(b) ==
    /\ b \in Bootstrap
    /\ pc[b] = "insert"
    /\ TakeWriteLock(b)
    /\ Goto(b, "commit")
    /\ UNCHANGED flags

BootstrapCommit(b) ==
    /\ b \in Bootstrap
    /\ pc[b] = "commit"
    /\ Commit(b, WithAdmin(b))
    /\ Goto(b, "done")
    /\ UNCHANGED flags

\* A busy database, or any other failure, before or after the write.
BootstrapFails(b) ==
    /\ pc[b] \in {"insert", "commit"}
    /\ Rollback(b)
    /\ Goto(b, "done")
    /\ UNCHANGED flags

-----------------------------------------------------------------------------
WizardStep(w) ==
    \/ Guard1(w)
    \/ Guard2(w)
    \/ \E valid \in BOOLEAN : Guard3(w, valid)
    \/ WizardInsert(w)
    \/ WizardCommit(w)
    \/ WizardFails(w)
    \/ Publish(w)
    \/ Release(w)

BootstrapStep(b) ==
    \/ BootstrapCount(b)
    \/ BootstrapInsert(b)
    \/ BootstrapCommit(b)
    \/ BootstrapFails(b)

Next ==
    \/ \E w \in Wizard : WizardStep(w) \/ HangUp(w)
    \/ \E b \in Bootstrap : BootstrapStep(b)
    \/ Restart

\* A step whose turn it is happens; nobody has to hang up or restart.
Spec ==
    /\ Init
    /\ [][Next]_vars
    /\ \A w \in Wizard : WF_vars(WizardStep(w))
    /\ \A b \in Bootstrap : WF_vars(BootstrapStep(b))

-----------------------------------------------------------------------------
\* The wizard creates one administrator in the life of the database, whatever
\* requests overlap, whoever hangs up, and however often the server restarts.
WizardOnce == \A v, w \in db.admins \cap Wizard : v = w

\* So does the bootstrap command: the DEFERRED race its comment warns of ends in a
\* busy error, because the loser's snapshot is stale when it comes to insert.
BootstrapOnce == \A a, b \in db.admins \cap Bootstrap : a = b

\* Bootstrap adds an administrator only to a database without one.
BootstrapOnlyFirst ==
    [][\A b \in Bootstrap : b \in db'.admins \ db.admins => db.admins = {}]_vars

\* The flag in memory never runs ahead of the settings row.
CompletedTruthful == setup_completed => db.setup_complete

\* Past the compare-exchange and not yet finished.
InFlight(w) == pc[w] \in {"recheck", "insert", "commit", "publish", "release"}

\* setup_admin's doc: AlreadyBootstrapped means that setup is done, or that a
\* concurrent attempt is in flight.
RefusalJustified ==
    [][\A w \in Wizard : pc[w] = "cas" /\ pc'[w] = "done" =>
          setup_completed \/ \E v \in Wizard \ {w} : InFlight(v)]_vars
=============================================================================
