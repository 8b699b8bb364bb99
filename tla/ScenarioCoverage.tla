---------------------------- MODULE ScenarioCoverage ----------------------------
(* handler-scenario-coverage: the routes found in the source are joined with    *)
(* the rows the scenarios left behind, one per request. A row does not say which*)
(* crate served it. The walk itself is RouteWalk.                               *)
EXTENDS Naturals, Sequences, FiniteSets

CONSTANTS
  NoCrate,
  Limit,          \* ORPHAN_EXAMPLE_LIMIT
  MaxRows         \* bound on the lines read

VARIABLES
  step,           \* "start", "read", "join", "json", "markdown", "over"
  declared,       \* the routes of the workspace
  excluded,       \* the crates crap4rs.toml leaves out
  unresolvable,   \* the walk met a route it could not read
  rows,           \* the rows read; crate is what the rows do not tell
  bad,            \* lines that are no row
  at,             \* the row to join next
  buckets,        \* scenario_sets
  orphans,        \* examples per method and path without a handler
  json, md,       \* the two outputs
  exit

vars == <<step, declared, excluded, unresolvable, rows, bad, at, buckets, orphans, json, md, exit>>

Packages == {"k1", "k2"}
Paths == {"/a", "/b"}
Scenarios == {"s1", "s2"}
Classes == {"happy", "error_4xx"}       \* error_5xx is a third like them

LimitAssumption == Limit \in Nat \ {0} /\ NoCrate \notin Packages

Routes == [crate: Packages, path: Paths]  \* every one is a GET
Rows == {r \in [crate: Packages \cup {NoCrate}, method: {"get", "PUT"}, path: Paths,
                scenario: Scenarios, class: Classes \cup {"other"}] :
           r.method = "PUT" => r.class = "happy"}    \* the class of an orphan is not read

(* A scenario was answered by a declared route, or by one that is gone since.   *)
Served(r) ==
  IF r.method = "PUT" \/ \A k \in Packages : [crate |-> k, path |-> r.path] \notin declared
    THEN r.crate = NoCrate
    ELSE r.crate # NoCrate /\ [crate |-> r.crate, path |-> r.path] \in declared

Uppercase(method) == IF method = "get" THEN "GET" ELSE method

(* handler_index: routes of the crates that are scanned, each once.             *)
Handlers == {h \in declared : h.crate \notin excluded}

Init ==
  /\ step = "start"
  /\ declared \in SUBSET Routes /\ excluded \in SUBSET {"k1"}
  /\ unresolvable \in BOOLEAN
  /\ Cardinality(declared) <= MaxRows
  /\ rows = <<>> /\ bad = 0 /\ at = 1
  /\ buckets = [h \in Routes |-> [c \in Classes |-> {}]]
  /\ orphans = [k \in {"GET", "PUT"} \X Paths |-> <<>>]
  /\ json = "none" /\ md \in {"none", "unasked"}
  /\ exit = "none"

Ends(code) == step' = "over" /\ exit' = code

(* Arguments that are wrong, no crates, crap4rs.toml or a directory unreadable. *)
Refused ==
  /\ step = "start"
  /\ Ends("error")
  /\ UNCHANGED <<declared, excluded, unresolvable, rows, bad, at, buckets, orphans, json, md>>

WalkRoutes ==
  /\ step = "start"
  /\ step' = "read"
  /\ UNCHANGED <<declared, excluded, unresolvable, rows, bad, at, buckets, orphans, json, md, exit>>

ReadRow(r) ==
  /\ step = "read" /\ Len(rows) + bad < MaxRows /\ Served(r)
  /\ rows' = Append(rows, r)
  /\ UNCHANGED <<step, declared, excluded, unresolvable, bad, at, buckets, orphans, json, md, exit>>

(* A line, or a whole file, that cannot be read; blank lines are passed over.   *)
ReadBad ==
  /\ step = "read" /\ Len(rows) + bad < MaxRows
  /\ bad' = bad + 1
  /\ UNCHANGED <<step, declared, excluded, unresolvable, rows, at, buckets, orphans, json, md, exit>>

ReadEnds ==
  /\ step = "read"
  /\ step' = "join"
  /\ UNCHANGED <<declared, excluded, unresolvable, rows, bad, at, buckets, orphans, json, md, exit>>

\* Mutant of Matches: the method of the row is compared as it stands.
MatchesCase(h, r) == r.method = "GET" /\ h.path = r.path

Matches(h, r) == Uppercase(r.method) = "GET" /\ h.path = r.path

(* The first handler in the order of the crates' names.                         *)
Matched(r) ==
  LET fits == {h \in Handlers : Matches(h, r)} IN
  {h \in fits : h.crate = "k1" \/ [h EXCEPT !.crate = "k1"] \notin fits}

Record(h, r) ==
  IF r.class \in Classes THEN [buckets EXCEPT ![h][r.class] = @ \cup {r.scenario}] ELSE buckets

Example(seen, r) ==
  IF Len(seen) < Limit /\ \A i \in DOMAIN seen : seen[i] # r.scenario
    THEN Append(seen, r.scenario) ELSE seen

JoinRow ==
  /\ step = "join" /\ at <= Len(rows)
  /\ at' = at + 1
  /\ LET r == rows[at] IN
       IF Matched(r) # {}
         THEN buckets' = Record(CHOOSE h \in Matched(r) : TRUE, r) /\ UNCHANGED orphans
         ELSE /\ orphans' = [orphans EXCEPT ![<<Uppercase(r.method), r.path>>] = Example(@, r)]
              /\ UNCHANGED buckets
  /\ UNCHANGED <<step, declared, excluded, unresolvable, rows, bad, json, md, exit>>

JoinEnds ==
  /\ step = "join" /\ at > Len(rows)
  /\ step' = "json"
  /\ UNCHANGED <<declared, excluded, unresolvable, rows, bad, at, buckets, orphans, json, md, exit>>

Orphaned == \E k \in DOMAIN orphans : orphans[k] # <<>>
Diagnosed == unresolvable \/ Orphaned \/ bad > 0
ExitCode == IF Diagnosed THEN "diagnosed" ELSE "ok"

WriteJson ==
  /\ step = "json"
  /\ json' = "whole"
  /\ IF md = "unasked" THEN Ends(ExitCode) ELSE step' = "markdown" /\ UNCHANGED exit
  /\ UNCHANGED <<declared, excluded, unresolvable, rows, bad, at, buckets, orphans, md>>

WriteMarkdown ==
  /\ step = "markdown"
  /\ md' = "whole"
  /\ Ends(ExitCode)
  /\ UNCHANGED <<declared, excluded, unresolvable, rows, bad, at, buckets, orphans, json>>

(* The files are written in place.                                              *)
WriteFails ==
  /\ step \in {"json", "markdown"}
  /\ Ends("error")
  /\ \/ step = "json" /\ json' \in {"none", "cut"} /\ UNCHANGED md
     \/ step = "markdown" /\ md' \in {"none", "cut"} /\ UNCHANGED json
  /\ UNCHANGED <<declared, excluded, unresolvable, rows, bad, at, buckets, orphans>>

Next ==
  \/ Refused \/ WalkRoutes \/ ReadBad \/ ReadEnds \/ JoinRow \/ JoinEnds
  \/ WriteJson \/ WriteMarkdown \/ WriteFails
  \/ \E r \in Rows : ReadRow(r)

Spec == Init /\ [][Next]_vars

--------------------------------------------------------------------------------
TypeOK ==
  /\ declared \subseteq Routes /\ bad \in 0..MaxRows
  /\ buckets \in [Routes -> [Classes -> SUBSET Scenarios]]
  /\ json \in {"none", "cut", "whole"} /\ md \in {"none", "cut", "whole", "unasked"}

(* As the join takes it for granted, no two crates declare a path.              *)
OneCratePerPath == \A g, h \in declared : g.path = h.path => g = h

Hit(h, class) ==
  {rows[i].scenario : i \in {j \in DOMAIN rows : /\ rows[j].class = class
                                                  /\ rows[j].crate = h.crate
                                                  /\ rows[j].path = h.path}}

(* A handler is credited with the scenarios that hit it and with no other.      *)
CreditEarned ==
  step \in {"json", "markdown"} /\ OneCratePerPath =>
    \A h \in Handlers, c \in Classes : buckets[h][c] = Hit(h, c)

(* A row of no handler leaves its mark; no run without one ends well with it.   *)
NothingUnseen ==
  exit = "ok" =>
    /\ json = "whole" /\ md \in {"unasked", "whole"}
    /\ bad = 0 /\ ~ unresolvable
    /\ \A i \in DOMAIN rows : \E h \in Handlers :
         /\ h.path = rows[i].path
         /\ rows[i].class \in Classes => \E g \in Handlers :
              g.path = h.path /\ rows[i].scenario \in buckets[g][rows[i].class]

CreditRight == CreditEarned /\ NothingUnseen
=================================================================================
