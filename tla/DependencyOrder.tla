--------------------------- MODULE DependencyOrder ---------------------------
(* dag::resolve: the order in which the migrations of all grafts are applied,  *)
(* or the reason why there is none. A migration is named by its graft and its  *)
(* name; the pairs are numbered by their order, since only the order counts.   *)
EXTENDS Naturals, Sequences, FiniteSets

CONSTANTS
  Count,      \* how many migrations are registered
  Refs,       \* the (graft, name) pairs a migration may have or refer to
  MaxDeps,    \* bound: dependencies of one migration
  MaxEdges    \* bound: dependencies of all of them

RefsAssumption ==
  Count \in Nat /\ Refs \subseteq Nat /\ IsFiniteSet(Refs) /\ MaxDeps \in Nat

Indexes == 1 .. Count       \* positions in the registered list

(* What dependencies() may return: a list, which may name a migration twice.   *)
Lists == UNION {[1 .. n -> Refs] : n \in 0 .. MaxDeps}

VARIABLES
  target,     \* the database each migration is for: Meta or PerProfile
  ref,        \* its graft and name
  deps,       \* the list of references dependencies() returns
  stage,      \* where resolve() is
  inDegree,   \* entries of its list whose migration is not yet placed
  heap,       \* migrations ready to be placed
  result,     \* the order so far
  refusal     \* the DagError

vars == <<target, ref, deps, stage, inDegree, heap, result, refusal>>
given == <<target, ref, deps>>

Meta == 0
PerProfile == 2

TypeOK ==
  /\ target \in [Indexes -> {Meta, PerProfile}]
  /\ ref \in [Indexes -> Refs]
  /\ deps \in [Indexes -> Lists]
  /\ stage \in {"check", "sort", "done", "refused"}
  /\ inDegree \in [Indexes -> Nat]
  /\ heap \subseteq Indexes
  /\ result \in Seq(Indexes)
  /\ refusal \in {"", "duplicate", "dangling", "cross-target", "cycle"}

Init ==
  /\ deps \in [Indexes -> Lists]
  /\ Cardinality(UNION {{i} \X DOMAIN deps[i] : i \in Indexes}) <= MaxEdges
  /\ target \in [Indexes -> {Meta, PerProfile}]
  /\ ref \in [Indexes -> Refs]
  /\ stage = "check"
  /\ inDegree = [i \in Indexes |-> 0]
  /\ heap = {} /\ result = <<>> /\ refusal = ""

-----------------------------------------------------------------------------

Duplicates == \E i, j \in Indexes : i # j /\ ref[i] = ref[j]

Dangling ==
  \E i \in Indexes : \E n \in DOMAIN deps[i] : \A j \in Indexes : ref[j] # deps[i][n]

(* The entries of i's list that name a migration in S: as many edges of the    *)
(* adjacency, for a migration that is named twice is counted twice.            *)
Entries(i, S) == {n \in DOMAIN deps[i] : \E j \in S : ref[j] = deps[i][n]}

(* The migrations that i names as its dependencies.                            *)
Needs(i) == {j \in Indexes : Entries(i, {j}) # {}}

(* meta.db is migrated on its own: it cannot wait for a profile's database.    *)
CrossTarget ==
  \E i \in Indexes : target[i] = Meta /\ \E j \in Needs(i) : target[j] = PerProfile

(* Mutant of Before: by graft and name alone.                                  *)
BeforeByName(i, j) == ref[i] < ref[j]

(* The order of the heap: target first, then graft and name.                   *)
Before(i, j) ==
  \/ target[i] < target[j]
  \/ target[i] = target[j] /\ ref[i] < ref[j]

Placed == {result[n] : n \in 1 .. Len(result)}

Cause ==
  IF Duplicates THEN "duplicate" ELSE
  IF Dangling THEN "dangling" ELSE
  IF CrossTarget THEN "cross-target" ELSE ""

(* The three checks, in the order of the code.                                 *)
Refuse ==
  /\ stage = "check"
  /\ Cause # ""
  /\ refusal' = Cause
  /\ stage' = "refused"
  /\ UNCHANGED <<given, inDegree, heap, result>>

(* build_adjacency, and the migrations that wait for nothing.                  *)
BuildAdjacency ==
  /\ stage = "check"
  /\ Cause = ""
  /\ stage' = "sort"
  /\ inDegree' = [i \in Indexes |-> Cardinality(Entries(i, Indexes))]
  /\ heap' = {i \in Indexes : Entries(i, Indexes) = {}}
  /\ UNCHANGED <<given, result, refusal>>

(* Mutant of Pop: a migration is ready as soon as one dependency is placed.    *)
PopReadyEarly ==
  \E i \in heap :
    /\ stage = "sort"
    /\ \A j \in heap \ {i} : Before(i, j)
    /\ result' = Append(result, i)
    /\ inDegree' = [j \in Indexes |-> IF i \in Needs(j) THEN 0 ELSE inDegree[j]]
    /\ heap' = (heap \ {i}) \cup {j \in Indexes : i \in Needs(j) /\ inDegree[j] > 0}
    /\ UNCHANGED <<given, stage, refusal>>

(* Mutant of Pop: a migration counts one off for each dependency placed, though*)
(* build_adjacency has counted the entries of its list.                        *)
PopOncePerDependency ==
  \E i \in heap :
    /\ stage = "sort"
    /\ \A j \in heap \ {i} : Before(i, j)
    /\ result' = Append(result, i)
    /\ inDegree' = [j \in Indexes |-> IF i \in Needs(j) THEN inDegree[j] - 1 ELSE inDegree[j]]
    /\ heap' = (heap \ {i}) \cup {j \in Indexes : i \in Needs(j) /\ inDegree[j] = 1}
    /\ UNCHANGED <<given, stage, refusal>>

(* One turn of kahn_sort: each entry that names i counts one off, and the last *)
(* one makes its migration ready.                                              *)
Pop ==
  \E i \in heap :
    /\ stage = "sort"
    /\ \A j \in heap \ {i} : Before(i, j)
    /\ result' = Append(result, i)
    /\ inDegree' = [j \in Indexes |-> inDegree[j] - Cardinality(Entries(j, {i}))]
    /\ heap' = (heap \ {i}) \cup {j \in Indexes : i \in Needs(j) /\ inDegree'[j] = 0}
    /\ UNCHANGED <<given, stage, refusal>>

Finish ==
  /\ stage = "sort" /\ heap = {}
  /\ Len(result) = Count
  /\ stage' = "done"
  /\ UNCHANGED <<given, inDegree, heap, result, refusal>>

(* Something was never ready: a cycle, or a migration behind one.              *)
Cyclic ==
  /\ stage = "sort" /\ heap = {}
  /\ Len(result) # Count
  /\ stage' = "refused" /\ refusal' = "cycle"
  /\ UNCHANGED <<given, inDegree, heap, result>>

Next == Refuse \/ BuildAdjacency \/ Pop \/ Finish \/ Cyclic

Spec == Init /\ [][Next]_vars /\ WF_vars(Next)

-----------------------------------------------------------------------------
(* Properties                                                                  *)

(* An accepted order holds every registered migration once, after all those it *)
(* depends on, and every migration of meta.db before the first of a profile.   *)
OrderSound ==
  stage = "done" =>
    /\ Placed = Indexes /\ Len(result) = Count
    /\ \A n \in 1 .. Count : \A j \in Needs(result[n]) : \E k \in 1 .. n - 1 : result[k] = j
    /\ \A n, k \in 1 .. Count :
         target[result[n]] = Meta /\ target[result[k]] = PerProfile => n < k

(* A set of migrations is refused as cyclic only when some of them wait for    *)
(* each other, and a sound one is never refused.                               *)
RefusedForCause ==
  stage = "refused" =>
    \/ Duplicates \/ Dangling \/ CrossTarget
    \/ /\ refusal = "cycle"
       /\ \E X \in SUBSET Indexes : X # {} /\ \A i \in X : Needs(i) \cap X # {}
=============================================================================
