------------------------------ MODULE RouteWalk ------------------------------
(* The producer of the branch coverage of each HTTP handler: it reads the      *)
(* router builders of a crate call by call, works out under which URL and by   *)
(* which function every route is served, and joins that with the coverage of   *)
(* the functions. What it cannot join is listed and makes it exit 2. Files     *)
(* differ in what they are about: names, prefixes or branches.                 *)
EXTENDS Integers, Sequences, FiniteSets, SequencesExt

CONSTANTS
  Builders,   \* functions that build routers
  MaxItems    \* bound: items read of the file

ASSUME WalkAssumption == "none" \notin Builders /\ MaxItems \in Nat

VARIABLES
  about,         \* what the file is about
  items,         \* history: what has been read
  use_map, module_decls,
  inline,        \* inline_prefix_stack
  routes,        \* builder, literal and handler of each route call
  edges,         \* nest_edges
  unresolvable,
  index,         \* coverage by function
  climbing,      \* the builder whose prefix is worked out, where and how far
  prefixes,
  artifact,      \* entries of the artifact
  exit           \* exit code, -1 before the end

vars == <<about, items, use_map, module_decls, inline, routes, edges, unresolvable,
          index, climbing, prefixes, artifact, exit>>
names == <<use_map, module_decls>>
produced == <<climbing, prefixes, artifact, exit>>

NoBuilder == "none"
Router == CHOOSE b \in Builders : TRUE

(* The file is module m of crate c. URLs and paths are sequences; "" is <<>>,  *)
(* "/" is the sequence of itself.                                              *)
Here == <<"c", "m">>
Slash == <<"/">>

(* The functions of the program, and how its handlers may be written.          *)
Functions == {<<"c", "m", "h">>, <<"c", "h">>, <<"c", "sub", "h">>, <<"c", "m", "sub", "h">>, <<"dep", "h">>}
References == {<<"h">>, <<"crate", "h">>, <<"self", "h">>, <<"super", "h">>, <<"sub", "h">>, <<"dep", "h">>}
Uses == {[name |-> "h", of |-> <<"crate", "sub", "h">>], [name |-> "h", of |-> <<"super", "h">>],
         [name |-> "sub", of |-> <<"crate", "sub">>], [name |-> "sub", of |-> <<"self", "sub">>]}

Bare == [total |-> 0, covered |-> 0, count |-> 0]
Covered == [f \in Functions |-> [total |-> 2, covered |-> 1, count |-> 1]]

Init ==
  /\ about \in {"names", "prefixes", "branches"}
  /\ items = <<>> /\ use_map = <<>> /\ module_decls = {} /\ inline = <<>>
  /\ routes = {} /\ edges = <<>> /\ unresolvable = {}
  /\ index = IF about = "branches" THEN <<>> ELSE Covered
  /\ climbing = <<>> /\ prefixes = <<>> /\ artifact = {} /\ exit = -1

Reads(item) ==
  /\ climbing = <<>> /\ prefixes = <<>> /\ exit = -1 /\ Len(items) < MaxItems
  /\ items' = Append(items, item)
  /\ UNCHANGED <<about, produced>>

-----------------------------------------------------------------------------
(* A use item, wherever it stands; expand_use_path knows crate, but drops self *)
(* and keeps super. The compiler has one binding for a name in a scope.        *)
Expand(of) ==
  CASE of[1] = "crate" -> <<"c">> \o Tail(of)
    [] of[1] = "self" -> Tail(of)
    [] OTHER -> of

Bound(n, scope) == \E i \in 1 .. Len(items) :
  items[i].kind \in {"use", "mod"} /\ items[i].name = n /\ items[i].scope = scope

ReadUse(u, scope) ==
  /\ about = "names" /\ ~ Bound(u.name, scope)
  /\ Reads([kind |-> "use", name |-> u.name, of |-> u.of, scope |-> scope])
  /\ use_map' = [n \in DOMAIN use_map \cup {u.name} |-> IF n = u.name THEN Expand(u.of) ELSE use_map[n]]
  /\ UNCHANGED <<module_decls, inline, routes, edges, unresolvable, index>>

ReadMod ==
  /\ about = "names" /\ ~ Bound("sub", "file")
  /\ Reads([kind |-> "mod", name |-> "sub", scope |-> "file"])
  /\ module_decls' = module_decls \cup {"sub"}
  /\ UNCHANGED <<use_map, inline, routes, edges, unresolvable, index>>

(* resolve_path with what has been read of the file so far.                    *)
ResolvePath(ref) ==
  LET head == ref[1] IN
  CASE head = "crate" -> <<"c">> \o Tail(ref)
    [] head = "self" -> Here \o Tail(ref)
    [] head = "super" -> Front(Here) \o Tail(ref)
    [] head \in DOMAIN use_map -> use_map[head] \o Tail(ref)
    [] head \notin DOMAIN use_map /\ Len(ref) = 1 -> Here \o ref
    [] head \in module_decls \ DOMAIN use_map /\ Len(ref) > 1 -> Here \o ref
    [] OTHER -> ref

(* join_url_path.                                                              *)
JoinUrl(prefix, suffix) ==
  IF prefix = <<>> THEN suffix
  ELSE IF suffix \in {<<>>, Slash} THEN prefix
  ELSE (IF prefix = Slash THEN <<>> ELSE prefix) \o suffix

(* .route with a method router that is understood; any other, one with a layer *)
(* or a closure, is skipped.                                                   *)
ReadRoute(b, literal, ref, shape) ==
  /\ about # "branches"
  /\ about = "names" => b = Router /\ literal = Slash
  /\ about = "prefixes" => ref = <<"h">> /\ shape = "plain"
  /\ b = NoBuilder => inline = <<>>
  /\ Reads([kind |-> "route", builder |-> b, literal |-> literal, ref |-> ref,
            shape |-> shape, inline |-> inline])
  /\ IF shape = "plain" /\ b # NoBuilder
     THEN routes' = routes \cup {[builder |-> b, handler |-> ResolvePath(ref),
            literal |-> JoinUrl(FoldLeft(JoinUrl, <<>>, inline), literal)]}
     ELSE UNCHANGED routes
  /\ unresolvable' = IF shape = "plain" /\ b = NoBuilder THEN unresolvable \cup {literal} ELSE unresolvable
  /\ UNCHANGED <<names, inline, edges, index>>

(* .nest with the call of a builder leaves an edge; a call with .with_state    *)
(* after it does not, nor does .merge.                                         *)
ReadMount(b, how, prefix, child) ==
  /\ about = "prefixes" /\ b # child /\ (how = "merge") = (prefix = <<>>)
  /\ how = "nest_with_state" => prefix = <<"p">>
  /\ Reads([kind |-> "mount", builder |-> b, how |-> how, prefix |-> prefix, child |-> child,
            inline |-> inline])
  /\ edges' = IF how = "nest" THEN Append(edges, [parent |-> b, child |-> child, prefix |-> prefix])
              ELSE edges
  /\ UNCHANGED <<names, inline, routes, unresolvable, index>>

(* .nest with a router in place: its calls are visited under the prefix.       *)
EnterNest(prefix) ==
  /\ about = "prefixes" /\ inline = <<>>
  /\ Reads([kind |-> "enter", prefix |-> prefix])
  /\ inline' = Append(inline, prefix)
  /\ UNCHANGED <<names, routes, edges, unresolvable, index>>

(* Outside of a function .nest is listed, and its router is not visited.       *)
OuterNest(prefix) ==
  /\ about = "prefixes" /\ inline = <<>>
  /\ Reads([kind |-> "route", builder |-> NoBuilder, literal |-> Slash, ref |-> <<"h">>,
            shape |-> "plain", inline |-> <<prefix>>])
  /\ unresolvable' = unresolvable \cup {prefix}
  /\ UNCHANGED <<names, inline, routes, edges, index>>

LeaveNest ==
  /\ inline # <<>> /\ exit = -1 /\ climbing = <<>> /\ prefixes = <<>>
  /\ inline' = Front(inline)
  /\ UNCHANGED <<about, items, names, routes, edges, unresolvable, index, produced>>

-----------------------------------------------------------------------------
(* llvm_cov: the instances and closures of a function are one entry.           *)
Markers == {"closure0", "closure1"}

StripMarkers(path) ==
  SubSeq(path, 1, CHOOSE n \in 1 .. Len(path) :
    path[n] \notin Markers /\ \A i \in n + 1 .. Len(path) : path[i] \in Markers)

(* A branch is the number of times it was taken and the number it was not.     *)
Sides(branches) ==
  Cardinality({p \in (1 .. Len(branches)) \X {1, 2} : branches[p[1]][p[2]] > 0})

ReadFunction(marks, branches) ==
  /\ about = "branches" /\ Len(items) < 3
  /\ Reads([kind |-> "function", branches |-> branches])
  /\ LET path == StripMarkers(Here \o <<"h">> \o marks)
         old == IF path \in DOMAIN index THEN index[path] ELSE Bare
         new == [total |-> old.total + 2 * Len(branches), covered |-> old.covered + Sides(branches),
                 count |-> old.count + 1]
     IN index' = [p \in DOMAIN index \cup {path} |-> IF p = path THEN new ELSE index[p]]
  /\ routes' = {[builder |-> Router, literal |-> Slash, handler |-> Here \o <<"h">>]}
  /\ UNCHANGED <<names, inline, edges, unresolvable>>

-----------------------------------------------------------------------------
(* resolve_prefixes: up from each builder with routes, over the first edge to  *)
(* it, for at most one step more than there are builders.                      *)
WithRoutes == {r.builder : r \in routes}

ParentEdges(b) == {i \in 1 .. Len(edges) : edges[i].child = b}
FirstEdge(b) == edges[CHOOSE i \in ParentEdges(b) : \A j \in ParentEdges(b) : i <= j]

StartClimb ==
  /\ climbing = <<>> /\ exit = -1 /\ inline = <<>>
  /\ WithRoutes \ DOMAIN prefixes # {}
  /\ LET b == CHOOSE b \in WithRoutes \ DOMAIN prefixes : TRUE IN
     climbing' = <<[of |-> b, at |-> b, prefix |-> <<>>, steps |-> 0]>>
  /\ UNCHANGED <<about, items, names, inline, routes, edges, unresolvable, index, prefixes, artifact, exit>>

(* Mutant of Climb: the prefixes are joined from the inside out.               *)
ClimbInsideOut ==
  LET c == climbing[1] IN
  /\ climbing # <<>> /\ ParentEdges(c.at) # {} /\ c.steps <= Cardinality(WithRoutes) + 1
  /\ climbing' = <<[c EXCEPT !.at = FirstEdge(c.at).parent, !.steps = @ + 1,
                             !.prefix = JoinUrl(c.prefix, FirstEdge(c.at).prefix)]>>
  /\ UNCHANGED <<about, items, names, inline, routes, edges, unresolvable, index, prefixes, artifact, exit>>

Climb ==
  LET c == climbing[1] IN
  /\ climbing # <<>> /\ ParentEdges(c.at) # {} /\ c.steps <= Cardinality(WithRoutes) + 1
  /\ climbing' = <<[c EXCEPT !.at = FirstEdge(c.at).parent, !.steps = @ + 1,
                             !.prefix = JoinUrl(FirstEdge(c.at).prefix, c.prefix)]>>
  /\ UNCHANGED <<about, items, names, inline, routes, edges, unresolvable, index, prefixes, artifact, exit>>

EndClimb ==
  LET c == climbing[1] IN
  /\ climbing # <<>>
  /\ ParentEdges(c.at) = {} \/ c.steps > Cardinality(WithRoutes) + 1
  /\ prefixes' = [b \in DOMAIN prefixes \cup {c.of} |-> IF b = c.of THEN c.prefix ELSE prefixes[b]]
  /\ climbing' = <<>>
  /\ UNCHANGED <<about, items, names, inline, routes, edges, unresolvable, index, artifact, exit>>

(* emit_routes.                                                                *)
Emitted == {[url |-> JoinUrl(prefixes[r.builder], r.literal), handler |-> r.handler] : r \in routes}

(* The payload has the functions that exist: not a second h beside an imported *)
(* one.                                                                        *)
Imported == \E i \in 1 .. Len(items) :
  items[i].kind = "use" /\ items[i].name = "h" /\ items[i].scope = "file"

Payload == DOMAIN index \ (IF Imported THEN {Here \o <<"h">>} ELSE {})

(* join_routes_with_coverage.                                                  *)

JoinCoverage ==
  /\ climbing = <<>> /\ inline = <<>> /\ exit = -1 /\ items # <<>>
  /\ DOMAIN prefixes = WithRoutes
  /\ artifact' = {e \in Emitted : e.handler \in Payload}
  /\ exit' = IF artifact' = Emitted /\ unresolvable = {} THEN 0 ELSE 2
  /\ UNCHANGED <<about, items, names, inline, routes, edges, unresolvable, index, climbing, prefixes>>

Next ==
  \/ \E u \in Uses, scope \in {"file", "fn"} : ReadUse(u, scope)
  \/ ReadMod
  \/ \E b \in Builders \cup {NoBuilder}, literal \in {Slash, <<"x">>}, ref \in References,
       shape \in {"plain", "layered"} : ReadRoute(b, literal, ref, shape)
  \/ \E b, child \in Builders, how \in {"nest", "nest_with_state", "merge"},
       prefix \in {<<>>, <<"p">>, <<"q">>} : ReadMount(b, how, prefix, child)
  \/ EnterNest(<<"i">>) \/ OuterNest(<<"i">>)
  \/ LeaveNest
  \/ \E marks \in {<<>>, <<"closure0">>, <<"closure0", "closure1">>},
       branches \in SeqOf({0, 1} \X {0, 1}, 1) : ReadFunction(marks, branches)
  \/ StartClimb \/ Climb \/ EndClimb \/ JoinCoverage

Spec == Init /\ [][Next]_vars

-----------------------------------------------------------------------------
(* Properties                                                                  *)

Read(kind) == {items[i] : i \in {j \in 1 .. Len(items) : items[j].kind = kind}}

(* What a handler is to the compiler: the use items of the whole file count,   *)
(* those of other functions do not.                                            *)
UsedAs(of) ==
  CASE of[1] = "crate" -> <<"c">> \o Tail(of)
    [] of[1] = "self" -> Here \o Tail(of)
    [] OTHER -> <<"c">> \o Tail(of)

Meant(ref) ==
  LET uses == {u \in Read("use") : u.scope = "file" /\ u.name = ref[1]} IN
  CASE ref[1] = "crate" -> <<"c">> \o Tail(ref)
    [] ref[1] = "self" -> Here \o Tail(ref)
    [] ref[1] = "super" -> <<"c">> \o Tail(ref)
    [] uses # {} -> UsedAs((CHOOSE u \in uses : TRUE).of) \o Tail(ref)
    [] ref \in {<<"dep", "h">>} -> ref
    [] OTHER -> Here \o ref

(* The prefixes a builder is served under, by the number of mounts above it; a *)
(* builder that nobody mounts is the root of a router.                         *)
Outer(stack) == FoldLeft(JoinUrl, <<>>, stack)

MountsOf(b) == {m \in Read("mount") : m.child = b}

ServedAt[n \in Nat] == [b \in Builders |->
  IF MountsOf(b) = {} THEN {<<>>}
  ELSE IF n = 0 THEN {}
  ELSE UNION {{JoinUrl(q, JoinUrl(Outer(m.inline), m.prefix)) : q \in ServedAt[n - 1][m.builder]} :
              m \in MountsOf(b)}]

Served == UNION {{[url |-> JoinUrl(q, JoinUrl(Outer(r.inline), r.literal)), handler |-> Meant(r.ref)] :
                    q \in IF r.builder = NoBuilder THEN {<<>>} ELSE ServedAt[MaxItems][r.builder]} :
                 r \in Read("route")}

(* Every served route is in the artifact with its URL, or the producer says    *)
(* that something is missing.                                                  *)
RoutesReported == about # "branches" /\ exit = 0 => artifact = Served

(* The code keeps it for handlers without layers whose name no other scope     *)
(* uses, builders that are called in one .nest each, and roots that are no     *)
(* further than the climb goes.                                                *)
Depth == {n \in 0 .. MaxItems : n <= Cardinality(WithRoutes) + 2}

PlainFile ==
  /\ \A r \in Read("route") :
       /\ r.shape = "plain"
       /\ \A u \in Read("use") : u.scope = "file" \/ u.name # r.ref[1]
       /\ r.builder \in Builders => \E n \in Depth : ServedAt[n][r.builder] # {}
  /\ \A m \in Read("mount") :
       /\ m.how = "nest" /\ m.inline = <<>>
       /\ Cardinality({i \in 1 .. Len(items) : items[i].kind = "mount" /\ items[i].child = m.child}) = 1

PlainRoutesReported == exit = 0 => (PlainFile => RoutesReported)

(* A handler counts as covered in full only if every side of every branch was  *)
(* taken in every instance and closure of it that the payload lists.           *)
FullMeansAll ==
  about = "branches" /\ exit = 0 =>
    \A f \in DOMAIN index :
      (index[f].covered = index[f].total) =
        \A r \in Read("function") : \A i \in 1 .. Len(r.branches) :
          r.branches[i][1] > 0 /\ r.branches[i][2] > 0
=============================================================================
