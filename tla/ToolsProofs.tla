----------------------------- MODULE ToolsProofs -----------------------------
(* The numbers, the verdict and the schema of the quality scorecard are right, *)
(* and so are the scenarios of a handler, the URL the walk over the routes     *)
(* gives it, and the audit of the public items, for any crates, tags, limits    *)
(* and measures, builders of routes, corpora, reports and command lines of any  *)
(* length.                                                                     *)
EXTENDS MCTools, Sequences, FiniteSetTheorems, SequenceTheorems, WellFoundedInduction, TLAPS

toolVars == <<part, vars, Tally!vars, Card!vars, Scenarios!vars, Audit!vars, Schema!vars>>

-----------------------------------------------------------------------------
(* The branch coverage of the handlers.                                        *)

\* The branches of an instance of a function, as the payload lists them.
Branches == Seq({0, 1} \X {0, 1})

\* The sides taken are all sides exactly if both sides of each branch were taken.
LEMMA SidesCounted ==
    ASSUME NEW s \in Branches
    PROVE  /\ Sides(s) \in Nat /\ Len(s) \in Nat /\ Sides(s) <= 2 * Len(s)
           /\ Sides(s) = 2 * Len(s) <=> \A i \in 1 .. Len(s) : s[i][1] > 0 /\ s[i][2] > 0
<1> DEFINE T == (1 .. Len(s)) \X {1, 2}
           Q == {p \in T : s[p[1]][p[2]] > 0}
<1>1. Len(s) \in Nat BY DEF Branches
<1>2. IsFiniteSet(1 .. Len(s)) /\ Cardinality(1 .. Len(s)) = Len(s)
  <2>1. 1 \in Int /\ Len(s) \in Int BY <1>1
  <2>2. /\ IsFiniteSet(1 .. Len(s))
        /\ Cardinality(1 .. Len(s)) = IF 1 > Len(s) THEN 0 ELSE Len(s) - 1 + 1
    BY <2>1, FS_Interval
  <2> QED BY <1>1, <2>2
<1>3. IsFiniteSet({1, 2}) /\ Cardinality({1, 2}) = 2
  <2>1. IsFiniteSet({1}) /\ Cardinality({1}) = 1 BY FS_Singleton
  <2>2. {1, 2} = {1} \cup {2} /\ 2 \notin {1} OBVIOUS
  <2> QED BY <2>1, <2>2, FS_AddElement
<1>4. IsFiniteSet(T) /\ Cardinality(T) = Len(s) * 2
  <2>1. IsFiniteSet(T) /\ Cardinality(T) = Cardinality(1 .. Len(s)) * Cardinality({1, 2})
    BY <1>2, <1>3, FS_Product
  <2> QED BY <1>2, <1>3, <2>1
<1>5. Sides(s) = Cardinality(Q) BY DEF Sides
<1>6. Q = T <=> \A i \in 1 .. Len(s) : s[i][1] > 0 /\ s[i][2] > 0
  <2>1. ASSUME Q = T, NEW i \in 1 .. Len(s) PROVE s[i][1] > 0 /\ s[i][2] > 0
    <3>1. <<i, 1>> \in Q /\ <<i, 2>> \in Q BY <2>1
    <3>2. <<i, 1>>[1] = i /\ <<i, 1>>[2] = 1 /\ <<i, 2>>[1] = i /\ <<i, 2>>[2] = 2 OBVIOUS
    <3> QED BY <3>1, <3>2
  <2>2. ASSUME \A i \in 1 .. Len(s) : s[i][1] > 0 /\ s[i][2] > 0, NEW p \in T PROVE p \in Q
    <3>1. p[1] \in 1 .. Len(s) /\ p[2] \in {1, 2} OBVIOUS
    <3>2. s[p[1]][p[2]] > 0
      <4>1. CASE p[2] = 1 BY <2>2, <3>1, <4>1
      <4>2. CASE p[2] = 2 BY <2>2, <3>1, <4>2
      <4> QED BY <3>1, <4>1, <4>2
    <3> QED BY <3>2
  <2> QED BY <2>1, <2>2
<1>7. Q \in SUBSET T OBVIOUS
<1> HIDE DEF T, Q
<1>8. /\ IsFiniteSet(Q) /\ Cardinality(Q) <= Cardinality(T)
      /\ Cardinality(Q) = Cardinality(T) => Q = T
  BY <1>4, <1>7, FS_Subset
<1>9. Cardinality(Q) \in Nat BY <1>8, FS_CardinalityType
<1>10. Cardinality(Q) = Cardinality(T) <=> Q = T BY <1>8
<1> QED BY <1>1, <1>4, <1>5, <1>6, <1>8, <1>9, <1>10

Instances == [kind : {"function"}, branches : Branches]

\* Every branch of what was read was taken both ways.
AllTaken ==
    \A r \in Read("function") : \A i \in 1 .. Len(r.branches) :
        r.branches[i][1] > 0 /\ r.branches[i][2] > 0

Handler == Here \o <<"h">>
Counts == IF Handler \in DOMAIN index THEN index[Handler] ELSE Bare

\* The instances and closures read are counted as the one handler, and all of its sides
\* were taken exactly if all of theirs were.
WalkInv ==
    about = "branches" =>
      /\ items \in Seq(Instances) /\ DOMAIN index \subseteq {Handler}
      /\ Counts.total \in Nat /\ Counts.covered \in Nat /\ Counts.covered <= Counts.total
      /\ Counts.covered = Counts.total <=> AllTaken

\* Nothing is read, nothing is counted.
LEMMA WalkInit == Init => WalkInv
<1> SUFFICES ASSUME Init, about = "branches" PROVE WalkInv
  BY DEF WalkInv
<1>1. items = <<>> /\ index = <<>> /\ DOMAIN index = {} BY DEF Init
<1>2. AllTaken BY <1>1 DEF AllTaken, Read
<1>3. Counts = Bare BY <1>1 DEF Counts
<1> QED BY <1>1, <1>2, <1>3 DEF WalkInv, Bare

\* The markers of closures are not part of a name.
LEMMA Stripped ==
    ASSUME NEW marks \in {<<>>, <<"closure0">>, <<"closure0", "closure1">>}
    PROVE  StripMarkers(Here \o <<"h">> \o marks) = Handler
<1> DEFINE path == Here \o <<"h">> \o marks
           P(n) == path[n] \notin Markers /\ \A i \in n + 1 .. Len(path) : path[i] \in Markers
           H == Handler
           W == {"c", "m", "h", "closure0", "closure1"}
<1>1. /\ H \in Seq(W) /\ Len(H) = 3
      /\ H[1] \notin Markers /\ H[2] \notin Markers /\ H[3] \notin Markers
  <2> DEFINE m == Here
             h == <<"h">>
  <2>1. m \in Seq(W) /\ Len(m) = 2 /\ m[1] = "c" /\ m[2] = "m" BY DEF Here
  <2>2. h \in Seq(W) /\ Len(h) = 1 /\ h[1] = "h" OBVIOUS
  <2>3. Handler = m \o h BY DEF Handler
  <2> HIDE DEF m, h, H, W
  <2>4. /\ m \o h \in Seq(W) /\ Len(m \o h) = 3
        /\ (m \o h)[1] = m[1] /\ (m \o h)[2] = m[2] /\ (m \o h)[3] = h[1]
    <3>1. /\ m \o h \in Seq(W) /\ Len(m \o h) = Len(m) + Len(h)
          /\ \A i \in 1 .. Len(m) + Len(h) :
                (m \o h)[i] = IF i <= Len(m) THEN m[i] ELSE h[i - Len(m)]
      BY <2>1, <2>2, ConcatProperties
    <3> QED BY <2>1, <2>2, <3>1
  <2>5. H = m \o h BY <2>3 DEF H
  <2> QED BY <2>1, <2>2, <2>4, <2>5 DEF Markers
<1>2. marks \in Seq(Markers) /\ marks \in Seq(W) /\ Len(marks) \in Nat
      /\ \A i \in 1 .. Len(marks) : marks[i] \in Markers
  <2>1. CASE marks = <<>> BY <2>1 DEF Markers
  <2>2. CASE marks = <<"closure0">> BY <2>2 DEF Markers
  <2>3. CASE marks = <<"closure0", "closure1">> BY <2>3 DEF Markers
  <2> QED BY <2>1, <2>2, <2>3
<1>3. path = H \o marks BY DEF Handler
<1> HIDE DEF path, H, W
<1>4. /\ path \in Seq(W) /\ Len(path) = 3 + Len(marks)
      /\ \A i \in 1 .. 3 : path[i] = H[i]
      /\ \A i \in 4 .. Len(path) : path[i] = marks[i - 3]
  <2>1. /\ H \o marks \in Seq(W) /\ Len(H \o marks) = Len(H) + Len(marks)
        /\ \A i \in 1 .. Len(H) + Len(marks) :
              (H \o marks)[i] = IF i <= Len(H) THEN H[i] ELSE marks[i - Len(H)]
    <3>1. H \in Seq(W) /\ marks \in Seq(W) BY <1>1, <1>2
    <3> QED BY ONLY <3>1, ConcatProperties
  <2> QED BY <1>1, <1>2, <1>3, <2>1
<1>5. 3 \in 1 .. Len(path) /\ P(3)
  <2>1. path[3] = H[3] BY <1>4
  <2>2. \A i \in 4 .. Len(path) : i - 3 \in 1 .. Len(marks) BY <1>2, <1>4
  <2> QED BY <1>1, <1>2, <1>4, <2>1, <2>2
<1>6. ASSUME NEW n \in 1 .. Len(path), P(n) PROVE n = 3
  <2>1. CASE n < 3
    <3>1. 3 \in n + 1 .. Len(path) BY <1>2, <1>4, <2>1
    <3>2. path[3] \in Markers BY <1>6, <3>1
    <3> QED BY <1>1, <1>4, <3>2
  <2>2. CASE n > 3
    <3>1. n \in 4 .. Len(path) /\ n - 3 \in 1 .. Len(marks) BY <1>2, <1>4, <2>2
    <3> QED BY <1>2, <1>4, <1>6, <3>1
  <2> QED BY <1>4, <2>1, <2>2
<1>7. StripMarkers(path) = SubSeq(path, 1, CHOOSE n \in 1 .. Len(path) : P(n))
  BY DEF StripMarkers
<1> HIDE DEF P
<1>8. (CHOOSE n \in 1 .. Len(path) : P(n)) = 3 BY <1>5, <1>6
<1>9. SubSeq(path, 1, 3) = H
  <2>1. SubSeq(path, 1, 3) \in Seq(W) /\ Len(SubSeq(path, 1, 3)) = 3
        /\ \A i \in 1 .. 3 : SubSeq(path, 1, 3)[i] = path[i]
    BY <1>2, <1>4
  <2> QED BY <1>1, <1>4, <2>1, SeqEqual
<1> QED BY <1>7, <1>8, <1>9 DEF path, H

\* Every step of the walk keeps the counts.
LEMMA WalkStep == WalkInv /\ [WalkNext]_vars => WalkInv'
<1> SUFFICES ASSUME WalkInv, [WalkNext]_vars, about' = "branches" PROVE WalkInv'
  BY DEF WalkInv
<1>1. ASSUME UNCHANGED <<about, items, index>> PROVE WalkInv'
  BY <1>1 DEF WalkInv, Counts, AllTaken, Read
<1>2. ASSUME NEW marks \in {<<>>, <<"closure0">>, <<"closure0", "closure1">>},
             NEW s \in {<<>>} \cup {<<b>> : b \in {0, 1} \X {0, 1}}, ReadFunction(marks, s)
      PROVE  WalkInv'
  <2> DEFINE item == [kind |-> "function", branches |-> s]
             new == [total |-> Counts.total + 2 * Len(s), covered |-> Counts.covered + Sides(s),
                     count |-> Counts.count + 1]
             both == \A i \in 1 .. Len(s) : s[i][1] > 0 /\ s[i][2] > 0
  <2>1. s \in Branches
    <3>1. CASE s = <<>> BY <3>1 DEF Branches
    <3>2. CASE s \in {<<b>> : b \in {0, 1} \X {0, 1}}
      <4>1. PICK b \in {0, 1} \X {0, 1} : s = <<b>> BY <3>2
      <4> QED BY <4>1 DEF Branches
    <3> QED BY <3>1, <3>2
  <2>2. /\ about = "branches" /\ items' = Append(items, item)
        /\ index' = [p \in DOMAIN index \cup {Handler} |-> IF p = Handler THEN new ELSE index[p]]
    BY <1>2, Stripped DEF ReadFunction, Reads, Counts
  <2>3. /\ items \in Seq(Instances) /\ DOMAIN index \subseteq {Handler}
        /\ Counts.total \in Nat /\ Counts.covered \in Nat /\ Counts.covered <= Counts.total
        /\ Counts.covered = Counts.total <=> AllTaken
    BY <2>2 DEF WalkInv
  <2>4. item \in Instances BY <2>1 DEF Instances
  <2>5. /\ items' \in Seq(Instances) /\ Len(items') = Len(items) + 1 /\ Len(items) \in Nat
        /\ \A i \in 1 .. Len(items) : items'[i] = items[i]
        /\ items'[Len(items) + 1] = item
    <3> HIDE DEF item
    <3> QED BY <2>2, <2>3, <2>4
  <2>6. item.kind = "function" /\ item.branches = s OBVIOUS
  <2> HIDE DEF item
  <2>7. Read("function")' = Read("function") \cup {item} BY <2>5, <2>6 DEF Read
  <2>8. AllTaken' <=> AllTaken /\ both BY <2>6, <2>7 DEF AllTaken
  <2>9. Counts' = new /\ DOMAIN index' \subseteq {Handler} BY <2>2, <2>3 DEF Counts
  <2>10. new.total = Counts.total + 2 * Len(s) /\ new.covered = Counts.covered + Sides(s) OBVIOUS
  <2>11. /\ Sides(s) \in Nat /\ Len(s) \in Nat /\ Sides(s) <= 2 * Len(s)
         /\ Sides(s) = 2 * Len(s) <=> both
    BY <2>1, SidesCounted
  <2> HIDE DEF new, both
  <2>12. /\ new.total \in Nat /\ new.covered \in Nat /\ new.covered <= new.total
         /\ new.covered = new.total <=> AllTaken /\ both
    BY <2>3, <2>10, <2>11
  <2> QED BY <2>5, <2>8, <2>9, <2>12 DEF WalkInv
<1>3. about' = about /\ (about # "branches" => FALSE)
  BY DEF WalkNext, ReadUse, ReadMod, ReadRoute, ReadMount, EnterNest, OuterNest, LeaveNest, ReadFunction,
         StartClimb, Climb, EndClimb, JoinCoverage, Reads, vars
<1>4. CASE LeaveNest \/ StartClimb \/ Climb \/ EndClimb \/ JoinCoverage \/ UNCHANGED vars
  BY <1>1, <1>4 DEF LeaveNest, StartClimb, Climb, EndClimb, JoinCoverage, vars
<1>5. about = "branches" BY <1>3
<1>6. ~ (\E u \in Uses, scope \in {"file", "fn"} : ReadUse(u, scope)) /\ ~ ReadMod
      /\ ~ EnterNest(<<"i">>) /\ ~ OuterNest(<<"i">>)
  BY <1>5 DEF ReadUse, ReadMod, EnterNest, OuterNest
<1>7. \A b, literal, ref, shape : ~ ReadRoute(b, literal, ref, shape) BY <1>5 DEF ReadRoute
<1>8. \A b, how, prefix, child : ~ ReadMount(b, how, prefix, child) BY <1>5 DEF ReadMount
<1> QED BY <1>2, <1>4, <1>6, <1>7, <1>8 DEF WalkNext

\* A handler counts as covered in full only if every side of every branch was taken.
LEMMA FullCoverage == WalkInv => FullMeansAll
BY DEF WalkInv, FullMeansAll, AllTaken, Counts

-----------------------------------------------------------------------------
(* The tally of the features.                                                  *)

\* The numbers of the crates, each told apart from those of the others.
Shares(f, C) == UNION {{d} \X (1 .. f[d]) : d \in C}

\* A crate that gets n more makes the whole n more.
LEMMA SharesGrow ==
    ASSUME NEW C, NEW f \in [C -> Nat], NEW d \in C, NEW n \in Nat, NEW g \in [C -> Nat],
           g[d] = f[d] + n, \A e \in C \ {d} : g[e] = f[e], IsFiniteSet(Shares(f, C))
    PROVE  /\ IsFiniteSet(Shares(g, C))
           /\ Cardinality(Shares(g, C)) = Cardinality(Shares(f, C)) + n
<1> DEFINE I == (f[d] + 1) .. (f[d] + n)
           More == {d} \X I
<1>1. f[d] \in Nat OBVIOUS
<1>2. IsFiniteSet(I) /\ Cardinality(I) = n
  <2>1. /\ IsFiniteSet(I)
        /\ Cardinality(I) = IF f[d] + 1 > f[d] + n THEN 0 ELSE (f[d] + n) - (f[d] + 1) + 1
    <3>1. f[d] + 1 \in Int /\ f[d] + n \in Int BY <1>1
    <3> QED BY <3>1, FS_Interval
  <2> HIDE DEF I
  <2> QED BY <1>1, <2>1
<1>3. IsFiniteSet({d}) /\ Cardinality({d}) = 1 BY FS_Singleton
<1>4. 1 .. g[d] = (1 .. f[d]) \cup I BY <1>1
<1>5. (1 .. f[d]) \cap I = {} BY <1>1
<1> HIDE DEF I
<1>6. IsFiniteSet(More) /\ Cardinality(More) = n
  <2>1. IsFiniteSet(More) /\ Cardinality(More) = Cardinality({d}) * Cardinality(I)
    BY <1>2, <1>3, FS_Product
  <2> HIDE DEF More
  <2> QED BY <1>2, <1>3, <2>1
<1>7. Shares(g, C) = Shares(f, C) \cup More
  <2>1. {d} \X (1 .. g[d]) = ({d} \X (1 .. f[d])) \cup More BY <1>4
  <2>2. \A e \in C \ {d} : {e} \X (1 .. g[e]) = {e} \X (1 .. f[e]) OBVIOUS
  <2>3. ASSUME NEW x PROVE x \in Shares(g, C) <=> x \in Shares(f, C) \/ x \in More
    <3>1. x \in Shares(g, C) <=> \E e \in C : x \in {e} \X (1 .. g[e]) BY DEF Shares
    <3>2. x \in Shares(f, C) <=> \E e \in C : x \in {e} \X (1 .. f[e]) BY DEF Shares
    <3> HIDE DEF More
    <3> QED BY <2>1, <2>2, <3>1, <3>2
  <2> HIDE DEF More
  <2> QED BY <2>3
<1>8. Shares(f, C) \cap More = {}
  <2> SUFFICES ASSUME NEW x \in Shares(f, C), x \in More PROVE FALSE
    OBVIOUS
  <2>1. PICK e \in C : x \in {e} \X (1 .. f[e]) BY DEF Shares
  <2>2. x[1] = e /\ x[2] \in 1 .. f[e] BY <2>1
  <2>3. x[1] = d /\ x[2] \in I OBVIOUS
  <2>4. x[2] \in (1 .. f[d]) \cap I BY <2>2, <2>3
  <2> QED BY <1>5, <2>4
<1> HIDE DEF More
<1>9. /\ IsFiniteSet(Shares(g, C))
      /\ Cardinality(Shares(g, C))
           = Cardinality(Shares(f, C))
               + Cardinality(More) - Cardinality(Shares(f, C) \cap More)
  <2>1. /\ IsFiniteSet(Shares(f, C) \cup More)
        /\ Cardinality(Shares(f, C) \cup More)
             = Cardinality(Shares(f, C))
               + Cardinality(More) - Cardinality(Shares(f, C) \cap More)
    BY <1>6, FS_Union
  <2> QED BY <1>7, <2>1
<1>10. Cardinality(Shares(f, C) \cap More) = 0 BY <1>8, FS_EmptySet
<1>11. Cardinality(Shares(f, C)) \in Nat BY FS_CardinalityType
<1> QED BY <1>6, <1>9, <1>10, <1>11

\* The scenarios that have a skip tag of their own.
Skipped(s) == {n \in 1 .. Len(s) : s[n] \cap SkipTags # {}}

\* They are finitely many.
LEMMA SkippedFinite ==
    ASSUME NEW s \in Seq(SUBSET Tags)
    PROVE  IsFiniteSet(Skipped(s)) /\ Cardinality(Skipped(s)) \in Nat
<1>1. IsFiniteSet(1 .. Len(s)) BY FS_Interval
<1>2. IsFiniteSet(Skipped(s)) BY <1>1, FS_Subset DEF Skipped
<1> QED BY <1>2, FS_CardinalityType

\* One more scenario is one more skipped exactly for a skip tag above it.
LEMMA SkippedAppend ==
    ASSUME NEW s \in Seq(SUBSET Tags), NEW x \in SUBSET Tags
    PROVE  Cardinality(Skipped(Append(s, x)))
             = Cardinality(Skipped(s)) + (IF x \cap SkipTags # {} THEN 1 ELSE 0)
<1>1. /\ Len(Append(s, x)) = Len(s) + 1
      /\ \A n \in 1 .. Len(s) : Append(s, x)[n] = s[n]
      /\ Append(s, x)[Len(s) + 1] = x
      /\ Len(s) \in Nat
  OBVIOUS
<1>2. IsFiniteSet(Skipped(s)) /\ Cardinality(Skipped(s)) \in Nat BY SkippedFinite
<1>3. Len(s) + 1 \notin Skipped(s) BY <1>1 DEF Skipped
<1>4. CASE x \cap SkipTags # {}
  <2>1. Skipped(Append(s, x)) = Skipped(s) \cup {Len(s) + 1} BY <1>1, <1>4 DEF Skipped
  <2>2. Cardinality(Skipped(s) \cup {Len(s) + 1}) = Cardinality(Skipped(s)) + 1
    BY <1>2, <1>3, FS_AddElement
  <2> QED BY <1>4, <2>1, <2>2
<1>5. CASE x \cap SkipTags = {}
  <2>1. Skipped(Append(s, x)) = Skipped(s) BY <1>1, <1>5 DEF Skipped
  <2> QED BY <1>2, <1>5, <2>1
<1> QED BY <1>4, <1>5

ParsedType ==
    /\ parsed.scenarios \in Nat /\ parsed.skipped \in Nat
    /\ parsed.gated \in BOOLEAN /\ parsed.tags \subseteq Tags
    /\ DOMAIN parsed = {"scenarios", "skipped", "gated", "tags", "byTag"}

Fields == {"features", "skippedFeatures", "scenarios", "skippedScenarios"}

\* While no tag strays, what waits is what stands above, and the counts are those of
\* the scenarios read.
ReadSoFar ==
    /\ pending \subseteq Tags /\ above \subseteq Tags /\ own \in Seq(SUBSET Tags)
    /\ ParsedType
    /\ ~ featureSeen => ~ parsed.gated
    /\ ~ stray => pending = above /\ parsed.scenarios = Len(own)
    /\ ~ stray /\ ~ parsed.gated => parsed.skipped = Cardinality(Skipped(own))

\* What the crates hold of a field.
Column(field) == [d \in Crates |-> perCrate[d][field]]

SumsAgree ==
    \A field \in Fields :
        /\ \A d \in Crates : perCrate[d][field] \in Nat
        /\ summary[field] \in Nat
        /\ IsFiniteSet(Shares(Column(field), Crates))
        /\ Cardinality(Shares(Column(field), Crates)) = summary[field]

TallyInv ==
    /\ crate \in Crates
    /\ DOMAIN perCrate = Crates
    /\ ReadSoFar
    /\ SumsAgree

USE DEF Fields

\* Before the first line everything is nothing.
LEMMA TallyInit == Tally!Init => TallyInv
<1> SUFFICES ASSUME Tally!Init PROVE TallyInv
  OBVIOUS
<1>1. crate \in Crates /\ DOMAIN perCrate = Crates BY DEF Tally!Init
<1>2. ReadSoFar
  <2>1. Skipped(<<>>) = {} BY DEF Skipped
  <2>2. Cardinality(Skipped(<<>>)) = 0 BY <2>1, FS_EmptySet
  <2>3. own = <<>> /\ pending = {} /\ above = {} /\ parsed = Tally!Unread BY DEF Tally!Init
  <2>4. ParsedType BY <2>3 DEF ParsedType, Tally!Unread
  <2>5. parsed.skipped = 0 /\ parsed.scenarios = 0 /\ ~ parsed.gated BY <2>3 DEF Tally!Unread
  <2> QED BY <2>2, <2>3, <2>4, <2>5 DEF ReadSoFar
<1>3. SumsAgree
  <2> SUFFICES ASSUME NEW field \in Fields
               PROVE  /\ \A d \in Crates : perCrate[d][field] \in Nat
                      /\ summary[field] \in Nat
                      /\ IsFiniteSet(Shares(Column(field), Crates))
                      /\ Cardinality(Shares(Column(field), Crates)) = summary[field]
    BY DEF SumsAgree
  <2>1. Tally!Nothing[field] = 0 BY DEF Tally!Nothing
  <2>2. \A d \in Crates : perCrate[d][field] = 0 BY <2>1 DEF Tally!Init
  <2>3. summary[field] = 0 BY <2>1 DEF Tally!Init
  <2>4. \A d \in Crates : Column(field)[d] = 0 BY <2>2 DEF Column
  <2>5. Shares(Column(field), Crates) = {} BY <2>4 DEF Shares
  <2> QED BY <2>2, <2>3, <2>5, FS_EmptySet
<1> QED BY <1>1, <1>2, <1>3 DEF TallyInv

\* Reading a line leaves the sums alone.
LEMMA SumsKept == ASSUME SumsAgree, UNCHANGED <<perCrate, summary>> PROVE SumsAgree'
BY DEF SumsAgree, Column

\* A line of any kind keeps the counts of the file right.
LEMMA ReadingKeeps ==
    ASSUME TallyInv,
           \/ \E tags \in SUBSET Tags \ {{}} : Tally!ReadTags(tags)
           \/ Tally!ReadFeature \/ Tally!ReadScenario \/ Tally!ReadBackground \/ Tally!ReadOther
    PROVE  TallyInv'
<1>1. UNCHANGED <<perCrate, summary, crate>>
  BY DEF Tally!ReadTags, Tally!ReadFeature, Tally!ReadScenario, Tally!ReadBackground,
     Tally!ReadOther
<1>2. SumsAgree' BY <1>1, SumsKept DEF TallyInv
<1> SUFFICES ReadSoFar' BY <1>1, <1>2 DEF TallyInv
<1> USE DEF TallyInv, ReadSoFar
<1>3. CASE \E tags \in SUBSET Tags \ {{}} : Tally!ReadTags(tags)
  <2>1. PICK tags \in SUBSET Tags \ {{}} : Tally!ReadTags(tags) BY <1>3
  <2>2. UNCHANGED <<parsed, own, stray, featureSeen>> /\ ParsedType'
    BY <2>1 DEF Tally!ReadTags, ParsedType
  <2> QED BY <2>1, <2>2 DEF Tally!ReadTags, Skipped
<1>4. CASE Tally!ReadFeature
  <2>1. own' = own /\ stray' = stray /\ pending' = {} /\ above' = {}
    BY <1>4 DEF Tally!ReadFeature
  <2>2. /\ ParsedType' /\ parsed'.scenarios = parsed.scenarios
        /\ parsed'.skipped = parsed.skipped
        /\ ~ parsed'.gated => ~ parsed.gated
        /\ featureSeen' = TRUE
    <3>1. CASE featureSeen BY <1>4, <3>1 DEF Tally!ReadFeature, ParsedType
    <3>2. CASE ~ featureSeen
      <4>1. parsed' = [parsed EXCEPT !.tags = pending, !.gated = pending \cap SkipTags # {}]
        BY <1>4, <3>2 DEF Tally!ReadFeature
      <4>2. parsed'.scenarios = parsed.scenarios /\ parsed'.skipped = parsed.skipped
            /\ parsed'.tags = pending /\ parsed'.gated \in BOOLEAN
            /\ DOMAIN parsed' = DOMAIN parsed
        BY <4>1, Zenon DEF ParsedType
      <4> QED BY <1>4, <3>2, <4>2 DEF Tally!ReadFeature, ParsedType
    <3> QED BY <3>1, <3>2
  <2>3. Cardinality(Skipped(own))' = Cardinality(Skipped(own)) BY <2>1 DEF Skipped
  <2> QED BY <2>1, <2>2, <2>3
<1>5. CASE Tally!ReadScenario
  <2>1. own' = Append(own, above) /\ stray' = stray /\ pending' = {} /\ above' = {}
        /\ parsed' = Tally!Tally(pending) /\ featureSeen' = featureSeen
    BY <1>5 DEF Tally!ReadScenario
  <2>2. /\ ParsedType'
        /\ parsed'.scenarios = parsed.scenarios + 1
        /\ parsed'.gated = parsed.gated
        /\ ~ parsed.gated => parsed'.skipped
             = parsed.skipped + (IF pending \cap SkipTags # {} THEN 1 ELSE 0)
    BY <2>1 DEF Tally!Tally, ParsedType
  <2>3. own' \in Seq(SUBSET Tags) /\ Len(own') = Len(own) + 1 BY <2>1
  <2>4. Cardinality(Skipped(own))' = Cardinality(Skipped(own'))
    BY DEF Skipped
  <2>5. Cardinality(Skipped(own'))
          = Cardinality(Skipped(own)) + (IF above \cap SkipTags # {} THEN 1 ELSE 0)
    BY <2>1, SkippedAppend
  <2> QED BY <2>1, <2>2, <2>3, <2>4, <2>5
<1>6. CASE Tally!ReadBackground
  <2>1. /\ UNCHANGED <<parsed, own, stray, featureSeen>>
        /\ ParsedType' /\ pending' = {} /\ above' = {}
    BY <1>6 DEF Tally!ReadBackground, ParsedType
  <2> QED BY <2>1 DEF Skipped
<1>7. CASE Tally!ReadOther
  <2>1. UNCHANGED <<parsed, own, pending, featureSeen>> /\ ParsedType' /\ above' = {}
        /\ stray' = (stray \/ above # {})
    BY <1>7 DEF Tally!ReadOther, ParsedType
  <2> QED BY <2>1 DEF Skipped
<1> QED BY <1>3, <1>4, <1>5, <1>6, <1>7

\* The end of a file adds the same to its crate as to the workspace.
LEMMA MergeAdds ==
    ASSUME TallyInv, Tally!MergeFile, NEW field \in Fields
    PROVE  \E n \in Nat :
              /\ perCrate'[crate][field] = perCrate[crate][field] + n
              /\ summary'[field] = summary[field] + n
<1> DEFINE n == CASE field = "features" -> 1
                  [] field = "skippedFeatures" -> IF parsed.gated THEN 1 ELSE 0
                  [] field = "scenarios" -> parsed.scenarios
                  [] field = "skippedScenarios" -> IF parsed.gated THEN 0 ELSE parsed.skipped
<1>1. n \in Nat BY DEF TallyInv, ReadSoFar, ParsedType
<1>2. ASSUME NEW acc PROVE Tally!Merged(acc)[field] = acc[field] + n
  <2>1. CASE field = "features" BY <2>1 DEF Tally!Merged
  <2>2. CASE field = "skippedFeatures" BY <2>2 DEF Tally!Merged
  <2>3. CASE field = "scenarios" BY <2>3 DEF Tally!Merged
  <2>4. CASE field = "skippedScenarios" BY <2>4 DEF Tally!Merged
  <2> QED BY <2>1, <2>2, <2>3, <2>4
<1> HIDE DEF n
<1>3. perCrate'[crate] = Tally!Merged(perCrate[crate]) /\ summary' = Tally!Merged(summary)
  BY DEF Tally!MergeFile, TallyInv
<1> QED BY <1>1, <1>2, <1>3

\* The end of a file keeps the sums equal.
LEMMA MergeKeeps == ASSUME TallyInv, Tally!MergeFile PROVE TallyInv'
<1>1. crate' \in Crates /\ DOMAIN perCrate' = Crates BY DEF Tally!MergeFile, TallyInv
<1>2. ReadSoFar'
  <2>1. Skipped(<<>>) = {} BY DEF Skipped
  <2>2. Cardinality(Skipped(<<>>)) = 0 BY <2>1, FS_EmptySet
  <2>3. own' = <<>> /\ pending' = {} /\ above' = {} /\ parsed' = Tally!Unread
    BY DEF Tally!MergeFile
  <2>4. ParsedType' BY <2>3 DEF ParsedType, Tally!Unread
  <2>5. parsed'.skipped = 0 /\ parsed'.scenarios = 0 /\ ~ parsed'.gated
    BY <2>3 DEF Tally!Unread
  <2>6. Cardinality(Skipped(own))' = Cardinality(Skipped(own')) BY DEF Skipped
  <2> QED BY <2>2, <2>3, <2>4, <2>5, <2>6 DEF ReadSoFar
<1>3. SumsAgree'
  <2> SUFFICES ASSUME NEW field \in Fields
               PROVE  /\ \A d \in Crates : perCrate'[d][field] \in Nat
                      /\ summary'[field] \in Nat
                      /\ IsFiniteSet(Shares(Column(field)', Crates))
                      /\ Cardinality(Shares(Column(field)', Crates)) = summary'[field]
    BY DEF SumsAgree, Shares
  <2>1. PICK n \in Nat : /\ perCrate'[crate][field] = perCrate[crate][field] + n
                         /\ summary'[field] = summary[field] + n
    BY MergeAdds
  <2>2. \A e \in Crates \ {crate} : perCrate'[e] = perCrate[e] BY DEF Tally!MergeFile, TallyInv
  <2>3. /\ \A d \in Crates : perCrate[d][field] \in Nat
        /\ summary[field] \in Nat
        /\ IsFiniteSet(Shares(Column(field), Crates))
        /\ Cardinality(Shares(Column(field), Crates)) = summary[field]
        /\ crate \in Crates
    BY DEF TallyInv, SumsAgree
  <2>4. \A d \in Crates : perCrate'[d][field] \in Nat BY <2>1, <2>2, <2>3
  <2>5. Column(field) \in [Crates -> Nat] /\ Column(field)' \in [Crates -> Nat]
    BY <2>3, <2>4 DEF Column
  <2>6. /\ Column(field)'[crate] = Column(field)[crate] + n
        /\ \A e \in Crates \ {crate} : Column(field)'[e] = Column(field)[e]
    BY <2>1, <2>2, <2>3 DEF Column
  <2>7. /\ IsFiniteSet(Shares(Column(field)', Crates))
        /\ Cardinality(Shares(Column(field)', Crates))
             = Cardinality(Shares(Column(field), Crates)) + n
    BY <2>3, <2>5, <2>6, SharesGrow
  <2> QED BY <2>1, <2>3, <2>4, <2>7
<1> QED BY <1>1, <1>2, <1>3 DEF TallyInv

\* Every step of the tally keeps them.
LEMMA TallyStep == TallyInv /\ [Tally!Next]_Tally!vars => TallyInv'
<1> SUFFICES ASSUME TallyInv, [Tally!Next]_Tally!vars PROVE TallyInv'
  OBVIOUS
<1>1. CASE UNCHANGED Tally!vars
  <2>1. SumsAgree' BY <1>1, SumsKept DEF TallyInv, Tally!vars
  <2>2. ReadSoFar' BY <1>1 DEF TallyInv, Tally!vars, ReadSoFar, ParsedType, Skipped
  <2> QED BY <1>1, <2>1, <2>2 DEF TallyInv, Tally!vars
<1>2. CASE Tally!MergeFile BY <1>2, MergeKeeps
<1> QED BY <1>1, <1>2, ReadingKeeps DEF Tally!Next

\* The sums and the skips are right in every state of the invariant.
LEMMA TallyRight == TallyInv => Tally!SkipsAreOwn /\ Tally!BreakoutsAddUp
<1> SUFFICES ASSUME TallyInv PROVE Tally!SkipsAreOwn /\ Tally!BreakoutsAddUp
  OBVIOUS
<1>1. Tally!SkipsAreOwn
  BY DEF TallyInv, ReadSoFar, Tally!SkipsAreOwn, Skipped, Tally!Cardinality, Cardinality
<1>2. ASSUME NEW field \in Fields PROVE Tally!Total(field) = summary[field]
  <2>1. \A d \in Crates : Column(field)[d] = perCrate[d][field] BY DEF Column
  <2>2. UNION {{d} \X (1 .. perCrate[d][field]) : d \in Crates} = Shares(Column(field), Crates)
    BY <2>1 DEF Shares
  <2> QED BY <2>2 DEF TallyInv, SumsAgree, Tally!Total, Tally!Cardinality, Cardinality
<1> QED BY <1>1, <1>2 DEF Tally!BreakoutsAddUp

-----------------------------------------------------------------------------
(* The verdict.                                                                *)

GivenOK ==
    /\ toml \in Card!Toml
    /\ DOMAIN measure = Card!Gates /\ \A g \in Card!Gates : measure[g] \in Card!MeasuresOf(g)
    /\ crap \in Card!Statuses \cup {Missing}

\* Nothing is published before the rename, and what is published is the card built from
\* what was given and usable limits.
PublishedOK ==
    /\ at \in {"gather", "write", "rename", "end", "killed"}
    /\ at \in {"gather", "write", "rename", "killed"} => out = Missing /\ status = Missing
    /\ at \in {"write", "rename"} => card = Card!Built /\ Card!ThresholdsUsable
    /\ at = "rename" => cardTmp = card
    /\ out # Missing => out = Card!Built /\ Card!ThresholdsUsable /\ status = 0
    /\ status \in {1, 2} => out = Missing

CardInv == GivenOK /\ PublishedOK

\* What the command is given has its type, and nothing is written yet.
LEMMA CardInit == ASSUME Card!NumbersAssumption, Card!Init PROVE CardInv
<1>1. toml \in Card!Toml /\ crap \in Card!Statuses \cup {Missing} BY DEF Card!Init
<1>2. PICK k \in Card!Gates, l \in Card!Gates :
          measure \in {[Card!Good EXCEPT ![k] = v, ![l] = w] :
                        v \in Card!MeasuresOf(k), w \in Card!MeasuresOf(l)}
  <2>1. CASE toml.kind = "set"
    <3>1. PICK s \in Card!Sections : toml = [kind |-> "set", section |-> s]
      BY <1>1, <2>1 DEF Card!Toml
    <3>2. PICK f \in Card!Gates :
              s \in [gate : {f}, warn : Card!LimitsOf(f),
                    fail : Card!LimitsOf(f), reportOnly : BOOLEAN]
      BY DEF Card!Sections
    <3>3. toml.section.gate \in Card!Gates BY <3>1, <3>2
    <3>4. measure \in Card!Measures({toml.section.gate}) BY <2>1 DEF Card!Init
    <3> QED BY <3>3, <3>4 DEF Card!Measures
  <2>2. CASE toml.kind # "set"
    <3>1. measure \in Card!Measures(Card!Gates) BY <2>2 DEF Card!Init
    <3> QED BY <3>1 DEF Card!Measures
  <2> QED BY <2>1, <2>2
<1>0. PICK v \in Card!MeasuresOf(k), w \in Card!MeasuresOf(l) :
          measure = [Card!Good EXCEPT ![k] = v, ![l] = w]
  BY <1>2
<1>3. DOMAIN measure = Card!Gates /\ \A x \in Card!Gates : measure[x] \in Card!MeasuresOf(x)
  <2>2. /\ DOMAIN Card!Good = Card!Gates
        /\ \A x \in Card!Gates : Card!Good[x] \in Card!MeasuresOf(x)
    BY DEF Card!Good, Card!MeasuresOf, Card!Gates, Card!NumbersAssumption
  <2>3. DOMAIN measure = Card!Gates BY <1>0, <2>2, Zenon
  <2>4. ASSUME NEW x \in Card!Gates PROVE measure[x] \in Card!MeasuresOf(x)
    <3>1. CASE x = l BY <1>0, <2>2, <3>1, Zenon
    <3>2. CASE x # l /\ x = k BY <1>0, <2>2, <3>2, Zenon
    <3>3. CASE x # l /\ x # k BY <1>0, <2>2, <3>3, Zenon
    <3> QED BY <3>1, <3>2, <3>3
  <2> QED BY <2>3, <2>4
<1>4. PublishedOK BY DEF Card!Init, PublishedOK, Card!NumbersAssumption
<1> QED BY <1>1, <1>3, <1>4 DEF CardInv, GivenOK

\* The card depends on nothing but what is given.
LEMMA GivenKept ==
    ASSUME UNCHANGED Card!given
    PROVE  /\ Card!Built' = Card!Built
           /\ Card!ThresholdsUsable' = Card!ThresholdsUsable
           /\ GivenOK => GivenOK'
<1>1. /\ toml' = toml /\ measure' = measure /\ crap' = crap /\ broken' = broken
  BY DEF Card!given
<1>2. Card!Config' = Card!Config BY <1>1 DEF Card!Config
<1>3. Card!Built' = Card!Built
  BY <1>1, <1>2 DEF Card!Built, Card!CoverageRow, Card!FeatureRow, Card!ScenarioRow,
     Card!ClockRow, Card!FlakyRow, Card!CrapRow
<1>4. Card!ThresholdsUsable' = Card!ThresholdsUsable
  BY <1>1, <1>2 DEF Card!ThresholdsUsable, Card!ValidConfig
<1> QED BY <1>1, <1>3, <1>4 DEF GivenOK

\* Every step keeps the output missing or earned.
LEMMA CardStep == ASSUME Card!NumbersAssumption, CardInv, [Card!Next]_Card!vars PROVE CardInv'
<1>1. UNCHANGED Card!given
  BY DEF Card!Next, Card!GatherFails, Card!Build, Card!WriteTmp, Card!WriteFails, Card!Rename,
     Card!Cancelled, Card!vars, Card!given
<1>2. GivenOK' /\ Card!Built' = Card!Built /\ Card!ThresholdsUsable' = Card!ThresholdsUsable
  BY <1>1, GivenKept DEF CardInv
<1> SUFFICES PublishedOK' BY <1>2 DEF CardInv
<1> USE <1>2 DEF CardInv, PublishedOK, Card!NumbersAssumption
<1>3. CASE Card!GatherFails BY <1>3 DEF Card!GatherFails, Card!Ends
<1>4. CASE Card!Build BY <1>4 DEF Card!Build
<1>5. CASE Card!WriteTmp BY <1>5 DEF Card!WriteTmp
<1>6. CASE Card!WriteFails BY <1>6 DEF Card!WriteFails, Card!Ends
<1>7. CASE Card!Rename BY <1>7 DEF Card!Rename, Card!Ends
<1>8. CASE Card!Cancelled BY <1>8 DEF Card!Cancelled
<1>9. CASE UNCHANGED Card!vars BY <1>9 DEF Card!vars
<1> QED BY <1>3, <1>4, <1>5, <1>6, <1>7, <1>8, <1>9 DEF Card!Next

\* A section and the limits of the others, as the command sees them.
LEMMA SectionOf ==
    ASSUME GivenOK, toml.kind = "set"
    PROVE  LET s == toml.section IN
           /\ s.gate \in Card!Gates
           /\ s.warn \in Card!LimitsOf(s.gate) /\ s.fail \in Card!LimitsOf(s.gate)
           /\ s.reportOnly \in BOOLEAN
           /\ Card!Config.reportOnly = s.reportOnly
           /\ \A g \in Card!Gates :
                 Card!Config[g] =
                IF g = s.gate THEN [warn |-> s.warn, fail |-> s.fail] ELSE Card!Fallback[g]
<1> DEFINE s == toml.section
<1>1. PICK r \in Card!Sections : toml = [kind |-> "set", section |-> r]
  BY DEF GivenOK, Card!Toml
<1>2. PICK k \in Card!Gates :
          r \in [gate : {k}, warn : Card!LimitsOf(k),
                fail : Card!LimitsOf(k), reportOnly : BOOLEAN]
  BY DEF Card!Sections
<1>3. s = r BY <1>1
<1>4. /\ s.gate \in Card!Gates
      /\ s.warn \in Card!LimitsOf(s.gate) /\ s.fail \in Card!LimitsOf(s.gate)
      /\ s.reportOnly \in BOOLEAN
  BY <1>2, <1>3
<1> DEFINE F == [Card!Fallback EXCEPT ![s.gate] = [warn |-> s.warn, fail |-> s.fail]]
<1>5. Card!Config = [F EXCEPT !.reportOnly = s.reportOnly] BY Zenon DEF Card!Config
<1>6. DOMAIN Card!Fallback = Card!Gates \cup {"reportOnly"} BY DEF Card!Fallback, Card!Gates
<1>7. DOMAIN F = Card!Gates \cup {"reportOnly"} BY <1>6
<1>8. \A g \in Card!Gates : F[g] =
                IF g = s.gate THEN [warn |-> s.warn, fail |-> s.fail] ELSE Card!Fallback[g]
  BY <1>6, Zenon
<1> HIDE DEF F
<1>9. Card!Config.reportOnly = s.reportOnly BY <1>5, <1>7
<1>10. \A g \in Card!Gates : g # "reportOnly" BY DEF Card!Gates
<1>11. \A g \in Card!Gates : Card!Config[g] = F[g] BY <1>5, <1>7, <1>10
<1> QED BY <1>4, <1>8, <1>9, <1>11

\* Usable limits are numbers, and in order.
Ordered(g) ==
    /\ Card!Config[g].warn \in Int /\ Card!Config[g].fail \in Int
    /\ g \in Card!Downwards => Card!Config[g].fail <= Card!Config[g].warn
    /\ g \notin Card!Downwards => Card!Config[g].warn <= Card!Config[g].fail

\* Limits that can be used are numbers in the order of their direction.
LEMMA LimitsOrdered ==
    ASSUME Card!NumbersAssumption, GivenOK, Card!ThresholdsUsable
    PROVE  /\ \A g \in Card!Gates : Ordered(g)
           /\ Card!Config.reportOnly \in BOOLEAN
           /\ toml.kind = "set" => NotFinite \notin {toml.section.warn, toml.section.fail}
           /\ toml.kind \in {"missing", "blank", "set"}
<1>1. CASE toml.kind # "set"
  <2>1. Card!Config = Card!Fallback BY <1>1 DEF Card!Config
  <2>2. \A g \in Card!Gates : Ordered(g)
    BY <2>1 DEF Ordered, Card!Fallback, Card!Gates, Card!Downwards
  <2> QED BY <1>1, <2>1, <2>2 DEF Card!ThresholdsUsable, Card!Fallback
<1>2. CASE toml.kind = "set"
  <2> DEFINE s == toml.section
  <2>1. /\ s.gate \in Card!Gates
        /\ s.warn \in Card!LimitsOf(s.gate) /\ s.fail \in Card!LimitsOf(s.gate)
        /\ s.reportOnly \in BOOLEAN /\ Card!Config.reportOnly = s.reportOnly
        /\ \A g \in Card!Gates :
              Card!Config[g] =
                IF g = s.gate THEN [warn |-> s.warn, fail |-> s.fail] ELSE Card!Fallback[g]
    BY <1>2, SectionOf
  <2>2. Card!ValidConfig BY <1>2 DEF Card!ThresholdsUsable
  <2> HIDE DEF s
  <2>3. \A g \in Card!Gates : Card!LimitsOf(g) \subseteq Int \cup {NotFinite}
    BY DEF Card!LimitsOf, Card!Gates, Card!NumbersAssumption
  <2>4. \A g \in Card!Gates : /\ Card!Config[g].warn \in Int \cup {NotFinite}
                              /\ Card!Config[g].fail \in Int \cup {NotFinite}
    BY <2>1, <2>3 DEF Card!Fallback, Card!Gates
  <2>5. \A g \in Card!Gates : Card!Finite(Card!Config[g])
    BY <2>2 DEF Card!ValidConfig, Card!ValidUpwards, Card!ValidDownwards, Card!ValidHandler,
       Card!Gates
  <2>6. \A g \in Card!Gates :
          IF g \in Card!Downwards THEN Card!Config[g].fail <= Card!Config[g].warn
                                 ELSE Card!Config[g].fail >= Card!Config[g].warn
    BY <2>2 DEF Card!ValidConfig, Card!ValidUpwards, Card!ValidDownwards, Card!ValidHandler,
       Card!Gates, Card!Downwards
  <2>7. \A g \in Card!Gates : Ordered(g) BY <2>4, <2>5, <2>6 DEF Ordered, Card!Finite
  <2>8. NotFinite \notin {s.warn, s.fail} BY <2>1, <2>5 DEF Card!Finite
  <2> QED BY <1>2, <2>1, <2>7, <2>8 DEF s
<1> QED BY <1>1, <1>2

\* What is published comes from limits that can be used.
LEMMA SilentNever ==
    ASSUME Card!NumbersAssumption, CardInv PROVE Card!NoSilentFallback
<1>1. status \in {1, 2} => out = Missing BY DEF CardInv, PublishedOK
<1>2. ASSUME out # Missing
      PROVE  /\ status = 0
             /\ toml.kind \in {"missing", "blank", "set"}
             /\ out.fallback = (toml.kind # "set")
             /\ toml.kind = "set" =>
                  LET t == toml.section IN
                  /\ NotFinite \notin {t.warn, t.fail}
                  /\ IF t.gate \in Card!Downwards THEN t.fail <= t.warn ELSE t.warn <= t.fail
  <2>1. out = Card!Built /\ Card!ThresholdsUsable /\ status = 0 /\ GivenOK
    BY <1>2 DEF CardInv, PublishedOK
  <2>2. out.fallback = (toml.kind # "set") BY <2>1 DEF Card!Built
  <2>3. /\ \A g \in Card!Gates : Ordered(g)
        /\ toml.kind = "set" => NotFinite \notin {toml.section.warn, toml.section.fail}
        /\ toml.kind \in {"missing", "blank", "set"}
    BY <2>1, LimitsOrdered
  <2>4. ASSUME toml.kind = "set"
        PROVE  IF toml.section.gate \in Card!Downwards
               THEN toml.section.fail <= toml.section.warn
               ELSE toml.section.warn <= toml.section.fail
    <3> DEFINE t == toml.section
    <3>1. t.gate \in Card!Gates /\ Card!Config[t.gate] = [warn |-> t.warn, fail |-> t.fail]
      BY <2>1, <2>4, SectionOf
    <3>2. Ordered(t.gate) BY <2>3, <3>1
    <3> QED BY <3>1, <3>2 DEF Ordered
  <2> QED BY <2>1, <2>2, <2>3, <2>4
<1> QED BY <1>1, <1>2 DEF Card!NoSilentFallback

\* The worse of two is red when one is, and green only when both are.
LEMMA WorstIs ==
    \A a, b \in Card!Statuses :
        /\ Card!WorstOf(a, b) \in Card!Statuses
        /\ Card!WorstOf(a, b) = "Red" <=> a = "Red" \/ b = "Red"
        /\ Card!WorstOf(a, b) = "Green" <=> a = "Green" /\ b = "Green"
BY DEF Card!Statuses, Card!Rank, Card!WorstOf

\* The status of a number counts the limits it has come up to.
LEMMA ResolveCounts ==
    ASSUME Card!NumbersAssumption, NEW g \in Card!Gates, NEW v \in Int, Ordered(g)
    PROVE  LET s == Card!Resolve(g, v, Card!Config[g]) IN
           /\ s \in Card!Statuses
           /\ s = "Red" <=> Card!Badness(g, v) = 2
           /\ s = "Yellow" <=> Card!Badness(g, v) = 1
<1> DEFINE P(l) == IF g \in Card!Downwards THEN ~ (v > Card!Config[g][l]) 
                                             ELSE ~ (v < Card!Config[g][l])
           S == {l \in {"warn", "fail"} : P(l)}
           s == Card!Resolve(g, v, Card!Config[g])
<1>1. Card!Badness(g, v) = Cardinality(S) BY DEF Card!Badness, Card!Cardinality, Cardinality
<1>2. Card!Reached(g, v, Card!Config[g].fail) <=> P("fail")
  BY DEF Card!Reached, Ordered, Card!NumbersAssumption
<1>3. Card!Reached(g, v, Card!Config[g].warn) <=> P("warn")
  BY DEF Card!Reached, Ordered, Card!NumbersAssumption
<1>4. P("fail") => P("warn") BY DEF Ordered
<1> HIDE DEF P
<1>5. CASE P("fail")
  <2>1. S = {"warn"} \cup {"fail"} BY <1>4, <1>5
  <2>2. IsFiniteSet({"warn"}) /\ Cardinality({"warn"}) = 1 BY FS_Singleton
  <2>3. Cardinality({"warn"} \cup {"fail"}) = 2 BY <2>2, FS_AddElement
  <2>4. s = "Red" BY <1>2, <1>5 DEF Card!Resolve
  <2>5. Cardinality(S) = 2 BY <2>1, <2>3
  <2> QED BY <1>1, <2>4, <2>5 DEF Card!Statuses
<1>6. CASE ~ P("fail") /\ P("warn")
  <2>1. S = {"warn"} BY <1>6
  <2>2. Cardinality({"warn"}) = 1 BY FS_Singleton
  <2>3. s = "Yellow" BY <1>2, <1>3, <1>6 DEF Card!Resolve
  <2>4. Cardinality(S) = 1 BY <2>1, <2>2
  <2> QED BY <1>1, <2>3, <2>4 DEF Card!Statuses
<1>7. CASE ~ P("fail") /\ ~ P("warn")
  <2>1. S = {} BY <1>7
  <2>2. Cardinality({}) = 0 BY FS_EmptySet
  <2>3. s = "Green" BY <1>2, <1>3, <1>7 DEF Card!Resolve
  <2>4. Cardinality(S) = 0 BY <2>1, <2>2
  <2> QED BY <1>1, <2>3, <2>4 DEF Card!Statuses
<1> QED BY <1>4, <1>5, <1>6, <1>7

\* The status of a gate: what its measure calls for, green where it is not enforced.
StatusOf(g) ==
    IF g \in Card!Enforced THEN Card!Resolve(g, measure[g], Card!Config[g]) ELSE "Green"

\* Each row has the status of its gate, the coverage row the worse of two.
LEMMA RowsAre ==
    ASSUME Card!NumbersAssumption, GivenOK, Card!ThresholdsUsable,
           toml.kind = "set" /\ toml.section.gate = "clock" => toml.section.warn > 0
    PROVE  /\ \A g \in Card!Gates : StatusOf(g) \in Card!Statuses
           /\ Card!CoverageRow \in Card!Statuses
           /\ Card!CoverageRow = "Red"
                <=> StatusOf("coverage") = "Red" \/ StatusOf("handler") = "Red"
           /\ Card!CoverageRow = "Green"
                <=> StatusOf("coverage") = "Green" /\ StatusOf("handler") = "Green"
           /\ Card!FeatureRow = StatusOf("features") /\ Card!ScenarioRow = StatusOf("scenarios")
           /\ Card!ClockRow = StatusOf("clock") /\ Card!FlakyRow = StatusOf("flaky")
<1>1. \A g \in Card!Gates : Ordered(g) BY LimitsOrdered
<1>2. \A g \in Card!Gates : measure[g] # Missing => measure[g] \in Int
  BY DEF GivenOK, Card!MeasuresOf, Card!Gates, Card!NumbersAssumption
<1>3. \A g \in Card!Gates : StatusOf(g) \in Card!Statuses
  <2> SUFFICES ASSUME NEW g \in Card!Gates PROVE StatusOf(g) \in Card!Statuses
    OBVIOUS
  <2>1. CASE g \in Card!Enforced
    <3>1. measure[g] \in Int BY <1>2, <2>1 DEF Card!Enforced
    <3> QED BY <1>1, <2>1, <3>1, ResolveCounts DEF StatusOf
  <2> QED BY <2>1 DEF StatusOf, Card!Statuses
<1>4. \A g \in {"coverage", "features", "scenarios", "flaky"} : g \in Card!Enforced
  <2>1. \A g \in {"coverage", "features", "scenarios", "flaky"} :
          Card!MeasuresOf(g) \subseteq Int
    BY DEF Card!MeasuresOf, Card!NumbersAssumption
  <2> QED BY <2>1 DEF Card!Enforced, GivenOK, Card!Gates, Card!NumbersAssumption
<1>5. Card!FeatureRow = StatusOf("features") BY <1>4 DEF Card!FeatureRow, StatusOf
<1>6. Card!ScenarioRow = StatusOf("scenarios") BY <1>4 DEF Card!ScenarioRow, StatusOf
<1>7. Card!FlakyRow = StatusOf("flaky") BY <1>4 DEF Card!FlakyRow, StatusOf
<1>8. Card!ClockRow = StatusOf("clock")
  <2>1. CASE measure.clock # Missing
    <3>1. "clock" \in Card!Enforced BY <2>1 DEF Card!Enforced, Card!Gates
    <3> QED BY <2>1, <3>1 DEF Card!ClockRow, StatusOf
  <2>2. CASE measure.clock = Missing
    <3>1. "clock" \notin Card!Enforced BY <2>2 DEF Card!Enforced
    <3>2. Card!Config["clock"].warn > 0
      <4>1. CASE toml.kind = "set" /\ toml.section.gate = "clock"
        <5>1. Card!Config["clock"] = [warn |-> toml.section.warn, fail |-> toml.section.fail]
          BY <4>1, SectionOf DEF Card!Gates
        <5> QED BY <4>1, <5>1
      <4>2. CASE toml.kind = "set" /\ toml.section.gate # "clock"
        <5>1. Card!Config["clock"] = Card!Fallback["clock"] BY <4>2, SectionOf DEF Card!Gates
        <5> QED BY <5>1 DEF Card!Fallback
      <4>3. CASE toml.kind # "set" BY <4>3 DEF Card!Config, Card!Fallback
      <4> QED BY <4>1, <4>2, <4>3
    <3>3. Ordered("clock") /\ "clock" \notin Card!Downwards
      BY <1>1 DEF Card!Gates, Card!Downwards
    <3>4. Card!Resolve("clock", 0, Card!Config["clock"]) = "Green"
      BY <3>2, <3>3 DEF Card!Resolve, Card!Reached, Ordered
    <3> QED BY <2>2, <3>1, <3>4 DEF Card!ClockRow, StatusOf
  <2> QED BY <2>1, <2>2
<1>9. /\ Card!CoverageRow \in Card!Statuses
      /\ Card!CoverageRow = "Red" <=> StatusOf("coverage") = "Red" \/ StatusOf("handler") = "Red"
      /\ Card!CoverageRow = "Green"
           <=> StatusOf("coverage") = "Green" /\ StatusOf("handler") = "Green"
  <2> DEFINE delta == Card!Resolve("coverage", measure.coverage, Card!Config.coverage)
             handlers == IF measure.handler = Missing THEN "Green"
                         ELSE Card!Resolve("handler", measure.handler, Card!Config.handler)
  <2>1. Card!CoverageRow =
          IF Card!Config.reportOnly THEN delta ELSE Card!WorstOf(delta, handlers)
    BY DEF Card!CoverageRow
  <2>2. delta = StatusOf("coverage") BY <1>4 DEF StatusOf
  <2>3. StatusOf("coverage") \in Card!Statuses /\ StatusOf("handler") \in Card!Statuses
    BY <1>3 DEF Card!Gates
  <2>4. "handler" \in Card!Enforced <=> measure.handler # Missing /\ ~ Card!Config.reportOnly
    BY DEF Card!Enforced, Card!Gates
  <2>5. Card!Config.reportOnly => StatusOf("handler") = "Green" BY <2>4 DEF StatusOf
  <2>6. ~ Card!Config.reportOnly => handlers = StatusOf("handler") BY <2>4 DEF StatusOf
  <2>7. Card!Config.reportOnly \in BOOLEAN BY LimitsOrdered
  <2> HIDE DEF delta, handlers
  <2>8. CASE Card!Config.reportOnly BY <2>1, <2>2, <2>3, <2>5, <2>8
  <2>9. CASE ~ Card!Config.reportOnly
    <3>1. Card!CoverageRow = Card!WorstOf(StatusOf("coverage"), StatusOf("handler"))
      BY <2>1, <2>2, <2>6, <2>9
    <3> QED BY <2>3, <3>1, WorstIs
  <2> QED BY <2>7, <2>8, <2>9
<1> QED BY <1>3, <1>5, <1>6, <1>7, <1>8, <1>9

\* The published verdict is the worst status of the enforced gates and the producer.
LEMMA EarnedVerdict ==
    ASSUME Card!NumbersAssumption, CardInv PROVE Card!VerdictEarned
<1> SUFFICES ASSUME out # Missing,
                    toml.kind = "set" /\ toml.section.gate = "clock" => toml.section.warn > 0
             PROVE  out.overall
                      = IF \/ {g \in Card!Enforced : Card!Badness(g, measure[g]) = 2} # {}
                           \/ crap = "Red"
                        THEN "Red"
                        ELSE IF \/ {g \in Card!Enforced : Card!Badness(g, measure[g]) = 1} # {}
                                \/ crap = "Yellow"
                             THEN "Yellow" ELSE "Green"
  BY DEF Card!VerdictEarned
<1>1. out = Card!Built /\ Card!ThresholdsUsable /\ GivenOK BY DEF CardInv, PublishedOK
<1>2. /\ \A g \in Card!Gates : StatusOf(g) \in Card!Statuses
      /\ Card!CoverageRow \in Card!Statuses
      /\ Card!CoverageRow = "Red" <=> StatusOf("coverage") = "Red" \/ StatusOf("handler") = "Red"
      /\ Card!CoverageRow = "Green"
           <=> StatusOf("coverage") = "Green" /\ StatusOf("handler") = "Green"
      /\ Card!FeatureRow = StatusOf("features") /\ Card!ScenarioRow = StatusOf("scenarios")
      /\ Card!ClockRow = StatusOf("clock") /\ Card!FlakyRow = StatusOf("flaky")
  BY <1>1, RowsAre
<1>3. /\ Card!FeatureRow \in Card!Statuses /\ Card!ScenarioRow \in Card!Statuses
      /\ Card!ClockRow \in Card!Statuses /\ Card!FlakyRow \in Card!Statuses
  BY <1>2 DEF Card!Gates
<1>4. /\ Card!CrapRow \in Card!Statuses
      /\ Card!CrapRow = "Red" <=> crap = "Red"
      /\ Card!CrapRow = "Yellow" <=> crap = "Yellow"
  BY <1>1 DEF Card!CrapRow, GivenOK, Card!Statuses, Card!NumbersAssumption
<1>5. out.overall =
        Card!WorstOf(Card!WorstOf(Card!WorstOf(Card!CoverageRow, Card!FeatureRow),
                                  Card!WorstOf(Card!ScenarioRow, Card!ClockRow)),
                     Card!WorstOf(Card!FlakyRow, Card!CrapRow))
  BY <1>1 DEF Card!Built
<1> DEFINE a == Card!WorstOf(Card!CoverageRow, Card!FeatureRow)
           b == Card!WorstOf(Card!ScenarioRow, Card!ClockRow)
           d == Card!WorstOf(Card!FlakyRow, Card!CrapRow)
           e == Card!WorstOf(a, b)
<1>6. /\ a \in Card!Statuses
      /\ a = "Red" <=> Card!CoverageRow = "Red" \/ Card!FeatureRow = "Red"
      /\ a = "Green" <=> Card!CoverageRow = "Green" /\ Card!FeatureRow = "Green"
  BY <1>2, <1>3, WorstIs
<1>7. /\ b \in Card!Statuses
      /\ b = "Red" <=> Card!ScenarioRow = "Red" \/ Card!ClockRow = "Red"
      /\ b = "Green" <=> Card!ScenarioRow = "Green" /\ Card!ClockRow = "Green"
  BY <1>3, WorstIs
<1>8. /\ d \in Card!Statuses
      /\ d = "Red" <=> Card!FlakyRow = "Red" \/ Card!CrapRow = "Red"
      /\ d = "Green" <=> Card!FlakyRow = "Green" /\ Card!CrapRow = "Green"
  BY <1>3, <1>4, WorstIs
<1>9. out.overall = Card!WorstOf(e, d) BY <1>5
<1> HIDE DEF a, b, d
<1>10. e \in Card!Statuses /\ (e = "Red" <=> a = "Red" \/ b = "Red")
       /\ (e = "Green" <=> a = "Green" /\ b = "Green")
  BY <1>6, <1>7, WorstIs
<1> HIDE DEF e
<1>11. /\ out.overall \in Card!Statuses
       /\ out.overall = "Red" <=> e = "Red" \/ d = "Red"
       /\ out.overall = "Green" <=> e = "Green" /\ d = "Green"
  BY <1>8, <1>9, <1>10, WorstIs
<1>12. /\ out.overall = "Red"
            <=> (\E g \in Card!Gates : StatusOf(g) = "Red") \/ Card!CrapRow = "Red"
       /\ out.overall = "Green"
            <=> (\A g \in Card!Gates : StatusOf(g) = "Green") /\ Card!CrapRow = "Green"
  BY <1>2, <1>6, <1>7, <1>8, <1>10, <1>11 DEF Card!Gates
<1>13. \A g \in Card!Enforced :
          /\ StatusOf(g) = "Red" <=> Card!Badness(g, measure[g]) = 2
          /\ StatusOf(g) = "Yellow" <=> Card!Badness(g, measure[g]) = 1
  <2> SUFFICES ASSUME NEW g \in Card!Enforced
               PROVE  /\ StatusOf(g) = "Red" <=> Card!Badness(g, measure[g]) = 2
                      /\ StatusOf(g) = "Yellow" <=> Card!Badness(g, measure[g]) = 1
    OBVIOUS
  <2>1. g \in Card!Gates /\ measure[g] # Missing BY DEF Card!Enforced
  <2>2. measure[g] \in Int
    BY <1>1, <2>1 DEF GivenOK, Card!MeasuresOf, Card!Gates, Card!NumbersAssumption
  <2>3. Ordered(g) BY <1>1, <2>1, LimitsOrdered
  <2> QED BY <2>1, <2>2, <2>3, ResolveCounts DEF StatusOf
<1>14. \A g \in Card!Gates \ Card!Enforced : StatusOf(g) = "Green" BY DEF StatusOf
<1>15. Card!Enforced \subseteq Card!Gates BY DEF Card!Enforced
<1>16. {g \in Card!Enforced : Card!Badness(g, measure[g]) = 2} # {}
         <=> \E g \in Card!Gates : StatusOf(g) = "Red"
  <2>1. (\E g \in Card!Enforced : Card!Badness(g, measure[g]) = 2)
          <=> \E g \in Card!Gates : StatusOf(g) = "Red"
    BY <1>13, <1>14, <1>15
  <2> QED BY <2>1
<1>17. {g \in Card!Enforced : Card!Badness(g, measure[g]) = 1} # {}
         <=> \E g \in Card!Gates : StatusOf(g) = "Yellow"
  <2>1. (\E g \in Card!Enforced : Card!Badness(g, measure[g]) = 1)
          <=> \E g \in Card!Gates : StatusOf(g) = "Yellow"
    BY <1>13, <1>14, <1>15
  <2> QED BY <2>1
<1>18. CASE (\E g \in Card!Gates : StatusOf(g) = "Red") \/ crap = "Red"
  BY <1>4, <1>12, <1>16, <1>18
<1>19. CASE ~ ((\E g \in Card!Gates : StatusOf(g) = "Red") \/ crap = "Red")
  <2>1. out.overall # "Red" BY <1>4, <1>12, <1>19
  <2>2. out.overall = "Green"
          <=> ~ ((\E g \in Card!Gates : StatusOf(g) = "Yellow") \/ crap = "Yellow")
    BY <1>2, <1>4, <1>12, <1>19 DEF Card!Statuses
  <2> QED BY <1>11, <1>16, <1>17, <1>19, <2>1, <2>2 DEF Card!Statuses
<1> QED BY <1>18, <1>19

-----------------------------------------------------------------------------
(* The schema.                                                                 *)

Places == {"scorecard", "quality", "out"}
TargetNames == {"scorecard", "quality", "both"}

\* How many arguments have been read, and which.
ReadCount == Len(asked) - Len(args)
WasRead(a) == \E i \in 1 .. ReadCount : asked[i] = a

\* What is left to read is the end of what was given.
ArgsOK ==
    /\ asked \in Seq(Schema!Arguments) /\ args \in Seq(Schema!Arguments)
    /\ Len(args) <= Len(asked)
    /\ \A j \in 1 .. Len(args) : args[j] = asked[ReadCount + j]

\* Of what was read, the last target and the place are kept.
ReadingOK ==
    turn = "args" =>
      /\ outGiven <=> WasRead("out")
      /\ target = "none" \/ (target \in TargetNames /\ WasRead(target))
      /\ target = "none" => \A t \in TargetNames : ~ WasRead(t)
      /\ ~ WasRead("help") /\ ~ WasRead("wrong")

\* Once decided, there is something to write, and not two things to one place.
DecidedOK ==
    turn \in {"render", "write", "quality"} =>
      /\ target \in TargetNames
      /\ outGiven <=> Schema!Wanted("out")
      /\ outGiven => target # "both"
      /\ Schema!Wanted("out")
           /\ (\A t \in TargetNames : ~ Schema!Wanted(t)) => target = "scorecard"
      /\ turn \in {"render", "write"} => target # "quality"

Ruled == rules = [k \in Schema!Kinds |-> {"red", "xss", "url"}]

\* What is on disk, step by step; the schema of the scorecard never without its rules.
DiskOK ==
    /\ DOMAIN disk = Places
    /\ (\E f \in Places : disk[f] = "scorecard") => Ruled
    /\ turn = "write" => Ruled
    /\ turn \in {"args", "render", "write"} \/ code \in {"usage", "panic"} =>
         \A f \in Places : disk[f] = "old"
    /\ turn = "quality" =>
         /\ disk["quality"] = "old" /\ disk["out"] = "old"
         /\ disk["scorecard"] = IF target = "both" THEN "scorecard" ELSE "old"
         /\ target # "scorecard"

SchemaInv ==
    /\ turn \in {"args", "render", "write", "quality", "over"}
    /\ turn # "over" => code = "none"
    /\ outGiven \in BOOLEAN
    /\ ArgsOK /\ ReadingOK /\ DecidedOK /\ DiskOK
    /\ Schema!AskedWritten

\* Before the first argument nothing is read and nothing written.
LEMMA SchemaInit == ASSUME MaxArgs \in Nat, Schema!Init PROVE SchemaInv
<1>1. PICK n \in 0 .. MaxArgs : asked \in [1 .. n -> Schema!Arguments] BY DEF Schema!Init
<1>2. asked \in Seq(Schema!Arguments) BY <1>1
<1>3. args = asked BY DEF Schema!Init
<1>4. ArgsOK BY <1>2, <1>3 DEF ArgsOK, ReadCount
<1>5. ReadCount = 0 BY <1>2, <1>3 DEF ReadCount
<1>6. \A a : ~ WasRead(a) BY <1>5 DEF WasRead
<1>7. ReadingOK /\ DecidedOK BY <1>6 DEF ReadingOK, DecidedOK, Schema!Init
<1>8. DiskOK BY DEF DiskOK, Schema!Init, Places
<1>9. Schema!AskedWritten BY DEF Schema!AskedWritten, Schema!Init
<1> QED BY <1>4, <1>7, <1>8, <1>9 DEF SchemaInv, Schema!Init

\* One argument further.
LEMMA OneMore ==
    ASSUME ArgsOK, args # <<>>, args' = Tail(args), asked' = asked
    PROVE  /\ ArgsOK'
           /\ \A a : WasRead(a)' <=> WasRead(a) \/ a = Head(args)
           /\ Head(args) \in Schema!Arguments
<1>1. /\ args \in Seq(Schema!Arguments) /\ asked \in Seq(Schema!Arguments)
      /\ Len(args) \in Nat \ {0} /\ Len(asked) \in Nat /\ Len(args) <= Len(asked)
  BY DEF ArgsOK
<1>2. /\ Tail(args) \in Seq(Schema!Arguments) /\ Len(Tail(args)) = Len(args) - 1
      /\ \A j \in 1 .. Len(Tail(args)) : Tail(args)[j] = args[j + 1]
      /\ Head(args) = args[1] /\ args[1] \in Schema!Arguments
  BY <1>1
<1>3. ReadCount' = ReadCount + 1 /\ ReadCount \in Nat BY <1>1, <1>2 DEF ReadCount
<1>4. args[1] = asked[ReadCount + 1] BY <1>1 DEF ArgsOK
<1>5. \A j \in 1 .. Len(args') : args'[j] = asked'[ReadCount' + j]
  <2> SUFFICES ASSUME NEW j \in 1 .. Len(Tail(args))
               PROVE  Tail(args)[j] = asked[ReadCount + 1 + j]
    BY <1>3
  <2>1. Tail(args)[j] = args[j + 1] BY <1>2
  <2>2. j + 1 \in 1 .. Len(args) BY <1>1, <1>2
  <2>3. args[j + 1] = asked[ReadCount + (j + 1)] BY <2>2 DEF ArgsOK
  <2>4. ReadCount + (j + 1) = ReadCount + 1 + j BY <1>3
  <2> QED BY <2>1, <2>3, <2>4
<1>6. ArgsOK' BY <1>1, <1>2, <1>5 DEF ArgsOK
<1>7. ASSUME NEW a PROVE WasRead(a)' <=> WasRead(a) \/ a = Head(args)
  <2>1. WasRead(a)' <=> \E i \in 1 .. ReadCount + 1 : asked[i] = a BY <1>3 DEF WasRead
  <2>2. 1 .. ReadCount + 1 = (1 .. ReadCount) \cup {ReadCount + 1} BY <1>3
  <2> QED BY <1>2, <1>4, <2>1, <2>2 DEF WasRead
<1> QED BY <1>2, <1>6, <1>7

\* All read: what was read is what was wanted.
LEMMA AllRead ==
    ASSUME ArgsOK, args = <<>> PROVE \A a : WasRead(a) <=> Schema!Wanted(a)
<1>1. ReadCount = Len(asked) /\ DOMAIN asked = 1 .. Len(asked) BY DEF ArgsOK, ReadCount
<1> QED BY <1>1 DEF WasRead, Schema!Wanted

\* Every step of emit-schema keeps what is on disk in line with what was asked.
LEMMA SchemaStep == SchemaInv /\ [Schema!Next]_Schema!vars => SchemaInv'
<1> SUFFICES ASSUME SchemaInv, [Schema!Next]_Schema!vars PROVE SchemaInv'
  OBVIOUS
<1> USE DEF SchemaInv
<1>1. asked' = asked
  BY DEF Schema!Next, Schema!ReadArg, Schema!Decide, Schema!Render, Schema!Write,
     Schema!WriteQuality, Schema!WriteFails, Schema!vars
<1>2. \A a : Schema!Wanted(a)' <=> Schema!Wanted(a) BY <1>1 DEF Schema!Wanted
<1>3. CASE Schema!ReadArg
  <2>1. /\ turn = "args" /\ args # <<>> /\ args' = Tail(args) /\ disk' = disk /\ rules' = rules
    BY <1>3 DEF Schema!ReadArg
  <2>2. /\ ArgsOK' /\ Head(args) \in Schema!Arguments
        /\ \A a : WasRead(a)' <=> WasRead(a) \/ a = Head(args)
    BY <1>1, <2>1, OneMore
  <2>3. \A f \in Places : disk[f] = "old" BY <2>1 DEF DiskOK
  <2>4. code = "none" BY <2>1
  <2>5. Schema!Written' = {} BY <2>1, <2>3 DEF Schema!Written, DiskOK
  <2>6. CASE Head(args) = "out"
    <3>1. outGiven' = TRUE /\ UNCHANGED <<turn, target, code>> BY <1>3, <2>6 DEF Schema!ReadArg
    <3>2. ReadingOK' BY <2>1, <2>2, <2>6, <3>1 DEF ReadingOK, TargetNames
    <3>3. DecidedOK' /\ DiskOK' BY <2>1, <2>4, <3>1 DEF DecidedOK, DiskOK, Ruled
    <3>4. Schema!AskedWritten' BY <2>4, <3>1 DEF Schema!AskedWritten
    <3> QED BY <2>1, <2>2, <3>1, <3>2, <3>3, <3>4
  <2>7. CASE Head(args) = "help"
    <3>1. turn' = "over" /\ code' = "ok" /\ UNCHANGED <<target, outGiven>>
      BY <1>3, <2>7 DEF Schema!ReadArg, Schema!Ends
    <3>2. ReadingOK' /\ DecidedOK' BY <3>1 DEF ReadingOK, DecidedOK
    <3>3. DiskOK' BY <2>1, <3>1 DEF DiskOK, Ruled
    <3>4. Schema!Wanted("help")
      <4>1. Head(args) = args[1] /\ Len(args) >= 1 /\ Len(args) <= Len(asked)
            /\ Len(args) \in Nat /\ Len(asked) \in Nat /\ DOMAIN asked = 1 .. Len(asked)
        BY <2>1 DEF ArgsOK
      <4>2. args[1] = asked[ReadCount + 1] BY <4>1 DEF ArgsOK
      <4>3. ReadCount + 1 \in 1 .. Len(asked) BY <4>1 DEF ReadCount
      <4> QED BY <2>7, <4>1, <4>2, <4>3 DEF Schema!Wanted
    <3>5. Schema!AskedWritten' BY <1>2, <3>1, <3>4 DEF Schema!AskedWritten
    <3> QED BY <2>2, <3>1, <3>2, <3>3, <3>5
  <2>8. CASE Head(args) = "wrong"
    <3>1. turn' = "over" /\ code' = "usage" /\ UNCHANGED <<target, outGiven>>
      BY <1>3, <2>8 DEF Schema!ReadArg, Schema!Ends
    <3>2. ReadingOK' /\ DecidedOK' BY <3>1 DEF ReadingOK, DecidedOK
    <3>3. DiskOK' BY <2>1, <2>3, <3>1 DEF DiskOK, Ruled
    <3>5. Schema!AskedWritten' BY <2>5, <3>1 DEF Schema!AskedWritten
    <3> QED BY <2>2, <3>1, <3>2, <3>3, <3>5
  <2>9. CASE Head(args) \in TargetNames
    <3>0. Head(args) \notin {"out", "help", "wrong"} BY <2>9 DEF TargetNames
    <3>1. target' = Head(args) /\ UNCHANGED <<turn, outGiven, code>>
      BY <1>3, <2>1, <3>0 DEF Schema!ReadArg
    <3>2. ReadingOK' BY <2>1, <2>2, <2>9, <3>0, <3>1 DEF ReadingOK, TargetNames
    <3>3. DecidedOK' /\ DiskOK' BY <2>1, <2>4, <3>1 DEF DecidedOK, DiskOK, Ruled
    <3>4. Schema!AskedWritten' BY <2>4, <3>1 DEF Schema!AskedWritten
    <3> QED BY <2>1, <2>2, <3>1, <3>2, <3>3, <3>4
  <2> QED BY <2>2, <2>6, <2>7, <2>8, <2>9 DEF Schema!Arguments, TargetNames
<1>4. CASE Schema!Decide
  <2>1. /\ turn = "args" /\ args = <<>> /\ target' = Schema!Decided
        /\ UNCHANGED <<args, outGiven, rules, disk>>
    BY <1>4 DEF Schema!Decide
  <2>2. \A a : WasRead(a) <=> Schema!Wanted(a) BY <2>1, AllRead
  <2>3. ArgsOK' BY <1>1, <2>1 DEF ArgsOK, ReadCount
  <2>4. \A f \in Places : disk[f] = "old" BY <2>1 DEF DiskOK
  <2>5. Schema!Written' = {} BY <2>1, <2>4 DEF Schema!Written, DiskOK
  <2>6. Schema!Decided \in TargetNames BY <2>1 DEF Schema!Decided, ReadingOK, TargetNames
  <2>7. CASE Schema!Decided = "both" /\ outGiven
    <3>1. turn' = "over" /\ code' = "usage" BY <1>4, <2>7 DEF Schema!Decide, Schema!Ends
    <3>2. ReadingOK' /\ DecidedOK' BY <3>1 DEF ReadingOK, DecidedOK
    <3>3. DiskOK' BY <2>1, <2>4, <3>1 DEF DiskOK, Ruled
    <3>4. Schema!AskedWritten' BY <2>5, <3>1 DEF Schema!AskedWritten
    <3> QED BY <2>1, <2>3, <3>1, <3>2, <3>3, <3>4
  <2>8. CASE ~ (Schema!Decided = "both" /\ outGiven)
    <3>1. /\ turn' = (IF Schema!Decided = "quality" THEN "quality" ELSE "render")
          /\ code' = code /\ code = "none"
      BY <1>4, <2>1, <2>8 DEF Schema!Decide
    <3>2. ReadingOK' BY <3>1 DEF ReadingOK
    <3>3. DecidedOK'
      <4>1. /\ outGiven <=> Schema!Wanted("out")
            /\ target = "none" => \A t \in TargetNames : ~ Schema!Wanted(t)
            /\ target \in TargetNames => Schema!Wanted(target)
            /\ target = "none" \/ target \in TargetNames
        BY <2>1, <2>2 DEF ReadingOK, TargetNames
      <4>2. outGiven => Schema!Decided # "both" BY <2>8
      <4>3. Schema!Wanted("out")
            /\ (\A t \in TargetNames : ~ Schema!Wanted(t)) => Schema!Decided = "scorecard"
        BY <4>1 DEF Schema!Decided
      <4> QED BY <1>2, <2>1, <2>6, <3>1, <4>1, <4>2, <4>3 DEF DecidedOK
    <3>4. DiskOK' BY <2>1, <2>4, <3>1 DEF DiskOK, Ruled, Places
    <3>5. Schema!AskedWritten' BY <3>1 DEF Schema!AskedWritten
    <3> QED BY <2>1, <2>3, <3>1, <3>2, <3>3, <3>4, <3>5
  <2> QED BY <2>7, <2>8
<1>5. CASE Schema!Render
  <2>1. turn = "render" /\ UNCHANGED <<args, target, outGiven, disk>> BY <1>5 DEF Schema!Render
  <2>2. ArgsOK' BY <1>1, <2>1 DEF ArgsOK, ReadCount
  <2>3. \A f \in Places : disk[f] = "old" BY <2>1 DEF DiskOK
  <2>4. Schema!Written' = {} BY <2>1, <2>3 DEF Schema!Written, DiskOK
  <2>5. CASE Schema!RedRequiresDetail /\ Schema!XssPattern /\ urls
    <3>1. Ruled' /\ turn' = "write" /\ code' = code /\ code = "none"
      BY <1>5, <2>1, <2>5 DEF Schema!Render, Ruled
    <3>2. ReadingOK' /\ DecidedOK' BY <1>2, <2>1, <3>1 DEF ReadingOK, DecidedOK
    <3>3. DiskOK' BY <2>1, <2>3, <3>1 DEF DiskOK
    <3>4. Schema!AskedWritten' BY <3>1 DEF Schema!AskedWritten
    <3> QED BY <2>1, <2>2, <3>1, <3>2, <3>3, <3>4
  <2>6. CASE ~ (Schema!RedRequiresDetail /\ Schema!XssPattern /\ urls)
    <3>1. turn' = "over" /\ code' = "panic" /\ rules' = rules
      BY <1>5, <2>6 DEF Schema!Render, Schema!Ends
    <3>2. ReadingOK' /\ DecidedOK' BY <3>1 DEF ReadingOK, DecidedOK
    <3>3. DiskOK' BY <2>1, <2>3, <3>1 DEF DiskOK, Ruled
    <3>4. Schema!AskedWritten' BY <2>4, <3>1 DEF Schema!AskedWritten
    <3> QED BY <2>1, <2>2, <3>1, <3>2, <3>3, <3>4
  <2> QED BY <2>5, <2>6
<1>6. CASE Schema!Write
  <2>1. /\ turn = "write" /\ UNCHANGED <<args, target, outGiven, rules>>
        /\ disk' = [disk EXCEPT ![Schema!Place("scorecard")] = "scorecard"]
    BY <1>6 DEF Schema!Write
  <2>2. ArgsOK' BY <1>1, <2>1 DEF ArgsOK, ReadCount
  <2>3. DOMAIN disk = Places /\ Ruled /\ \A f \in Places : disk[f] = "old" BY <2>1 DEF DiskOK
  <2>4. /\ Schema!Place("scorecard") \in Places
        /\ Schema!Place("scorecard") = IF outGiven THEN "out" ELSE "scorecard"
    BY DEF Schema!Place, Places
  <2>5. /\ DOMAIN disk' = Places
        /\ \A f \in Places :
              disk'[f] = IF f = Schema!Place("scorecard") THEN "scorecard" ELSE "old"
    BY <2>1, <2>3, <2>4
  <2>6. Ruled' BY <2>1, <2>3 DEF Ruled
  <2>7. CASE target = "both"
    <3>1. turn' = "quality" /\ code' = code /\ code = "none" /\ ~ outGiven
      BY <1>6, <2>1, <2>7 DEF Schema!Write, DecidedOK
    <3>2. ReadingOK' /\ DecidedOK' BY <1>2, <2>1, <2>7, <3>1 DEF ReadingOK, DecidedOK
    <3>3. DiskOK' BY <2>1, <2>4, <2>5, <2>6, <2>7, <3>1 DEF DiskOK, Places
    <3>4. Schema!AskedWritten' BY <3>1 DEF Schema!AskedWritten
    <3> QED BY <2>1, <2>2, <3>1, <3>2, <3>3, <3>4
  <2>8. CASE target # "both"
    <3>1. turn' = "over" /\ code' = "ok" BY <1>6, <2>8 DEF Schema!Write, Schema!Ends
    <3>2. ReadingOK' /\ DecidedOK' BY <3>1 DEF ReadingOK, DecidedOK
    <3>3. DiskOK' BY <2>5, <2>6, <3>1 DEF DiskOK
    <3>4. target' = "scorecard" /\ target = "scorecard" /\ (outGiven <=> Schema!Wanted("out"))
      BY <2>1, <2>8 DEF DecidedOK, TargetNames
    <3>5. Schema!Written' = {Schema!Place("scorecard")} BY <2>4, <2>5 DEF Schema!Written
    <3>6. Schema!AskedWritten'
      BY <1>2, <2>4, <2>5, <3>1, <3>4, <3>5 DEF Schema!AskedWritten, Places
    <3> QED BY <2>1, <2>2, <3>1, <3>2, <3>3, <3>6
  <2> QED BY <2>7, <2>8
<1>7. CASE Schema!WriteQuality
  <2>1. /\ turn = "quality" /\ UNCHANGED <<args, target, outGiven, rules>>
        /\ disk' = [disk EXCEPT ![Schema!Place("quality")] = "quality"]
        /\ turn' = "over" /\ code' = "ok"
    BY <1>7 DEF Schema!WriteQuality, Schema!Ends
  <2>2. ArgsOK' BY <1>1, <2>1 DEF ArgsOK, ReadCount
  <2>3. /\ DOMAIN disk = Places
        /\ disk["quality"] = "old" /\ disk["out"] = "old"
        /\ disk["scorecard"] = IF target = "both" THEN "scorecard" ELSE "old"
        /\ target \in {"both", "quality"}
        /\ outGiven <=> Schema!Wanted("out")
        /\ outGiven => target # "both"
        /\ Schema!Wanted("out")
           /\ (\A t \in TargetNames : ~ Schema!Wanted(t)) => target = "scorecard"
    BY <2>1 DEF DiskOK, DecidedOK, TargetNames
  <2>4. /\ Schema!Place("quality") \in Places
        /\ Schema!Place("quality") = IF outGiven THEN "out" ELSE "quality"
    BY DEF Schema!Place, Places
  <2>5. /\ DOMAIN disk' = Places
        /\ \A f \in Places :
              disk'[f] = IF f = Schema!Place("quality") THEN "quality" ELSE disk[f]
    BY <2>1, <2>3, <2>4
  <2>6. ReadingOK' /\ DecidedOK' BY <2>1 DEF ReadingOK, DecidedOK
  <2>7. DiskOK'
    <3>1. (\E f \in Places : disk'[f] = "scorecard") => \E f \in Places : disk[f] = "scorecard"
      BY <2>5
    <3> QED BY <2>1, <2>5, <3>1 DEF DiskOK, Ruled
  <2>8. Schema!Written' =
          IF outGiven THEN {"out"}
          ELSE IF target = "both" THEN {"scorecard", "quality"} ELSE {target}
    BY <2>3, <2>4, <2>5 DEF Schema!Written, Places
  <2>9. \A f \in Places : disk'[f] # "cut" BY <2>3, <2>5 DEF Places
  <2>10. Schema!AskedWritten'
    BY <1>2, <2>1, <2>3, <2>5, <2>8, <2>9 DEF Schema!AskedWritten, TargetNames
  <2> QED BY <2>1, <2>2, <2>6, <2>7, <2>10
<1>8. CASE Schema!WriteFails
  <2>1. /\ turn \in {"write", "quality"} /\ UNCHANGED <<args, target, outGiven, rules>>
        /\ turn' = "over" /\ code' = "failure"
    BY <1>8 DEF Schema!WriteFails, Schema!Ends
  <2>2. PICK p \in Places : disk' \in {disk, [disk EXCEPT ![p] = "cut"]}
    BY <1>8 DEF Schema!WriteFails, Schema!Place, Places
  <2>3. ArgsOK' BY <1>1, <2>1 DEF ArgsOK, ReadCount
  <2>4. ReadingOK' /\ DecidedOK' BY <2>1 DEF ReadingOK, DecidedOK
  <2>5. /\ DOMAIN disk' = Places
        /\ \A f \in Places : disk'[f] = "scorecard" => disk[f] = "scorecard"
    BY <2>2 DEF DiskOK
  <2>6. DiskOK' BY <2>1, <2>5 DEF DiskOK, Ruled
  <2>7. Schema!AskedWritten' BY <2>1 DEF Schema!AskedWritten
  <2> QED BY <2>1, <2>3, <2>4, <2>6, <2>7
<1>9. CASE UNCHANGED Schema!vars
  BY <1>9 DEF Schema!vars, ArgsOK, ReadCount, ReadingOK, WasRead, DecidedOK, Schema!Wanted,
     DiskOK, Ruled, Schema!AskedWritten, Schema!Written
<1> QED BY <1>3, <1>4, <1>5, <1>6, <1>7, <1>8, <1>9 DEF Schema!Next

\* With its rules, the schema refuses what must not pass and takes what is built.
LEMMA SchemaGuarded == SchemaInv => Schema!SchemaRight
<1> SUFFICES ASSUME SchemaInv PROVE Schema!SchemaGuards /\ Schema!AskedWritten
  BY DEF Schema!SchemaRight
<1>1. ASSUME \E f \in DOMAIN disk : disk[f] = "scorecard", NEW r \in Schema!Row
      PROVE  /\ Schema!Accepts(r)
                  => (r.status = "Red" => r.detail = "text") /\ r.detail # "script"
             /\ r \in Schema!Constructed /\ r.detail # "script" /\ r.url = "https"
                  => Schema!Accepts(r)
  <2>1. Ruled BY <1>1 DEF SchemaInv, DiskOK
  <2>2. r.kind \in Schema!Kinds /\ r.detail \in Schema!Details BY DEF Schema!Row
  <2>3. rules[r.kind] = {"red", "xss", "url"} BY <2>1, <2>2 DEF Ruled
  <2>4. Schema!Accepts(r)
          <=> /\ r.status = "Red" => r.detail \in {"text", "script"}
              /\ r.detail # "script"
              /\ r.kind = "GateRuns" => r.url = "https"
    BY <2>3 DEF Schema!Accepts, Schema!Then
  <2>5. r \in Schema!Constructed /\ r.status = "Red" => r.detail # "absent" /\ r.detail # "null"
    BY DEF Schema!Constructed, Schema!CoverageRows, Schema!DeltaRows, Schema!BddRows,
       Schema!RunRows, Schema!ScopeRows, Schema!Mint
  <2> QED BY <2>2, <2>4, <2>5 DEF Schema!Details
<1> QED BY <1>1 DEF Schema!SchemaGuards, SchemaInv

-----------------------------------------------------------------------------
(* The scenarios that reach a handler.                                         *)

\* The handler a row is put to.
PutTo(r) == CHOOSE h \in Scenarios!Matched(r) : TRUE

\* The scenarios of the rows joined so far.
Joined(h, c) ==
    {rows[i].scenario : i \in {j \in 1 .. next - 1 : /\ rows[j].class = c
                                                   /\ Scenarios!Matched(rows[j]) # {}
                                                   /\ h = PutTo(rows[j])}}

\* The rows are of requests that were served, or answered by no handler.
RowsOK ==
    /\ declared \subseteq Scenarios!Routes
    /\ rows \in Seq(Scenarios!Rows) /\ \A i \in 1 .. Len(rows) : Scenarios!Served(rows[i])
    /\ next \in Nat \ {0} /\ next <= Len(rows) + 1 /\ bad \in Nat

\* What is joined is in the buckets, and what has no handler among the orphans.
JoinOK ==
    /\ phase \in {"start", "read"} => next = 1
    /\ phase \in {"json", "markdown"} \/ result = "ok" => next = Len(rows) + 1
    /\ buckets \in [Scenarios!Routes -> [Scenarios!Classes -> SUBSET Scenarios!Scenarios]]
    /\ orphans \in [{"GET", "PUT"} \X Scenarios!Paths -> Seq(Scenarios!Scenarios)]
    /\ \A h \in Scenarios!Routes, c \in Scenarios!Classes : buckets[h][c] = Joined(h, c)
    /\ \A i \in 1 .. next - 1 :
          Scenarios!Matched(rows[i]) = {} => orphans[<<Scenarios!Uppercase(rows[i].method),
                                                       rows[i].path>>] # <<>>

\* A good end comes after both outputs and without a diagnosis.
EndOK ==
    /\ phase \in {"start", "read", "join", "json", "markdown", "over"}
    /\ phase # "over" => result = "none" /\ summaryMd \in {"none", "unasked"}
    /\ phase = "markdown" => report = "whole"
    /\ result = "ok" => /\ phase = "over" /\ ~ Scenarios!Diagnosed
                      /\ report = "whole" /\ summaryMd \in {"unasked", "whole"}

\* Together, what holds of the join of the scenarios.
ScenInv == RowsOK /\ JoinOK /\ EndOK

\* Before the walk no row is joined.
LEMMA ScenInit == Scenarios!Init => ScenInv
<1> SUFFICES ASSUME Scenarios!Init PROVE ScenInv
  OBVIOUS
<1>1. RowsOK BY DEF Scenarios!Init, RowsOK
<1>2. EndOK BY DEF Scenarios!Init, EndOK
<1>3. JoinOK
  <2>1. next = 1 /\ 1 .. next - 1 = {} BY DEF Scenarios!Init
  <2>2. \A h \in Scenarios!Routes, c \in Scenarios!Classes : buckets[h][c] = {}
    BY DEF Scenarios!Init
  <2>3. \A h \in Scenarios!Routes, c \in Scenarios!Classes : Joined(h, c) = {} BY <2>1 DEF Joined
  <2> QED BY <2>1, <2>2, <2>3 DEF Scenarios!Init, JoinOK
<1> QED BY <1>1, <1>2, <1>3 DEF ScenInv

\* A row matches only handlers, which are routes.
LEMMA MatchedOK ==
    ASSUME RowsOK, NEW r, Scenarios!Matched(r) # {}
    PROVE  /\ PutTo(r) \in Scenarios!Matched(r) /\ PutTo(r) \in Scenarios!Handlers
           /\ PutTo(r) \in Scenarios!Routes
<1>1. PutTo(r) \in Scenarios!Matched(r) BY DEF PutTo
<1>2. Scenarios!Matched(r) \subseteq Scenarios!Handlers BY DEF Scenarios!Matched
<1>3. Scenarios!Handlers \subseteq declared BY DEF Scenarios!Handlers
<1> QED BY <1>1, <1>2, <1>3 DEF RowsOK

\* Joining one row gives its scenario to the one handler it is put to, or leaves an orphan.
LEMMA ScenJoin == ASSUME Scenarios!LimitAssumption, ScenInv, Scenarios!JoinRow PROVE ScenInv'
<1> DEFINE r == rows[next]
           h0 == PutTo(r)
<1>0. RowsOK /\ JoinOK /\ EndOK BY DEF ScenInv
<1>1. /\ phase = "join" /\ next <= Len(rows) /\ next' = next + 1
      /\ UNCHANGED <<phase, declared, excluded, unreadable, rows, bad, report, summaryMd,
                     result>>
  BY DEF Scenarios!JoinRow
<1>2. next \in 1 .. Len(rows) /\ Len(rows) \in Nat /\ r \in Scenarios!Rows BY <1>0,
  <1>1 DEF RowsOK
<1>3. r.scenario \in Scenarios!Scenarios /\ r.method \in {"get",
  "PUT"} /\ r.path \in Scenarios!Paths
  BY <1>2 DEF Scenarios!Rows
<1>4. RowsOK'
  <2>1. \A q : Scenarios!Served(q)' <=> Scenarios!Served(q) BY <1>1 DEF Scenarios!Served
  <2> QED BY <1>0, <1>1, <1>2, <2>1 DEF RowsOK
<1>5. EndOK'
  <2>1. result = "none" /\ result' = "none" BY <1>0, <1>1 DEF EndOK
  <2> QED BY <1>0, <1>1, <2>1 DEF EndOK
<1>6. \A q : Scenarios!Matched(q)' = Scenarios!Matched(q) /\ PutTo(q)' = PutTo(q)
  BY <1>1 DEF Scenarios!Matched, Scenarios!Handlers, PutTo
<1>7. 1 .. next' - 1 = (1 .. next - 1) \cup {next} BY <1>1, <1>2
<1> HIDE DEF r, h0
<1>8. \A h, c : Joined(h, c)'
        = Joined(h,
        c) \cup IF r.class = c /\ Scenarios!Matched(r) # {} /\ h = h0 THEN {r.scenario} ELSE {}
  <2> SUFFICES ASSUME NEW h, NEW c
               PROVE  Joined(h, c)' = Joined(h, c)
                        \cup IF r.class = c /\ Scenarios!Matched(r) # {} /\ h = h0 THEN {r.scenario} ELSE {}
    OBVIOUS
  <2> DEFINE P(j) == rows[j].class = c /\ Scenarios!Matched(rows[j]) # {} /\ h = PutTo(rows[j])
  <2>1. Joined(h, c)' = {rows[i].scenario : i \in {j \in 1 .. next' - 1 : P(j)}}
    BY <1>1, <1>6 DEF Joined
  <2>2. Joined(h, c) = {rows[i].scenario : i \in {j \in 1 .. next - 1 : P(j)}} BY DEF Joined
  <2>3. P(next) <=> r.class = c /\ Scenarios!Matched(r) # {} /\ h = h0 BY DEF r, h0
  <2>4. rows[next].scenario = r.scenario BY DEF r
  <2> HIDE DEF P
  <2> QED BY <1>7, <2>1, <2>2, <2>3, <2>4
<1>9. CASE Scenarios!Matched(r) # {}
  <2>1. h0 \in Scenarios!Routes BY <1>0, <1>9, MatchedOK DEF h0
  <2>2. buckets' = Scenarios!Record(h0, r) /\ orphans' = orphans BY <1>9 DEF Scenarios!JoinRow,
    r, h0, PutTo
  <2>3. buckets' \in [Scenarios!Routes -> [Scenarios!Classes -> SUBSET Scenarios!Scenarios]]
    BY <1>0, <1>3, <2>1, <2>2 DEF JoinOK, Scenarios!Record
  <2>4. \A h \in Scenarios!Routes, c \in Scenarios!Classes : buckets'[h][c]
          = buckets[h][c] \cup IF r.class = c /\ h = h0 THEN {r.scenario} ELSE {}
    BY <1>0, <2>1, <2>2 DEF JoinOK, Scenarios!Record
  <2>5. ASSUME NEW h \in Scenarios!Routes,
    NEW c \in Scenarios!Classes PROVE buckets'[h][c] = Joined(h, c)'
    <3>1. buckets[h][c] = Joined(h, c) BY <1>0 DEF JoinOK
    <3>2. Joined(h, c)' = Joined(h, c) \cup IF r.class = c /\ h = h0 THEN {r.scenario} ELSE {}
      BY <1>8, <1>9
    <3> QED BY <2>4, <3>1, <3>2
  <2>6. \A i \in 1 .. next' - 1 : Scenarios!Matched(rows[i]) = {} => i \in 1 .. next - 1
    BY <1>7, <1>9 DEF r
  <2>7. \A i \in 1 .. next' - 1 : Scenarios!Matched(rows[i]) = {}
          => orphans'[<<Scenarios!Uppercase(rows[i].method), rows[i].path>>] # <<>>
    BY <1>0, <2>2, <2>6 DEF JoinOK
  <2>8. phase' = "join" /\ result' # "ok" BY <1>0, <1>1 DEF EndOK
  <2> QED BY <1>0, <1>1, <1>4, <1>5, <1>6, <2>2, <2>3, <2>5, <2>7, <2>8 DEF ScenInv, JoinOK,
    Scenarios!Uppercase
<1>10. CASE Scenarios!Matched(r) = {}
  <2> DEFINE k == <<Scenarios!Uppercase(r.method), r.path>>
             D == {"GET", "PUT"} \X Scenarios!Paths
  <2>1. k \in D BY <1>3 DEF Scenarios!Uppercase
  <2>2. buckets' = buckets /\ orphans' = [orphans EXCEPT ![k] = Scenarios!Example(@, r)]
    BY <1>10 DEF Scenarios!JoinRow, r
  <2>3. orphans \in [D -> Seq(Scenarios!Scenarios)] BY <1>0 DEF JoinOK
  <2> HIDE DEF k, D
  <2>4. orphans[k] \in Seq(Scenarios!Scenarios) BY <2>1, <2>3
  <2>5. Scenarios!Example(orphans[k], r) \in Seq(Scenarios!Scenarios) BY <1>3, <2>4
    DEF Scenarios!Example
  <2>6. Scenarios!Example(orphans[k], r) # <<>>
    <3>1. CASE orphans[k] = <<>>
      <4>1. Len(orphans[k]) = 0 /\ DOMAIN orphans[k] = {} BY <3>1
      <4>2. Len(orphans[k]) < Limit BY <4>1 DEF Scenarios!LimitAssumption
      <4>3. Scenarios!Example(orphans[k], r) = Append(orphans[k], r.scenario) BY <4>1,
        <4>2 DEF Scenarios!Example
      <4>4. Len(Append(orphans[k], r.scenario)) = 1 BY <1>3, <2>4, <4>1
      <4> QED BY <4>3, <4>4
    <3>2. CASE orphans[k] # <<>>
      <4>1. Len(Append(orphans[k], r.scenario)) # 0 BY <1>3, <2>4
      <4>2. Append(orphans[k], r.scenario) # <<>>
        <5>1. Len(<<>>) = 0 OBVIOUS
        <5> QED BY <4>1, <5>1, Zenon
      <4> QED BY <3>2, <4>2 DEF Scenarios!Example
    <3> QED BY <3>1, <3>2
  <2>7. /\ orphans' \in [D -> Seq(Scenarios!Scenarios)]
        /\ orphans'[k] # <<>>
        /\ \A e \in D : orphans[e] # <<>> => orphans'[e] # <<>>
    BY <2>1, <2>2, <2>3, <2>5, <2>6
  <2>8. \A h \in Scenarios!Routes, c \in Scenarios!Classes : buckets'[h][c] = Joined(h, c)'
    BY <1>0, <1>8, <1>10, <2>2 DEF JoinOK
  <2>9. ASSUME NEW i \in 1 .. next' - 1, Scenarios!Matched(rows[i]) = {}
        PROVE  orphans'[<<Scenarios!Uppercase(rows[i].method), rows[i].path>>] # <<>>
    <3>1. CASE i = next BY <2>7, <3>1 DEF r, k
    <3>2. CASE i # next
      <4>1. i \in 1 .. next - 1 /\ i \in 1 .. Len(rows) BY <1>2, <1>7, <3>2
      <4>2. rows[i] \in Scenarios!Rows BY <1>0, <4>1 DEF RowsOK
      <4>3. <<Scenarios!Uppercase(rows[i].method), rows[i].path>> \in D BY <4>2 DEF D,
        Scenarios!Rows, Scenarios!Uppercase
      <4>4. orphans[<<Scenarios!Uppercase(rows[i].method), rows[i].path>>] # <<>>
        BY <1>0, <2>9, <4>1 DEF JoinOK
      <4> QED BY <2>7, <4>3, <4>4
    <3> QED BY <3>1, <3>2
  <2>10. phase' = "join" /\ result' # "ok" BY <1>0, <1>1 DEF EndOK
  <2> QED BY <1>0, <1>1, <1>4, <1>5, <1>6, <2>2, <2>7, <2>8, <2>9, <2>10
          DEF ScenInv, JoinOK, Scenarios!Uppercase, D
<1> QED BY <1>9, <1>10

\* What the join is about stays as it is.
LEMMA JoinKept ==
    ASSUME UNCHANGED <<declared, excluded, rows, next, buckets, orphans>>
    PROVE  /\ \A h, c : Joined(h, c)' = Joined(h, c)
           /\ \A q : Scenarios!Matched(q)' = Scenarios!Matched(q) /\ (Scenarios!Served(q)' <=> Scenarios!Served(q))
BY DEF Joined, Scenarios!Matched, Scenarios!Handlers, PutTo, Scenarios!Served

\* Every step of the join keeps what holds.
LEMMA ScenStep == ASSUME Scenarios!LimitAssumption, ScenInv,
[Scenarios!Next]_Scenarios!vars PROVE ScenInv'
<1>0. RowsOK /\ JoinOK /\ EndOK BY DEF ScenInv
<1>1. CASE Scenarios!JoinRow BY <1>1, ScenJoin
<1>2. ASSUME NEW r \in Scenarios!Rows, Scenarios!ReadRow(r) PROVE ScenInv'
  <2>1. /\ phase = "read" /\ Scenarios!Served(r) /\ rows' = Append(rows, r)
        /\ UNCHANGED <<phase, declared, excluded, unreadable, bad, next, buckets, orphans,
                       report, summaryMd, result>>
    BY <1>2 DEF Scenarios!ReadRow
  <2>2. next = 1 /\ 1 .. next - 1 = {} BY <1>0, <2>1 DEF JoinOK
  <2>3. \A q : Scenarios!Served(q)' <=> Scenarios!Served(q) BY <2>1 DEF Scenarios!Served
  <2>4. RowsOK' BY <1>0, <2>1, <2>2, <2>3 DEF RowsOK
  <2>5. EndOK' BY <1>0, <2>1 DEF EndOK
  <2>6. \A h \in Scenarios!Routes, c \in Scenarios!Classes : Joined(h, c)' = {} /\ Joined(h,
    c) = {}
    BY <2>1, <2>2 DEF Joined
  <2>7. JoinOK' BY <1>0, <2>1, <2>2, <2>6 DEF JoinOK, EndOK
  <2> QED BY <2>4, <2>5, <2>7 DEF ScenInv
<1>3. ASSUME UNCHANGED <<declared, excluded, rows, next, buckets, orphans>>, bad' \in Nat,
  EndOK',
             phase' \in {"start", "read"} => phase \in {"start", "read"},
             phase' \in {"json", "markdown"} \/ result' = "ok" => next = Len(rows) + 1
      PROVE  ScenInv'
  <2>1. /\ \A h, c : Joined(h, c)' = Joined(h, c)
        /\ \A q : Scenarios!Matched(q)' = Scenarios!Matched(q) /\ (Scenarios!Served(q)' <=> Scenarios!Served(q))
    BY <1>3, JoinKept
  <2>2. RowsOK' BY <1>0, <1>3, <2>1 DEF RowsOK
  <2>3. JoinOK' BY <1>0, <1>3, <2>1 DEF JoinOK
  <2> QED BY <1>3, <2>2, <2>3 DEF ScenInv
<1>4. /\ bad \in Nat /\ next \in Nat /\ Len(rows) \in Nat /\ next <= Len(rows) + 1
      /\ phase \in {"json", "markdown"} \/ result = "ok" => next = Len(rows) + 1
      /\ phase # "over" => result = "none"
  BY <1>0 DEF RowsOK, JoinOK, EndOK
<1>5. CASE Scenarios!Refused
  <2>1. EndOK' BY <1>0, <1>5 DEF Scenarios!Refused, Scenarios!Ends, EndOK
  <2> QED BY <1>3, <1>4, <1>5, <2>1 DEF Scenarios!Refused, Scenarios!Ends
<1>6. CASE Scenarios!WalkRoutes
  <2>1. EndOK' BY <1>0, <1>6 DEF Scenarios!WalkRoutes, EndOK
  <2> QED BY <1>3, <1>4, <1>6, <2>1 DEF Scenarios!WalkRoutes
<1>7. CASE Scenarios!ReadBad
  <2>1. EndOK' BY <1>0, <1>7 DEF Scenarios!ReadBad, EndOK
  <2> QED BY <1>3, <1>4, <1>7, <2>1 DEF Scenarios!ReadBad
<1>8. CASE Scenarios!ReadEnds
  <2>1. EndOK' BY <1>0, <1>8 DEF Scenarios!ReadEnds, EndOK
  <2> QED BY <1>3, <1>4, <1>8, <2>1 DEF Scenarios!ReadEnds
<1>9. CASE Scenarios!JoinEnds
  <2>1. EndOK' BY <1>0, <1>9 DEF Scenarios!JoinEnds, EndOK
  <2>2. next = Len(rows) + 1 BY <1>4, <1>9 DEF Scenarios!JoinEnds
  <2> QED BY <1>3, <1>4, <1>9, <2>1, <2>2 DEF Scenarios!JoinEnds
<1>10. ASSUME UNCHANGED <<unreadable, bad,
                          orphans>> PROVE Scenarios!Diagnosed' <=> Scenarios!Diagnosed
  BY <1>10 DEF Scenarios!Diagnosed, Scenarios!Orphaned
<1>11. CASE Scenarios!WriteJson
  <2>1. Scenarios!Diagnosed' <=> Scenarios!Diagnosed BY <1>10, <1>11 DEF Scenarios!WriteJson
  <2>2. EndOK' BY <1>0, <1>11, <2>1 DEF Scenarios!WriteJson, Scenarios!Ends, EndOK,
    Scenarios!ExitCode
  <2> QED BY <1>3, <1>4, <1>11, <2>2 DEF Scenarios!WriteJson, Scenarios!Ends
<1>12. CASE Scenarios!WriteMarkdown
  <2>1. Scenarios!Diagnosed' <=> Scenarios!Diagnosed BY <1>10, <1>12 DEF Scenarios!WriteMarkdown
  <2>2. EndOK' BY <1>0, <1>12, <2>1 DEF Scenarios!WriteMarkdown, Scenarios!Ends, EndOK,
    Scenarios!ExitCode
  <2> QED BY <1>3, <1>4, <1>12, <2>2 DEF Scenarios!WriteMarkdown, Scenarios!Ends
<1>13. CASE Scenarios!WriteFails
  <2>1. EndOK' BY <1>0, <1>13 DEF Scenarios!WriteFails, Scenarios!Ends, EndOK
  <2> QED BY <1>3, <1>4, <1>13, <2>1 DEF Scenarios!WriteFails, Scenarios!Ends
<1>14. CASE UNCHANGED Scenarios!vars
  <2>1. Scenarios!Diagnosed' <=> Scenarios!Diagnosed BY <1>10, <1>14 DEF Scenarios!vars
  <2>2. EndOK' BY <1>0, <1>14, <2>1 DEF Scenarios!vars, EndOK
  <2> QED BY <1>3, <1>4, <1>14, <2>2 DEF Scenarios!vars, JoinOK
<1> QED BY <1>1, <1>2, <1>5, <1>6, <1>7, <1>8, <1>9, <1>11, <1>12, <1>13, <1>14
  DEF Scenarios!Next

\* Where no two crates declare a path, a row is put to the handler that served it.
LEMMA PutRight ==
    ASSUME Scenarios!LimitAssumption, RowsOK, Scenarios!OneCratePerPath,
        NEW h \in Scenarios!Handlers,
           NEW r \in Scenarios!Rows, Scenarios!Served(r)
    PROVE  r.crate = h.crate /\ r.path = h.path <=> Scenarios!Matched(r) # {} /\ h = PutTo(r)
<1>1. h \in declared /\ h \in Scenarios!Routes /\ Scenarios!Handlers \subseteq declared
  BY DEF Scenarios!Handlers, RowsOK
<1>2. h.crate \in Scenarios!Packages /\ h.path \in Scenarios!Paths /\ h = [crate |-> h.crate,
  path |-> h.path]
  BY <1>1 DEF Scenarios!Routes
<1>3. r.method \in {"get", "PUT"} BY DEF Scenarios!Rows
<1>4. ASSUME r.crate = h.crate, r.path = h.path PROVE Scenarios!Matched(r) # {} /\ h = PutTo(r)
  <2>1. r.method # "PUT" BY <1>2, <1>4 DEF Scenarios!Served, Scenarios!LimitAssumption
  <2>2. Scenarios!Matches(h, r) BY <1>3, <1>4, <2>1 DEF Scenarios!Matches, Scenarios!Uppercase
  <2>3. \A g \in Scenarios!Handlers : Scenarios!Matches(g, r) => g = h
    BY <1>1, <1>4 DEF Scenarios!Matches, Scenarios!OneCratePerPath
  <2>4. h.crate = "k1" \/ [h EXCEPT !.crate = "k1"] \notin {g \in Scenarios!Handlers : Scenarios!Matches(g, r)}
    <3>1. [h EXCEPT !.crate = "k1"].crate = "k1" BY <1>2
    <3> QED BY <2>3, <3>1
  <2>5. Scenarios!Matched(r) = {h} BY <2>2, <2>3, <2>4 DEF Scenarios!Matched
  <2> QED BY <2>5 DEF PutTo
<1>5. ASSUME Scenarios!Matched(r) # {}, h = PutTo(r) PROVE r.crate = h.crate /\ r.path = h.path
  <2>1. h \in Scenarios!Matched(r) BY <1>5 DEF PutTo
  <2>2. Scenarios!Uppercase(r.method) = "GET" /\ h.path = r.path BY <2>1 DEF Scenarios!Matched,
    Scenarios!Matches
  <2>3. r.method # "PUT" BY <2>2 DEF Scenarios!Uppercase
  <2>4. [crate |-> h.crate, path |-> r.path] \in declared BY <1>1, <1>2, <2>2
  <2>5. [crate |-> r.crate, path |-> r.path] \in declared BY <1>2, <2>3, <2>4
    DEF Scenarios!Served
  <2>6. [crate |-> r.crate, path |-> r.path] = h BY <1>1, <2>2, <2>5
    DEF Scenarios!OneCratePerPath
  <2> QED BY <2>2, <2>6
<1> QED BY <1>4, <1>5

\* The credit is earned, and what no handler answered cannot end well.
LEMMA ScenCredit == ASSUME Scenarios!LimitAssumption, ScenInv PROVE Scenarios!CreditRight
<1>0. RowsOK /\ JoinOK /\ EndOK BY DEF ScenInv
<1>1. ASSUME phase \in {"json", "markdown"}, Scenarios!OneCratePerPath,
  NEW h \in Scenarios!Handlers, NEW c \in Scenarios!Classes
      PROVE  buckets[h][c] = Scenarios!Hit(h, c)
  <2>1. next = Len(rows) + 1 /\ 1 .. next - 1 = 1 .. Len(rows) /\ DOMAIN rows = 1 .. Len(rows)
    BY <1>0, <1>1 DEF JoinOK, RowsOK
  <2>2. h \in Scenarios!Routes BY <1>0 DEF Scenarios!Handlers, RowsOK
  <2>3. buckets[h][c] = Joined(h, c) BY <1>0, <2>2 DEF JoinOK
  <2>4. \A j \in 1 .. Len(rows) : rows[j].crate = h.crate /\ rows[j].path = h.path
          <=> Scenarios!Matched(rows[j]) # {} /\ h = PutTo(rows[j])
    <3> SUFFICES ASSUME NEW j \in 1 .. Len(rows)
                 PROVE  rows[j].crate = h.crate /\ rows[j].path = h.path
                          <=> Scenarios!Matched(rows[j]) # {} /\ h = PutTo(rows[j])
      OBVIOUS
    <3>1. rows[j] \in Scenarios!Rows /\ Scenarios!Served(rows[j]) BY <1>0 DEF RowsOK
    <3> QED BY <1>0, <1>1, <3>1, PutRight
  <2>5. {j \in 1 .. next - 1 : /\ rows[j].class = c
                             /\ Scenarios!Matched(rows[j]) # {}
                             /\ h = PutTo(rows[j])}
          = {j \in DOMAIN rows : /\ rows[j].class = c
                                 /\ rows[j].crate = h.crate
                                 /\ rows[j].path = h.path}
    BY <2>1, <2>4
  <2> QED BY <2>3, <2>5 DEF Joined, Scenarios!Hit
<1>2. ASSUME result = "ok"
      PROVE  /\ report = "whole" /\ summaryMd \in {"unasked", "whole"}
             /\ bad = 0 /\ ~ unreadable
             /\ \A i \in DOMAIN rows : \E h \in Scenarios!Handlers :
                  /\ h.path = rows[i].path
                  /\ rows[i].class \in Scenarios!Classes => \E g \in Scenarios!Handlers :
                       g.path = h.path /\ rows[i].scenario \in buckets[g][rows[i].class]
  <2>1. /\ report = "whole" /\ summaryMd \in {"unasked", "whole"}
        /\ ~ unreadable /\ ~ Scenarios!Orphaned /\ ~ (bad > 0) /\ bad \in Nat
        /\ next = Len(rows) + 1
    BY <1>0, <1>2 DEF EndOK, Scenarios!Diagnosed, RowsOK, JoinOK
  <2>2. ASSUME NEW i \in DOMAIN rows
        PROVE  \E h \in Scenarios!Handlers :
                  /\ h.path = rows[i].path
                  /\ rows[i].class \in Scenarios!Classes => \E g \in Scenarios!Handlers :
                       g.path = h.path /\ rows[i].scenario \in buckets[g][rows[i].class]
    <3>1. i \in 1 .. Len(rows) /\ i \in 1 .. next - 1 /\ rows[i] \in Scenarios!Rows
      BY <1>0, <2>1 DEF RowsOK
    <3>2. <<Scenarios!Uppercase(rows[i].method), rows[i].path>> \in DOMAIN orphans
      BY <1>0, <3>1 DEF JoinOK, Scenarios!Rows, Scenarios!Uppercase
    <3>3. Scenarios!Matched(rows[i]) # {} BY <1>0, <2>1, <3>1, <3>2 DEF JoinOK,
      Scenarios!Orphaned
    <3>4. PutTo(rows[i]) \in Scenarios!Matched(rows[i]) /\ PutTo(rows[i]) \in Scenarios!Handlers
          /\ PutTo(rows[i]) \in Scenarios!Routes
      BY <1>0, <3>3, MatchedOK
    <3>5. PutTo(rows[i]).path = rows[i].path BY <3>4 DEF Scenarios!Matched, Scenarios!Matches
    <3>6. ASSUME rows[i].class \in Scenarios!Classes
          PROVE  rows[i].scenario \in buckets[PutTo(rows[i])][rows[i].class]
      <4>1. buckets[PutTo(rows[i])][rows[i].class] = Joined(PutTo(rows[i]), rows[i].class)
        BY <1>0, <3>4, <3>6 DEF JoinOK
      <4>2. rows[i].scenario \in Joined(PutTo(rows[i]), rows[i].class) BY <3>1, <3>3 DEF Joined
      <4> QED BY <4>1, <4>2
    <3> QED BY <3>4, <3>5, <3>6
  <2> QED BY <2>1, <2>2
<1>3. Scenarios!CreditEarned BY <1>1 DEF Scenarios!CreditEarned
<1>4. Scenarios!NothingUnseen BY <1>2 DEF Scenarios!NothingUnseen
<1> QED BY <1>3, <1>4 DEF Scenarios!CreditRight

-----------------------------------------------------------------------------
(* The audit of the public items.                                              *)

\* A non-empty set of positions has a last one.
LEMMA LastOf ==
    ASSUME NEW b \in Nat, NEW T \in SUBSET (1 .. b), T # {}
    PROVE  \E m \in T : \A n \in T : n <= m
<1>1. \A n \in T : n \in Nat /\ n <= b /\ b - n \in Nat OBVIOUS
<1> DEFINE D == {b - n : n \in T}
<1>2. D \in SUBSET Nat /\ D # {} BY <1>1
<1> HIDE DEF D
<1>3. PICK u \in D : \A n \in D : ~(<<n, u>> \in OpToRel(<, Nat))
  BY <1>2, Zenon, NatLessThanWellFounded, WFMin
<1>4. \A n \in D : ~(n < u) BY <1>2, <1>3 DEF OpToRel
<1>5. PICK m \in T : u = b - m BY <1>3 DEF D
<1>6. ASSUME NEW n \in T PROVE n <= m
  <2>1. b - n \in D BY DEF D
  <2>2. ~(b - n < b - m) BY <1>4, <1>5, <2>1
  <2> QED BY <1>1, <2>2
<1> QED BY <1>6

\* The lcov files.
Texts == Seq(Audit!LcovLines)

\* Where a record begins or ends.
Marks(t, j) == {i \in 1 .. j : t[i].tag \in {"SF", "end_of_record"}}
\* The last of them.
LastMark(t, j) == CHOOSE i \in Marks(t, j) : \A k \in Marks(t, j) : k <= i

\* Who owns a line is read off the last mark up to it.
LEMMA OwnerByMark ==
    ASSUME NEW t, NEW j
    PROVE  Audit!OwnerOf(t, j)
             = IF Marks(t, j) = {} \/ t[LastMark(t, j)].tag # "SF" THEN Audit!NoPath
               ELSE t[LastMark(t, j)].key
BY DEF Audit!OwnerOf, Marks, LastMark

\* A further line changes the owner of none before it, and its own owner is that of the
\* line before unless it is a mark.
LEMMA OwnerAppend ==
    ASSUME NEW t \in Texts, NEW l \in Audit!LcovLines
    PROVE  /\ \A j \in 0 .. Len(t) : Audit!OwnerOf(Append(t, l), j) = Audit!OwnerOf(t, j)
           /\ Audit!OwnerOf(Append(t, l), Len(t) + 1) =
                CASE l.tag = "SF" -> l.key
                  [] l.tag = "end_of_record" -> Audit!NoPath
                  [] OTHER -> Audit!OwnerOf(t, Len(t))
<1> DEFINE u == Append(t, l)
           e == Len(t) + 1
<1>1. Len(t) \in Nat /\ (\A i \in 1 .. Len(t) : u[i] = t[i]) /\ u[e] = l BY DEF Texts
<1> HIDE DEF u
<1>2. ASSUME NEW j \in 0 .. Len(t) PROVE Marks(u, j) = Marks(t, j)
  BY <1>1 DEF Marks
<1>3. ASSUME NEW j \in 0 .. Len(t)
      PROVE  Audit!OwnerOf(u, j) = Audit!OwnerOf(t, j)
  <2>1. LastMark(u, j) = LastMark(t, j) BY <1>2 DEF LastMark
  <2>2. CASE Marks(t, j) = {} BY <1>2, <2>2, OwnerByMark
  <2>3. CASE Marks(t, j) # {}
    <3>1. Marks(t, j) \in SUBSET (1 .. j) /\ j \in Nat BY <1>1 DEF Marks
    <3>2. \E m \in Marks(t, j) : \A n \in Marks(t, j) : n <= m BY <2>3, <3>1, LastOf
    <3>3. LastMark(t, j) \in Marks(t, j) BY <3>2 DEF LastMark
    <3>4. LastMark(t, j) \in 1 .. Len(t) BY <1>1, <3>1, <3>3
    <3>5. u[LastMark(t, j)] = t[LastMark(t, j)] BY <1>1, <3>4
    <3> QED BY <1>2, <2>1, <3>5, OwnerByMark
  <2> QED BY <2>2, <2>3
<1>4. Marks(u, e) = Marks(t, Len(t)) \cup IF l.tag \in {"SF", "end_of_record"} THEN {e} ELSE {}
  <2>1. 1 .. e = (1 .. Len(t)) \cup {e} BY <1>1
  <2> QED BY <1>1, <2>1 DEF Marks
<1>5. CASE l.tag \in {"SF", "end_of_record"}
  <2>1. e \in Marks(u, e) /\ \A k \in Marks(u, e) : k \in Nat /\ k <= e
    BY <1>1, <1>4, <1>5 DEF Marks
  <2>2. \A i \in Marks(u, e) : (\A k \in Marks(u, e) : k <= i) => i = e BY <1>1, <2>1
  <2>3. LastMark(u, e) = e BY <2>1, <2>2 DEF LastMark
  <2>4. Audit!OwnerOf(u, e) = IF l.tag # "SF" THEN Audit!NoPath ELSE l.key
    BY <1>1, <2>1, <2>3, OwnerByMark
  <2> QED BY <1>3, <1>5, <2>4 DEF u
<1>6. CASE l.tag \notin {"SF", "end_of_record"}
  <2>0. Len(t) \in 0 .. Len(t) BY <1>1
  <2>1. Marks(u, e) = Marks(u, Len(t)) BY <1>2, <1>4, <1>6, <2>0
  <2>2. LastMark(u, e) = LastMark(u, Len(t)) BY <2>1 DEF LastMark
  <2>3. Audit!OwnerOf(u, e) = Audit!OwnerOf(u, Len(t)) BY <2>1, <2>2, OwnerByMark
  <2> QED BY <1>3, <1>6, <2>0, <2>3 DEF u
<1> QED BY <1>5, <1>6

\* Of an empty text nobody owns anything.
LEMMA OwnerEmpty == \A t : Audit!OwnerOf(t, 0) = Audit!NoPath
<1>1. \A t : Marks(t, 0) = {} BY DEF Marks
<1> QED BY <1>1, OwnerByMark

\* A line that counts a hit.
IsHit(l) == l.tag = "DA" /\ l.hit > 0

\* The lines of a path that a text reports as hit.
HitsOf(t, k) ==
    {t[j].line : j \in {i \in 1 .. Len(t) : IsHit(t[i]) /\ Audit!OwnerOf(t, i) = k}}

\* One line more is one hit more exactly if it reports one, of its owner.
LEMMA HitsAppend ==
    ASSUME NEW t \in Texts, NEW l \in Audit!LcovLines, NEW k
    PROVE  HitsOf(Append(t, l), k)
             = HitsOf(t, k) \cup (IF IsHit(l) /\ Audit!OwnerOf(t,
             Len(t)) = k THEN {l.line} ELSE {})
<1> DEFINE u == Append(t, l)
           e == Len(t) + 1
           P(i) == IsHit(u[i]) /\ Audit!OwnerOf(u, i) = k
<1>1. Len(t) \in Nat /\ Len(u) = e /\ (\A i \in 1 .. Len(t) : u[i] = t[i]) /\ u[e] = l
  BY DEF Texts
<1>2. /\ \A i \in 1 .. Len(t) : Audit!OwnerOf(u, i) = Audit!OwnerOf(t, i)
      /\ IsHit(l) => Audit!OwnerOf(u, e) = Audit!OwnerOf(t, Len(t))
  <2>1. \A i \in 1 .. Len(t) : i \in 0 .. Len(t) BY <1>1
  <2>2. IsHit(l) => l.tag # "SF" /\ l.tag # "end_of_record" BY DEF IsHit
  <2> QED BY <2>1, <2>2, OwnerAppend
<1> HIDE DEF u
<1>3. 1 .. Len(u) = (1 .. Len(t)) \cup {e} BY <1>1
<1>4. \A i \in 1 .. Len(t) : P(i) <=> IsHit(t[i]) /\ Audit!OwnerOf(t, i) = k BY <1>1, <1>2
<1>5. P(e) <=> IsHit(l) /\ Audit!OwnerOf(t, Len(t)) = k BY <1>1, <1>2
<1>6. HitsOf(u, k) = {u[j].line : j \in {i \in 1 .. Len(u) : P(i)}} BY DEF HitsOf
<1> HIDE DEF P
<1>7. {i \in 1 .. Len(u) : P(i)}
        = {i \in 1 .. Len(t) : IsHit(t[i]) /\ Audit!OwnerOf(t, i) = k}
            \cup (IF P(e) THEN {e} ELSE {})
  BY <1>3, <1>4
<1> DEFINE I == {i \in 1 .. Len(t) : IsHit(t[i]) /\ Audit!OwnerOf(t, i) = k}
<1>8. {u[j].line : j \in I} = HitsOf(t, k)
  <2>1. \A j \in I : u[j] = t[j] BY <1>1
  <2> QED BY <2>1 DEF HitsOf
<1> HIDE DEF I, e
<1>9. HitsOf(u, k) = {u[j].line : j \in I} \cup (IF P(e) THEN {u[e].line} ELSE {})
  BY <1>6, <1>7 DEF I
<1> QED BY <1>1, <1>5, <1>8, <1>9 DEF u

\* The closed records of a file.
LinesOfRecords == [key : Audit!Keys, hits : SUBSET Audit!Lines]

\* The lines that the closed records hold of a path.
InRecords(s, k) == UNION {s[i].hits : i \in {j \in DOMAIN s : s[j].key = k}}

\* Closing a record adds its lines to those of its path.
LEMMA RecordsAppend ==
    ASSUME NEW s \in Seq(LinesOfRecords), NEW r \in LinesOfRecords, NEW k
    PROVE  InRecords(Append(s, r), k) = InRecords(s, k) \cup (IF r.key = k THEN r.hits ELSE {})
<1> DEFINE u == Append(s, r)
           e == Len(s) + 1
           I == {j \in 1 .. Len(s) : s[j].key = k}
<1>1. /\ Len(s) \in Nat /\ DOMAIN s = 1 .. Len(s) /\ DOMAIN u = (1 .. Len(s)) \cup {e}
      /\ (\A i \in 1 .. Len(s) : u[i] = s[i]) /\ u[e] = r
  OBVIOUS
<1> HIDE DEF u, e
<1>2. {j \in DOMAIN u : u[j].key = k} = I \cup (IF r.key = k THEN {e} ELSE {}) BY <1>1
<1>3. \A i \in I : u[i] = s[i] BY <1>1
<1>4. InRecords(s, k) = UNION {s[i].hits : i \in I} BY <1>1 DEF InRecords
<1> HIDE DEF I
<1>5. {u[i].hits : i \in I \cup (IF r.key = k THEN {e} ELSE {})}
        = {s[i].hits : i \in I} \cup (IF r.key = k THEN {r.hits} ELSE {})
  BY <1>1, <1>3
<1>6. InRecords(u, k) = UNION ({s[i].hits : i \in I} \cup (IF r.key = k THEN {r.hits} ELSE {}))
  BY <1>2, <1>5 DEF InRecords
<1>7. \A A, B : UNION (A \cup B) = (UNION A) \cup (UNION B) OBVIOUS
<1>8. UNION (IF r.key = k THEN {r.hits} ELSE {}) = IF r.key = k THEN r.hits ELSE {} OBVIOUS
<1> QED BY <1>4, <1>6, <1>7, <1>8 DEF u

\* The number of the files that are merged or given up.
MergedFiles == IF stage = "lcov" THEN Len(texts) - 1 ELSE Len(texts)

\* The index holds what the files merged so far report.
IndexOK ==
    \A k \in Audit!Keys :
        lcovIndex[k] = UNION {HitsOf(texts[i], k) : i \in (1 .. MergedFiles) \ errors}

\* The reader holds what the text of its file reports.
ReaderOK ==
    Audit!Reading =>
      /\ current = Audit!OwnerOf(texts[Len(texts)], Len(texts[Len(texts)]))
      /\ current = Audit!NoPath => hits = {}
      /\ \A k \in Audit!Keys :
            HitsOf(texts[Len(texts)], k)
              = InRecords(records, k) \cup (IF current = k THEN hits ELSE {})

\* What is read has its type, and a bad line gives its file up.
AuditTypes ==
    /\ stage \in {"walk", "lcov", "json", "json_tmp", "md", "md_tmp", "over"}
    /\ stage = "walk" => texts = <<>>
    /\ texts \in Seq(Texts) /\ errors \subseteq 1 .. Len(texts)
    /\ current \in Audit!Keys \cup {Audit!NoPath} /\ hits \subseteq Audit!Lines
    /\ records \in Seq(LinesOfRecords)
    /\ DOMAIN lcovIndex = Audit!Keys
    /\ \A i \in 1 .. Len(texts) : \A j \in 1 .. Len(texts[i]) :
          texts[i][j].tag = "bad" => i \in errors

\* A good end comes after both outputs, of a file that parses and lcov files read whole.
AuditDone ==
    /\ stage # "over" => verdict = "none" /\ auditMd \in {"none", "unasked"}
    /\ stage = "json_tmp" => auditTmp = "json"
    /\ stage \in {"md", "md_tmp"} => audit = "json"
    /\ stage = "md_tmp" => auditTmp = "md"
    /\ verdict = "ok" => /\ audit = "json" /\ auditMd \in {"unasked", "md"}
                         /\ parses /\ errors = {}

\* Together; the index and the reader are right where every count has a record.
AuditInv == AuditTypes /\ AuditDone /\ (Audit!WellFormed => IndexOK /\ ReaderOK)

\* Before the walk nothing is read.
LEMMA AuditInit == Audit!Init => AuditInv
<1> SUFFICES ASSUME Audit!Init PROVE AuditInv
  OBVIOUS
<1>1. texts = <<>> /\ Len(texts) = 0 /\ 1 .. Len(texts) = {} /\ stage = "walk" BY DEF Audit!Init
<1>2. AuditTypes BY <1>1 DEF Audit!Init, AuditTypes
<1>3. AuditDone BY DEF Audit!Init, AuditDone
<1>4. MergedFiles = 0 /\ 1 .. MergedFiles = {} BY <1>1 DEF MergedFiles
<1>5. IndexOK BY <1>4 DEF Audit!Init, IndexOK
<1>6. ReaderOK BY <1>1 DEF Audit!Reading, ReaderOK
<1> QED BY <1>2, <1>3, <1>5, <1>6 DEF AuditInv

\* Every count stands in a record.
CountsOwned ==
    \A i \in 1 .. Len(texts) : \A j \in 1 .. Len(texts[i]) :
        texts[i][j].tag = "DA" => Audit!OwnerOf(texts[i], j) # Audit!NoPath

\* Well-formed means that each count of each file has an owner.
LEMMA WellFormedness == AuditTypes => (Audit!WellFormed <=> CountsOwned)
<1> SUFFICES ASSUME AuditTypes PROVE Audit!WellFormed <=> CountsOwned
  OBVIOUS
<1>1. DOMAIN texts = 1 .. Len(texts) /\ \A i \in 1 .. Len(texts) : DOMAIN texts[i] = 1 .. Len(texts[i])
  BY DEF AuditTypes, Texts
<1>2. \A p : p \in Audit!Lcovs <=>
        \E i \in 1 .. Len(texts) : \E j \in 1 .. Len(texts[i]) : p = <<i, j>>
  BY <1>1 DEF Audit!Lcovs
<1> DEFINE Owned(i, j) ==
             texts[i][j].tag = "DA" => Audit!OwnerOf(texts[i], j) # Audit!NoPath
<1>3. Audit!WellFormed <=> \A p \in Audit!Lcovs : Owned(p[1], p[2]) BY DEF Audit!WellFormed
<1> HIDE DEF Owned
<1>4. ASSUME \A p \in Audit!Lcovs : Owned(p[1], p[2]), NEW i \in 1 .. Len(texts),
             NEW j \in 1 .. Len(texts[i])
      PROVE  Owned(i, j)
  <2>1. <<i, j>> \in Audit!Lcovs BY <1>2
  <2>2. Owned(<<i, j>>[1], <<i, j>>[2]) BY <1>4, <2>1
  <2> QED BY <2>2
<1>5. ASSUME \A i \in 1 .. Len(texts) : \A j \in 1 .. Len(texts[i]) : Owned(i, j),
             NEW p \in Audit!Lcovs
      PROVE  Owned(p[1], p[2])
  BY <1>2, <1>5
<1>6. Audit!WellFormed <=> \A i \in 1 .. Len(texts) : \A j \in 1 .. Len(texts[i]) : Owned(i, j)
  BY <1>3, <1>4, <1>5
<1> QED BY <1>6 DEF Owned, CountsOwned

\* What a finished file has gathered is what its text reports.
LEMMA FileDone ==
    ASSUME AuditTypes, ReaderOK, Audit!Reading, NEW k \in Audit!Keys
    PROVE  InRecords(Audit!AllRecords, k) = HitsOf(texts[Len(texts)], k)
<1>1. HitsOf(texts[Len(texts)], k)
        = InRecords(records, k) \cup (IF current = k THEN hits ELSE {})
  BY DEF ReaderOK
<1>2. k # Audit!NoPath BY DEF Audit!Keys, Audit!NoPath
<1>3. CASE current = Audit!NoPath BY <1>1, <1>2, <1>3 DEF Audit!AllRecords
<1>4. CASE current # Audit!NoPath
  <2> DEFINE r == [key |-> current, hits |-> hits]
  <2>1. r \in LinesOfRecords /\ records \in Seq(LinesOfRecords)
    BY <1>4 DEF AuditTypes, LinesOfRecords
  <2>2. Audit!AllRecords = Append(records, r) BY <1>4 DEF Audit!AllRecords, Audit!Closed
  <2>3. r.key = current /\ r.hits = hits OBVIOUS
  <2> HIDE DEF r
  <2> QED BY <1>1, <2>1, <2>2, <2>3, RecordsAppend
<1> QED BY <1>3, <1>4

\* Once the last file is merged, or given up, the index holds all of them.
LEMMA FileMerged ==
    ASSUME AuditTypes, IndexOK, ReaderOK, stage = "lcov",
           lcovIndex' = IF Audit!Reading THEN Audit!Merged(Audit!AllRecords) ELSE lcovIndex
    PROVE  \A k \in Audit!Keys :
             lcovIndex'[k] = UNION {HitsOf(texts[i], k) : i \in (1 .. Len(texts)) \ errors}
<1> SUFFICES ASSUME NEW k \in Audit!Keys
             PROVE  lcovIndex'[k] = UNION {HitsOf(texts[i],
                 k) : i \in (1 .. Len(texts)) \ errors}
  OBVIOUS
<1>1. Len(texts) \in Nat /\ MergedFiles = Len(texts) - 1 BY DEF AuditTypes, MergedFiles
<1>2. lcovIndex[k] = UNION {HitsOf(texts[i], k) : i \in (1 .. Len(texts) - 1) \ errors}
  BY <1>1 DEF IndexOK
<1> DEFINE N == Len(texts)
<1>3. CASE Audit!Reading
  <2>1. N \notin errors /\ N > 0
    <3>1. texts # <<>> /\ texts \in Seq(Texts) BY <1>3 DEF Audit!Reading, AuditTypes
    <3> QED BY <1>3, <3>1 DEF Audit!Reading
  <2>2. (1 .. N) \ errors = ((1 .. N - 1) \ errors) \cup {N} BY <1>1, <2>1
  <2>3. lcovIndex'[k] = lcovIndex[k] \cup InRecords(Audit!AllRecords, k)
    BY <1>3 DEF Audit!Merged, InRecords
  <2>4. InRecords(Audit!AllRecords, k) = HitsOf(texts[N], k) BY <1>3, FileDone
  <2> HIDE DEF N
  <2> QED BY <1>2, <2>2, <2>3, <2>4 DEF N
<1>4. CASE ~ Audit!Reading
  <2>1. N = 0 \/ N \in errors
    <3>1. texts \in Seq(Texts) BY DEF AuditTypes
    <3> QED BY <1>4, <3>1 DEF Audit!Reading
  <2>2. (1 .. N) \ errors = (1 .. N - 1) \ errors BY <1>1, <2>1
  <2> QED BY <1>2, <1>4, <2>2
<1> QED BY <1>3, <1>4

\* A line that is read keeps what holds of the files, and of the one it is in.
LEMMA ReadKeeps ==
    ASSUME AuditInv, NEW l \in Audit!LcovLines, Audit!ReadLcov(l)
    PROVE  AuditInv'
<1> DEFINE N == Len(texts)
           t == texts[N]
           u == Append(t, l)
<1>0. AuditTypes /\ AuditDone BY DEF AuditInv
<1>1. /\ stage = "lcov" /\ texts # <<>> /\ N \notin errors
      /\ texts' = [texts EXCEPT ![N] = Append(@, l)]
      /\ UNCHANGED <<stage, parses, entries, lcovIndex, auditTmp, audit, auditMd, verdict>>
      /\ Audit!ReadSf(l) \/ Audit!ReadDa(l) \/ Audit!ReadEnd(l) \/ Audit!ReadBad(l)
  BY DEF Audit!ReadLcov, Audit!Reading, Audit!Append1, Audit!output
<1>2. /\ texts \in Seq(Texts) /\ N \in Nat /\ N > 0 /\ N \in 1 .. N /\ N \in DOMAIN texts
      /\ t \in Texts /\ Len(t) \in Nat
  <2>1. texts \in Seq(Texts) BY <1>0 DEF AuditTypes
  <2>2. N \in Nat /\ N > 0 /\ N \in 1 .. N /\ N \in DOMAIN texts BY <1>1, <2>1
  <2>3. t \in Texts BY <2>1, <2>2
  <2> QED BY <2>1, <2>2, <2>3 DEF Texts
<1>3. u \in Texts /\ Len(u) = Len(t) + 1 /\ (\A j \in 1 .. Len(t) : u[j] = t[j]) /\ u[Len(t) + 1] = l
  BY <1>2 DEF Texts
<1>4. texts'[N] = u BY <1>1, <1>2
<1>5. /\ texts' \in Seq(Texts) /\ Len(texts') = N
      /\ \A i \in 1 .. N : i # N => texts'[i] = texts[i]
  BY <1>1, <1>2, <1>3
<1>6. Audit!Reading BY <1>1 DEF Audit!Reading
<1>7. Audit!Closed.hits = {}
      /\ (current # Audit!NoPath =>
            /\ [key |-> current, hits |-> hits] \in LinesOfRecords
            /\ Audit!Closed.records = Append(records, [key |-> current, hits |-> hits]))
  BY <1>0 DEF Audit!Closed, AuditTypes, LinesOfRecords
<1> HIDE DEF N, t, u
<1>8. /\ current' \in Audit!Keys \cup {Audit!NoPath} /\ hits' \subseteq Audit!Lines
      /\ records' \in Seq(LinesOfRecords)
      /\ errors' = errors \cup (IF l.tag = "bad" THEN {N} ELSE {})
  <2>1. CASE Audit!ReadSf(l)
    <3>1. l.tag = "SF" /\ l.key \in Audit!Keys BY <2>1 DEF Audit!ReadSf, Audit!LcovLines
    <3>2. current' = l.key /\ errors' = errors BY <2>1 DEF Audit!ReadSf
    <3>3. hits' \subseteq Audit!Lines /\ records' \in Seq(LinesOfRecords)
      <4>1. CASE current = Audit!NoPath BY <1>0, <2>1, <4>1 DEF Audit!ReadSf, AuditTypes
      <4>2. CASE current # Audit!NoPath
        <5> DEFINE rec == [key |-> current, hits |-> hits]
        <5>1. hits' = {} /\ records' = Append(records, rec) /\ rec \in LinesOfRecords
          BY <1>7, <2>1, <4>2 DEF Audit!ReadSf
        <5>2. records \in Seq(LinesOfRecords) BY <1>0 DEF AuditTypes
        <5> HIDE DEF rec
        <5> QED BY <5>1, <5>2
      <4> QED BY <4>1, <4>2
    <3> QED BY <3>1, <3>2, <3>3
  <2>2. CASE Audit!ReadDa(l)
    <3>1. l.tag = "DA" /\ l.line \in Audit!Lines
      BY <2>2 DEF Audit!ReadDa, Audit!LcovLines, Audit!Lines
    <3> QED BY <1>0, <2>2, <3>1 DEF Audit!ReadDa, AuditTypes
  <2>3. CASE Audit!ReadEnd(l)
    <3>1. current' = Audit!NoPath /\ errors' = errors /\ l.tag # "bad" BY <2>3 DEF Audit!ReadEnd
    <3>2. hits' \subseteq Audit!Lines /\ records' \in Seq(LinesOfRecords)
      <4>1. CASE current = Audit!NoPath BY <1>0, <2>3, <4>1 DEF Audit!ReadEnd, AuditTypes
      <4>2. CASE current # Audit!NoPath
        <5> DEFINE rec == [key |-> current, hits |-> hits]
        <5>1. hits' = {} /\ records' = Append(records, rec) /\ rec \in LinesOfRecords
          BY <1>7, <2>3, <4>2 DEF Audit!ReadEnd
        <5>2. records \in Seq(LinesOfRecords) BY <1>0 DEF AuditTypes
        <5> HIDE DEF rec
        <5> QED BY <5>1, <5>2
      <4> QED BY <4>1, <4>2
    <3> QED BY <3>1, <3>2
  <2>4. CASE Audit!ReadBad(l) BY <1>0, <2>4 DEF Audit!ReadBad, AuditTypes, N
  <2> QED BY <1>1, <2>1, <2>2, <2>3, <2>4
<1>9. AuditTypes'
  <2>1. ASSUME NEW i \in 1 .. N, NEW j \in 1 .. Len(texts'[i]), texts'[i][j].tag = "bad"
        PROVE  i \in errors'
    <3>1. CASE i # N
      <4>1. texts'[i] = texts[i] BY <1>5, <3>1
      <4> QED BY <1>0, <1>8, <2>1, <4>1 DEF AuditTypes, N
    <3>2. CASE i = N
      <4>1. CASE j = Len(t) + 1 BY <1>3, <1>4, <1>8, <2>1, <3>2, <4>1
      <4>2. CASE j # Len(t) + 1
        <5>1. j \in 1 .. Len(t) /\ t[j].tag = "bad" BY <1>2, <1>3, <1>4, <2>1, <3>2, <4>2
        <5>2. N \in errors BY <1>0, <1>2, <5>1 DEF AuditTypes, N, t
        <5> QED BY <1>1, <5>2
      <4> QED BY <4>1, <4>2
    <3> QED BY <3>1, <3>2
  <2>2. errors' \subseteq 1 .. N BY <1>0, <1>2, <1>8 DEF AuditTypes, N
  <2> QED BY <1>0, <1>1, <1>5, <1>8, <2>1, <2>2 DEF AuditTypes
<1>10. AuditDone' BY <1>0, <1>1 DEF AuditDone
<1>11. ASSUME Audit!WellFormed' PROVE IndexOK' /\ ReaderOK'
  <2>1. Audit!WellFormed /\ (l.tag = "DA" => Audit!OwnerOf(t, Len(t)) # Audit!NoPath)
    <3>1. \A i \in 1 .. Len(texts') : \A j \in 1 .. Len(texts'[i]) :
             texts'[i][j].tag = "DA" => Audit!OwnerOf(texts'[i], j) # Audit!NoPath
      <4>1. (AuditTypes => (Audit!WellFormed <=> CountsOwned))' BY WellFormedness, PTL
      <4>2. CountsOwned' BY <1>9, <1>11, <4>1
      <4>3. \A q, j : Audit!OwnerOf(q, j)' = Audit!OwnerOf(q, j) BY DEF Audit!OwnerOf
      <4> QED BY <4>2 DEF CountsOwned
    <3>2. ASSUME NEW i \in 1 .. N, NEW j \in 1 .. Len(texts[i]), texts[i][j].tag = "DA"
          PROVE  Audit!OwnerOf(texts[i], j) # Audit!NoPath
      <4>1. CASE i # N
        <5>1. texts'[i] = texts[i] BY <1>5, <4>1
        <5> QED BY <1>5, <3>1, <3>2, <5>1
      <4>2. CASE i = N
        <5>1. texts[i] = t /\ j \in 1 .. Len(t) BY <3>2, <4>2 DEF t
        <5>2. j \in 1 .. Len(u) /\ j \in 0 .. Len(t) /\ u[j] = t[j] BY <1>2, <1>3, <5>1
        <5>3. Audit!OwnerOf(u, j) = Audit!OwnerOf(t, j) BY <1>2, <5>2, OwnerAppend DEF u
        <5> QED BY <1>4, <1>5, <3>1, <3>2, <4>2, <5>1, <5>2, <5>3
      <4> QED BY <4>1, <4>2
    <3>3. ASSUME l.tag = "DA" PROVE Audit!OwnerOf(t, Len(t)) # Audit!NoPath
      <4>1. Audit!OwnerOf(u, Len(t) + 1) = Audit!OwnerOf(t, Len(t))
        BY <1>2, <3>3, OwnerAppend DEF u
      <4>2. Len(t) + 1 \in 1 .. Len(u) BY <1>2, <1>3
      <4> QED BY <1>2, <1>3, <1>4, <1>5, <3>1, <3>3, <4>1, <4>2
    <3> QED BY <1>0, <3>2, <3>3, WellFormedness DEF N, CountsOwned
  <2>2. IndexOK /\ ReaderOK BY <2>1 DEF AuditInv
  <2>3. IndexOK'
    <3>1. MergedFiles' = N - 1 /\ MergedFiles = N - 1 BY <1>1, <1>5 DEF MergedFiles, N
    <3>2. (1 .. N - 1) \ errors' = (1 .. N - 1) \ errors BY <1>2, <1>8
    <3>3. \A i \in (1 .. N - 1) \ errors : texts'[i] = texts[i] BY <1>2, <1>5
    <3>4. ASSUME NEW k
          PROVE  {HitsOf(texts'[i], k) : i \in (1 .. N - 1) \ errors}
                   = {HitsOf(texts[i], k) : i \in (1 .. N - 1) \ errors}
      BY <3>3
    <3> QED BY <1>1, <2>2, <3>1, <3>2, <3>4 DEF IndexOK
  <2>4. /\ current = Audit!OwnerOf(t, Len(t))
        /\ current = Audit!NoPath => hits = {}
        /\ \A k \in Audit!Keys :
              HitsOf(t, k) = InRecords(records, k) \cup (IF current = k THEN hits ELSE {})
    BY <1>6, <2>2 DEF ReaderOK, t, N
  <2>5. CASE Audit!ReadBad(l)
    <3>1. N \in errors' BY <2>5, <1>8 DEF Audit!ReadBad
    <3> QED BY <1>5, <2>3, <3>1 DEF Audit!Reading, ReaderOK
  <2>6. /\ Audit!OwnerOf(u, Len(u)) =
                CASE l.tag = "SF" -> l.key
                  [] l.tag = "end_of_record" -> Audit!NoPath
                  [] OTHER -> current
        /\ \A k \in Audit!Keys :
              HitsOf(u, k) = HitsOf(t, k) \cup (IF IsHit(l) /\ current = k THEN {l.line} ELSE {})
    BY <1>2, <1>3, <2>4, OwnerAppend, HitsAppend DEF u
  <2>7. ASSUME current # Audit!NoPath, records' = Audit!Closed.records, NEW k \in Audit!Keys
        PROVE  InRecords(records', k) = InRecords(records,
            k) \cup (IF current = k THEN hits ELSE {})
    <3> DEFINE r == [key |-> current, hits |-> hits]
    <3>1. r \in LinesOfRecords /\ records' = Append(records, r) BY <1>7, <2>7
    <3>2. r.key = current /\ r.hits = hits /\ records \in Seq(LinesOfRecords)
      BY <1>0 DEF AuditTypes
    <3> HIDE DEF r
    <3> QED BY <3>1, <3>2, RecordsAppend
  <2>8. /\ current' = Audit!OwnerOf(u, Len(u))
        /\ current' = Audit!NoPath => hits' = {}
        /\ \A k \in Audit!Keys :
              HitsOf(u, k) = InRecords(records', k) \cup (IF current' = k THEN hits' ELSE {})
        \/ Audit!ReadBad(l)
    <3>1. ASSUME Audit!ReadSf(l) \/ Audit!ReadEnd(l)
          PROVE  /\ current' = Audit!OwnerOf(u, Len(u))
                 /\ hits' = {}
                 /\ \A k \in Audit!Keys : HitsOf(u, k) = InRecords(records', k)
      <4>1. /\ l.tag \in {"SF", "end_of_record"}
            /\ current' = IF l.tag = "SF" THEN l.key ELSE Audit!NoPath
            /\ IF current = Audit!NoPath THEN UNCHANGED <<hits, records>>
               ELSE hits' = Audit!Closed.hits /\ records' = Audit!Closed.records
        BY <3>1 DEF Audit!ReadSf, Audit!ReadEnd
      <4>2. current' = Audit!OwnerOf(u, Len(u)) BY <2>6, <4>1
      <4>3. ~IsHit(l) BY <4>1 DEF IsHit
      <4>4. ASSUME NEW k \in Audit!Keys PROVE HitsOf(u, k) = InRecords(records', k)
        <5>1. HitsOf(u, k) = InRecords(records, k) \cup (IF current = k THEN hits ELSE {})
          BY <2>4, <2>6, <4>3
        <5>2. CASE current = Audit!NoPath BY <2>4, <4>1, <5>1, <5>2
        <5>3. CASE current # Audit!NoPath BY <2>7, <4>1, <5>1, <5>3
        <5> QED BY <5>2, <5>3
      <4>5. hits' = {} BY <1>7, <2>4, <4>1
      <4> QED BY <4>2, <4>4, <4>5
    <3>2. ASSUME Audit!ReadDa(l)
          PROVE  /\ current' = Audit!OwnerOf(u, Len(u))
                 /\ current' # Audit!NoPath
                 /\ \A k \in Audit!Keys :
                       HitsOf(u, k) = InRecords(records',
                       k) \cup (IF current' = k THEN hits' ELSE {})
      <4>1. /\ l.tag = "DA" /\ current' = current /\ records' = records
            /\ hits' = hits \cup (IF IsHit(l) THEN {l.line} ELSE {})
        BY <3>2 DEF Audit!ReadDa, IsHit
      <4>2. current' = Audit!OwnerOf(u, Len(u)) /\ current # Audit!NoPath BY <2>1, <2>4, <2>6,
        <4>1
      <4>3. ASSUME NEW k \in Audit!Keys
            PROVE  HitsOf(u, k) = InRecords(records',
                k) \cup (IF current' = k THEN hits' ELSE {})
        BY <2>4, <2>6, <4>1
      <4> QED BY <4>1, <4>2, <4>3
    <3>3. \A k \in Audit!Keys : InRecords(records', k) \cup {} = InRecords(records', k) OBVIOUS
    <3> QED BY <1>1, <3>1, <3>2, <3>3
  <2>9. texts'[Len(texts')] = u BY <1>4, <1>5
  <2>10. CASE ~Audit!ReadBad(l)
    <3>1. ReaderOK' BY <2>8, <2>9, <2>10 DEF ReaderOK
    <3> QED BY <2>3, <3>1
  <2> QED BY <2>5, <2>10
<1> QED BY <1>9, <1>10, <1>11 DEF AuditInv

\* Every step of the audit keeps what holds.
LEMMA AuditStep == AuditInv /\ [Audit!Next]_Audit!vars => AuditInv'
<1> SUFFICES ASSUME AuditInv, [Audit!Next]_Audit!vars PROVE AuditInv'
  OBVIOUS
<1>0. AuditTypes /\ AuditDone BY DEF AuditInv
<1>1. CASE \E l \in Audit!LcovLines : Audit!ReadLcov(l) BY <1>1, ReadKeeps
<1>2. ASSUME UNCHANGED <<texts, lcovIndex, errors>>, AuditTypes', AuditDone',
             stage = "lcov" <=> stage' = "lcov",
             UNCHANGED <<current, hits, records>> \/ stage # "lcov"
      PROVE  AuditInv'
  <2>1. /\ \A t, j : Audit!OwnerOf(t, j)' = Audit!OwnerOf(t, j)
        /\ \A t, k : HitsOf(t, k)' = HitsOf(t, k)
    BY DEF Audit!OwnerOf, HitsOf
  <2>2. Audit!WellFormed' <=> Audit!WellFormed BY <1>2 DEF Audit!WellFormed, Audit!Lcovs
  <2>3. MergedFiles' = MergedFiles BY <1>2 DEF MergedFiles
  <2>4. IndexOK => IndexOK' BY <1>2, <2>3 DEF IndexOK
  <2>5. ReaderOK => ReaderOK' BY <1>2 DEF ReaderOK, Audit!Reading
  <2> QED BY <1>2, <2>2, <2>4, <2>5 DEF AuditInv
<1>3. CASE Audit!Walk
  <2>1. texts = <<>> /\ Len(texts) = 0 /\ errors = {} /\ 1 .. Len(texts) = {}
    BY <1>0, <1>3 DEF AuditTypes, Audit!Walk
  <2>2. AuditTypes' BY <1>0, <1>3, <2>1 DEF AuditTypes, Audit!Walk, Audit!reader
  <2>3. AuditDone' BY <1>0, <1>3 DEF AuditDone, Audit!Walk, Audit!output
  <2>4. Audit!WellFormed' <=> Audit!WellFormed
    BY <1>3 DEF Audit!WellFormed, Audit!Lcovs, Audit!Walk
  <2>5. 1 .. MergedFiles = {} /\ 1 .. MergedFiles' = {}
    BY <1>3, <2>1 DEF MergedFiles, Audit!Walk
  <2>6. IndexOK => IndexOK' BY <1>3, <2>5 DEF IndexOK, Audit!Walk
  <2>7. ReaderOK' BY <1>3, <2>1 DEF ReaderOK, Audit!Reading, Audit!Walk
  <2> QED BY <2>2, <2>3, <2>4, <2>6, <2>7 DEF AuditInv
<1>4. CASE Audit!Refused
  <2>1. AuditTypes' BY <1>0, <1>4 DEF AuditTypes, Audit!Refused, Audit!reader
  <2>2. AuditDone' BY <1>0, <1>4 DEF AuditDone, Audit!Refused
  <2> QED BY <1>2, <1>4, <2>1, <2>2 DEF Audit!Refused, Audit!reader
<1>5. CASE Audit!NextFile \/ Audit!LcovEnds
  <2>1. /\ stage = "lcov" /\ UNCHANGED <<parses, entries, errors, auditTmp, audit, auditMd,
                                         verdict>>
        /\ lcovIndex' = IF Audit!Reading THEN Audit!Merged(Audit!AllRecords) ELSE lcovIndex
        /\ current' = Audit!NoPath /\ hits' = {} /\ records' = <<>>
        /\ \/ stage' = "lcov" /\ texts' = Append(texts, <<>>)
           \/ stage' = "json" /\ texts' = texts
    BY <1>5 DEF Audit!NextFile, Audit!LcovEnds, Audit!output
  <2>2. /\ texts \in Seq(Texts) /\ Len(texts) \in Nat /\ <<>> \in Texts /\ Len(<<>>) = 0
        /\ 1 .. Len(<<>>) = {}
    BY <1>0 DEF AuditTypes, Texts
  <2>3. /\ texts' \in Seq(Texts)
        /\ \A i \in 1 .. Len(texts) : texts'[i] = texts[i]
        /\ IF stage' = "lcov"
             THEN Len(texts') = Len(texts) + 1 /\ texts'[Len(texts) + 1] = <<>>
             ELSE Len(texts') = Len(texts)
    BY <2>1, <2>2
  <2>4. Len(texts') \in Nat /\ MergedFiles' = Len(texts) /\ 1 .. Len(texts) \subseteq 1 .. Len(texts')
    BY <2>1, <2>2, <2>3 DEF MergedFiles
  <2>5. AuditTypes'
    <3>1. ASSUME NEW i \in 1 .. Len(texts'), NEW j \in 1 .. Len(texts'[i]),
      texts'[i][j].tag = "bad"
          PROVE  i \in errors'
      <4>1. i \in 1 .. Len(texts)
        <5>1. CASE i = Len(texts) + 1 BY <2>2, <2>3, <3>1, <5>1
        <5> QED BY <2>2, <2>3, <5>1
      <4>2. texts'[i] = texts[i] BY <2>3, <4>1
      <4> QED BY <1>0, <2>1, <3>1, <4>1, <4>2 DEF AuditTypes
    <3>2. DOMAIN lcovIndex' = Audit!Keys BY <1>0, <2>1 DEF AuditTypes, Audit!Merged
    <3>3. errors' \subseteq 1 .. Len(texts') BY <1>0, <2>1, <2>4 DEF AuditTypes
    <3>4. stage' \in {"lcov", "json"} BY <2>1
    <3>5. current' \in Audit!Keys \cup {Audit!NoPath} /\ hits' \subseteq Audit!Lines
          /\ records' \in Seq(LinesOfRecords)
      BY <2>1
    <3> QED BY <2>3, <3>1, <3>2, <3>3, <3>4, <3>5 DEF AuditTypes
  <2>6. AuditDone' BY <1>0, <2>1 DEF AuditDone
  <2>7. ASSUME Audit!WellFormed' PROVE IndexOK' /\ ReaderOK'
    <3>1. (AuditTypes => (Audit!WellFormed <=> CountsOwned))' BY WellFormedness, PTL
    <3>2. CountsOwned' BY <2>5, <2>7, <3>1
    <3>3. CountsOwned BY <2>3, <2>4, <3>2 DEF CountsOwned
    <3>4. IndexOK /\ ReaderOK BY <1>0, <3>3, WellFormedness DEF AuditInv
    <3>5. \A k \in Audit!Keys :
             lcovIndex'[k] = UNION {HitsOf(texts[i], k) : i \in (1 .. Len(texts)) \ errors}
      BY <1>0, <2>1, <3>4, FileMerged
    <3>6. ASSUME NEW k
          PROVE  {HitsOf(texts'[i], k) : i \in (1 .. Len(texts)) \ errors}
                   = {HitsOf(texts[i], k) : i \in (1 .. Len(texts)) \ errors}
      BY <2>3
    <3>7. IndexOK' BY <2>1, <2>4, <3>5, <3>6 DEF IndexOK
    <3>8. ASSUME Audit!Reading' PROVE texts'[Len(texts')] = <<>>
      BY <2>1, <2>3, <3>8 DEF Audit!Reading
    <3>9. \A k : HitsOf(<<>>, k) = {} BY <2>2 DEF HitsOf
    <3>10. \A k : InRecords(<<>>, k) = {} BY DEF InRecords
    <3>11. \A k \in Audit!Keys : k # Audit!NoPath BY DEF Audit!Keys, Audit!NoPath
    <3>12. ReaderOK' BY <2>1, <2>2, <3>8, <3>9, <3>10, <3>11, OwnerEmpty DEF ReaderOK
    <3> QED BY <3>7, <3>12
  <2> QED BY <2>5, <2>6, <2>7 DEF AuditInv
<1>6. CASE Audit!WriteTmp
  <2>1. AuditTypes' BY <1>0, <1>6 DEF AuditTypes, Audit!WriteTmp, Audit!reader
  <2>2. AuditDone' BY <1>0, <1>6 DEF AuditDone, Audit!WriteTmp
  <2> QED BY <1>2, <1>6, <2>1, <2>2 DEF Audit!WriteTmp, Audit!reader
<1>7. CASE Audit!Rename
  <2>1. AuditTypes' BY <1>0, <1>7 DEF AuditTypes, Audit!Rename, Audit!reader
  <2>2. AuditDone' BY <1>0, <1>7 DEF AuditDone, Audit!Rename, Audit!ExitCode
  <2> QED BY <1>2, <1>7, <2>1, <2>2 DEF Audit!Rename, Audit!reader
<1>8. CASE Audit!WriteFails
  <2>1. AuditTypes' BY <1>0, <1>8 DEF AuditTypes, Audit!WriteFails, Audit!reader
  <2>2. AuditDone' BY <1>0, <1>8 DEF AuditDone, Audit!WriteFails
  <2> QED BY <1>2, <1>8, <2>1, <2>2 DEF Audit!WriteFails, Audit!reader
<1>9. CASE UNCHANGED Audit!vars
  <2>1. AuditTypes' BY <1>0, <1>9 DEF AuditTypes, Audit!vars
  <2>2. AuditDone' BY <1>0, <1>9 DEF AuditDone, Audit!vars
  <2> QED BY <1>2, <1>9, <2>1, <2>2 DEF Audit!vars
<1> QED BY <1>1, <1>3, <1>4, <1>5, <1>6, <1>7, <1>8, <1>9 DEF Audit!Next

\* The counts of the audit are of sets.
LEMMA SomeCovered ==
    ASSUME NEW S, IsFiniteSet(S)
    PROVE  Audit!Cardinality(S) > 0 <=> S # {}
<1>1. Audit!Cardinality(S) = Cardinality(S) BY DEF Audit!Cardinality, Cardinality
<1>2. Cardinality(S) \in Nat BY FS_CardinalityType
<1>3. Cardinality(S) = 0 <=> S = {} BY FS_EmptySet
<1> QED BY <1>1, <1>2, <1>3

\* An item is covered exactly if a file read whole reports a hit in its span, and no audit
\* that left something out ends well.
LEMMA AuditSound == AuditInv => Audit!AuditRight
<1> SUFFICES ASSUME AuditInv PROVE Audit!AuditRight
  OBVIOUS
<1>0. AuditTypes /\ AuditDone BY DEF AuditInv
<1>1. /\ DOMAIN texts = 1 .. Len(texts)
      /\ \A i \in 1 .. Len(texts) : DOMAIN texts[i] = 1 .. Len(texts[i])
  BY <1>0 DEF AuditTypes, Texts
<1>2. \A p : p \in Audit!Lcovs <=>
        \E i \in 1 .. Len(texts) : \E j \in 1 .. Len(texts[i]) : p = <<i, j>>
  BY <1>1 DEF Audit!Lcovs
<1>3. ASSUME stage = "json", Audit!WellFormed, NEW e \in entries
      PROVE  Audit!Covered(e) <=> Audit!TrueHit(e)
  <2> DEFINE Span == Audit!SpanOf(e)
             Own == {"relative", "absolute"}
  <2>1. IndexOK /\ MergedFiles = Len(texts) BY <1>3 DEF AuditInv, MergedFiles
  <2>2. IsFiniteSet(Span)
    <3>1. IsFiniteSet({1, 2}) /\ IsFiniteSet({1}) BY FS_Singleton, FS_AddElement
    <3> QED BY <3>1 DEF Audit!SpanOf
  <2> HIDE DEF Span
  <2>3. \A k : IsFiniteSet(lcovIndex[k] \cap Span) BY <2>2, FS_Subset
  <2>4. Audit!Covered(e) <=> \E k \in Own : lcovIndex[k] \cap Span # {}
    <3> DEFINE R == lcovIndex["relative"] \cap Span
               B == lcovIndex["absolute"] \cap Span
    <3>1. Audit!CoveredLines(e) = Audit!Cardinality(IF R # {} THEN R ELSE B)
      BY DEF Audit!CoveredLines, Span
    <3>2. IsFiniteSet(R) /\ IsFiniteSet(B) BY <2>3
    <3>3. (\E k \in Own : lcovIndex[k] \cap Span # {}) <=> R # {} \/ B # {} OBVIOUS
    <3> HIDE DEF R, B
    <3>4. Audit!Cardinality(IF R # {} THEN R ELSE B) > 0 <=> R # {} \/ B # {}
      <4>1. CASE R # {} BY <3>2, <4>1, SomeCovered
      <4>2. CASE R = {} BY <3>2, <4>2, SomeCovered
      <4> QED BY <4>1, <4>2
    <3> QED BY <3>1, <3>3, <3>4 DEF Audit!Covered
  <2>5. ASSUME NEW k \in Own
        PROVE  lcovIndex[k] \cap Span # {} <=>
                 \E i \in (1 .. Len(texts)) \ errors : \E j \in 1 .. Len(texts[i]) :
                    /\ IsHit(texts[i][j]) /\ texts[i][j].line \in Span
                    /\ Audit!OwnerOf(texts[i], j) = k
    <3>1. lcovIndex[k] = UNION {HitsOf(texts[i], k) : i \in (1 .. Len(texts)) \ errors}
      BY <2>1 DEF IndexOK, Audit!Keys
    <3>2. \A i, x : x \in HitsOf(texts[i], k) <=>
            \E j \in 1 .. Len(texts[i]) :
               IsHit(texts[i][j]) /\ Audit!OwnerOf(texts[i], j) = k /\ x = texts[i][j].line
      BY DEF HitsOf
    <3>3. \A x : x \in lcovIndex[k] <=>
            \E i \in (1 .. Len(texts)) \ errors : x \in HitsOf(texts[i], k)
      BY <3>1
    <3>4. lcovIndex[k] \cap Span # {} <=> \E x \in Span : x \in lcovIndex[k] OBVIOUS
    <3>5. ASSUME NEW x \in Span, x \in lcovIndex[k]
          PROVE  \E i \in (1 .. Len(texts)) \ errors : \E j \in 1 .. Len(texts[i]) :
                    /\ IsHit(texts[i][j]) /\ texts[i][j].line \in Span
                    /\ Audit!OwnerOf(texts[i], j) = k
      <4>1. PICK i \in (1 .. Len(texts)) \ errors : x \in HitsOf(texts[i], k) BY <3>3, <3>5
      <4>2. PICK j \in 1 .. Len(texts[i]) :
              IsHit(texts[i][j]) /\ Audit!OwnerOf(texts[i], j) = k /\ x = texts[i][j].line
        BY <3>2, <4>1
      <4> QED BY <3>5, <4>2
    <3>6. ASSUME NEW i \in (1 .. Len(texts)) \ errors, NEW j \in 1 .. Len(texts[i]),
                 IsHit(texts[i][j]), texts[i][j].line \in Span, Audit!OwnerOf(texts[i], j) = k
          PROVE  texts[i][j].line \in lcovIndex[k]
      <4>1. texts[i][j].line \in HitsOf(texts[i], k) BY <3>2, <3>6
      <4> QED BY <3>3, <4>1
    <3> QED BY <3>4, <3>5, <3>6
  <2>6. Audit!TrueHit(e) <=>
          \E i \in (1 .. Len(texts)) \ errors : \E j \in 1 .. Len(texts[i]) :
             /\ IsHit(texts[i][j]) /\ texts[i][j].line \in Span
             /\ Audit!OwnerOf(texts[i], j) \in Own
    <3>1. ASSUME Audit!TrueHit(e)
          PROVE  \E i \in (1 .. Len(texts)) \ errors : \E j \in 1 .. Len(texts[i]) :
                   /\ IsHit(texts[i][j]) /\ texts[i][j].line \in Span
                   /\ Audit!OwnerOf(texts[i], j) \in Own
      <4>1. PICK p \in Audit!Lcovs :
              /\ p[1] \notin errors /\ texts[p[1]][p[2]].tag = "DA" /\ texts[p[1]][p[2]].hit > 0
              /\ texts[p[1]][p[2]].line \in Span
              /\ Audit!OwnerOf(texts[p[1]], p[2]) \in Own
        BY <3>1 DEF Audit!TrueHit, Span
      <4>2. PICK i \in 1 .. Len(texts) : \E j \in 1 .. Len(texts[i]) : p = <<i, j>> BY <1>2
      <4>3. PICK j \in 1 .. Len(texts[i]) : p = <<i, j>> BY <4>2
      <4>4. p[1] = i /\ p[2] = j BY <4>3
      <4> QED BY <4>1, <4>4 DEF IsHit
    <3>2. ASSUME NEW i \in (1 .. Len(texts)) \ errors, NEW j \in 1 .. Len(texts[i]),
                 IsHit(texts[i][j]), texts[i][j].line \in Span,
                 Audit!OwnerOf(texts[i], j) \in Own
          PROVE  Audit!TrueHit(e)
      <4> DEFINE p == <<i, j>>
      <4>1. p \in Audit!Lcovs /\ p[1] = i /\ p[2] = j BY <1>2
      <4> HIDE DEF p
      <4> QED BY <3>2, <4>1 DEF Audit!TrueHit, IsHit, Span
    <3> QED BY <3>1, <3>2
  <2> QED BY <2>4, <2>5, <2>6
<1>4. ASSUME verdict = "ok"
      PROVE  /\ audit = "json" /\ auditMd \in {"unasked", "md"} /\ parses
             /\ \A p \in Audit!Lcovs : texts[p[1]][p[2]].tag # "bad"
  <2>1. audit = "json" /\ auditMd \in {"unasked", "md"} /\ parses /\ errors = {}
    BY <1>0, <1>4 DEF AuditDone
  <2>2. \A i \in 1 .. Len(texts) : \A j \in 1 .. Len(texts[i]) : texts[i][j].tag # "bad"
    BY <1>0, <2>1 DEF AuditTypes
  <2>3. ASSUME NEW p \in Audit!Lcovs PROVE texts[p[1]][p[2]].tag # "bad"
    BY <1>2, <2>2
  <2> QED BY <2>1, <2>3
<1> QED BY <1>3, <1>4 DEF Audit!AuditRight

-----------------------------------------------------------------------------
(* Induction over the numbers, from the well-foundedness of their order: a set *)
(* stands for the formula.                                                     *)

\* A set with 0 and with the successor of each of its numbers has them all.
LEMMA Induct ==
    ASSUME NEW T, 0 \in T, \A n \in Nat : n \in T => n + 1 \in T
    PROVE  \A n \in Nat : n \in T
<1> DEFINE R == OpToRel(<, Nat)
<1>1. \A m, n \in Nat : <<m, n>> \in R <=> m < n BY DEF OpToRel
<1>2. IsWellFoundedOn(R, Nat) BY NatLessThanWellFounded
<1> HIDE DEF R
<1> SUFFICES ASSUME Nat \ T # {} PROVE FALSE OBVIOUS
<1>3. PICK n \in Nat \ T : \A m \in Nat \ T : ~ (<<m, n>> \in R)
  <2>1. Nat \ T \subseteq Nat OBVIOUS
  <2> QED BY <1>2, <2>1, WFMin
<1>4. n # 0 /\ n - 1 \in Nat BY <1>3
<1>5. <<n - 1, n>> \in R BY <1>1, <1>3, <1>4
<1>6. n - 1 \in T BY <1>3, <1>4, <1>5
<1>7. n \in T
  <2>1. n - 1 + 1 \in T BY <1>4, <1>6
  <2> QED BY <1>3, <2>1
<1> QED BY <1>3, <1>7

\* A function that is given its value at 0 and how to go on exists.
LEMMA Iteration ==
    ASSUME NEW D, NEW e \in D, NEW G \in [D -> D]
    PROVE  \E f \in [Nat -> D] : f[0] = e /\ \A n \in Nat : f[n + 1] = G[f[n]]
<1> DEFINE Part(n, h) == h \in [0 .. n -> D] /\ h[0] = e /\ \A i \in 0 .. n - 1 : h[i + 1] = G[h[i]]
           T == {n \in Nat : \E h : Part(n, h)}
<1>1. 0 \in T
  <2>1. Part(0, [i \in 0 .. 0 |-> e]) OBVIOUS
  <2> QED BY <2>1
<1>2. ASSUME NEW n \in Nat, n \in T PROVE n + 1 \in T
  <2>1. PICK h : Part(n, h) BY <1>2
  <2>2. h[n] \in D BY <2>1
  <2>3. Part(n + 1, [i \in 0 .. n + 1 |-> IF i = n + 1 THEN G[h[n]] ELSE h[i]])
    BY <2>1, <2>2
  <2>4. n + 1 \in Nat OBVIOUS
  <2> HIDE DEF Part
  <2> QED BY <2>3, <2>4
<1>3. \A n \in Nat : n \in T
  <2> HIDE DEF T
  <2> QED BY <1>1, <1>2, Induct
<1>4. \A n \in Nat : \E h : Part(n, h) BY <1>3
<1> DEFINE H(n) == CHOOSE h : Part(n, h)
<1>5. \A n \in Nat : Part(n, H(n))
  <2> HIDE DEF Part
  <2> QED BY <1>4
<1>6. ASSUME NEW m \in Nat, NEW g, NEW h, NEW k \in Nat, k >= m, Part(m, g), Part(k, h)
      PROVE g[m] = h[m]
  <2> DEFINE S == {i \in Nat : i <= m => g[i] = h[i]}
  <2>1. 0 \in S BY <1>6
  <2>2. ASSUME NEW i \in Nat, i \in S PROVE i + 1 \in S BY <1>6, <2>2
  <2>3. \A i \in Nat : i \in S
    <3> HIDE DEF S
    <3> QED BY <2>1, <2>2, Induct
  <2> QED BY <2>3
<1> DEFINE f == [n \in Nat |-> H(n)[n]]
<1>7. f \in [Nat -> D] /\ f[0] = e
  <2> HIDE DEF H
  <2>1. \A n \in Nat : H(n)[n] \in D BY <1>5
  <2>2. H(0)[0] = e BY <1>5
  <2> QED BY <2>1, <2>2
<1>8. ASSUME NEW n \in Nat PROVE f[n + 1] = G[f[n]]
  <2> HIDE DEF H
  <2>1. Part(n, H(n)) /\ Part(n + 1, H(n + 1)) BY <1>5
  <2>2. H(n + 1)[n + 1] = G[H(n + 1)[n]] BY <2>1
  <2>3. H(n)[n] = H(n + 1)[n]
    <3>1. H(n + 1) \in [0 .. n + 1 -> D] /\ H(n + 1)[0] = e
          /\ \A i \in 0 .. n - 1 : H(n + 1)[i + 1] = G[H(n + 1)[i]]
      BY <2>1
    <3> DEFINE S == {i \in Nat : i <= n => H(n)[i] = H(n + 1)[i]}
    <3>2. 0 \in S BY <2>1
    <3>3. ASSUME NEW i \in Nat, i \in S PROVE i + 1 \in S BY <2>1, <3>1, <3>3
    <3>4. \A i \in Nat : i \in S
      <4> HIDE DEF S
      <4> QED BY <3>2, <3>3, Induct
    <3> QED BY <3>4
  <2> QED BY <2>2, <2>3
<1> QED BY <1>7, <1>8

-----------------------------------------------------------------------------
\* The parts of URLs and paths.
Urls == Seq({"/", "x", "p", "q", "i"})

\* Joining prefixes is associative: it does not matter at which end of the chain of
\* mounts the walk begins.
LEMMA JoinAssociates ==
    ASSUME NEW a \in Urls, NEW b \in Urls, NEW c \in Urls
    PROVE  /\ JoinUrl(a, b) \in Urls /\ JoinUrl(<<>>, b) = b
           /\ JoinUrl(a, JoinUrl(b, c)) = JoinUrl(JoinUrl(a, b), c)
<1> DEFINE S(x) == IF x = Slash THEN <<>> ELSE x
           J(x, y) == IF x = <<>> THEN y ELSE IF y \in {<<>>, Slash} THEN x ELSE S(x) \o y
<1>1. \A x, y : JoinUrl(x, y) = J(x, y) BY DEF JoinUrl
<1>2. Slash \in Urls /\ <<>> \in Urls /\ Len(Slash) = 1 /\ Len(<<>>) = 0 /\ Slash # <<>>
  BY DEF Slash, Urls
<1>3. \A x, y \in Urls : x \o y \in Urls /\ Len(x \o y) = Len(x) + Len(y) /\ Len(x) \in Nat
  BY DEF Urls
<1>4. \A x \in Urls : x # <<>> => Len(x) > 0 BY DEF Urls
<1>5. \A x \in Urls : S(x) \in Urls BY <1>2
<1>6. \A x, y \in Urls : J(x, y) \in Urls BY <1>2, <1>3, <1>5
<1>7. \A x, y, z \in Urls : (x \o y) \o z = x \o (y \o z) BY DEF Urls
<1>8. \A x \in Urls : <<>> \o x = x BY DEF Urls
<1>9. J(a, J(b, c)) = J(J(a, b), c)
  <2>1. CASE a = <<>> \/ b = <<>> BY <2>1, <1>2
  <2>2. CASE a # <<>> /\ b = Slash
    <3>1. J(a, b) = a BY <2>2, <1>2
    <3>2. CASE c \in {<<>>, Slash} BY <2>2, <3>1, <3>2, <1>2
    <3>3. CASE c \notin {<<>>, Slash}
      <4>1. J(b, c) = <<>> \o c BY <2>2, <3>3, <1>2
      <4>2. J(b, c) = c BY <4>1, <1>8
      <4> QED BY <3>1, <4>2
    <3> QED BY <3>2, <3>3
  <2>3. CASE a # <<>> /\ b \notin {<<>>, Slash}
    <3>1. J(a, b) = S(a) \o b /\ S(a) \in Urls /\ S(b) = b BY <2>3, <1>2, <1>5
    <3>2. Len(b) > 0 /\ S(a) \o b # <<>> BY <2>3, <1>2, <1>3, <1>4, <3>1
    <3>3. CASE c \in {<<>>, Slash} BY <2>3, <3>1, <3>2, <3>3
    <3>4. CASE c \notin {<<>>, Slash}
      <4>1. J(b, c) = b \o c BY <2>3, <3>1, <3>4
      <4>2. Len(b \o c) > 1 /\ b \o c \notin {<<>>, Slash}
        <5>1. Len(c) > 0 BY <3>4, <1>4
        <5> QED BY <5>1, <3>2, <1>2, <1>3
      <4>3. J(a, J(b, c)) = S(a) \o (b \o c) BY <2>3, <4>1, <4>2
      <4>4. S(S(a) \o b) = S(a) \o b
        <5>1. CASE S(a) = <<>> BY <5>1, <1>8, <2>3
        <5>2. CASE S(a) # <<>>
          <6>1. Len(S(a) \o b) > 1 BY <5>2, <3>1, <3>2, <1>3, <1>4
          <6> QED BY <6>1, <1>2
        <5> QED BY <5>1, <5>2
      <4>5. J(J(a, b), c) = (S(a) \o b) \o c BY <3>1, <3>2, <3>4, <4>4
      <4>6. (S(a) \o b) \o c = S(a) \o (b \o c) BY <1>7, <3>1
      <4> HIDE DEF J, S
      <4> QED BY <4>3, <4>5, <4>6
    <3> QED BY <3>3, <3>4
  <2> QED BY <2>1, <2>2, <2>3
<1> QED BY <1>1, <1>6, <1>9

\* Nothing stands in front of a router that is not nested.
LEMMA OuterNone == Outer(<<>>) = <<>>
<1>1. DOMAIN <<>> = {} OBVIOUS
<1>2. FoldLeft(JoinUrl, <<>>, <<>>) = <<>> BY <1>1, Zenon DEF FoldLeft, MapThenFoldSet
<1> QED BY <1>2 DEF Outer

-----------------------------------------------------------------------------
(* The prefixes builders are served under.                                     *)

Mounts == Read("mount")

\* The mounts that the walk understands: each builder has one at most.
PlainMounts ==
    /\ \A m \in Mounts : /\ m.how = "nest" /\ m.inline = <<>> /\ m.prefix \in Urls
                           /\ m.builder \in Builders /\ m.child \in Builders
    /\ \A m, o \in Mounts : m.child = o.child => m = o

\* A level of ServedAt from the one before.
Above(n, f, b) == UNION {{JoinUrl(q, JoinUrl(Outer(m.inline), m.prefix)) : q \in f[n - 1][m.builder]} :
                         m \in MountsOf(b)}

\* What its recursive definition says of ServedAt.
LEMMA ServedDefined ==
    ASSUME PlainMounts
    PROVE  \A n \in Nat, b \in Builders :
             /\ MountsOf(b) = {} => ServedAt[n][b] = {<<>>}
             /\ \A m \in MountsOf(b) :
                  /\ ServedAt[0][b] = {}
                  /\ ServedAt[n + 1][b] = {JoinUrl(q, m.prefix) : q \in ServedAt[n][m.builder]}
<1> DEFINE Level(n, f) == [b \in Builders |->
             IF MountsOf(b) = {} THEN {<<>>} ELSE IF n = 0 THEN {} ELSE Above(n, f, b)]
           Defines(f) == f = [n \in Nat |-> Level(n, f)]
           D == [Builders -> SUBSET Urls]
           e == [b \in Builders |-> IF MountsOf(b) = {} THEN {<<>>} ELSE {}]
           Up(h, b) == UNION {{JoinUrl(q, JoinUrl(Outer(m.inline), m.prefix)) : q \in h[m.builder]} :
                              m \in MountsOf(b)}
           Next1(h) == [b \in Builders |-> IF MountsOf(b) = {} THEN {<<>>} ELSE Up(h, b)]
           G == [h \in D |-> Next1(h)]
<1>1. e \in D BY DEF Urls
<1>2. G \in [D -> D]
  <2> SUFFICES ASSUME NEW h \in D, NEW b \in Builders PROVE Next1(h)[b] \subseteq Urls
    OBVIOUS
  <2>1. \A m \in MountsOf(b) : \A q \in h[m.builder] :
          JoinUrl(q, JoinUrl(Outer(m.inline), m.prefix)) \in Urls
    <3> SUFFICES ASSUME NEW m \in MountsOf(b), NEW q \in h[m.builder]
                 PROVE  JoinUrl(q, JoinUrl(Outer(m.inline), m.prefix)) \in Urls
      OBVIOUS
    <3>1. m.inline = <<>> /\ m.prefix \in Urls /\ m.builder \in Builders
      BY DEF PlainMounts, MountsOf, Mounts
    <3>2. q \in Urls /\ <<>> \in Urls BY <3>1 DEF Urls
    <3> QED BY <3>1, <3>2, OuterNone, JoinAssociates
  <2>2. <<>> \in Urls BY DEF Urls
  <2> QED BY <2>1, <2>2
<1>3. PICK f \in [Nat -> D] : f[0] = e /\ \A n \in Nat : f[n + 1] = G[f[n]]
  <2> HIDE DEF e, G, D
  <2> QED BY <1>1, <1>2, Iteration
<1>4. Defines(f)
  <2> SUFFICES ASSUME NEW n \in Nat PROVE f[n] = Level(n, f)
    BY <1>3
  <2>1. CASE n = 0 BY <1>3, <2>1
  <2>2. CASE n # 0
    <3>1. n - 1 \in Nat /\ (n - 1) + 1 = n BY <2>2
    <3>2. f[n - 1] \in D /\ f[n] = G[f[n - 1]] BY <1>3, <3>1
    <3>3. f[n] = Next1(f[n - 1]) BY <3>2
    <3> QED BY <2>2, <3>3 DEF Above
  <2> QED BY <2>1, <2>2
<1>5. ServedAt = CHOOSE g : Defines(g)
  BY Zenon DEF ServedAt, Above
<1>6. Defines(ServedAt)
  <2> HIDE DEF Defines
  <2> QED BY <1>4, <1>5, Zenon
<1>7. \A n \in Nat : ServedAt[n] = Level(n, ServedAt) BY <1>6
<1> HIDE DEF Defines
<1> SUFFICES ASSUME NEW n \in Nat, NEW b \in Builders
             PROVE  /\ MountsOf(b) = {} => ServedAt[n][b] = {<<>>}
                    /\ \A m \in MountsOf(b) :
                         /\ ServedAt[0][b] = {}
                         /\ ServedAt[n + 1][b] = {JoinUrl(q, m.prefix) : q \in ServedAt[n][m.builder]}
  OBVIOUS
<1>8. MountsOf(b) = {} => ServedAt[n][b] = {<<>>} BY <1>7
<1>9. ASSUME NEW m \in MountsOf(b)
      PROVE  /\ ServedAt[0][b] = {}
             /\ ServedAt[n + 1][b] = {JoinUrl(q, m.prefix) : q \in ServedAt[n][m.builder]}
  <2>1. MountsOf(b) = {m} /\ m.inline = <<>> /\ m.prefix \in Urls
    BY DEF PlainMounts, MountsOf, Mounts
  <2>2. JoinUrl(Outer(m.inline), m.prefix) = m.prefix
    <3>1. <<>> \in Urls BY DEF Urls
    <3> QED BY <2>1, <3>1, OuterNone, JoinAssociates
  <2>3. ServedAt[0][b] = {} BY <1>7
  <2>4. n + 1 \in Nat /\ n + 1 # 0 /\ (n + 1) - 1 = n OBVIOUS
  <2>5. ServedAt[n + 1][b] = Above(n + 1, ServedAt, b) BY <1>7, <2>4
  <2>6. Above(n + 1, ServedAt, b) = {JoinUrl(q, m.prefix) : q \in ServedAt[n][m.builder]}
    BY <2>1, <2>2, <2>4 DEF Above
  <2> QED BY <2>3, <2>5, <2>6
<1> QED BY <1>8, <1>9

\* A builder is served under one prefix at most, and more mounts above do not change it.
LEMMA ServedStable ==
    ASSUME PlainMounts
    PROVE  /\ \A n \in Nat, b \in Builders : \A p \in ServedAt[n][b] :
                p \in Urls /\ ServedAt[n][b] = {p}
           /\ \A n, k \in Nat, b \in Builders :
                k >= n /\ ServedAt[n][b] # {} => ServedAt[k][b] = ServedAt[n][b]
<1> DEFINE One(n) == \A b \in Builders : \A p \in ServedAt[n][b] : p \in Urls /\ ServedAt[n][b] = {p}
           Same(n) == \A b \in Builders : ServedAt[n][b] # {} => ServedAt[n + 1][b] = ServedAt[n][b]
           T == {n \in Nat : One(n) /\ Same(n)}
<1>1. \A n \in Nat, b \in Builders : MountsOf(b) = {} => ServedAt[n][b] = {<<>>}
  BY ServedDefined
<1>2. \A n \in Nat, b \in Builders : \A m \in MountsOf(b) :
        /\ ServedAt[0][b] = {} /\ m.builder \in Builders /\ m.prefix \in Urls
        /\ ServedAt[n + 1][b] = {JoinUrl(q, m.prefix) : q \in ServedAt[n][m.builder]}
  <2>1. \A b \in Builders : \A m \in MountsOf(b) : m.builder \in Builders /\ m.prefix \in Urls
    BY DEF PlainMounts, MountsOf, Mounts
  <2> QED BY <2>1, ServedDefined
<1>3. <<>> \in Urls BY DEF Urls
<1>4. 0 \in T
  <2>1. One(0) BY <1>1, <1>2, <1>3
  <2>2. Same(0)
    <3> SUFFICES ASSUME NEW b \in Builders, ServedAt[0][b] # {}
                 PROVE  ServedAt[0 + 1][b] = ServedAt[0][b]
      OBVIOUS
    <3>1. MountsOf(b) = {} BY <1>2
    <3>2. ServedAt[0][b] = {<<>>} /\ ServedAt[1][b] = {<<>>} BY <1>1, <3>1
    <3> QED BY <3>2
  <2> QED BY <2>1, <2>2
<1>5. ASSUME NEW n \in Nat, n \in T PROVE n + 1 \in T
  <2>1. One(n + 1)
    <3> SUFFICES ASSUME NEW b \in Builders, NEW p \in ServedAt[n + 1][b]
                 PROVE  p \in Urls /\ ServedAt[n + 1][b] = {p}
      OBVIOUS
    <3>1. CASE MountsOf(b) = {} BY <1>1, <1>3, <3>1
    <3>2. CASE MountsOf(b) # {}
      <4>1. PICK m \in MountsOf(b) : TRUE BY <3>2
      <4>2. PICK q \in ServedAt[n][m.builder] : p = JoinUrl(q, m.prefix) BY <1>2, <4>1
      <4>3. q \in Urls /\ ServedAt[n][m.builder] = {q} BY <1>2, <1>5, <4>1, <4>2
      <4>4. p \in Urls BY <1>2, <4>1, <4>2, <4>3, JoinAssociates
      <4> QED BY <1>2, <4>1, <4>2, <4>3, <4>4
    <3> QED BY <3>1, <3>2
  <2>2. Same(n + 1)
    <3> SUFFICES ASSUME NEW b \in Builders, ServedAt[n + 1][b] # {}
                 PROVE  ServedAt[(n + 1) + 1][b] = ServedAt[n + 1][b]
      OBVIOUS
    <3>0. n + 1 \in Nat /\ (n + 1) + 1 \in Nat OBVIOUS
    <3>1. CASE MountsOf(b) = {}
      <4>1. ServedAt[(n + 1) + 1][b] = {<<>>} /\ ServedAt[n + 1][b] = {<<>>} BY <1>1, <3>0, <3>1
      <4> QED BY <4>1
    <3>2. CASE MountsOf(b) # {}
      <4>1. PICK m \in MountsOf(b) : TRUE BY <3>2
      <4>2. /\ ServedAt[n + 1][b] = {JoinUrl(q, m.prefix) : q \in ServedAt[n][m.builder]}
            /\ ServedAt[(n + 1) + 1][b] = {JoinUrl(q, m.prefix) : q \in ServedAt[n + 1][m.builder]}
        BY <1>2, <3>0, <4>1
      <4>3. ServedAt[n][m.builder] # {} BY <4>2
      <4>4. ServedAt[n + 1][m.builder] = ServedAt[n][m.builder] BY <1>2, <1>5, <4>1, <4>3
      <4> QED BY <4>2, <4>4
    <3> QED BY <3>1, <3>2
  <2> QED BY <2>1, <2>2
<1>6. \A n \in Nat : n \in T
  <2> HIDE DEF T
  <2> QED BY <1>4, <1>5, Induct
<1>7. ASSUME NEW n \in Nat, NEW b \in Builders, ServedAt[n][b] # {}
      PROVE  \A d \in Nat : ServedAt[n + d][b] = ServedAt[n][b]
  <2> DEFINE S == {d \in Nat : ServedAt[n + d][b] = ServedAt[n][b]}
  <2>1. 0 \in S OBVIOUS
  <2>2. ASSUME NEW d \in Nat, d \in S PROVE d + 1 \in S
    <3>1. n + d \in Nat /\ n + (d + 1) = (n + d) + 1 OBVIOUS
    <3>2. Same(n + d) BY <1>6, <3>1
    <3> QED BY <1>7, <2>2, <3>1, <3>2
  <2>3. \A d \in Nat : d \in S
    <3> HIDE DEF S
    <3> QED BY <2>1, <2>2, Induct
  <2> QED BY <2>3
<1>8. \A n, k \in Nat, b \in Builders :
        k >= n /\ ServedAt[n][b] # {} => ServedAt[k][b] = ServedAt[n][b]
  <2> SUFFICES ASSUME NEW n \in Nat, NEW k \in Nat, NEW b \in Builders, k >= n, ServedAt[n][b] # {}
               PROVE  ServedAt[k][b] = ServedAt[n][b]
    OBVIOUS
  <2>1. k - n \in Nat /\ n + (k - n) = k OBVIOUS
  <2> QED BY <1>7, <2>1
<1> QED BY <1>6, <1>8

-----------------------------------------------------------------------------
(* What a handler may be taken for when its route is read.                     *)

\* What a sequence must be to be the concatenation of two others.
LEMMA Concat ==
    ASSUME NEW W, NEW s \in Seq(W), NEW t \in Seq(W), NEW u \in Seq(W), Len(u) = Len(s) + Len(t),
           \A i \in 1 .. Len(s) : u[i] = s[i], \A i \in 1 .. Len(t) : u[Len(s) + i] = t[i]
    PROVE  s \o t = u
<1>1. /\ s \o t \in Seq(W) /\ Len(s \o t) = Len(s) + Len(t)
      /\ \A i \in 1 .. Len(s) + Len(t) : (s \o t)[i] = IF i <= Len(s) THEN s[i] ELSE t[i - Len(s)]
  BY ConcatProperties
<1>2. Len(s) \in Nat /\ Len(t) \in Nat OBVIOUS
<1>3. \A i \in 1 .. Len(s) + Len(t) : (s \o t)[i] = u[i]
  <2> SUFFICES ASSUME NEW i \in 1 .. Len(s) + Len(t) PROVE (s \o t)[i] = u[i] OBVIOUS
  <2>1. CASE i <= Len(s) BY <1>1, <1>2, <2>1
  <2>2. CASE i > Len(s)
    <3>1. i - Len(s) \in 1 .. Len(t) /\ Len(s) + (i - Len(s)) = i BY <1>2, <2>2
    <3> QED BY <1>1, <1>2, <2>2, <3>1
  <2> QED BY <1>2, <2>1, <2>2
<1> QED BY <1>1, <1>3, SeqEqual

\* The concatenations of short sequences.
LEMMA Shorts ==
    ASSUME NEW x, NEW y, NEW z
    PROVE  /\ <<x>> \o <<>> = <<x>> /\ <<x, y>> \o <<>> = <<x, y>> /\ <<x, y, z>> \o <<>> = <<x, y, z>>
           /\ <<x>> \o <<y>> = <<x, y>> /\ <<x>> \o <<y, z>> = <<x, y, z>>
           /\ <<x, y>> \o <<z>> = <<x, y, z>>
           /\ SubSeq(<<x, y>>, 1, 1) = <<x>>
<1> DEFINE W == {x, y, z}
<1>1. <<x>> \o <<>> = <<x>> /\ <<x, y>> \o <<>> = <<x, y>> /\ <<x, y, z>> \o <<>> = <<x, y, z>> OBVIOUS
<1>2. <<x>> \o <<y>> = <<x, y>>
  <2> DEFINE s == <<x>>
             t == <<y>>
             u == <<x, y>>
  <2>1. s \in Seq(W) /\ Len(s) = 1 /\ s[1] = x OBVIOUS
  <2>2. t \in Seq(W) /\ Len(t) = 1 /\ t[1] = y OBVIOUS
  <2>3. u \in Seq(W) /\ Len(u) = 2 /\ u[1] = x /\ u[2] = y OBVIOUS
  <2> HIDE DEF s, t, u
  <2>4. \A i \in 1 .. Len(s) : u[i] = s[i] BY <2>1, <2>3
  <2>5. \A i \in 1 .. Len(t) : u[Len(s) + i] = t[i] BY <2>1, <2>2, <2>3
  <2>6. Len(u) = Len(s) + Len(t) /\ s \in Seq(W) /\ t \in Seq(W) /\ u \in Seq(W) BY <2>1, <2>2, <2>3
  <2>7. s \o t = u BY ONLY <2>4, <2>5, <2>6, Concat
  <2> QED BY <2>7 DEF s, t, u
<1>3. <<x>> \o <<y, z>> = <<x, y, z>>
  <2> DEFINE s == <<x>>
             t == <<y, z>>
             u == <<x, y, z>>
  <2>1. s \in Seq(W) /\ Len(s) = 1 /\ s[1] = x OBVIOUS
  <2>2. t \in Seq(W) /\ Len(t) = 2 /\ t[1] = y /\ t[2] = z OBVIOUS
  <2>3. u \in Seq(W) /\ Len(u) = 3 /\ u[1] = x /\ u[2] = y /\ u[3] = z OBVIOUS
  <2> HIDE DEF s, t, u
  <2>4. \A i \in 1 .. Len(s) : u[i] = s[i] BY <2>1, <2>3
  <2>5. \A i \in 1 .. Len(t) : u[Len(s) + i] = t[i] BY <2>1, <2>2, <2>3
  <2>6. Len(u) = Len(s) + Len(t) /\ s \in Seq(W) /\ t \in Seq(W) /\ u \in Seq(W) BY <2>1, <2>2, <2>3
  <2>7. s \o t = u BY ONLY <2>4, <2>5, <2>6, Concat
  <2> QED BY <2>7 DEF s, t, u
<1>4. <<x, y>> \o <<z>> = <<x, y, z>>
  <2> DEFINE s == <<x, y>>
             t == <<z>>
             u == <<x, y, z>>
  <2>1. s \in Seq(W) /\ Len(s) = 2 /\ s[1] = x /\ s[2] = y OBVIOUS
  <2>2. t \in Seq(W) /\ Len(t) = 1 /\ t[1] = z OBVIOUS
  <2>3. u \in Seq(W) /\ Len(u) = 3 /\ u[1] = x /\ u[2] = y /\ u[3] = z OBVIOUS
  <2> HIDE DEF s, t, u
  <2>4. \A i \in 1 .. Len(s) : u[i] = s[i] BY <2>1, <2>3
  <2>5. \A i \in 1 .. Len(t) : u[Len(s) + i] = t[i] BY <2>1, <2>2, <2>3
  <2>6. Len(u) = Len(s) + Len(t) /\ s \in Seq(W) /\ t \in Seq(W) /\ u \in Seq(W) BY <2>1, <2>2, <2>3
  <2>7. s \o t = u BY ONLY <2>4, <2>5, <2>6, Concat
  <2> QED BY <2>7 DEF s, t, u
<1>6. SubSeq(<<x, y>>, 1, 1) = <<x>>
  <2> DEFINE s == <<x, y>>
             u == <<x>>
  <2>1. s \in Seq(W) /\ Len(s) = 2 /\ s[1] = x OBVIOUS
  <2>2. u \in Seq(W) /\ Len(u) = 1 /\ u[1] = x OBVIOUS
  <2> HIDE DEF s, u
  <2>3. /\ SubSeq(s, 1, 1) \in Seq(W) /\ Len(SubSeq(s, 1, 1)) = 1 /\ SubSeq(s, 1, 1)[1] = s[1]
    BY <2>1
  <2>4. SubSeq(s, 1, 1) = u BY <2>1, <2>2, <2>3, SeqEqual
  <2> QED BY <2>4 DEF s, u
<1> QED BY <1>1, <1>2, <1>3, <1>4, <1>6

\* As Shorts, of two and two.
LEMMA TwoAndTwo ==
    ASSUME NEW x, NEW y, NEW z, NEW w
    PROVE  <<x, y>> \o <<z, w>> = <<x, y, z, w>>
<1> DEFINE W == {x, y, z, w}
<1> DEFINE s == <<x, y>>
           t == <<z, w>>
           u == <<x, y, z, w>>
<1>1. s \in Seq(W) /\ Len(s) = 2 /\ s[1] = x /\ s[2] = y OBVIOUS
<1>2. t \in Seq(W) /\ Len(t) = 2 /\ t[1] = z /\ t[2] = w OBVIOUS
<1>3. u \in Seq(W) /\ Len(u) = 4 /\ u[1] = x /\ u[2] = y /\ u[3] = z /\ u[4] = w OBVIOUS
<1> HIDE DEF s, t, u
<1>4. \A i \in 1 .. Len(s) : u[i] = s[i] BY <1>1, <1>3
<1>5. \A i \in 1 .. Len(t) : u[Len(s) + i] = t[i] BY <1>1, <1>2, <1>3
<1>6. Len(u) = Len(s) + Len(t) /\ s \in Seq(W) /\ t \in Seq(W) /\ u \in Seq(W) BY <1>1, <1>2, <1>3
<1>7. s \o t = u BY ONLY <1>4, <1>5, <1>6, Concat
<1> QED BY <1>7 DEF s, t, u

\* The paths of the file, its names and its functions.
LEMMA Paths ==
    /\ Front(Here) = <<"c">>
    /\ <<"c">> \o <<"h">> = <<"c", "h">> /\ <<"c">> \o <<"sub">> = <<"c", "sub">>
    /\ <<"c">> \o <<"sub", "h">> = <<"c", "sub", "h">> /\ Here \o <<"sub">> = <<"c", "m", "sub">>
    /\ Here \o <<"h">> = <<"c", "m", "h">> /\ Here \o <<"sub", "h">> = <<"c", "m", "sub", "h">>
    /\ <<"sub">> \o <<"h">> = <<"sub", "h">> /\ <<"c", "sub">> \o <<"h">> = <<"c", "sub", "h">>
    /\ <<"c", "sub", "h">> \o <<>> = <<"c", "sub", "h">> /\ <<"super", "h">> \o <<>> = <<"super", "h">>
    /\ Tail(<<"h">>) = <<>> /\ Tail(<<"crate", "h">>) = <<"h">> /\ Tail(<<"self", "h">>) = <<"h">>
    /\ Tail(<<"super", "h">>) = <<"h">> /\ Tail(<<"sub", "h">>) = <<"h">>
    /\ Tail(<<"crate", "sub", "h">>) = <<"sub", "h">> /\ Tail(<<"crate", "sub">>) = <<"sub">>
    /\ Tail(<<"self", "sub">>) = <<"sub">>
<1>1. Front(Here) = <<"c">>
  <2>1. Front(Here) = SubSeq(<<"c", "m">>, 1, 1) BY DEF Front, Here
  <2> QED BY <2>1, Shorts
<1>2. /\ <<"c">> \o <<"h">> = <<"c", "h">> /\ <<"c">> \o <<"sub">> = <<"c", "sub">>
      /\ <<"c">> \o <<"sub", "h">> = <<"c", "sub", "h">> /\ <<"sub">> \o <<"h">> = <<"sub", "h">>
      /\ <<"c", "sub">> \o <<"h">> = <<"c", "sub", "h">>
      /\ <<"c", "sub", "h">> \o <<>> = <<"c", "sub", "h">> /\ <<"super", "h">> \o <<>> = <<"super", "h">>
  BY Shorts
<1>3. /\ Here \o <<"h">> = <<"c", "m", "h">> /\ Here \o <<"sub", "h">> = <<"c", "m", "sub", "h">>
      /\ Here \o <<"sub">> = <<"c", "m", "sub">>
  <2>1. Here = <<"c", "m">> BY DEF Here
  <2>2. /\ <<"c", "m">> \o <<"h">> = <<"c", "m", "h">>
        /\ <<"c", "m">> \o <<"sub", "h">> = <<"c", "m", "sub", "h">>
        /\ <<"c", "m">> \o <<"sub">> = <<"c", "m", "sub">>
    <3>1. <<"c", "m">> \o <<"h">> = <<"c", "m", "h">> BY Shorts
    <3>2. <<"c", "m">> \o <<"sub", "h">> = <<"c", "m", "sub", "h">>
      <4>1. \A x, y, z, w : <<x, y>> \o <<z, w>> = <<x, y, z, w>> BY TwoAndTwo
      <4> QED BY ONLY <4>1
    <3>3. <<"c", "m">> \o <<"sub">> = <<"c", "m", "sub">> BY Shorts
    <3> QED BY <3>1, <3>2, <3>3
  <2> QED BY <2>1, <2>2
<1>4. /\ Tail(<<"h">>) = <<>> /\ Tail(<<"crate", "h">>) = <<"h">> /\ Tail(<<"self", "h">>) = <<"h">>
      /\ Tail(<<"super", "h">>) = <<"h">> /\ Tail(<<"sub", "h">>) = <<"h">>
      /\ Tail(<<"crate", "sub", "h">>) = <<"sub", "h">> /\ Tail(<<"crate", "sub">>) = <<"sub">>
      /\ Tail(<<"self", "sub">>) = <<"sub">>
  OBVIOUS
<1> QED BY <1>1, <1>2, <1>3, <1>4

\* What a reference may have been resolved to, given the names read.
Resolved(ref, h, uses, mods) ==
    \/ ref = <<"crate", "h">> /\ h = <<"c", "h">>
    \/ ref = <<"self", "h">> /\ h = <<"c", "m", "h">>
    \/ ref = <<"super", "h">> /\ h = <<"c", "h">>
    \/ ref = <<"dep", "h">> /\ h = ref
    \/ ref = <<"h">> /\ h = <<"c", "m", "h">>
    \/ ref = <<"h">> /\ \E u \in uses : u.name = "h" /\ h = Expand(u.of)
    \/ ref = <<"sub", "h">> /\ h = ref
    \/ ref = <<"sub", "h">> /\ h = <<"c", "m", "sub", "h">> /\ mods # {}
    \/ ref = <<"sub", "h">> /\ \E u \in uses : u.name = "sub" /\ h = Expand(u.of) \o <<"h">>

\* The names in use are those of the items read, one for a name and a scope.
NamesOK ==
    /\ Read("use") \subseteq
         [kind : {"use"}, name : {"h", "sub"}, of : {u.of : u \in Uses}, scope : {"file", "fn"}]
    /\ \A u \in Read("use") : [name |-> u.name, of |-> u.of] \in Uses
    /\ \A n \in DOMAIN use_map : \E u \in Read("use") : u.name = n /\ use_map[n] = Expand(u.of)
    /\ module_decls \subseteq {"sub"} /\ (module_decls # {} => Read("mod") # {})
    /\ \A u, v \in Read("use") : u.scope = v.scope /\ u.name = v.name => u = v
    /\ Read("mod") # {} => \A u \in Read("use") : u.scope = "file" => u.name # "sub"

\* The use items that a file may have.
LEMMA UseItems ==
    ASSUME NamesOK, NEW u \in Read("use")
    PROVE  \/ u.name = "h" /\ u.of \in {<<"crate", "sub", "h">>, <<"super", "h">>}
           \/ u.name = "sub" /\ u.of \in {<<"crate", "sub">>, <<"self", "sub">>}
BY DEF NamesOK, Uses

\* What the walk and the compiler make of them.
LEMMA Expanded ==
    /\ Expand(<<"crate", "sub", "h">>) = <<"c", "sub", "h">> /\ Expand(<<"super", "h">>) = <<"super", "h">>
    /\ Expand(<<"crate", "sub">>) = <<"c", "sub">> /\ Expand(<<"self", "sub">>) = <<"sub">>
    /\ UsedAs(<<"crate", "sub", "h">>) = <<"c", "sub", "h">> /\ UsedAs(<<"super", "h">>) = <<"c", "h">>
    /\ UsedAs(<<"crate", "sub">>) = <<"c", "sub">> /\ UsedAs(<<"self", "sub">>) = <<"c", "m", "sub">>
BY Paths DEF Expand, UsedAs

\* resolve_path finds one of the readings of Resolved.
LEMMA ResolvedSo ==
    ASSUME NamesOK, NEW ref \in References
    PROVE  Resolved(ref, ResolvePath(ref), Read("use"), Read("mod"))
<1>0. DOMAIN use_map \subseteq {"h", "sub"} /\ module_decls \subseteq {"sub"} BY DEF NamesOK
<1>1. CASE ref = <<"crate", "h">>
  <2>1. ref[1] = "crate" /\ Tail(ref) = <<"h">> /\ Len(ref) = 2 /\ ref # <<"dep", "h">> BY <1>1, Paths
  <2>2. ResolvePath(ref) = <<"c">> \o Tail(ref) BY <1>0, <2>1 DEF ResolvePath
  <2>3. ResolvePath(ref) = <<"c", "h">> BY <2>1, <2>2, Paths
  <2> QED BY <1>1, <2>3 DEF Resolved
<1>2. CASE ref = <<"self", "h">>
  <2>1. ref[1] = "self" /\ Tail(ref) = <<"h">> /\ Len(ref) = 2 /\ ref # <<"dep", "h">> BY <1>2, Paths
  <2>2. ResolvePath(ref) = Here \o Tail(ref) BY <1>0, <2>1 DEF ResolvePath
  <2>3. ResolvePath(ref) = <<"c", "m", "h">> BY <2>1, <2>2, Paths
  <2> QED BY <1>2, <2>3 DEF Resolved
<1>3. CASE ref = <<"super", "h">>
  <2>1. ref[1] = "super" /\ Tail(ref) = <<"h">> /\ Len(ref) = 2 /\ ref # <<"dep", "h">> BY <1>3, Paths
  <2>2. ResolvePath(ref) = Front(Here) \o Tail(ref) BY <1>0, <2>1 DEF ResolvePath
  <2>3. ResolvePath(ref) = <<"c", "h">> BY <2>1, <2>2, Paths
  <2> QED BY <1>3, <2>3 DEF Resolved
<1>4. CASE ref = <<"h">>
  <2>1. ref[1] = "h" /\ Tail(ref) = <<>> /\ Len(ref) = 1 BY <1>4
  <2>2. CASE "h" \in DOMAIN use_map
    <3>1. PICK u \in Read("use") : u.name = "h" /\ use_map["h"] = Expand(u.of) BY <2>2 DEF NamesOK
    <3>2. Expand(u.of) \o <<>> = Expand(u.of)
      <4>1. u.of = <<"crate", "sub", "h">> \/ u.of = <<"super", "h">> BY <3>1, UseItems
      <4> QED BY <4>1, Expanded, Paths
    <3>3. ResolvePath(ref) = use_map["h"] \o <<>> BY <2>1, <2>2 DEF ResolvePath
    <3> QED BY <1>4, <3>1, <3>2, <3>3 DEF Resolved
  <2>3. CASE "h" \notin DOMAIN use_map
    <3>1. ResolvePath(ref) = <<"c", "m", "h">> BY <1>4, <2>1, <2>3, Paths DEF ResolvePath
    <3> QED BY <1>4, <3>1 DEF Resolved
  <2> QED BY <2>2, <2>3
<1>5. CASE ref = <<"sub", "h">>
  <2>1. ref[1] = "sub" /\ Tail(ref) = <<"h">> /\ Len(ref) = 2 BY <1>5
  <2>2. CASE "sub" \in DOMAIN use_map
    <3>1. PICK u \in Read("use") : u.name = "sub" /\ use_map["sub"] = Expand(u.of) BY <2>2 DEF NamesOK
    <3>2. ResolvePath(ref) = use_map["sub"] \o <<"h">> BY <2>1, <2>2 DEF ResolvePath
    <3> QED BY <1>5, <3>1, <3>2 DEF Resolved
  <2>3. CASE "sub" \notin DOMAIN use_map /\ "sub" \in module_decls
    <3>1. ResolvePath(ref) = <<"c", "m", "sub", "h">> BY <1>5, <2>1, <2>3, Paths DEF ResolvePath
    <3> QED BY <1>5, <2>3, <3>1 DEF Resolved, NamesOK
  <2>4. CASE "sub" \notin DOMAIN use_map /\ "sub" \notin module_decls
    <3>1. ResolvePath(ref) = ref BY <2>1, <2>4 DEF ResolvePath
    <3> QED BY <1>5, <3>1 DEF Resolved
  <2> QED BY <2>2, <2>3, <2>4
<1>6. CASE ref = <<"dep", "h">>
  <2>1. ref[1] = "dep" /\ Len(ref) = 2 BY <1>6
  <2>2. "dep" \notin DOMAIN use_map BY DEF NamesOK
  <2>3. "dep" \notin module_decls BY DEF NamesOK
  <2>4. ResolvePath(ref) = ref BY <2>1, <2>2, <2>3 DEF ResolvePath
  <2> QED BY <1>6, <2>4 DEF Resolved
<1> QED BY <1>1, <1>2, <1>3, <1>4, <1>5, <1>6 DEF References

\* What is in the payload of a file whose other scopes do not use the name of the
\* handler is what the compiler takes for it.
LEMMA MeantSo ==
    ASSUME NamesOK, NEW ref \in References, NEW h \in Functions,
           Resolved(ref, h, Read("use"), Read("mod")),
           \A u \in Read("use") : u.scope = "file" \/ u.name # ref[1],
           h = <<"c", "m", "h">> => ~ \E u \in Read("use") : u.name = "h" /\ u.scope = "file"
    PROVE  Meant(ref) = h
<1> DEFINE uses == {u \in Read("use") : u.scope = "file" /\ u.name = ref[1]}
<1>0. \A u \in Read("use") : u.name \in {"h", "sub"} BY DEF NamesOK
<1>1. CASE ref = <<"crate", "h">>
  <2>1. ref[1] = "crate" /\ Tail(ref) = <<"h">> /\ Len(ref) = 2 /\ ref # <<"dep", "h">> BY <1>1, Paths
  <2>2. Meant(ref) = <<"c">> \o Tail(ref)
    <3>1. uses = {} BY <1>0, <2>1
    <3> QED BY <2>1, <3>1 DEF Meant
  <2>3. Meant(ref) = <<"c", "h">> BY <2>1, <2>2, Paths
  <2> QED BY <1>1, <2>3 DEF Resolved
<1>2. CASE ref = <<"self", "h">>
  <2>1. ref[1] = "self" /\ Tail(ref) = <<"h">> /\ Len(ref) = 2 /\ ref # <<"dep", "h">> BY <1>2, Paths
  <2>2. Meant(ref) = Here \o Tail(ref)
    <3>1. uses = {} BY <1>0, <2>1
    <3> QED BY <2>1, <3>1 DEF Meant
  <2>3. Meant(ref) = <<"c", "m", "h">> BY <2>1, <2>2, Paths
  <2> QED BY <1>2, <2>3 DEF Resolved
<1>3. CASE ref = <<"super", "h">>
  <2>1. ref[1] = "super" /\ Tail(ref) = <<"h">> /\ Len(ref) = 2 /\ ref # <<"dep", "h">> BY <1>3, Paths
  <2>2. Meant(ref) = <<"c">> \o Tail(ref)
    <3>1. uses = {} BY <1>0, <2>1
    <3> QED BY <2>1, <3>1 DEF Meant
  <2>3. Meant(ref) = <<"c", "h">> BY <2>1, <2>2, Paths
  <2> QED BY <1>3, <2>3 DEF Resolved
<1>4. CASE ref = <<"dep", "h">>
  <2>1. ref[1] = "dep" /\ uses = {}
    BY <1>4, UseItems
  <2>2. Meant(ref) = ref BY <1>4, <2>1 DEF Meant
  <2> QED BY <1>4, <2>2 DEF Resolved
<1>5. CASE ref = <<"h">>
  <2>1. ref[1] = "h" /\ Tail(ref) = <<>> BY <1>5
  <2>2. CASE uses = {}
    <3>1. \A u \in Read("use") : u.name # "h" BY <2>1, <2>2
    <3>2. h = <<"c", "m", "h">> BY <1>5, <3>1 DEF Resolved
    <3>3. Meant(ref) = Here \o ref BY <1>5, <2>1, <2>2 DEF Meant
    <3> QED BY <1>5, <3>2, <3>3, Paths
  <2>3. ASSUME NEW u \in uses PROVE Meant(ref) = h
    <3>1. u.name = "h" /\ u.scope = "file" /\ u \in Read("use") BY <2>1, <2>3
    <3>2. \A v \in Read("use") : v.name = "h" => v = u BY <2>1, <3>1 DEF NamesOK
    <3>3. uses = {u} /\ (CHOOSE v \in uses : TRUE) = u BY <2>1, <3>1, <3>2
    <3>4. h = Expand(u.of) BY <1>5, <3>1, <3>2 DEF Resolved
    <3>5. u.of = <<"crate", "sub", "h">>
      <4>1. <<"super", "h">> \notin Functions BY DEF Functions
      <4> QED BY <3>1, <3>4, <4>1, UseItems, Expanded
    <3>6. Meant(ref) = UsedAs(u.of) \o <<>>
      <4>1. uses # {} /\ Meant(ref) = UsedAs((CHOOSE v \in uses : TRUE).of) \o Tail(ref)
        <5>1. uses # {} BY <3>3
        <5>2. ref # <<"dep", "h">> BY <2>1
        <5> QED BY <2>1, <5>1, <5>2 DEF Meant
      <4> HIDE DEF uses
      <4> QED BY <2>1, <3>3, <4>1
    <3>7. UsedAs(u.of) = <<"c", "sub", "h">> /\ h = <<"c", "sub", "h">> BY <3>4, <3>5, Expanded
    <3> QED BY <3>6, <3>7, Paths
  <2> QED BY <2>2, <2>3
<1>6. CASE ref = <<"sub", "h">>
  <2>1. ref[1] = "sub" /\ Tail(ref) = <<"h">> BY <1>6
  <2>2. h # ref BY <1>6 DEF Functions
  <2>3. CASE uses = {}
    <3>1. \A u \in Read("use") : u.name # "sub" BY <2>1, <2>3
    <3>2. h = <<"c", "m", "sub", "h">> BY <1>6, <2>2, <3>1 DEF Resolved
    <3>3. Meant(ref) = Here \o ref BY <1>6, <2>1, <2>3 DEF Meant
    <3> QED BY <1>6, <3>2, <3>3, Paths
  <2>4. ASSUME NEW u \in uses PROVE Meant(ref) = h
    <3>1. u.name = "sub" /\ u.scope = "file" /\ u \in Read("use") BY <2>1, <2>4
    <3>2. \A v \in Read("use") : v.name = "sub" => v = u BY <2>1, <3>1 DEF NamesOK
    <3>3. uses = {u} /\ (CHOOSE v \in uses : TRUE) = u BY <2>1, <3>1, <3>2
    <3>4. Read("mod") = {} BY <3>1 DEF NamesOK
    <3>5. h = Expand(u.of) \o <<"h">> BY <1>6, <2>2, <3>1, <3>2, <3>4 DEF Resolved
    <3>6. u.of = <<"crate", "sub">>
      <4>1. <<"sub">> \o <<"h">> \notin Functions BY Paths DEF Functions
      <4> QED BY <3>1, <3>5, <4>1, UseItems, Expanded
    <3>7. Meant(ref) = UsedAs(u.of) \o <<"h">>
      <4>1. uses # {} /\ Meant(ref) = UsedAs((CHOOSE v \in uses : TRUE).of) \o Tail(ref)
        <5>1. uses # {} BY <3>3
        <5>2. ref # <<"dep", "h">> BY <2>1
        <5> QED BY <2>1, <5>1, <5>2 DEF Meant
      <4> HIDE DEF uses
      <4> QED BY <2>1, <3>3, <4>1
    <3>8. UsedAs(u.of) = <<"c", "sub">> /\ Expand(u.of) = <<"c", "sub">> BY <3>6, Expanded
    <3> QED BY <3>5, <3>7, <3>8, Paths
  <2> QED BY <2>3, <2>4
<1> QED BY <1>1, <1>2, <1>3, <1>4, <1>5, <1>6 DEF References
-----------------------------------------------------------------------------
(* The walk over the routes of files of builders.                              *)

\* The items of files that are not about branches.
WalkItems ==
    [kind : {"use"}, name : {"h", "sub"}, of : {u.of : u \in Uses}, scope : {"file", "fn"}]
    \cup [kind : {"mod"}, name : {"sub"}, scope : {"file"}]
    \cup [kind : {"route"}, builder : Builders \cup {NoBuilder}, literal : {Slash, <<"x">>},
          ref : References, shape : {"plain", "layered"}, inline : {<<>>, <<<<"i">>>>}]
    \cup [kind : {"mount"}, builder : Builders, how : {"nest", "nest_with_state", "merge"},
          prefix : {<<>>, <<"p">>, <<"q">>}, child : Builders, inline : {<<>>, <<<<"i">>>>}]
    \cup [kind : {"enter"}, prefix : {<<"i">>}]

\* What is kept of a route that was read.
Carries(r, it, uses, mods) ==
    /\ it.shape = "plain" /\ r.builder = it.builder
    /\ r.literal = JoinUrl(Outer(it.inline), it.literal) /\ Resolved(it.ref, r.handler, uses, mods)

\* Routes kept and routes read go together.
RoutesOK ==
    /\ IsFiniteSet(routes)
    /\ \A r \in routes :
         r.builder \in Builders /\ \E it \in Read("route") : Carries(r, it, Read("use"), Read("mod"))
    /\ \A it \in Read("route") : it.shape = "plain" =>
         IF it.builder = NoBuilder THEN unresolvable # {}
         ELSE \E r \in routes : Carries(r, it, Read("use"), Read("mod"))

\* The edges are those of the mounts.
EdgeOf(m) == [parent |-> m.builder, child |-> m.child, prefix |-> m.prefix]

EdgesOK ==
    /\ edges \in Seq([parent : Builders, child : Builders, prefix : {<<>>, <<"p">>, <<"q">>}])
    /\ \A i \in 1 .. Len(edges) : \E m \in Mounts : m.how = "nest" /\ edges[i] = EdgeOf(m)
    /\ \A m \in Mounts : m.how = "nest" => \E i \in 1 .. Len(edges) : edges[i] = EdgeOf(m)

\* What is in front of where the climb is, put before what it has gathered, is in front
\* of where it began.
ClimbOK ==
    climbing # <<>> =>
      LET c == climbing[1] IN
      /\ c \in [of : Builders, at : Builders, prefix : Urls, steps : Nat]
      /\ c.of \in WithRoutes /\ c.steps <= Cardinality(WithRoutes) + 2
      /\ PlainMounts =>
           /\ \A k \in Nat : \A q \in ServedAt[k][c.at] : JoinUrl(q, c.prefix) \in ServedAt[k + c.steps][c.of]
           /\ \A k \in Nat : k >= c.steps /\ ServedAt[k][c.of] # {} => ServedAt[k - c.steps][c.at] # {}

\* A builder that the climb from it can follow to a root.
Rooted(b) == \E n \in Depth : ServedAt[n][b] # {}

\* The prefix worked out for such a builder is the one it is served under.
PrefixesOK ==
    /\ DOMAIN prefixes \subseteq WithRoutes
    /\ PlainMounts => \A b \in DOMAIN prefixes : Rooted(b) => prefixes[b] \in ServedAt[MaxItems][b]

\* A run that ended well left nothing out.
DoneOK ==
    /\ exit \in {-1, 0, 2} /\ (exit # -1 => climbing = <<>>)
    /\ exit = 0 => /\ artifact = Emitted /\ \A e \in Emitted : e.handler \in Payload
                   /\ unresolvable = {} /\ DOMAIN prefixes = WithRoutes

\* The invariant of the walk over names and prefixes.
ReachInv ==
    about # "branches" =>
      /\ about \in {"names", "prefixes"} /\ items \in Seq(WalkItems)
      /\ inline \in {<<>>, <<<<"i">>>>} /\ DOMAIN index = Functions
      /\ NamesOK /\ RoutesOK /\ EdgesOK /\ ClimbOK /\ PrefixesOK /\ DoneOK

-----------------------------------------------------------------------------
\* The walk begins with nothing read.
LEMMA ReachInit == Init => ReachInv
<1> SUFFICES ASSUME Init, about # "branches" PROVE ReachInv BY DEF ReachInv
<1>1. /\ items = <<>> /\ use_map = <<>> /\ module_decls = {} /\ inline = <<>> /\ routes = {}
      /\ edges = <<>> /\ climbing = <<>> /\ prefixes = <<>> /\ exit = -1
      /\ about \in {"names", "prefixes"} /\ index = Covered
  BY DEF Init
<1>2. \A k : Read(k) = {} BY <1>1 DEF Read
<1>3. DOMAIN use_map = {} /\ DOMAIN prefixes = {} /\ Len(edges) = 0 /\ WithRoutes = {}
  BY <1>1 DEF WithRoutes
<1>4. NamesOK BY <1>1, <1>2, <1>3 DEF NamesOK
<1>5. RoutesOK BY <1>1, <1>2, FS_EmptySet DEF RoutesOK
<1>6. EdgesOK BY <1>1, <1>2, <1>3 DEF EdgesOK, Mounts
<1>7. ClimbOK /\ PrefixesOK /\ DoneOK BY <1>1, <1>3 DEF ClimbOK, PrefixesOK, DoneOK
<1>8. DOMAIN index = Functions /\ items \in Seq(WalkItems) BY <1>1 DEF Covered
<1> QED BY <1>1, <1>4, <1>5, <1>6, <1>7, <1>8 DEF ReachInv

\* What reading an item does to what was read.
LEMMA Appended ==
    ASSUME items \in Seq(WalkItems), NEW it \in WalkItems, Reads(it)
    PROVE  /\ items' \in Seq(WalkItems)
           /\ Read("use")' = Read("use") \cup (IF it.kind = "use" THEN {it} ELSE {})
           /\ Read("mod")' = Read("mod") \cup (IF it.kind = "mod" THEN {it} ELSE {})
           /\ Read("route")' = Read("route") \cup (IF it.kind = "route" THEN {it} ELSE {})
           /\ Read("mount")' = Read("mount") \cup (IF it.kind = "mount" THEN {it} ELSE {})
<1>1. items' = Append(items, it) BY DEF Reads
<1>2. /\ items' \in Seq(WalkItems) /\ Len(items') = Len(items) + 1 /\ Len(items) \in Nat
      /\ items'[Len(items) + 1] = it /\ \A i \in 1 .. Len(items) : items'[i] = items[i]
  BY <1>1
<1>3. 1 .. Len(items') = 1 .. Len(items) \cup {Len(items) + 1} BY <1>2
<1> DEFINE Of(s, k) == {s[i] : i \in {j \in 1 .. Len(s) : s[j].kind = k}}
<1>4. ASSUME NEW k PROVE Of(items', k) = Of(items, k) \cup (IF it.kind = k THEN {it} ELSE {})
  BY <1>2, <1>3
<1>5. /\ Read("use") = Of(items, "use") /\ Read("use")' = Of(items', "use")
      /\ Read("mod") = Of(items, "mod") /\ Read("mod")' = Of(items', "mod")
      /\ Read("route") = Of(items, "route") /\ Read("route")' = Of(items', "route")
      /\ Read("mount") = Of(items, "mount") /\ Read("mount")' = Of(items', "mount")
  BY DEF Read
<1> HIDE DEF Of
<1> QED BY <1>2, <1>4, <1>5

\* What was read is of the kinds of items.
LEMMA ReadItems ==
    ASSUME items \in Seq(WalkItems)
    PROVE  /\ \A k : \A it \in Read(k) : it \in WalkItems /\ it.kind = k
           /\ \A it \in Read("route") :
                /\ it.builder \in Builders \cup {NoBuilder} /\ it.ref \in References
                /\ it.inline \in {<<>>, <<<<"i">>>>} /\ it.literal \in {Slash, <<"x">>}
           /\ \A m \in Mounts :
                /\ m.builder \in Builders /\ m.child \in Builders /\ m.prefix \in {<<>>, <<"p">>, <<"q">>}
           /\ \A m \in Read("mod") : m.name = "sub" /\ m.scope = "file"
<1>1. \A k : \A it \in Read(k) : it \in WalkItems /\ it.kind = k BY DEF Read
<1> QED BY <1>1 DEF WalkItems, Mounts

\* Reading more does not change what is kept of a route.
LEMMA CarriesStays ==
    ASSUME NEW uses, NEW mods, NEW uses2, NEW mods2, uses \subseteq uses2, mods \subseteq mods2,
           NEW r, NEW it, Carries(r, it, uses, mods)
    PROVE  Carries(r, it, uses2, mods2)
BY DEF Carries, Resolved

\* Items of other kinds leave the names alone,
LEMMA NamesStay ==
    ASSUME NamesOK, Read("use")' = Read("use"), Read("mod")' = Read("mod"), UNCHANGED names
    PROVE  NamesOK'
BY DEF NamesOK, names

\* the routes alone,
LEMMA RoutesStay ==
    ASSUME RoutesOK, Read("use") \subseteq Read("use")', Read("mod") \subseteq Read("mod")',
           Read("route")' = Read("route"), UNCHANGED <<routes, unresolvable>>
    PROVE  RoutesOK'
<1>1. \A r, it : Carries(r, it, Read("use"), Read("mod")) => Carries(r, it, Read("use")', Read("mod")')
  BY CarriesStays
<1> QED BY <1>1 DEF RoutesOK

\* and the edges.
LEMMA EdgesStay ==
    ASSUME EdgesOK, Read("mount")' = Read("mount"), UNCHANGED edges
    PROVE  EdgesOK'
BY DEF EdgesOK, Mounts

\* Items are read before the climbs.
LEMMA ReadsStay ==
    ASSUME NEW it, Reads(it)
    PROVE  ClimbOK' /\ PrefixesOK' /\ DoneOK'
<1>1. climbing' = <<>> /\ prefixes' = <<>> /\ exit' = -1 BY DEF Reads, produced
<1>2. DOMAIN prefixes' = {} BY <1>1
<1> QED BY <1>1, <1>2 DEF ClimbOK, PrefixesOK, DoneOK

\* The part of the invariant that the reading of the file keeps.
LEMMA ReadsKeep ==
    ASSUME ReachInv, about # "branches", NEW it \in WalkItems, Reads(it), UNCHANGED index,
           inline' \in {<<>>, <<<<"i">>>>}, NamesOK', RoutesOK', EdgesOK'
    PROVE  ReachInv'
<1>1. items \in Seq(WalkItems) /\ about \in {"names", "prefixes"} /\ DOMAIN index = Functions
  BY DEF ReachInv
<1>2. items' \in Seq(WalkItems) BY <1>1, Appended
<1>3. about' = about BY DEF Reads
<1> QED BY <1>1, <1>2, <1>3, ReadsStay DEF ReachInv

\* A use item binds a name that the scope had not bound.
LEMMA ReadUseKeeps ==
    ASSUME ReachInv, about # "branches", NEW u \in Uses, NEW scope \in {"file", "fn"}, ReadUse(u, scope)
    PROVE  ReachInv'
<1> DEFINE it == [kind |-> "use", name |-> u.name, of |-> u.of, scope |-> scope]
<1>0. items \in Seq(WalkItems) /\ NamesOK /\ RoutesOK /\ EdgesOK /\ inline \in {<<>>, <<<<"i">>>>}
  BY DEF ReachInv
<1>1. Reads(it) /\ ~ Bound(u.name, scope) BY DEF ReadUse
<1>2. it \in WalkItems /\ it.kind = "use" /\ it.name = u.name /\ it.of = u.of /\ it.scope = scope
      /\ u.name \in {"h", "sub"} /\ u = [name |-> u.name, of |-> u.of]
  BY DEF WalkItems, Uses
<1> HIDE DEF it
<1>3. /\ Read("use")' = Read("use") \cup {it} /\ Read("mod")' = Read("mod")
      /\ Read("route")' = Read("route") /\ Read("mount")' = Read("mount")
  BY <1>0, <1>1, <1>2, Appended
<1>4. NamesOK'
  <2>1. /\ use_map' = [n \in DOMAIN use_map \cup {u.name} |->
                         IF n = u.name THEN Expand(u.of) ELSE use_map[n]]
        /\ module_decls' = module_decls
    BY DEF ReadUse
  <2>2. \A v \in Read("use") \cup Read("mod") : ~ (v.name = u.name /\ v.scope = scope)
    <3>1. \A i \in 1 .. Len(items) :
            ~ (items[i].kind \in {"use", "mod"} /\ items[i].name = u.name /\ items[i].scope = scope)
      BY <1>1 DEF Bound
    <3> QED BY <3>1 DEF Read
  <2>3. /\ Read("use")' \subseteq [kind : {"use"}, name : {"h", "sub"}, of : {v.of : v \in Uses}, scope : {"file", "fn"}]
        /\ \A v \in Read("use")' : [name |-> v.name, of |-> v.of] \in Uses
    <3>1. it \in [kind : {"use"}, name : {"h", "sub"}, of : {v.of : v \in Uses}, scope : {"file", "fn"}]
      BY <1>2 DEF it
    <3>2. [name |-> it.name, of |-> it.of] \in Uses BY <1>2
    <3> QED BY <1>0, <1>3, <3>1, <3>2 DEF NamesOK
  <2>4. \A n \in DOMAIN use_map' : \E v \in Read("use")' : v.name = n /\ use_map'[n] = Expand(v.of)
    <3> SUFFICES ASSUME NEW n \in DOMAIN use_map \cup {u.name}
                 PROVE  \E v \in Read("use")' : v.name = n /\ use_map'[n] = Expand(v.of)
      BY <2>1
    <3>1. CASE n = u.name BY <1>2, <1>3, <2>1, <3>1
    <3>2. CASE n # u.name
      <4>1. PICK v \in Read("use") : v.name = n /\ use_map[n] = Expand(v.of)
        BY <1>0, <3>2 DEF NamesOK
      <4> QED BY <1>3, <2>1, <3>2, <4>1
    <3> QED BY <3>1, <3>2
  <2>5. \A v, w \in Read("use")' : v.scope = w.scope /\ v.name = w.name => v = w
    BY <1>0, <1>2, <1>3, <2>2 DEF NamesOK
  <2>6. Read("mod")' # {} => \A v \in Read("use")' : v.scope = "file" => v.name # "sub"
    <3> SUFFICES ASSUME NEW m \in Read("mod"), NEW v \in Read("use")', v.scope = "file", v.name = "sub"
                 PROVE  FALSE
      BY <1>3
    <3>1. v # it BY <1>0, <1>2, <2>2, ReadItems
    <3> QED BY <1>0, <1>3, <3>1 DEF NamesOK
  <2>7. module_decls' \subseteq {"sub"} /\ (module_decls' # {} => Read("mod")' # {})
    BY <1>0, <1>3, <2>1 DEF NamesOK
  <2> QED BY <2>3, <2>4, <2>5, <2>6, <2>7 DEF NamesOK
<1>5. RoutesOK' BY <1>0, <1>3, RoutesStay DEF ReadUse
<1>6. EdgesOK' BY <1>0, <1>3, EdgesStay DEF ReadUse
<1>7. UNCHANGED index /\ inline' \in {<<>>, <<<<"i">>>>} BY <1>0 DEF ReadUse
<1> QED BY <1>1, <1>2, <1>4, <1>5, <1>6, <1>7, ReadsKeep

\* So does a module declaration.
LEMMA ReadModKeeps ==
    ASSUME ReachInv, about # "branches", ReadMod
    PROVE  ReachInv'
<1> DEFINE it == [kind |-> "mod", name |-> "sub", scope |-> "file"]
<1>0. items \in Seq(WalkItems) /\ NamesOK /\ RoutesOK /\ EdgesOK /\ inline \in {<<>>, <<<<"i">>>>}
  BY DEF ReachInv
<1>1. Reads(it) /\ ~ Bound("sub", "file") BY DEF ReadMod
<1>2. it \in WalkItems /\ it.kind = "mod" BY DEF WalkItems
<1> HIDE DEF it
<1>3. /\ Read("mod")' = Read("mod") \cup {it} /\ Read("use")' = Read("use")
      /\ Read("route")' = Read("route") /\ Read("mount")' = Read("mount")
  BY <1>0, <1>1, <1>2, Appended
<1>4. NamesOK'
  <2>1. use_map' = use_map /\ module_decls' = module_decls \cup {"sub"} BY DEF ReadMod
  <2>2. \A v \in Read("use") : ~ (v.name = "sub" /\ v.scope = "file")
    BY <1>1 DEF Bound, Read
  <2> QED BY <1>0, <1>3, <2>1, <2>2 DEF NamesOK
<1>5. RoutesOK' BY <1>0, <1>3, RoutesStay DEF ReadMod
<1>6. EdgesOK' BY <1>0, <1>3, EdgesStay DEF ReadMod
<1>7. UNCHANGED index /\ inline' \in {<<>>, <<<<"i">>>>} BY <1>0 DEF ReadMod
<1> QED BY <1>1, <1>2, <1>4, <1>5, <1>6, <1>7, ReadsKeep

\* A route is kept as it was resolved, or its missing builder is noted.
LEMMA ReadRouteKeeps ==
    ASSUME ReachInv, about # "branches", NEW b \in Builders \cup {NoBuilder},
           NEW literal \in {Slash, <<"x">>}, NEW ref \in References, NEW shape \in {"plain", "layered"},
           ReadRoute(b, literal, ref, shape)
    PROVE  ReachInv'
<1> DEFINE it == [kind |-> "route", builder |-> b, literal |-> literal, ref |-> ref,
                  shape |-> shape, inline |-> inline]
           new == [builder |-> b, handler |-> ResolvePath(ref),
                   literal |-> JoinUrl(FoldLeft(JoinUrl, <<>>, inline), literal)]
<1>0. items \in Seq(WalkItems) /\ NamesOK /\ RoutesOK /\ EdgesOK /\ inline \in {<<>>, <<<<"i">>>>}
  BY DEF ReachInv
<1>1. Reads(it) BY DEF ReadRoute
<1>2. it \in WalkItems /\ it.kind = "route" /\ it.builder = b /\ it.literal = literal /\ it.ref = ref
      /\ it.shape = shape /\ it.inline = inline
  BY <1>0 DEF WalkItems
<1> HIDE DEF it
<1>3. /\ Read("route")' = Read("route") \cup {it} /\ Read("use")' = Read("use")
      /\ Read("mod")' = Read("mod") /\ Read("mount")' = Read("mount")
  BY <1>0, <1>1, <1>2, Appended
<1>4. NamesOK' BY <1>0, <1>3, NamesStay DEF ReadRoute
<1>5. RoutesOK'
  <2> DEFINE Keeps(r, i) == Carries(r, i, Read("use"), Read("mod"))
  <2>2. new.builder = b /\ new.handler = ResolvePath(ref) /\ new.literal = JoinUrl(Outer(inline), literal)
    BY DEF Outer
  <2> HIDE DEF new
  <2>3. shape = "plain" => Keeps(new, it)
    BY <1>0, <1>2, <2>2, ResolvedSo DEF Carries
  <2>4. routes' = IF shape = "plain" /\ b # NoBuilder THEN routes \cup {new} ELSE routes
    BY DEF ReadRoute, new
  <2>5. unresolvable' = IF shape = "plain" /\ b = NoBuilder THEN unresolvable \cup {literal} ELSE unresolvable
    BY DEF ReadRoute
  <2>6. IsFiniteSet(routes') BY <1>0, <2>4, FS_AddElement DEF RoutesOK
  <2>7. \A r \in routes' : r.builder \in Builders /\ \E i \in Read("route")' : Keeps(r, i)
    <3>1. \A r \in routes : r.builder \in Builders /\ \E i \in Read("route")' : Keeps(r, i)
      BY <1>0, <1>3 DEF RoutesOK
    <3>2. shape = "plain" /\ b # NoBuilder =>
            new.builder \in Builders /\ \E i \in Read("route")' : Keeps(new, i)
      BY <1>3, <2>2, <2>3
    <3> QED BY <2>4, <3>1, <3>2
  <2>8. \A i \in Read("route")' : i.shape = "plain" =>
          IF i.builder = NoBuilder THEN unresolvable' # {} ELSE \E r \in routes' : Keeps(r, i)
    <3>1. \A i \in Read("route") : i.shape = "plain" =>
            IF i.builder = NoBuilder THEN unresolvable' # {} ELSE \E r \in routes' : Keeps(r, i)
      <4>1. unresolvable \subseteq unresolvable' /\ routes \subseteq routes' BY <2>4, <2>5
      <4> QED BY <1>0, <4>1 DEF RoutesOK
    <3>2. shape = "plain" =>
            IF b = NoBuilder THEN unresolvable' # {} ELSE \E r \in routes' : Keeps(r, it)
      BY <2>3, <2>4, <2>5
    <3> QED BY <1>2, <1>3, <3>1, <3>2
  <2> QED BY <1>3, <2>6, <2>7, <2>8 DEF RoutesOK
<1>6. EdgesOK' BY <1>0, <1>3, EdgesStay DEF ReadRoute
<1>7. UNCHANGED index /\ inline' \in {<<>>, <<<<"i">>>>} BY <1>0 DEF ReadRoute
<1> QED BY <1>1, <1>2, <1>4, <1>5, <1>6, <1>7, ReadsKeep

\* A mount leaves an edge if it is a plain .nest.
LEMMA ReadMountKeeps ==
    ASSUME ReachInv, about # "branches", NEW b \in Builders, NEW child \in Builders,
           NEW how \in {"nest", "nest_with_state", "merge"}, NEW prefix \in {<<>>, <<"p">>, <<"q">>},
           ReadMount(b, how, prefix, child)
    PROVE  ReachInv'
<1> DEFINE it == [kind |-> "mount", builder |-> b, how |-> how, prefix |-> prefix,
                  child |-> child, inline |-> inline]
<1>0. items \in Seq(WalkItems) /\ NamesOK /\ RoutesOK /\ EdgesOK /\ inline \in {<<>>, <<<<"i">>>>}
  BY DEF ReachInv
<1>1. Reads(it) BY DEF ReadMount
<1>2. it \in WalkItems /\ it.kind = "mount" /\ it.how = how
      /\ EdgeOf(it) = [parent |-> b, child |-> child, prefix |-> prefix]
  BY <1>0 DEF WalkItems, EdgeOf
<1> HIDE DEF it
<1>3. /\ Read("mount")' = Read("mount") \cup {it} /\ Read("use")' = Read("use")
      /\ Read("mod")' = Read("mod") /\ Read("route")' = Read("route")
  BY <1>0, <1>1, <1>2, Appended
<1>4. NamesOK' BY <1>0, <1>3, NamesStay DEF ReadMount
<1>5. RoutesOK' BY <1>0, <1>3, RoutesStay DEF ReadMount
<1>6. EdgesOK'
  <2> DEFINE E == [parent : Builders, child : Builders, prefix : {<<>>, <<"p">>, <<"q">>}]
  <2>1. edges' = IF how = "nest" THEN Append(edges, EdgeOf(it)) ELSE edges
    BY <1>2 DEF ReadMount
  <2>2. edges \in Seq(E) /\ EdgeOf(it) \in E BY <1>0, <1>2 DEF EdgesOK
  <2>3. Mounts' = Mounts \cup {it} BY <1>3 DEF Mounts
  <2>4. CASE how # "nest" BY <1>0, <1>2, <2>1, <2>3, <2>4 DEF EdgesOK
  <2>5. CASE how = "nest"
    <3> HIDE DEF E
    <3>1. /\ edges' \in Seq(E) /\ Len(edges') = Len(edges) + 1 /\ Len(edges) \in Nat
          /\ edges'[Len(edges) + 1] = EdgeOf(it) /\ \A i \in 1 .. Len(edges) : edges'[i] = edges[i]
      BY <2>1, <2>2, <2>5
    <3>2. 1 .. Len(edges') = 1 .. Len(edges) \cup {Len(edges) + 1} BY <3>1
    <3>3. \A i \in 1 .. Len(edges') : \E m \in Mounts' : m.how = "nest" /\ edges'[i] = EdgeOf(m)
      <4>1. \A i \in 1 .. Len(edges) : \E m \in Mounts' : m.how = "nest" /\ edges'[i] = EdgeOf(m)
        BY <1>0, <2>3, <3>1 DEF EdgesOK
      <4>2. it \in Mounts' /\ it.how = "nest" /\ edges'[Len(edges) + 1] = EdgeOf(it)
        BY <1>2, <2>3, <2>5, <3>1
      <4> QED BY <3>2, <4>1, <4>2
    <3>4. \A m \in Mounts' : m.how = "nest" => \E i \in 1 .. Len(edges') : edges'[i] = EdgeOf(m)
      BY <1>0, <1>2, <2>3, <2>5, <3>1, <3>2 DEF EdgesOK
    <3>5. \A m : EdgeOf(m)' = EdgeOf(m) BY DEF EdgeOf
    <3> QED BY <3>1, <3>3, <3>4, <3>5 DEF EdgesOK, E
  <2> QED BY <2>4, <2>5
<1>7. UNCHANGED index /\ inline' \in {<<>>, <<<<"i">>>>} BY <1>0 DEF ReadMount
<1> QED BY <1>1, <1>2, <1>4, <1>5, <1>6, <1>7, ReadsKeep

\* A mount outside of a function is told of,
LEMMA OuterNestKeeps ==
    ASSUME ReachInv, about # "branches", OuterNest(<<"i">>)
    PROVE  ReachInv'
<1> DEFINE it == [kind |-> "route", builder |-> NoBuilder, literal |-> Slash, ref |-> <<"h">>,
                  shape |-> "plain", inline |-> <<<<"i">>>>]
<1>0. items \in Seq(WalkItems) /\ NamesOK /\ RoutesOK /\ EdgesOK /\ inline \in {<<>>, <<<<"i">>>>}
  BY DEF ReachInv
<1>1. Reads(it) BY DEF OuterNest
<1>2. it \in WalkItems /\ it.kind = "route" /\ it.builder = NoBuilder BY DEF WalkItems, References
<1> HIDE DEF it
<1>3. /\ Read("route")' = Read("route") \cup {it} /\ Read("use")' = Read("use")
      /\ Read("mod")' = Read("mod") /\ Read("mount")' = Read("mount")
  BY <1>0, <1>1, <1>2, Appended
<1>4. NamesOK' BY <1>0, <1>3, NamesStay DEF OuterNest
<1>5. RoutesOK'
  <2>1. routes' = routes /\ unresolvable' # {} BY DEF OuterNest
  <2> QED BY <1>0, <1>2, <1>3, <2>1 DEF RoutesOK
<1>6. EdgesOK' BY <1>0, <1>3, EdgesStay DEF OuterNest
<1>7. UNCHANGED index /\ inline' \in {<<>>, <<<<"i">>>>} BY <1>0 DEF OuterNest
<1> QED BY <1>1, <1>2, <1>4, <1>5, <1>6, <1>7, ReadsKeep

\* A router in place opens the inline prefix,
LEMMA EnterNestKeeps ==
    ASSUME ReachInv, about # "branches", EnterNest(<<"i">>)
    PROVE  ReachInv'
<1> DEFINE it == [kind |-> "enter", prefix |-> <<"i">>]
<1>0. items \in Seq(WalkItems) /\ NamesOK /\ RoutesOK /\ EdgesOK BY DEF ReachInv
<1>1. Reads(it) BY DEF EnterNest
<1>2. it \in WalkItems /\ it.kind = "enter" BY DEF WalkItems
<1> HIDE DEF it
<1>3. /\ Read("mount")' = Read("mount") /\ Read("use")' = Read("use")
      /\ Read("mod")' = Read("mod") /\ Read("route")' = Read("route")
  BY <1>0, <1>1, <1>2, Appended
<1>4. NamesOK' BY <1>0, <1>3, NamesStay DEF EnterNest
<1>5. RoutesOK' BY <1>0, <1>3, RoutesStay DEF EnterNest
<1>6. EdgesOK' BY <1>0, <1>3, EdgesStay DEF EnterNest
<1>7. inline' = <<<<"i">>>>
  <2>1. inline = <<>> /\ inline' = Append(inline, <<"i">>) BY DEF EnterNest
  <2> QED BY <2>1
<1>8. UNCHANGED index BY DEF EnterNest
<1> QED BY <1>1, <1>2, <1>4, <1>5, <1>6, <1>7, <1>8, ReadsKeep

-----------------------------------------------------------------------------
(* The climbs.                                                                 *)

\* The part of the invariant that is about what was read.
LEMMA ClimbsKeep ==
    ASSUME ReachInv, about # "branches",
           UNCHANGED <<about, items, names, routes, edges, unresolvable, index>>,
           inline' \in {<<>>, <<<<"i">>>>}, ClimbOK', PrefixesOK', DoneOK'
    PROVE  ReachInv'
<1>1. /\ items \in Seq(WalkItems) /\ about \in {"names", "prefixes"} /\ DOMAIN index = Functions
      /\ NamesOK /\ RoutesOK /\ EdgesOK
  BY DEF ReachInv
<1>2. /\ Read("use")' = Read("use") /\ Read("mod")' = Read("mod")
      /\ Read("route")' = Read("route") /\ Read("mount")' = Read("mount")
  BY DEF Read
<1>3. NamesOK' BY <1>1, <1>2, NamesStay
<1>4. RoutesOK' BY <1>1, <1>2, RoutesStay
<1>5. EdgesOK' BY <1>1, <1>2, EdgesStay
<1> QED BY <1>1, <1>3, <1>4, <1>5 DEF ReachInv

\* What the climbs do not change.
LEMMA ClimbsLeave ==
    ASSUME UNCHANGED <<items, routes>>
    PROVE  /\ WithRoutes' = WithRoutes /\ (PlainMounts' <=> PlainMounts) /\ ServedAt' = ServedAt
           /\ Depth' = Depth /\ \A b : Rooted(b)' <=> Rooted(b)
<1>1. WithRoutes' = WithRoutes BY DEF WithRoutes
<1>2. PlainMounts' <=> PlainMounts BY DEF PlainMounts, Mounts, Read
<1>3. ServedAt' = ServedAt
  <2>1. Read("mount")' = Read("mount") BY DEF Read
  <2>2. \A b : MountsOf(b)' = MountsOf(b) BY <2>1 DEF MountsOf
  <2> QED BY <2>2 DEF ServedAt
<1>4. Depth' = Depth BY <1>1 DEF Depth
<1>5. \A b : Rooted(b)' <=> Rooted(b) BY <1>3, <1>4 DEF Rooted
<1> QED BY <1>1, <1>2, <1>3, <1>4, <1>5

\* The prefixes found stay right when nothing they rest on moves.
LEMMA PrefixesStay ==
    ASSUME PrefixesOK, UNCHANGED <<items, routes, prefixes>>
    PROVE  PrefixesOK'
<1>1. /\ WithRoutes' = WithRoutes /\ (PlainMounts' <=> PlainMounts) /\ ServedAt' = ServedAt
      /\ Depth' = Depth
  BY ClimbsLeave
<1> QED BY <1>1 DEF PrefixesOK, Rooted

\* and closes it.
LEMMA LeaveNestKeeps ==
    ASSUME ReachInv, about # "branches", LeaveNest
    PROVE  ReachInv'
<1>1. /\ UNCHANGED <<about, items, names, routes, edges, unresolvable, index>>
      /\ climbing' = <<>> /\ prefixes' = <<>> /\ exit' = -1 /\ inline # <<>> /\ inline' = Front(inline)
  BY DEF LeaveNest, produced
<1>2. inline = <<<<"i">>>> BY <1>1 DEF ReachInv
<1>3. Front(<<<<"i">>>>) = <<>> BY DEF Front
<1>4. DOMAIN prefixes' = {} BY <1>1
<1>5. ClimbOK' /\ PrefixesOK' /\ DoneOK' BY <1>1, <1>4 DEF ClimbOK, PrefixesOK, DoneOK
<1> QED BY <1>1, <1>2, <1>3, <1>5, ClimbsKeep

\* The builders of routes are finitely many.
LEMMA FewWithRoutes ==
    ASSUME RoutesOK
    PROVE  WithRoutes \subseteq Builders /\ Cardinality(WithRoutes) \in Nat
<1>1. IsFiniteSet(routes) BY DEF RoutesOK
<1>2. IsFiniteSet(WithRoutes)
  <2> DEFINE f == [r \in routes |-> r.builder]
  <2>1. f \in Surjection(routes, WithRoutes) BY DEF Surjection, WithRoutes
  <2> QED BY <1>1, <2>1, FS_Surjection
<1>3. WithRoutes \subseteq Builders BY DEF RoutesOK, WithRoutes
<1> QED BY <1>2, <1>3, FS_CardinalityType

\* A climb begins with the empty prefix at its builder.
LEMMA StartClimbKeeps ==
    ASSUME ReachInv, about # "branches", StartClimb
    PROVE  ReachInv'
<1> DEFINE b == CHOOSE x \in WithRoutes \ DOMAIN prefixes : TRUE
           c == [of |-> b, at |-> b, prefix |-> <<>>, steps |-> 0]
<1>1. /\ UNCHANGED <<about, items, names, inline, routes, edges, unresolvable, index, prefixes, artifact, exit>>
      /\ climbing' = <<c>> /\ exit = -1 /\ WithRoutes \ DOMAIN prefixes # {}
  BY DEF StartClimb
<1>2. b \in WithRoutes BY <1>1
<1>3. RoutesOK /\ PrefixesOK /\ inline \in {<<>>, <<<<"i">>>>} BY DEF ReachInv
<1>4. b \in Builders /\ Cardinality(WithRoutes) \in Nat BY <1>2, <1>3, FewWithRoutes
<1>5. <<>> \in Urls BY DEF Urls
<1>6. c.of = b /\ c.at = b /\ c.prefix = <<>> /\ c.steps = 0 OBVIOUS
<1> HIDE DEF b
<1>7. c \in [of : Builders, at : Builders, prefix : Urls, steps : Nat] BY <1>4, <1>5
<1>8. \A k \in Nat : \A q \in ServedAt[k][b] : JoinUrl(q, <<>>) \in ServedAt[k + 0][b]
  BY DEF JoinUrl
<1>9. ClimbOK'
  <2>1. climbing'[1] = c BY <1>1
  <2>2. WithRoutes' = WithRoutes /\ ServedAt' = ServedAt BY <1>1, ClimbsLeave
  <2> HIDE DEF c
  <2>3. c.of \in WithRoutes' /\ c.steps <= Cardinality(WithRoutes') + 2 BY <1>2, <1>4, <1>6, <2>2
  <2>4. \A k \in Nat : \A q \in ServedAt'[k][c.at] : JoinUrl(q, c.prefix) \in ServedAt'[k + c.steps][c.of]
    BY <1>6, <1>8, <2>2
  <2>5. \A k \in Nat : k >= c.steps /\ ServedAt'[k][c.of] # {} => ServedAt'[k - c.steps][c.at] # {}
    BY <1>6, <2>2
  <2> QED BY <1>7, <2>1, <2>3, <2>4, <2>5 DEF ClimbOK
<1>10. PrefixesOK' BY <1>1, <1>3, PrefixesStay
<1>11. DoneOK' BY <1>1 DEF DoneOK
<1> QED BY <1>1, <1>3, <1>9, <1>10, <1>11, ClimbsKeep

\* The edge that the walk takes from a builder is one of those to it.
LEMMA FirstEdgeIs ==
    ASSUME EdgesOK, NEW b, ParentEdges(b) # {}
    PROVE  \E m \in Mounts : m.how = "nest" /\ m.child = b /\ FirstEdge(b) = EdgeOf(m)
<1>1. ParentEdges(b) \subseteq Nat /\ ParentEdges(b) \subseteq 1 .. Len(edges)
  BY DEF ParentEdges
<1>2. \E i \in ParentEdges(b) : \A j \in ParentEdges(b) : i <= j
  <2>1. IsWellFoundedOn(OpToRel(<, Nat), Nat) BY NatLessThanWellFounded
  <2>2. PICK i \in ParentEdges(b) : \A j \in ParentEdges(b) : ~ (<<j, i>> \in OpToRel(<, Nat))
    BY <1>1, <2>1, WFMin
  <2>3. \A j \in ParentEdges(b) : ~ (j < i) BY <1>1, <2>2 DEF OpToRel
  <2>4. \A j \in ParentEdges(b) : i \in Nat /\ j \in Nat BY <1>1
  <2>5. \A j \in ParentEdges(b) : i <= j BY <2>3, <2>4
  <2> QED BY <2>5
<1>3. PICK i \in ParentEdges(b) : FirstEdge(b) = edges[i] BY <1>2 DEF FirstEdge
<1>4. edges[i].child = b /\ i \in 1 .. Len(edges) BY <1>1, <1>3 DEF ParentEdges
<1>5. PICK m \in Mounts : m.how = "nest" /\ edges[i] = EdgeOf(m) BY <1>4 DEF EdgesOK
<1>6. m.child = b BY <1>4, <1>5 DEF EdgeOf
<1> QED BY <1>3, <1>5, <1>6

\* A step up keeps what was gathered right, since joining is associative.
LEMMA ClimbKeeps ==
    ASSUME ReachInv, about # "branches", Climb
    PROVE  ReachInv'
<1> DEFINE c == climbing[1]
           e == FirstEdge(c.at)
           d == [c EXCEPT !.at = e.parent, !.steps = @ + 1, !.prefix = JoinUrl(e.prefix, c.prefix)]
<1>1. /\ UNCHANGED <<about, items, names, inline, routes, edges, unresolvable, index, prefixes, artifact, exit>>
      /\ climbing # <<>> /\ ParentEdges(c.at) # {} /\ c.steps <= Cardinality(WithRoutes) + 1
      /\ climbing' = <<d>>
  BY DEF Climb
<1>2. /\ items \in Seq(WalkItems) /\ RoutesOK /\ EdgesOK /\ PrefixesOK /\ ClimbOK /\ DoneOK
      /\ inline \in {<<>>, <<<<"i">>>>}
  BY DEF ReachInv
<1>3. PICK m \in Mounts : m.how = "nest" /\ m.child = c.at /\ e = EdgeOf(m)
  BY <1>1, <1>2, FirstEdgeIs
<1>4. e.parent = m.builder /\ e.prefix = m.prefix BY <1>3 DEF EdgeOf
<1>5. /\ c \in [of : Builders, at : Builders, prefix : Urls, steps : Nat] /\ c.of \in WithRoutes
      /\ PlainMounts =>
           /\ \A k \in Nat : \A q \in ServedAt[k][c.at] : JoinUrl(q, c.prefix) \in ServedAt[k + c.steps][c.of]
           /\ \A k \in Nat : k >= c.steps /\ ServedAt[k][c.of] # {} => ServedAt[k - c.steps][c.at] # {}
  BY <1>1, <1>2 DEF ClimbOK
<1>6. m.builder \in Builders /\ m.prefix \in Urls
  <2>1. m.builder \in Builders /\ m.prefix \in {<<>>, <<"p">>, <<"q">>} BY <1>2, <1>3, ReadItems
  <2>2. <<>> \in Urls /\ <<"p">> \in Urls /\ <<"q">> \in Urls BY DEF Urls
  <2> QED BY <2>1, <2>2
<1>7. d.of = c.of /\ d.at = m.builder /\ d.steps = c.steps + 1 /\ d.prefix = JoinUrl(m.prefix, c.prefix)
      /\ d \in [of : Builders, at : Builders, prefix : Urls, steps : Nat]
  <2> DEFINE C == [of : Builders, at : Builders, prefix : Urls, steps : Nat]
             x == [c EXCEPT !.at = e.parent]
             y == [x EXCEPT !.steps = c.steps + 1]
  <2>1. c \in C BY <1>5
  <2>2. JoinUrl(m.prefix, c.prefix) \in Urls BY <1>6, <2>1, JoinAssociates
  <2>3. d.of = c.of /\ d.at = m.builder /\ d.steps = c.steps + 1 /\ d.prefix = JoinUrl(m.prefix, c.prefix)
    <3> HIDE DEF c, e
    <3> QED BY <1>4, <2>1
  <2>4. d \in C
    <3> HIDE DEF c, e
    <3>1. x \in C BY <1>4, <1>6, <2>1
    <3>2. c.steps + 1 \in Nat BY <2>1
    <3> HIDE DEF x
    <3>3. y \in C BY <3>1, <3>2
    <3> HIDE DEF y
    <3>4. [y EXCEPT !.prefix = JoinUrl(e.prefix, c.prefix)] \in C BY <1>4, <2>2, <3>3
    <3> QED BY <3>4 DEF x, y
  <2> HIDE DEF c, d, e
  <2> QED BY <2>3, <2>4
<1> HIDE DEF c, d, e
<1>8. c.at \in Builders /\ c.of \in Builders /\ c.prefix \in Urls /\ c.steps \in Nat BY <1>5
<1>9. ASSUME PlainMounts, NEW k \in Nat, NEW q \in ServedAt[k][m.builder]
      PROVE  JoinUrl(q, d.prefix) \in ServedAt[k + d.steps][c.of]
  <2>1. m \in MountsOf(c.at) BY <1>3 DEF MountsOf, Mounts
  <2>2. ServedAt[k + 1][c.at] = {JoinUrl(p, m.prefix) : p \in ServedAt[k][m.builder]}
    BY <1>8, <1>9, <2>1, ServedDefined
  <2>3. JoinUrl(q, m.prefix) \in ServedAt[k + 1][c.at] BY <1>9, <2>2
  <2>4. q \in Urls BY <1>6, <1>9, ServedStable
  <2>5. JoinUrl(q, JoinUrl(m.prefix, c.prefix)) = JoinUrl(JoinUrl(q, m.prefix), c.prefix)
    BY <1>6, <1>8, <2>4, JoinAssociates
  <2>6. k + 1 \in Nat /\ (k + 1) + c.steps = k + (c.steps + 1) BY <1>8
  <2>7. JoinUrl(JoinUrl(q, m.prefix), c.prefix) \in ServedAt[(k + 1) + c.steps][c.of]
    BY <1>5, <1>9, <2>3, <2>6
  <2> QED BY <1>7, <2>5, <2>6, <2>7
<1>10. ASSUME PlainMounts, NEW k \in Nat, k >= d.steps, ServedAt[k][c.of] # {}
       PROVE  ServedAt[k - d.steps][m.builder] # {}
  <2> DEFINE n == k - d.steps
  <2>1. m \in MountsOf(c.at) BY <1>3 DEF MountsOf, Mounts
  <2>2. n \in Nat /\ n + 1 = k - c.steps /\ k >= c.steps BY <1>7, <1>8, <1>10
  <2> HIDE DEF n
  <2>3. ServedAt[n + 1][c.at] # {} BY <1>5, <1>10, <2>2
  <2>4. ServedAt[n + 1][c.at] = {JoinUrl(p, m.prefix) : p \in ServedAt[n][m.builder]}
    BY <1>8, <1>10, <2>1, <2>2, ServedDefined
  <2> QED BY <2>3, <2>4 DEF n
<1>11. ClimbOK'
  <2>1. climbing'[1] = d BY <1>1
  <2>2. WithRoutes' = WithRoutes /\ ServedAt' = ServedAt /\ (PlainMounts' <=> PlainMounts)
    BY <1>1, ClimbsLeave
  <2>3. d.of \in WithRoutes' /\ d.steps <= Cardinality(WithRoutes') + 2
    <3>1. Cardinality(WithRoutes) \in Nat BY <1>2, FewWithRoutes
    <3> QED BY <1>1, <1>5, <1>7, <1>8, <2>2, <3>1
  <2>4. PlainMounts' =>
          /\ \A k \in Nat : \A q \in ServedAt'[k][d.at] : JoinUrl(q, d.prefix) \in ServedAt'[k + d.steps][d.of]
          /\ \A k \in Nat : k >= d.steps /\ ServedAt'[k][d.of] # {} => ServedAt'[k - d.steps][d.at] # {}
    BY <1>7, <1>9, <1>10, <2>2
  <2> QED BY <1>7, <2>1, <2>3, <2>4 DEF ClimbOK
<1>12. PrefixesOK' BY <1>1, <1>2, PrefixesStay
<1>13. DoneOK' BY <1>1, <1>2 DEF DoneOK
<1> QED BY <1>1, <1>2, <1>11, <1>12, <1>13, ClimbsKeep

\* Where the climb ends, at the root or at its cap, a rooted builder has its prefix.
LEMMA EndClimbKeeps ==
    ASSUME ReachInv, about # "branches", EndClimb
    PROVE  ReachInv'
<1> DEFINE c == climbing[1]
<1>1. /\ UNCHANGED <<about, items, names, inline, routes, edges, unresolvable, index, artifact, exit>>
      /\ climbing # <<>> /\ climbing' = <<>>
      /\ ParentEdges(c.at) = {} \/ c.steps > Cardinality(WithRoutes) + 1
      /\ prefixes' = [b \in DOMAIN prefixes \cup {c.of} |-> IF b = c.of THEN c.prefix ELSE prefixes[b]]
  BY DEF EndClimb
<1>2. RoutesOK /\ EdgesOK /\ PrefixesOK /\ ClimbOK /\ DoneOK /\ inline \in {<<>>, <<<<"i">>>>}
  BY DEF ReachInv
<1>3. /\ c \in [of : Builders, at : Builders, prefix : Urls, steps : Nat] /\ c.of \in WithRoutes
      /\ PlainMounts =>
           /\ \A k \in Nat : \A q \in ServedAt[k][c.at] : JoinUrl(q, c.prefix) \in ServedAt[k + c.steps][c.of]
           /\ \A k \in Nat : k >= c.steps /\ ServedAt[k][c.of] # {} => ServedAt[k - c.steps][c.at] # {}
  BY <1>1, <1>2 DEF ClimbOK
<1> HIDE DEF c
<1>4. c.at \in Builders /\ c.of \in Builders /\ c.prefix \in Urls /\ c.steps \in Nat BY <1>3
<1>5. Cardinality(WithRoutes) \in Nat /\ MaxItems \in Nat BY <1>2, FewWithRoutes, WalkAssumption
<1>6. ASSUME PlainMounts, Rooted(c.of) PROVE c.prefix \in ServedAt[MaxItems][c.of]
  <2>1. PICK n \in 0 .. MaxItems : n <= Cardinality(WithRoutes) + 2 /\ ServedAt[n][c.of] # {}
    BY <1>6 DEF Rooted, Depth
  <2>2. MountsOf(c.at) = {}
    <3>1. CASE ParentEdges(c.at) = {}
      <4> SUFFICES ASSUME NEW m \in MountsOf(c.at) PROVE FALSE OBVIOUS
      <4>1. m \in Mounts /\ m.child = c.at /\ m.how = "nest" BY <1>6 DEF MountsOf, Mounts, PlainMounts
      <4>2. PICK i \in 1 .. Len(edges) : edges[i] = EdgeOf(m) BY <1>2, <4>1 DEF EdgesOK
      <4>3. edges[i].child = c.at BY <4>1, <4>2 DEF EdgeOf
      <4> QED BY <3>1, <4>3 DEF ParentEdges
    <3>2. CASE c.steps > Cardinality(WithRoutes) + 1
      <4>1. n \in Nat /\ c.steps >= n BY <1>4, <1>5, <2>1, <3>2
      <4>2. ServedAt[c.steps][c.of] # {} BY <1>4, <1>6, <2>1, <4>1, ServedStable
      <4>3. c.steps >= c.steps /\ c.steps - c.steps = 0 BY <1>4
      <4>4. ServedAt[0][c.at] # {} BY <1>3, <1>4, <1>6, <4>2, <4>3
      <4> QED BY <1>4, <1>6, <4>4, ServedDefined
    <3> QED BY <1>1, <3>1, <3>2
  <2>3. ServedAt[0][c.at] = {<<>>} BY <1>4, <1>6, <2>2, ServedDefined
  <2>4. JoinUrl(<<>>, c.prefix) = c.prefix BY DEF JoinUrl
  <2>5. 0 + c.steps = c.steps BY <1>4
  <2>6. c.prefix \in ServedAt[c.steps][c.of]
    <3>1. \A q \in ServedAt[0][c.at] : JoinUrl(q, c.prefix) \in ServedAt[0 + c.steps][c.of]
      BY <1>3, <1>6
    <3> QED BY <2>3, <2>4, <2>5, <3>1
  <2>7. n \in Nat /\ MaxItems >= n BY <1>5, <2>1
  <2>8. ServedAt[MaxItems][c.of] = ServedAt[n][c.of] BY <1>4, <1>5, <1>6, <2>1, <2>7, ServedStable
  <2>9. ServedAt[c.steps][c.of] = ServedAt[n][c.of]
    <3>1. CASE c.steps >= n BY <1>4, <1>6, <2>1, <2>7, <3>1, ServedStable
    <3>2. CASE n >= c.steps BY <1>4, <1>6, <2>6, <2>7, <3>2, ServedStable
    <3> QED BY <1>4, <2>7, <3>1, <3>2
  <2> QED BY <2>6, <2>8, <2>9
<1>7. PrefixesOK'
  <2>1. /\ WithRoutes' = WithRoutes /\ (PlainMounts' <=> PlainMounts) /\ ServedAt' = ServedAt
        /\ Depth' = Depth
    BY <1>1, ClimbsLeave
  <2>2. DOMAIN prefixes' = DOMAIN prefixes \cup {c.of} BY <1>1
  <2>3. DOMAIN prefixes' \subseteq WithRoutes' BY <1>2, <1>3, <2>1, <2>2 DEF PrefixesOK
  <2>4. ASSUME PlainMounts, NEW b \in DOMAIN prefixes', Rooted(b)
        PROVE  prefixes'[b] \in ServedAt[MaxItems][b]
    <3>1. CASE b = c.of BY <1>1, <1>6, <2>4, <3>1
    <3>2. CASE b # c.of
      <4>1. b \in DOMAIN prefixes /\ prefixes'[b] = prefixes[b] BY <1>1, <2>2, <3>2
      <4> QED BY <1>2, <2>4, <4>1 DEF PrefixesOK
    <3> QED BY <3>1, <3>2
  <2> QED BY <2>1, <2>3, <2>4 DEF PrefixesOK, Rooted
<1>8. ClimbOK' BY <1>1 DEF ClimbOK
<1>9. DoneOK' BY <1>1, <1>2 DEF DoneOK
<1> QED BY <1>1, <1>2, <1>7, <1>8, <1>9, ClimbsKeep

\* The join ends well only if nothing was left out.
LEMMA JoinCoverageKeeps ==
    ASSUME ReachInv, about # "branches", JoinCoverage
    PROVE  ReachInv'
<1>1. /\ UNCHANGED <<about, items, names, inline, routes, edges, unresolvable, index, climbing, prefixes>>
      /\ climbing = <<>> /\ DOMAIN prefixes = WithRoutes
      /\ artifact' = {e \in Emitted : e.handler \in Payload}
      /\ exit' = IF artifact' = Emitted /\ unresolvable = {} THEN 0 ELSE 2
  BY DEF JoinCoverage
<1>2. RoutesOK /\ PrefixesOK /\ inline \in {<<>>, <<<<"i">>>>} BY DEF ReachInv
<1>3. Emitted' = Emitted /\ Payload' = Payload /\ WithRoutes' = WithRoutes
  BY <1>1 DEF Emitted, Payload, Imported, WithRoutes
<1>4. PrefixesOK' BY <1>1, <1>2, PrefixesStay
<1>5. ClimbOK' BY <1>1 DEF ClimbOK
<1>6. DoneOK' BY <1>1, <1>3 DEF DoneOK
<1> QED BY <1>1, <1>2, <1>4, <1>5, <1>6, ClimbsKeep

\* Every step of the walk keeps the invariant.
LEMMA ReachStep == ReachInv /\ (WalkNext \/ UNCHANGED vars) => ReachInv'
<1> SUFFICES ASSUME ReachInv, WalkNext \/ UNCHANGED vars PROVE ReachInv' OBVIOUS
<1>1. about' = about
  BY DEF WalkNext, vars, ReadUse, ReadMod, ReadRoute, ReadMount, EnterNest, OuterNest, LeaveNest, ReadFunction,
         StartClimb, Climb, EndClimb, JoinCoverage, Reads
<1>2. CASE about = "branches" BY <1>1, <1>2 DEF ReachInv
<1>3. CASE about # "branches"
  <2>1. ASSUME NEW u \in Uses, NEW scope \in {"file", "fn"}, ReadUse(u, scope) PROVE ReachInv'
    BY <1>3, <2>1, ReadUseKeeps
  <2>2. CASE ReadMod BY <1>3, <2>2, ReadModKeeps
  <2>3. ASSUME NEW b \in Builders \cup {NoBuilder}, NEW literal \in {Slash, <<"x">>},
               NEW ref \in References, NEW shape \in {"plain", "layered"},
               ReadRoute(b, literal, ref, shape)
        PROVE  ReachInv'
    BY <1>3, <2>3, ReadRouteKeeps
  <2>4. ASSUME NEW b \in Builders, NEW child \in Builders,
               NEW how \in {"nest", "nest_with_state", "merge"}, NEW prefix \in {<<>>, <<"p">>, <<"q">>},
               ReadMount(b, how, prefix, child)
        PROVE  ReachInv'
    BY <1>3, <2>4, ReadMountKeeps
  <2>5. CASE EnterNest(<<"i">>) BY <1>3, <2>5, EnterNestKeeps
  <2>6. CASE LeaveNest BY <1>3, <2>6, LeaveNestKeeps
  <2>7. ASSUME NEW marks, NEW branches, ReadFunction(marks, branches) PROVE FALSE
    BY <1>3, <2>7 DEF ReadFunction
  <2>8. CASE StartClimb BY <1>3, <2>8, StartClimbKeeps
  <2>9. CASE Climb BY <1>3, <2>9, ClimbKeeps
  <2>10. CASE EndClimb BY <1>3, <2>10, EndClimbKeeps
  <2>11. CASE JoinCoverage BY <1>3, <2>11, JoinCoverageKeeps
  <2>12. CASE UNCHANGED vars
    <3>1. /\ UNCHANGED <<about, items, names, inline, routes, edges, unresolvable, index>>
          /\ UNCHANGED <<climbing, prefixes, artifact, exit>>
      BY <2>12 DEF vars, names
    <3>2. RoutesOK /\ PrefixesOK /\ ClimbOK /\ DoneOK /\ inline \in {<<>>, <<<<"i">>>>}
      BY <1>3 DEF ReachInv
    <3>3. PrefixesOK' BY <3>1, <3>2, PrefixesStay
    <3>4. WithRoutes' = WithRoutes /\ (PlainMounts' <=> PlainMounts) /\ ServedAt' = ServedAt
      BY <3>1, ClimbsLeave
    <3>5. ClimbOK' BY <3>1, <3>2, <3>4 DEF ClimbOK
    <3>6. Emitted' = Emitted /\ Payload' = Payload
      BY <3>1 DEF Emitted, Payload, Imported
    <3>7. DoneOK' BY <3>1, <3>2, <3>4, <3>6 DEF DoneOK
    <3> QED BY <1>3, <3>1, <3>2, <3>3, <3>5, <3>7, ClimbsKeep
  <2>13. CASE OuterNest(<<"i">>) BY <1>3, <2>13, OuterNestKeeps
  <2> QED BY <2>1, <2>2, <2>3, <2>4, <2>5, <2>6, <2>7, <2>8, <2>9, <2>10, <2>11, <2>12, <2>13 DEF WalkNext
<1> QED BY <1>2, <1>3

\* A file of plain shapes has plain mounts.
LEMMA PlainFiles ==
    ASSUME items \in Seq(WalkItems), PlainFile
    PROVE  PlainMounts
<1>1. \A m \in Mounts : /\ m.how = "nest" /\ m.inline = <<>> /\ m.prefix \in Urls
                        /\ m.builder \in Builders /\ m.child \in Builders
  <2>1. <<>> \in Urls /\ <<"p">> \in Urls /\ <<"q">> \in Urls BY DEF Urls
  <2> QED BY <2>1, ReadItems DEF PlainFile, Mounts
<1>2. ASSUME NEW m \in Mounts, NEW o \in Mounts, m.child = o.child PROVE m = o
  <2> DEFINE S == {i \in 1 .. Len(items) : items[i].kind = "mount" /\ items[i].child = m.child}
  <2>1. PICK i \in 1 .. Len(items) : items[i].kind = "mount" /\ m = items[i] BY DEF Mounts, Read
  <2>2. PICK j \in 1 .. Len(items) : items[j].kind = "mount" /\ o = items[j] BY DEF Mounts, Read
  <2>3. i \in S /\ j \in S BY <1>2, <2>1, <2>2
  <2>4. Cardinality(S) = 1 BY DEF PlainFile, Mounts
  <2>5. Len(items) \in Nat OBVIOUS
  <2>6. IsFiniteSet(S)
    <3>1. IsFiniteSet(1 .. Len(items)) BY <2>5, FS_Interval
    <3> QED BY <3>1, FS_Subset
  <2> HIDE DEF S
  <2>7. \E x : S = {x} BY <2>4, <2>6, FS_Singleton
  <2> QED BY <2>1, <2>2, <2>3, <2>7
<1> QED BY <1>1, <1>2 DEF PlainMounts

\* The invariant implies the property.
LEMMA ReachImplies == ReachInv => PlainRoutesReported
<1> SUFFICES ASSUME ReachInv, exit = 0, PlainFile, about # "branches" PROVE artifact = Served
  BY DEF PlainRoutesReported, RoutesReported
<1>1. /\ items \in Seq(WalkItems) /\ DOMAIN index = Functions /\ NamesOK /\ RoutesOK /\ PrefixesOK
      /\ DoneOK
  BY DEF ReachInv
<1>2. PlainMounts BY <1>1, PlainFiles
<1>3. /\ artifact = Emitted /\ unresolvable = {} /\ DOMAIN prefixes = WithRoutes
      /\ \A e \in Emitted : e.handler \in Payload
  BY <1>1 DEF DoneOK
<1>4. MaxItems \in Nat /\ NoBuilder \notin Builders BY WalkAssumption DEF NoBuilder
\* What a route that was kept is reported as is how the item is served.
<1>5. ASSUME NEW r \in routes, NEW it \in Read("route"), Carries(r, it, Read("use"), Read("mod"))
      PROVE  /\ it.builder = r.builder /\ it.builder # NoBuilder
             /\ ServedAt[MaxItems][r.builder] = {prefixes[r.builder]}
             /\ r.literal = JoinUrl(Outer(it.inline), it.literal) /\ Meant(it.ref) = r.handler
  <2>1. /\ r.builder \in Builders /\ it.builder = r.builder
        /\ r.literal = JoinUrl(Outer(it.inline), it.literal)
        /\ Resolved(it.ref, r.handler, Read("use"), Read("mod"))
    BY <1>1, <1>5 DEF RoutesOK, Carries
  <2>2. r.builder \in DOMAIN prefixes BY <1>3, <1>5 DEF WithRoutes
  <2>3. Rooted(r.builder) BY <1>5, <2>1 DEF Rooted, PlainFile
  <2>4. prefixes[r.builder] \in ServedAt[MaxItems][r.builder] BY <1>1, <1>2, <2>2, <2>3 DEF PrefixesOK
  <2>5. ServedAt[MaxItems][r.builder] = {prefixes[r.builder]}
    BY <1>2, <1>4, <2>1, <2>4, ServedStable
  <2>6. r.handler \in Payload
    <3>1. [url |-> JoinUrl(prefixes[r.builder], r.literal), handler |-> r.handler] \in Emitted
      BY <1>5 DEF Emitted
    <3> QED BY <1>3, <3>1
  <2>7. r.handler \in Functions BY <1>1, <2>6 DEF Payload
  <2>8. r.handler = <<"c", "m", "h">> => ~ \E u \in Read("use") : u.name = "h" /\ u.scope = "file"
    <3>1. Here \o <<"h">> = <<"c", "m", "h">> BY Paths
    <3>2. (\E u \in Read("use") : u.name = "h" /\ u.scope = "file") => Imported
      BY DEF Read, Imported
    <3> QED BY <2>6, <3>1, <3>2 DEF Payload
  <2>9. it.ref \in References BY <1>1, <1>5, ReadItems
  <2>10. \A u \in Read("use") : u.scope = "file" \/ u.name # it.ref[1] BY <1>5 DEF PlainFile
  <2>11. Meant(it.ref) = r.handler BY <1>1, <2>1, <2>7, <2>8, <2>9, <2>10, MeantSo
  <2> QED BY <1>4, <2>1, <2>5, <2>11
<1>6. ASSUME NEW e \in Emitted PROVE e \in Served
  <2>1. PICK r \in routes : e = [url |-> JoinUrl(prefixes[r.builder], r.literal), handler |-> r.handler]
    BY <1>6 DEF Emitted
  <2>2. PICK it \in Read("route") : Carries(r, it, Read("use"), Read("mod")) BY <1>1 DEF RoutesOK
  <2>3. /\ it.builder = r.builder /\ it.builder # NoBuilder
        /\ ServedAt[MaxItems][r.builder] = {prefixes[r.builder]}
        /\ r.literal = JoinUrl(Outer(it.inline), it.literal) /\ Meant(it.ref) = r.handler
    BY <1>5, <2>2
  <2>4. e = [url |-> JoinUrl(prefixes[r.builder], JoinUrl(Outer(it.inline), it.literal)), handler |-> Meant(it.ref)]
    BY <2>1, <2>3
  <2>5. prefixes[r.builder] \in IF it.builder = NoBuilder THEN {<<>>} ELSE ServedAt[MaxItems][it.builder]
    BY <2>3
  <2> DEFINE Of(i) == {[url |-> JoinUrl(q, JoinUrl(Outer(i.inline), i.literal)), handler |-> Meant(i.ref)] :
                         q \in IF i.builder = NoBuilder THEN {<<>>} ELSE ServedAt[MaxItems][i.builder]}
  <2>6. e \in Of(it) BY <2>4, <2>5
  <2>7. Served = UNION {Of(i) : i \in Read("route")} BY DEF Served
  <2> HIDE DEF Of
  <2> QED BY <2>6, <2>7
<1>7. ASSUME NEW s \in Served PROVE s \in Emitted
  <2>1. PICK it \in Read("route") :
          \E q \in IF it.builder = NoBuilder THEN {<<>>} ELSE ServedAt[MaxItems][it.builder] :
            s = [url |-> JoinUrl(q, JoinUrl(Outer(it.inline), it.literal)), handler |-> Meant(it.ref)]
    BY <1>7 DEF Served
  <2>2. PICK q \in IF it.builder = NoBuilder THEN {<<>>} ELSE ServedAt[MaxItems][it.builder] :
          s = [url |-> JoinUrl(q, JoinUrl(Outer(it.inline), it.literal)), handler |-> Meant(it.ref)]
    BY <2>1
  <2>3. it.shape = "plain" BY DEF PlainFile
  <2>4. PICK r \in routes : Carries(r, it, Read("use"), Read("mod")) BY <1>1, <1>3, <2>3 DEF RoutesOK
  <2>5. /\ it.builder = r.builder /\ it.builder # NoBuilder
        /\ ServedAt[MaxItems][r.builder] = {prefixes[r.builder]}
        /\ r.literal = JoinUrl(Outer(it.inline), it.literal) /\ Meant(it.ref) = r.handler
    BY <1>5, <2>4
  <2>6. q = prefixes[r.builder] BY <2>2, <2>5
  <2>7. s = [url |-> JoinUrl(prefixes[r.builder], r.literal), handler |-> r.handler]
    BY <2>2, <2>5, <2>6
  <2> QED BY <2>7 DEF Emitted
<1> QED BY <1>3, <1>6, <1>7

-----------------------------------------------------------------------------
(* Together.                                                                   *)

\* Each of them moves by steps of its own component.
LEMMA ComponentSteps ==
    ASSUME [MCNext]_toolVars
    PROVE  /\ [Tally!Next]_Tally!vars /\ [Card!Next]_Card!vars /\ [Schema!Next]_Schema!vars
           /\ [Scenarios!Next]_Scenarios!vars /\ [Audit!Next]_Audit!vars /\ [WalkNext]_vars
<1>1. CASE UNCHANGED toolVars BY <1>1 DEF toolVars
<1>2. [Tally!Next]_Tally!vars
  <2>1. CASE TallyNext BY <2>1 DEF TallyNext, Tally!Next
  <2>2. CASE \E p \in {"walk", "card", "scenarios", "audit", "schema"} : Only(p)
    BY <2>2 DEF Only, Tally!vars
  <2> QED BY <1>1, <2>1, <2>2 DEF MCNext
<1>3. [Card!Next]_Card!vars
  <2>1. CASE CardNext BY <2>1 DEF CardNext, Card!Next
  <2>2. CASE \E p \in {"walk", "tally", "scenarios", "audit", "schema"} : Only(p)
    BY <2>2 DEF Only, Card!vars
  <2> QED BY <1>1, <2>1, <2>2 DEF MCNext
<1>4. [Schema!Next]_Schema!vars
  <2>1. CASE SchemaNext BY <2>1 DEF SchemaNext, Schema!Next
  <2>2. CASE \E p \in {"walk", "tally", "card", "scenarios", "audit"} : Only(p)
    BY <2>2 DEF Only, Schema!vars
  <2> QED BY <1>1, <2>1, <2>2 DEF MCNext
<1>5. [Scenarios!Next]_Scenarios!vars
  <2>1. CASE ScenariosNext BY <2>1 DEF ScenariosNext, Scenarios!Next
  <2>2. CASE \E p \in {"walk", "tally", "card", "audit", "schema"} : Only(p)
    BY <2>2 DEF Only, Scenarios!vars
  <2> QED BY <1>1, <2>1, <2>2 DEF MCNext
<1>6. [Audit!Next]_Audit!vars
  <2>1. CASE AuditNext BY <2>1 DEF AuditNext, Audit!Next
  <2>2. CASE \E p \in {"walk", "tally", "card", "scenarios", "schema"} : Only(p)
    BY <2>2 DEF Only, Audit!vars
  <2> QED BY <1>1, <2>1, <2>2 DEF MCNext
<1>7. [WalkNext]_vars
  <2>1. CASE \E p \in {"tally", "card", "scenarios", "audit", "schema"} : Only(p)
    BY <2>1 DEF Only
  <2> QED BY <1>1, <2>1 DEF MCNext
<1> QED BY <1>2, <1>3, <1>4, <1>5, <1>6, <1>7

\* What holds of the tools, one conjunct each.
ReportsInv == WalkInv /\ TallyInv /\ CardInv /\ SchemaInv /\ ScenInv /\ AuditInv

\* The numbers of the scorecard add up, a published verdict is the one the limits and the
\* measures call for, limits that cannot be used never end in one, the written schema
\* lets through what is built and no red row without its text, a handler has the scenarios
\* that hit it, an item the hits that were read, and no run that left something out ends well;
\* a handler counts as covered in full only if every side of every branch was taken.
THEOREM ReportsHold == MCSpec => []ReportsRight
<1>1. MCInit => ReportsInv
  <2> SUFFICES ASSUME MCInit PROVE ReportsInv
    OBVIOUS
  <2>1. Tally!Init /\ Card!Init /\ Schema!Init /\ Scenarios!Init /\ Audit!Init /\ Init
    BY DEF MCInit
  <2> QED BY <2>1, WalkInit, TallyInit, CardInit, SchemaInit, ScenInit, AuditInit,
             CardConstants, SchemaConstants DEF ReportsInv
<1>2. ReportsInv /\ [MCNext]_toolVars => ReportsInv'
  BY ComponentSteps, WalkStep, TallyStep, CardStep, SchemaStep, ScenStep, AuditStep,
     CardConstants, ScenarioConstants DEF ReportsInv
<1>3. ReportsInv => ReportsRight
  BY FullCoverage, TallyRight, EarnedVerdict, SilentNever, SchemaGuarded, ScenCredit, AuditSound,
     CardConstants, ScenarioConstants DEF ReportsInv, ReportsRight
<1> QED BY <1>1, <1>2, <1>3, PTL DEF MCSpec, toolVars

\* The routes of files of plain shapes are reported with the URLs and the functions that
\* serve them, or the producer says that something is missing: for any builders, any
\* chains of mounts that the climb can follow, and any number of items read.
THEOREM ReachHolds == MCSpec => []ReachRight
<1>1. MCInit => ReachInv BY ReachInit DEF MCInit
<1>2. ReachInv /\ [MCNext]_toolVars => ReachInv' BY ComponentSteps, ReachStep
<1>3. ReachInv => ReachRight BY ReachImplies DEF ReachRight
<1> QED BY <1>1, <1>2, <1>3, PTL DEF MCSpec, toolVars
=============================================================================
