--------------------------------- MODULE PubApi ---------------------------------
(* pub-api-spec-audit: the public items of the parses, each with the lines of    *)
(* its span that the lcov files of the scenario runs report as hit. The lcov     *)
(* files are read line by line; one that has a bad line counts for nothing.      *)
EXTENDS Naturals, Sequences, FiniteSets

CONSTANTS MaxLcovLines, MaxLcovFiles      \* bounds on the input

VARIABLES
  step,        \* "walk", "lcov", "json", "json_tmp", "md", "md_tmp", "over"
  parses,      \* the source file parses
  entries,     \* by_crate: items with the spans they cover
  texts,       \* the lcov files met so far, each a sequence of lines
  current,     \* current_path of parse_one
  hits,        \* current_lines, the lines with a positive count
  records,     \* the closed records of this file
  index,       \* LcovIndex, by path the lines with a positive count
  errors,      \* lcov_errors: positions in texts
  tmp, json, md, exit

vars == <<step, parses, entries, texts, current, hits, records, index, errors,
          tmp, json, md, exit>>
output == <<tmp, json, md, exit>>
reader == <<current, hits, records>>

Keys == {"relative", "absolute", "other"}       \* two names of the file, and another file
Lines == {1, 2}
NoPath == "none"

(* The source file has an item of every shape, in and outside an inline module. *)
(* Every item is on line 1; the modules have both lines.                         *)
Vis == {"pub", "inherited"}
Items == [kind : {"fn"}, vis : Vis, mod : {"none"} \cup Vis]
         \cup [kind : {"method"}, vis : Vis, self : {"named", "tuple"}]
         \cup [kind : {"mod"}, vis : Vis]
SpanOf(i) == IF i.kind = "mod" THEN {1, 2} ELSE {1}

IsBarePub(i) == i.vis = "pub"

(* A module is entered whatever its visibility; a method needs a named type.     *)
Collected == {i \in Items : IsBarePub(i) /\ (i.kind = "method" => i.self = "named")}

LcovLines == [tag : {"SF"}, key : Keys] \cup {[tag |-> "DA", line |-> d[1], hit |-> d[2]] : d \in {<<1, 0>>, <<1, 1>>, <<2, 1>>}}
             \cup {[tag |-> "bad"], [tag |-> "end_of_record"]}

Init ==
  /\ step = "walk"
  /\ parses \in BOOLEAN
  /\ entries = {} /\ texts = <<>>
  /\ current = NoPath /\ hits = {} /\ records = <<>>
  /\ index = [k \in Keys |-> {}] /\ errors = {}
  /\ tmp = "none" /\ json = "none" /\ md \in {"none", "unasked"}
  /\ exit = "none"

(* A file that does not parse is noted and the walk goes on.                     *)
Walk ==
  /\ step = "walk"
  /\ step' = "lcov"
  /\ entries' = IF parses THEN Collected ELSE {}
  /\ UNCHANGED <<parses, texts, reader, index, errors, output>>

(* Bad arguments, no crate found, an unreadable crap4rs.toml.                    *)
Refused ==
  /\ step = "walk"
  /\ step' = "over" /\ exit' = "error"
  /\ UNCHANGED <<parses, entries, texts, reader, index, errors, tmp, json, md>>

Reading == step = "lcov" /\ texts # <<>> /\ Len(texts) \notin errors
Lcovs == UNION {{<<i, j>> : j \in DOMAIN texts[i]} : i \in DOMAIN texts}

(* parse_one opens the next file, after the last one is merged.                  *)
Merged(done) ==
  [k \in Keys |-> index[k] \cup UNION {done[i].hits : i \in {j \in DOMAIN done : done[j].key = k}}]

\* Mutant of Closed: the lines of a record stay for the next one.
ClosedKept == [records |-> Append(records, [key |-> current, hits |-> hits]), hits |-> hits]

(* A record is pushed with the lines gathered so far.                            *)
Closed == [records |-> Append(records, [key |-> current, hits |-> hits]), hits |-> {}]

AllRecords == IF current = NoPath THEN records ELSE Closed.records

(* The file ends: its last record is closed and all are merged.                  *)
NextFile ==
  /\ step = "lcov" /\ Len(texts) < MaxLcovFiles
  /\ texts' = Append(texts, <<>>)
  /\ index' = IF Reading THEN Merged(AllRecords) ELSE index
  /\ current' = NoPath /\ hits' = {} /\ records' = <<>>
  /\ UNCHANGED <<step, parses, entries, errors, output>>

LcovEnds ==
  /\ step = "lcov"
  /\ step' = "json"
  /\ index' = IF Reading THEN Merged(AllRecords) ELSE index
  /\ current' = NoPath /\ hits' = {} /\ records' = <<>>
  /\ UNCHANGED <<parses, entries, texts, errors, output>>

Append1(l) == texts' = [texts EXCEPT ![Len(texts)] = Append(@, l)]

(* An SF line without an end_of_record before it closes the record all the same. *)
ReadSf(l) ==
  /\ l.tag = "SF"
  /\ current' = l.key
  /\ IF current = NoPath THEN UNCHANGED <<hits, records>>
     ELSE hits' = Closed.hits /\ records' = Closed.records
  /\ UNCHANGED errors

(* Counts add up, and of a line outside a record the next record has them.       *)
ReadDa(l) ==
  /\ l.tag = "DA"
  /\ hits' = IF l.hit > 0 THEN hits \cup {l.line} ELSE hits
  /\ UNCHANGED <<current, records, errors>>

ReadEnd(l) ==
  /\ l.tag = "end_of_record"
  /\ IF current = NoPath THEN UNCHANGED <<hits, records>>
     ELSE hits' = Closed.hits /\ records' = Closed.records
  /\ current' = NoPath
  /\ UNCHANGED errors

(* A count that is no number, a read error: nothing of the file is kept.         *)
ReadBad(l) ==
  /\ l.tag = "bad"
  /\ errors' = errors \cup {Len(texts)}
  /\ UNCHANGED <<current, hits, records>>

ReadLcov(l) ==
  /\ Reading /\ Cardinality(Lcovs) < MaxLcovLines
  /\ Append1(l)
  /\ ReadSf(l) \/ ReadDa(l) \/ ReadEnd(l) \/ ReadBad(l)
  /\ UNCHANGED <<step, parses, entries, index, output>>

(* The lines of the span that were hit, under the relative name if there are any.*)
CoveredLines(e) ==
  LET by(key) == index[key] \cap SpanOf(e)
  IN  Cardinality(IF by("relative") # {} THEN by("relative") ELSE by("absolute"))

Covered(e) == CoveredLines(e) > 0

ExitCode == IF parses /\ errors = {} THEN "ok" ELSE "diagnosed"

(* write_atomically, first the text aside and then the rename.                   *)
WriteTmp ==
  /\ \/ step = "json" /\ tmp' = "json" /\ step' = "json_tmp"
     \/ step = "md" /\ tmp' = "md" /\ step' = "md_tmp"
  /\ UNCHANGED <<parses, entries, texts, reader, index, errors, json, md, exit>>

Rename ==
  /\ tmp' = "none"
  /\ \/ /\ step = "json_tmp" /\ json' = tmp /\ UNCHANGED md
        /\ IF md = "unasked" THEN step' = "over" /\ exit' = ExitCode
           ELSE step' = "md" /\ UNCHANGED exit
     \/ step = "md_tmp" /\ md' = tmp /\ UNCHANGED json /\ step' = "over" /\ exit' = ExitCode
  /\ UNCHANGED <<parses, entries, texts, reader, index, errors>>

WriteFails ==
  /\ step \in {"json", "json_tmp", "md", "md_tmp"}
  /\ step' = "over" /\ exit' = "error"
  /\ tmp' \in {tmp, "cut"}
  /\ UNCHANGED <<parses, entries, texts, reader, index, errors, json, md>>

Next ==
  \/ Walk \/ Refused \/ NextFile \/ LcovEnds \/ WriteTmp \/ Rename \/ WriteFails
  \/ \E l \in LcovLines : ReadLcov(l)

Spec == Init /\ [][Next]_vars

--------------------------------------------------------------------------------
TypeOK ==
  /\ entries \subseteq Items /\ errors \subseteq DOMAIN texts
  /\ index \in [Keys -> SUBSET Lines] /\ hits \subseteq Lines
  /\ json \in {"none", "json"} /\ md \in {"none", "unasked", "md"}

(* The record a line belongs to, by the text alone.                              *)
OwnerOf(text, j) ==
  LET before == {i \in 1..j : text[i].tag \in {"SF", "end_of_record"}}
      last == CHOOSE i \in before : \A k \in before : k <= i
  IN  IF before = {} \/ text[last].tag # "SF" THEN NoPath ELSE text[last].key

(* Every count stands in a record, as the coverage tool writes it.               *)
WellFormed == \A p \in Lcovs :
  texts[p[1]][p[2]].tag = "DA" => OwnerOf(texts[p[1]], p[2]) # NoPath

TrueHit(e) == \E p \in Lcovs :
  LET l == texts[p[1]][p[2]] IN
  /\ p[1] \notin errors /\ l.tag = "DA" /\ l.hit > 0 /\ l.line \in SpanOf(e)
  /\ OwnerOf(texts[p[1]], p[2]) \in {"relative", "absolute"}

(* An item counts as covered exactly when a file that was read whole reports a   *)
(* hit of its own source in its span, and no audit that left a file out passes.  *)
AuditRight ==
  /\ step = "json" /\ WellFormed => \A e \in entries : Covered(e) <=> TrueHit(e)
  /\ exit = "ok" => json = "json" /\ md \in {"unasked", "md"} /\ parses
                    /\ \A p \in Lcovs : texts[p[1]][p[2]].tag # "bad"
=================================================================================
