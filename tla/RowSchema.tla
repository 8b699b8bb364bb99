-------------------------------- MODULE RowSchema --------------------------------
(* emit-schema: the schema of the scorecard is derived from the Rust types, given *)
(* the rules the types cannot say, and written for the renderer, beside the one   *)
(* of quality.toml. The rows are those the constructors can build.                *)
EXTENDS Naturals, Sequences

CONSTANT MaxArgs       \* bound on the command line

VARIABLES
  step,        \* "args", "render", "write", "quality", "over"
  args,        \* the arguments still to read
  asked,       \* the arguments given
  target,      \* "none", "scorecard", "quality", "both"
  out,         \* --out was given
  shape,       \* where the derived schema of a variant has failure_detail_md
  urls,        \* the url properties are where they are looked for
  rules,       \* the rules added so far to each variant
  disk,        \* the schema at its default place, the quality schema, --out
  exit

vars == <<step, args, asked, target, out, shape, urls, rules, disk, exit>>

Kinds == {"CoverageDelta", "CrapDelta", "MutationSurvivors", "BddFeatureLevelSkipped",
          "BddScenarioLevelSkipped", "GateRuns", "FlakyPopulation", "CiWallClockDelta",
          "HandlerCoverageAxis", "ChangedScopeDiagram"}
Details == {"absent", "null", "text", "script"}    \* script: a text with <script in it

(* What a producer could put on the wire.                                         *)
Row == [kind : Kinds, status : {"Green", "Yellow", "Red"}, detail : Details,
        url : {"https", "other"}]

(* The status comes from the constructor; only red rows must have a text. A row   *)
(* that has none leaves the property out.                                         *)
Mint(kinds) ==
  {r \in Row : /\ r.kind \in kinds
               /\ r.detail = "absent" <=> r.status # "Red"
               /\ r.detail # "null"}
CoverageRows ==
  Mint({"CoverageDelta"})
  \cup {r \in Row : r.kind = "CoverageDelta" /\ r.status = "Yellow" /\ r.detail # "null"}
DeltaRows == Mint({"CrapDelta", "MutationSurvivors"})
BddRows == Mint({"BddFeatureLevelSkipped", "BddScenarioLevelSkipped"})
RunRows == Mint({"GateRuns", "FlakyPopulation", "CiWallClockDelta"})
ScopeRows == Mint({"HandlerCoverageAxis", "ChangedScopeDiagram"})
Constructed == CoverageRows \cup DeltaRows \cup BddRows \cup RunRows \cup ScopeRows

Shapes == {"own", "flattened", "none", "bool"}
Arguments == {"out", "scorecard", "quality", "both", "help", "wrong"}

Init ==
  /\ step = "args"
  /\ asked \in UNION {[1..n -> Arguments] : n \in 0..MaxArgs} /\ args = asked
  /\ target = "none" /\ out = FALSE
  /\ shape \in {[k \in Kinds |-> IF k = odd THEN s ELSE "own"] : odd \in Kinds, s \in Shapes}
  /\ urls \in BOOLEAN
  /\ rules = [k \in Kinds |-> {}]
  /\ disk = [scorecard |-> "old", quality |-> "old", out |-> "old"]
  /\ exit = "none"

Ends(code) == step' = "over" /\ exit' = code

(* The last --target and the last --out count; an argument that is none ends it.  *)
ReadArg ==
  /\ step = "args" /\ args # <<>>
  /\ args' = Tail(args)
  /\ CASE Head(args) = "out" -> out' = TRUE /\ UNCHANGED <<step, target, exit>>
       [] Head(args) = "help" -> Ends("ok") /\ UNCHANGED <<target, out>>
       [] Head(args) = "wrong" -> Ends("usage") /\ UNCHANGED <<target, out>>
       [] OTHER -> target' = Head(args) /\ UNCHANGED <<step, out, exit>>
  /\ UNCHANGED <<asked, shape, urls, rules, disk>>

(* --out alone means the schema of the scorecard; both cannot go to one place.    *)
Decided == IF target # "none" THEN target ELSE IF out THEN "scorecard" ELSE "both"

Decide ==
  /\ step = "args" /\ args = <<>>
  /\ target' = Decided
  /\ IF Decided = "both" /\ out THEN Ends("usage")
     ELSE step' = (IF Decided = "quality" THEN "quality" ELSE "render") /\ UNCHANGED exit
  /\ UNCHANGED <<args, asked, out, shape, urls, rules, disk>>

(* variant_defines_failure_detail, as own property or in a flattened part.        *)
DefinesDetail(k) == shape[k] \in {"own", "flattened"}

RedRequiresDetail == \A k \in Kinds : DefinesDetail(k)
XssPattern == \A k \in Kinds : DefinesDetail(k)

(* One variant that does not have the expected shape, or a url that is not where  *)
(* it is looked for, stops the program before anything is written.                *)
Render ==
  /\ step = "render"
  /\ IF RedRequiresDetail /\ XssPattern /\ urls
       THEN /\ rules' = [k \in Kinds |-> {"red", "xss", "url"}]
            /\ step' = "write" /\ UNCHANGED exit
       ELSE Ends("panic") /\ UNCHANGED rules
  /\ UNCHANGED <<args, asked, target, out, shape, urls, disk>>

Place(name) == IF out THEN "out" ELSE name

(* Written in place, after the directory is made.                                 *)
Write ==
  /\ step = "write"
  /\ disk' = [disk EXCEPT ![Place("scorecard")] = "scorecard"]
  /\ IF target = "both" THEN step' = "quality" /\ UNCHANGED exit ELSE Ends("ok")
  /\ UNCHANGED <<args, asked, target, out, shape, urls, rules>>

WriteQuality ==
  /\ step = "quality"
  /\ disk' = [disk EXCEPT ![Place("quality")] = "quality"]
  /\ Ends("ok")
  /\ UNCHANGED <<args, asked, target, out, shape, urls, rules>>

WriteFails ==
  /\ step \in {"write", "quality"}
  /\ Ends("failure")
  /\ LET at == Place(IF step = "write" THEN "scorecard" ELSE "quality")
     IN  disk' \in {disk, [disk EXCEPT ![at] = "cut"]}
  /\ UNCHANGED <<args, asked, target, out, shape, urls, rules>>

Next == ReadArg \/ Decide \/ Render \/ Write \/ WriteQuality \/ WriteFails

Spec == Init /\ [][Next]_vars

--------------------------------------------------------------------------------
\* Mutant of Then: the property has to be there, whatever it is.
ThenRequired(detail) == detail # "absent"

(* The then branch: there, and a text.                                            *)
Then(detail) == detail \in {"text", "script"}

(* validate_against_schema, for one row.                                          *)
Accepts(r) ==
  /\ "red" \in rules[r.kind] /\ r.status = "Red" => Then(r.detail)
  /\ "xss" \in rules[r.kind] => r.detail # "script"
  /\ "url" \in rules[r.kind] /\ r.kind = "GateRuns" => r.url = "https"

TypeOK ==
  /\ step \in {"args", "render", "write", "quality", "over"}
  /\ target \in {"none", "scorecard", "quality", "both"} /\ out \in BOOLEAN
  /\ rules \in [Kinds -> SUBSET {"red", "xss", "url"}]
  /\ disk \in [{"scorecard", "quality", "out"} -> {"old", "cut", "scorecard", "quality"}]

(* A schema that was written lets through no red row without a text to show and   *)
(* no text with a script, and every clean row of the constructors.                *)
SchemaGuards ==
  (\E f \in DOMAIN disk : disk[f] = "scorecard") =>
    \A r \in Row :
      /\ Accepts(r) => (r.status = "Red" => r.detail = "text") /\ r.detail # "script"
      /\ r \in Constructed /\ r.detail # "script" /\ r.url = "https" => Accepts(r)

Written == {f \in DOMAIN disk : disk[f] # "old"}
Wanted(a) == {i \in DOMAIN asked : asked[i] = a} # {}

(* A command line that is refused writes nothing; one that succeeds wrote just    *)
(* what was asked for, and nothing but the schema of the scorecard to a place     *)
(* given without a target.                                                        *)
AskedWritten ==
  /\ exit \in {"usage", "panic"} => Written = {}
  /\ exit = "ok" /\ ~ Wanted("help") =>
       /\ \A f \in DOMAIN disk : disk[f] # "cut"
       /\ Written = IF Wanted("out") THEN {"out"}
                    ELSE IF target = "both" THEN {"scorecard", "quality"} ELSE {target}
       /\ ~ (\E t \in {"scorecard", "quality", "both"} : Wanted(t)) /\ Wanted("out")
            => disk["out"] = "scorecard"

SchemaRight == SchemaGuards /\ AskedWritten
=================================================================================
