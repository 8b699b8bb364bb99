------------------------------ MODULE Scorecard ------------------------------
(* The aggregate command behind the quality scorecard of a pull request: the   *)
(* thresholds of quality.toml or the built-in ones, one verdict per row, the   *)
(* worst of them as the verdict of the whole, and the file it is written to.   *)
(* Numbers are small integers; a measure that is no number is refused by the   *)
(* command line before any of this.                                            *)
EXTENDS Integers, FiniteSets

CONSTANTS
  Scale,       \* a hundred percent, and the bound on counts and deltas
  NotFinite,   \* nan: every comparison with it is false
  Missing      \* no such artifact, file or value

(* Coverage gets worse downwards, the counts and the wall clock upwards.       *)
Gates == {"coverage", "handler", "features", "scenarios", "clock", "flaky"}
Downwards == {"coverage", "handler"}
Inputs == {"pr", "bdd", "clock", "flaky", "breakouts", "crap"}

VARIABLES
  toml,        \* quality.toml: missing, blank, unreadable, unparseable, or a section it sets
  measure,     \* what each gate measures; Missing for an artifact not passed
  crap,        \* the row of the external CRAP producer, a status, or Missing
  broken,      \* the inputs that cannot be read
  step,        \* where the command is
  card,        \* the scorecard built
  tmp,         \* the temporary file next to the output
  out,         \* the output file: Missing (that of an earlier run), or a scorecard
  exit         \* exit code

vars == <<toml, measure, crap, broken, step, card, tmp, out, exit>>
given == <<toml, measure, crap, broken>>

Statuses == {"Green", "Yellow", "Red"}
Rank == [Green |-> 0, Yellow |-> 1, Red |-> 2]

NumbersAssumption ==
  Scale \in Nat \ {0} /\ NotFinite \notin Int /\ Missing \notin Int /\ Missing \notin Statuses

(* ThresholdConfig::fallback and the defaults of sections a file leaves out.   *)
Fallback ==
  [coverage |-> [warn |-> -1, fail |-> -2], handler |-> [warn |-> 1, fail |-> 0],
   features |-> [warn |-> 1, fail |-> 2], scenarios |-> [warn |-> 1, fail |-> 2],
   clock |-> [warn |-> 1, fail |-> 2], flaky |-> [warn |-> 1, fail |-> 2],
   reportOnly |-> TRUE]

(* Coverage falls by points, a handler is covered to a part of the scale,      *)
(* counts are natural numbers, the wall clock may go down.                     *)
MeasuresOf(g) ==
  CASE g = "coverage" -> -Scale .. 0
    [] g = "handler" -> 0 .. Scale \cup {Missing}
    [] g = "clock" -> -1 .. Scale \cup {Missing}
    [] OTHER -> 0 .. Scale

LimitsOf(g) ==
  CASE g \in {"coverage", "clock"} -> -Scale .. Scale \cup {NotFinite}
    [] g = "handler" -> -1 .. Scale + 1 \cup {NotFinite}
    [] OTHER -> 0 .. Scale

Sections == UNION {[gate: {g}, warn: LimitsOf(g), fail: LimitsOf(g), reportOnly: BOOLEAN] : g \in Gates}

Good == [g \in Gates |-> IF g = "handler" THEN Scale ELSE 0]

(* Any two measures off, one of them the one quality.toml has a section for.   *)
Measures(gates) ==
  UNION {{[Good EXCEPT ![g] = v, ![h] = w] : v \in MeasuresOf(g), w \in MeasuresOf(h)} :
         g \in gates, h \in Gates}

Toml == {[kind |-> k] : k \in {"missing", "blank", "unreadable", "unparseable"}}
        \cup {[kind |-> "set", section |-> s] : s \in Sections}

Config ==
  IF toml.kind = "set"
  THEN [Fallback EXCEPT ![toml.section.gate] =
          [warn |-> toml.section.warn, fail |-> toml.section.fail],
                        !.reportOnly = toml.section.reportOnly]
  ELSE Fallback

Init ==
  /\ toml \in Toml
  /\ measure \in Measures(IF toml.kind = "set" THEN {toml.section.gate} ELSE Gates)
  /\ \/ broken = {} /\ crap \in Statuses \cup {Missing}
     \/ crap = Missing /\ measure = Good /\ broken \in {{i} : i \in Inputs}
  /\ step = "gather" /\ card = Missing /\ tmp = Missing /\ out = Missing /\ exit = Missing

-----------------------------------------------------------------------------
(* threshold.rs: a boundary belongs to the worse side.                         *)

(* Mutant of Reached: a boundary belongs to the better side.                   *)
ReachedStrictly(gate, value, limit) ==
  /\ limit # NotFinite
  /\ IF gate \in Downwards THEN value < limit ELSE value > limit

Reached(gate, value, limit) ==
  /\ limit # NotFinite
  /\ IF gate \in Downwards THEN value <= limit ELSE value >= limit

Resolve(gate, value, t) ==
  IF Reached(gate, value, t.fail) THEN "Red"
  ELSE IF Reached(gate, value, t.warn) THEN "Yellow" ELSE "Green"

(* Mutant of WorstOf: the later one wins unless it is green.                   *)
LaterOf(a, b) == IF b = "Green" THEN a ELSE b

WorstOf(a, b) == IF Rank[a] >= Rank[b] THEN a ELSE b

(* build_coverage_row: the handlers count only when the gate is enforced.      *)
CoverageRow ==
  LET delta == Resolve("coverage", measure.coverage, Config.coverage)
      handlers == IF measure.handler = Missing THEN "Green"
                  ELSE Resolve("handler", measure.handler, Config.handler)
  IN IF Config.reportOnly THEN delta ELSE WorstOf(delta, handlers)

FeatureRow == Resolve("features", measure.features, Config.features)
ScenarioRow == Resolve("scenarios", measure.scenarios, Config.scenarios)

(* A delta of zero stands for a missing artifact or a missing base.            *)
ClockRow ==
  Resolve("clock", IF measure.clock = Missing THEN 0 ELSE measure.clock, Config.clock)

FlakyRow == Resolve("flaky", measure.flaky, Config.flaky)

(* The producer's own verdict is passed on; the stub is green.                 *)
CrapRow == IF crap = Missing THEN "Green" ELSE crap

(* build_scorecard; the changed scope and the stubs are always green.          *)
Built ==
  [overall |-> WorstOf(WorstOf(WorstOf(CoverageRow, FeatureRow), WorstOf(ScenarioRow, ClockRow)),
                       WorstOf(FlakyRow, CrapRow)),
   fallback |-> toml.kind # "set"]

-----------------------------------------------------------------------------
(* validate_threshold_config and its sections.                                 *)

Finite(t) == t.warn # NotFinite /\ t.fail # NotFinite

ValidDownwards(t) == Finite(t) /\ t.fail <= t.warn
ValidUpwards(t) == Finite(t) /\ t.fail >= t.warn

(* Percentages.                                                                *)
ValidHandler(t) == ValidDownwards(t) /\ {t.warn, t.fail} \subseteq 0 .. Scale

(* Mutant of ValidConfig: only the coverage section is looked at.              *)
ValidCoverageOnly == ValidDownwards(Config.coverage)

ValidConfig ==
  /\ ValidDownwards(Config.coverage)
  /\ \A g \in {"features", "scenarios", "flaky", "clock"} : ValidUpwards(Config[g])
  /\ ValidHandler(Config.handler)

(* Mutant of ThresholdsUsable: a file that does not parse is like none.        *)
ThresholdsUsableAlways ==
  toml.kind \in {"missing", "blank", "unparseable"} \/ (toml.kind = "set" /\ ValidConfig)

(* resolve_threshold_source: no file and a blank one fall back, any other that *)
(* cannot be used is an error.                                                 *)
ThresholdsUsable ==
  toml.kind \in {"missing", "blank"} \/ (toml.kind = "set" /\ ValidConfig)

Ends(code) == step' = "end" /\ exit' = code

(* gather_producer_inputs: the first input that fails ends the run.            *)
GatherFails ==
  /\ step = "gather"
  /\ ~ ThresholdsUsable \/ broken # {}
  /\ Ends(IF "pr" \in broken THEN 2 ELSE 1)
  /\ UNCHANGED <<given, card, tmp, out>>

(* Mutant of Build: written at once to the output.                             *)
BuildInPlace ==
  /\ step = "gather" /\ broken = {} /\ ThresholdsUsable
  /\ card' = Built /\ out' = Built /\ step' = "write"
  /\ UNCHANGED <<given, tmp, exit>>

Build ==
  /\ step = "gather" /\ broken = {} /\ ThresholdsUsable
  /\ card' = Built /\ step' = "write"
  /\ UNCHANGED <<given, tmp, out, exit>>

(* write_scorecard: schema check, temporary sibling, rename. A failed rename   *)
(* removes the sibling, a failed write may leave it.                           *)
WriteTmp ==
  /\ step = "write"
  /\ tmp' = card /\ step' = "rename"
  /\ UNCHANGED <<given, card, out, exit>>

WriteFails ==
  /\ step \in {"write", "rename"}
  /\ Ends(1)
  /\ tmp' = Missing
  /\ UNCHANGED <<given, card, out>>

Rename ==
  /\ step = "rename"
  /\ out' = tmp /\ tmp' = Missing
  /\ Ends(0)
  /\ UNCHANGED <<given, card>>

(* The job is cancelled.                                                       *)
Cancelled ==
  /\ step \notin {"end", "killed"}
  /\ step' = "killed"
  /\ UNCHANGED <<given, card, tmp, out, exit>>

Next ==
  \/ GatherFails \/ Build \/ WriteTmp \/ WriteFails \/ Rename \/ Cancelled

Spec == Init /\ [][Next]_vars

-----------------------------------------------------------------------------
(* Properties                                                                  *)

(* How bad a measure is, with the limits taken as a set of steps: one for each *)
(* of warn and fail that the measure has come up to.                           *)
Badness(g, v) ==
  Cardinality({l \in {"warn", "fail"} :
    IF g \in Downwards THEN ~ (v > Config[g][l]) ELSE ~ (v < Config[g][l])})

Enforced == {g \in Gates : measure[g] # Missing /\ ~ (g = "handler" /\ Config.reportOnly)}

(* A published verdict is red exactly when some enforced measure has come up   *)
(* to its fail limit or the CRAP producer says so, yellow when only a warning  *)
(* is reached. Limits below zero for the wall clock are left to the README.    *)
VerdictEarned ==
  out # Missing /\ (toml.kind = "set" /\ toml.section.gate = "clock" => toml.section.warn > 0) =>
    LET reds == {g \in Enforced : Badness(g, measure[g]) = 2}
        yellows == {g \in Enforced : Badness(g, measure[g]) = 1}
    IN out.overall = IF reds # {} \/ crap = "Red" THEN "Red"
                     ELSE IF yellows # {} \/ crap = "Yellow" THEN "Yellow" ELSE "Green"

(* A quality.toml that cannot be used never turns into a verdict: the output   *)
(* changes only for a run that ends well, and only a missing or blank file     *)
(* means the built-in limits.                                                  *)
NoSilentFallback ==
  /\ out # Missing =>
       /\ exit = 0
       /\ toml.kind \in {"missing", "blank", "set"}
       /\ out.fallback = (toml.kind # "set")
       /\ toml.kind = "set" =>
            LET t == toml.section IN
            /\ NotFinite \notin {t.warn, t.fail}
            /\ IF t.gate \in Downwards THEN t.fail <= t.warn ELSE t.warn <= t.fail
  /\ exit \in {1, 2} => out = Missing
=============================================================================
