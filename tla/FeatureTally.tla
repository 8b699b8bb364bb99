---------------------------- MODULE FeatureTally ----------------------------
(* The count of skipped features and scenarios of the quality scorecard: a     *)
(* line-by-line reader of .feature files (parse_feature), and the sums over    *)
(* the files of each crate and of the workspace. A line is its kind and, for a *)
(* line of tags, the tags on it.                                               *)
EXTENDS Naturals, Sequences, FiniteSets

CONSTANTS
  Tags,        \* tag literals
  SkipTags,    \* @wip, @future, @ignore, @skip and @tracked:...
  Crates,      \* crate and app names
  MaxFiles,    \* bound: files of the corpus
  MaxLines     \* bound: lines of a file

VARIABLES
  crate,       \* crate of the file being read
  lines,       \* its lines so far (bound)
  pending,     \* tags waiting for the line they belong to
  featureSeen, \* the Feature: line has been read
  parsed,      \* ParsedFeature
  own,         \* what the file really says (history): the tags of each scenario
  above,       \* the tags directly above the next line (history)
  stray,       \* tags stood above a line that takes none (history)
  perCrate,    \* BddCrateAcc of each crate
  summary,     \* BddSummary
  files        \* files merged (bound)

vars == <<crate, lines, pending, featureSeen, parsed, own, above, stray, perCrate, summary, files>>

Nothing == [features |-> 0, skippedFeatures |-> 0, scenarios |-> 0, skippedScenarios |-> 0,
         featureTags |-> [t \in SkipTags |-> 0], scenarioTags |-> [t \in SkipTags |-> 0]]
Unread == [scenarios |-> 0, skipped |-> 0, gated |-> FALSE, tags |-> {},
           byTag |-> [t \in SkipTags |-> 0]]

Init ==
  /\ crate \in Crates
  /\ lines = 0 /\ files = 0
  /\ pending = {} /\ featureSeen = FALSE /\ parsed = Unread
  /\ own = <<>> /\ above = {} /\ stray = FALSE
  /\ perCrate = [c \in Crates |-> Nothing]
  /\ summary = Nothing

Reading == files < MaxFiles /\ lines < MaxLines

ReadTags(tags) ==
  /\ Reading
  /\ lines' = lines + 1
  /\ pending' = pending \cup tags
  /\ above' = above \cup tags
  /\ UNCHANGED <<crate, featureSeen, parsed, own, stray, perCrate, summary, files>>

(* Feature: takes the tags above it, the first time; Rule: and a second        *)
(* Feature: only drop them.                                                    *)
ReadFeature ==
  /\ Reading
  /\ lines' = lines + 1
  /\ parsed' = IF featureSeen THEN parsed
               ELSE [parsed EXCEPT !.tags = pending, !.gated = pending \cap SkipTags # {}]
  /\ featureSeen' = TRUE
  /\ pending' = {} /\ above' = {}
  /\ UNCHANGED <<crate, own, stray, perCrate, summary, files>>

(* tally_scenario_tags; own keeps the tags that really stand above it.         *)
Tally(tags) ==
  LET counted == ~ parsed.gated /\ tags \cap SkipTags # {} IN
  [parsed EXCEPT
     !.scenarios = @ + 1,
     !.skipped = IF counted THEN @ + 1 ELSE @,
     !.byTag = [t \in SkipTags |-> IF counted /\ t \in tags THEN @[t] + 1 ELSE @[t]]]

ReadScenario ==
  /\ Reading
  /\ lines' = lines + 1
  /\ parsed' = Tally(pending)
  /\ own' = Append(own, above)
  /\ pending' = {} /\ above' = {}
  /\ UNCHANGED <<crate, featureSeen, stray, perCrate, summary, files>>

(* Mutant of ReadBackground: treated like any other line.                      *)
ReadBackgroundAsOther ==
  /\ Reading
  /\ lines' = lines + 1
  /\ above' = {}
  /\ UNCHANGED <<crate, pending, featureSeen, parsed, own, stray, perCrate, summary, files>>

ReadBackground ==
  /\ Reading
  /\ lines' = lines + 1
  /\ pending' = {} /\ above' = {}
  /\ UNCHANGED <<crate, featureSeen, parsed, own, stray, perCrate, summary, files>>

(* Steps, tables, Examples: the tags above are kept for the next scenario.     *)
ReadOther ==
  /\ Reading
  /\ lines' = lines + 1
  /\ stray' = (stray \/ above # {})
  /\ above' = {}
  /\ UNCHANGED <<crate, pending, featureSeen, parsed, own, perCrate, summary, files>>

(* One accumulator after one more file: that of a crate, or of the workspace.  *)
Merged(acc) ==
  LET gated == parsed.gated IN
  [features |-> acc.features + 1,
   skippedFeatures |-> acc.skippedFeatures + (IF gated THEN 1 ELSE 0),
   scenarios |-> acc.scenarios + parsed.scenarios,
   skippedScenarios |-> acc.skippedScenarios + (IF gated THEN 0 ELSE parsed.skipped),
   featureTags |-> [t \in SkipTags |-> acc.featureTags[t] + (IF gated /\ t \in parsed.tags THEN 1 ELSE 0)],
   scenarioTags |-> [t \in SkipTags |-> acc.scenarioTags[t] + (IF gated THEN 0 ELSE parsed.byTag[t])]]

(* Mutant of MergeFile: the accumulator of the crate is started again.         *)
MergeFileAnew ==
  /\ files < MaxFiles /\ lines > 0
  /\ perCrate' = [perCrate EXCEPT ![crate] = Merged(Nothing)]
  /\ summary' = Merged(summary)
  /\ files' = files + 1
  /\ crate' \in Crates
  /\ lines' = 0 /\ pending' = {} /\ featureSeen' = FALSE /\ parsed' = Unread
  /\ own' = <<>> /\ above' = {} /\ stray' = FALSE

(* End of a file: merge_parsed_feature, and the next file of the walk.         *)
MergeFile ==
  /\ files < MaxFiles /\ lines > 0
  /\ perCrate' = [perCrate EXCEPT ![crate] = Merged(@)]
  /\ summary' = Merged(summary)
  /\ files' = files + 1
  /\ crate' \in Crates
  /\ lines' = 0 /\ pending' = {} /\ featureSeen' = FALSE /\ parsed' = Unread
  /\ own' = <<>> /\ above' = {} /\ stray' = FALSE

Next ==
  \/ \E tags \in SUBSET Tags \ {{}} : ReadTags(tags)
  \/ ReadFeature \/ ReadScenario \/ ReadBackground \/ ReadOther
  \/ MergeFile

Spec == Init /\ [][Next]_vars

-----------------------------------------------------------------------------
(* Properties                                                                  *)

(* What the crates hold together: so many of each crate, all told apart.       *)
Total(field) == Cardinality(UNION {{c} \X (1 .. perCrate[c][field]) : c \in Crates})

(* A scenario counts as skipped exactly when a skip tag stands above it and    *)
(* its feature is not skipped as a whole, in files without tags above a line   *)
(* that takes none (see README, Observations).                                 *)
SkipsAreOwn ==
  ~ stray =>
    /\ parsed.scenarios = Len(own)
    /\ ~ parsed.gated /\ featureSeen =>
         parsed.skipped = Cardinality({n \in 1 .. Len(own) : own[n] \cap SkipTags # {}})

(* The breakdown per crate adds up to the totals of the workspace.             *)
BreakoutsAddUp ==
  \A field \in {"features", "skippedFeatures", "scenarios", "skippedScenarios"} :
    Total(field) = summary[field]
=============================================================================
