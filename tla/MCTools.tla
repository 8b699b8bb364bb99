------------------------------- MODULE MCTools -------------------------------
\* The tools that judge the code: the walk over the routes, the two halves of the
\* quality scorecard, its schema, and the two audits of what the scenarios reach.
\* No two share state, so each behaviour is one of a single component; part says
\* of which.
EXTENDS RouteWalk

CONSTANTS Tags, SkipTags, Crates, MaxFiles, MaxLines

CONSTANTS Scale, NotFinite, Missing

CONSTANTS NoCrate, Limit, MaxRows, MaxLcovLines, MaxLcovFiles, MaxArgs

VARIABLES part,
          crate, lines, pending, featureSeen, parsed, own, above, stray, perCrate,
          summary, merged,
          toml, measure, crap, broken, at, card, cardTmp, out, status,
          phase, declared, excluded, unreadable, rows, bad, next, buckets, orphans,
          report, summaryMd, result,
          stage, parses, entries, texts, current, hits, records, lcovIndex, errors,
          auditTmp, audit, auditMd, verdict,
          turn, args, asked, target, outGiven, rowShape, urls, rules, disk, code

Tally == INSTANCE FeatureTally WITH files <- merged

Card == INSTANCE Scorecard WITH step <- at, tmp <- cardTmp, exit <- status

Scenarios == INSTANCE ScenarioCoverage
  WITH step <- phase, unresolvable <- unreadable, at <- next, json <- report, md <- summaryMd, exit <- result

Audit == INSTANCE PubApi
  WITH step <- stage, index <- lcovIndex, tmp <- auditTmp, json <- audit, md <- auditMd, exit <- verdict

Schema == INSTANCE RowSchema WITH step <- turn, shape <- rowShape, out <- outGiven, exit <- code

ASSUME CardConstants == Card!NumbersAssumption
ASSUME SchemaConstants == MaxArgs \in Nat
ASSUME ScenarioConstants == Scenarios!LimitAssumption

MCInit ==
    /\ part \in {"walk", "tally", "card", "scenarios", "audit", "schema"}
    /\ part # "tally" => crate = CHOOSE c \in Crates : TRUE
    /\ part # "card" => toml = [kind |-> "missing"] /\ measure = Card!Good
                         /\ broken = {} /\ crap = Missing
    /\ part # "walk" => about = "names"
    /\ part # "scenarios" => declared = {} /\ excluded = {} /\ unreadable = FALSE
                              /\ summaryMd = "none"
    /\ parses \in (IF part = "audit" THEN BOOLEAN ELSE {TRUE})
    /\ auditMd = (IF parses THEN "none" ELSE "unasked")   \* the two do not meet
    /\ part # "schema" => asked = <<>> /\ urls = TRUE /\ rowShape = [k \in Schema!Kinds |-> "own"]
    /\ Init /\ Tally!Init /\ Card!Init /\ Scenarios!Init /\ Audit!Init /\ Schema!Init

Only(p) ==
    /\ UNCHANGED part
    /\ p # "walk" => UNCHANGED vars
    /\ p # "tally" => UNCHANGED <<crate, lines, pending, featureSeen, parsed, own, above,
                                stray, perCrate, summary, merged>>
    /\ p # "card" => UNCHANGED <<toml, measure, crap, broken, at, card, cardTmp, out, status>>
    /\ p # "scenarios" => UNCHANGED <<phase, declared, excluded, unreadable, rows, bad, next,
                                    buckets, orphans, report, summaryMd, result>>
    /\ p # "audit" => UNCHANGED <<stage, parses, entries, texts, current, hits, records,
                                lcovIndex, errors, auditTmp, audit, auditMd, verdict>>
    /\ p # "schema" => UNCHANGED <<turn, args, asked, target, outGiven, rowShape, urls, rules,
                                 disk, code>>

WalkNext ==
    \/ \E u \in Uses, scope \in {"file", "fn"} : ReadUse(u, scope)
    \/ ReadMod
    \/ \E b \in Builders \cup {NoBuilder}, literal \in {Slash, <<"x">>},
          handler \in References, shape \in {"plain", "layered"} :
          ReadRoute(b, literal, handler, shape)
    \/ \E b, child \in Builders, how \in {"nest", "nest_with_state", "merge"},
          prefix \in {<<>>, <<"p">>, <<"q">>} : ReadMount(b, how, prefix, child)
    \/ EnterNest(<<"i">>)
    \/ OuterNest(<<"i">>)
    \/ LeaveNest
    \/ \E marks \in {<<>>, <<"closure0">>, <<"closure0", "closure1">>},
          branches \in {<<>>} \cup {<<b>> : b \in {0, 1} \X {0, 1}} :
          ReadFunction(marks, branches)
    \/ StartClimb
    \/ Climb
    \/ EndClimb
    \/ JoinCoverage

TallyNext ==
    \/ \E tags \in SUBSET Tags \ {{}} : Tally!ReadTags(tags)
    \/ Tally!ReadFeature
    \/ Tally!ReadScenario
    \/ Tally!ReadBackground
    \/ Tally!ReadOther
    \/ Tally!MergeFile

CardNext ==
    \/ Card!GatherFails
    \/ Card!Build
    \/ Card!WriteTmp
    \/ Card!WriteFails
    \/ Card!Rename
    \/ Card!Cancelled

ScenariosNext ==
    \/ Scenarios!Refused
    \/ Scenarios!WalkRoutes
    \/ \E r \in Scenarios!Rows : Scenarios!ReadRow(r)
    \/ Scenarios!ReadBad
    \/ Scenarios!ReadEnds
    \/ Scenarios!JoinRow
    \/ Scenarios!JoinEnds
    \/ Scenarios!WriteJson
    \/ Scenarios!WriteMarkdown
    \/ Scenarios!WriteFails

AuditNext ==
    \/ Audit!Walk
    \/ Audit!Refused
    \/ Audit!NextFile
    \/ \E l \in Audit!LcovLines : Audit!ReadLcov(l)
    \/ Audit!LcovEnds
    \/ Audit!WriteTmp
    \/ Audit!Rename
    \/ Audit!WriteFails

SchemaNext ==
    \/ Schema!ReadArg
    \/ Schema!Decide
    \/ Schema!Render
    \/ Schema!Write
    \/ Schema!WriteQuality
    \/ Schema!WriteFails

MCNext ==
    \/ part = "walk" /\ WalkNext /\ Only("walk")
    \/ part = "tally" /\ TallyNext /\ Only("tally")
    \/ part = "card" /\ CardNext /\ Only("card")
    \/ part = "scenarios" /\ ScenariosNext /\ Only("scenarios")
    \/ part = "audit" /\ AuditNext /\ Only("audit")
    \/ part = "schema" /\ SchemaNext /\ Only("schema")

MCSpec == MCInit /\ [][MCNext]_<<part, vars, Tally!vars, Card!vars, Scenarios!vars, Audit!vars, Schema!vars>>

-----------------------------------------------------------------------------
\* The coverage of a handler found in plain routing is reported under its path, or the run
\* does not end well.
ReachRight == part = "walk" => PlainRoutesReported

\* A scenario counts as skipped exactly for a skip tag of its own, the numbers of the
\* crates add up to those of the workspace, a published verdict is the one the limits
\* and the measures call for, and no unusable quality.toml and no failed run ends in one;
\* the written schema lets through what the constructors build and no red row without a
\* text to show; a handler has the scenarios that hit it, an item the hits that were read,
\* and no run of these two that left something out ends well; a handler counts as covered
\* in full only if every side of every branch was taken.
ReportsRight ==
    /\ part = "walk" => FullMeansAll
    /\ part = "tally" => Tally!SkipsAreOwn /\ Tally!BreakoutsAddUp
    /\ part = "card" => Card!VerdictEarned /\ Card!NoSilentFallback
    /\ part = "schema" => Schema!SchemaRight
    /\ part = "scenarios" => Scenarios!CreditRight
    /\ part = "audit" => Audit!AuditRight
=============================================================================
