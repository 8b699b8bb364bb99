CONSTANTS
    Builders = {router, a, b}
    MaxItems = 3
    Tags = {wip, plain}
    SkipTags = {wip}
    Crates = {k1, k2}
    MaxFiles = 2
    MaxLines = 5
    Scale = 2
    NotFinite = NotFinite
    Missing = Missing
    NoCrate = NoCrate
    Limit = 1
    MaxRows = 2
    MaxLcovLines = 4
    MaxLcovFiles = 2
    MaxArgs = 2
SPECIFICATION MCSpec
INVARIANTS ReachRight ReportsRight
CHECK_DEADLOCK FALSE
