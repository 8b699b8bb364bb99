CONSTANTS
    Emails = {e1, e2, e3}
    MaxResets = 1
    Releases = 2
    PlatformOf <- MCPlatformOf
    KeepBackups = 1
    Connections = {c1, c2}
    NoFile = NoFile
    Exts = {png, webp}
    Names = {n1}
    MaxWork = 2
    MaxChanges = 1
    Absent = Absent
    Dbs = {meta_db, shop_db}
    Torn = Torn
    Rotten = Rotten
    Requests = {r1, r2}
    Starting = Starting
    None = None
    Uploads = {q1, q2}
    Count = 3
    Refs = {1, 2, 3}
    MaxDeps = 2
    MaxEdges = 4
    Procs = {p1, p2}
    Nobody = Nobody
    MaxStarts = 3
    MaxBoots = 2
SPECIFICATION MCSpec
INVARIANTS TypesOK AccountsKept OwnCrashesRecovered UpgradeSound MigrationsRight CopiesKept
           SuccessOrNothing RowNamesFile BootSafe CommandsSafe
PROPERTIES MovesOnce
CHECK_DEADLOCK FALSE
