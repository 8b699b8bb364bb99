CONSTANTS
    Clients = {c1, c2}
    NoClient = noClient
    Users = {u1, u2, u3}
    FirstAdmin = u1
    Ids = {i1}
    Values = {v1}
    MaxChanges = 3
    Absent = Absent
    Logins = {r1, r2}
    Threshold = 2
    LockTicks = 2
    MaxNow = 3
    MaxStreak = 3
    Resets = {p1, p2}
    Regenerations = {g1}
    CodesPerBatch = 2
    MaxAttempts = 2
    MaxBatch = 2
    MaxPasswords = 1
    Calls = {q1, q2, q3, q4}
    Keys = {k1}
    Window = 2
    MaxClock = 4
SPECIFICATION MCSpec
INVARIANTS LastAdminKept GuardHolds LogTellsHistory WindowRespected
PROPERTIES LockoutExact ChangesAtOnce OpensOnce
CHECK_DEADLOCK FALSE
