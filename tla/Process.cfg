CONSTANTS
    w1 = w1
    w2 = w2
    w3 = w3
    b1 = b1
    b2 = b2
    NoClient = NoClient
    Wizard <- MCWizard
    Bootstrap <- MCBootstrap
    Clients <- MCClients
    Requests = {r1}
    Completions = {c1, c2}
    Users = {u1}
    Stranger = stranger
    NoSession = noSession
    Absent = Absent
    MaxPinAttempts = 2
    PinExpiry = 1
    MaxClockJump = 1
    Desktop = TRUE
    Resets = {d1, d2}
    MaxLaunches = 2
    Conns = {k1}
    MaxEvents = 3
    Capacity = 1
    Callers = {a1, a2}
    Accounts = {u1, u2}
    Founder = u1
    NoAddress = NoAddress
    Addresses = {here, there}
    NoName = NoName
    MaxAttempts = 1
    MaxInstances = 3
    MaxClients = 1
SPECIFICATION MCSpec
INVARIANTS WizardOnce CompletedTruthful ResetSafe ShellRight
PROPERTIES BootstrapOnlyFirst SessionsEnd RestartsAndQuits ConnectionsEnd LockReleased TasksEnd
CHECK_DEADLOCK FALSE
