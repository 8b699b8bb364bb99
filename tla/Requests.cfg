CONSTANTS
    Requests = {r1, r2}
    Completions = {c1, c2}
    Users = {u1}
    Stranger = stranger
    NoSession = noSession
    Absent = Absent
    MaxPinAttempts = 2
    PinExpiry = 1
    MaxClockJump = 1
    Letters = {"a", "A", "1", "-", ".", "e"}
    HostLetters = {"a", "A", ":", "[", "]", "/"}
    MaxText = 5
    MaxSlugLen = 3
    InputCap = 4
    NoReply = NoReply
    Switches = {s1}
    AdminSwitches = {a1}
    Setup = setup
    Command = bootstrap
    Cookies = {k1}
    Staff = {e1}
    DemoAdmin = demoAdmin
    MaxInFlight = 2
    None = None
    Unknown = q1
    Pages = {q2}
    MaxChanges = 1
    Nobody = Nobody
SPECIFICATION MCSpec
CHECK_DEADLOCK FALSE
INVARIANTS SingleCustody RedeemedOnce RedeemedPinGone NoLateRedemption
           NamesFit WireAgrees ProfileKept ReturnTrip RequestRight
PROPERTIES SessionsAreTickets
SYMMETRY Symmetry
