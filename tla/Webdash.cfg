CONSTANTS
    r1 = r1
    r2 = r2
    t1 = t1
    t2 = t2
    Requests = {r1, r2}
    Passwords = {"admin", "p1", "p2"}
    Default = "admin"
    Tokens = {t1, t2}
    SessionTime = 1
    Torn = TRUE
    WriteFails = TRUE
    MaxTime = 3
    a1 = a1
    Agents = {a1}
    MaxCount = 1
    MaxRestarts = 1
    MaxLate = 1
    MaxFaults = 1
SPECIFICATION WebdashSpec
INVARIANTS EndedStaysEnded  ShownWasCounted
PROPERTIES OnlyLateGoesBack FleetCatchesUp
