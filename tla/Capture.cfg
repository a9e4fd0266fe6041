SPECIFICATION CaptureSpec
CONSTANTS
    c1 = c1
    c2 = c2
    None = None
    Conns = {c1, c2}
    Ports = {9999}
    HoneypotPort = 9999
    LogCap = 1
    CdArgs <- SomeArgs
    Messages = {"m1", "m2", "m3"}
    ChanSize = 2
    BatchSize = 2
    NodeCount = 2
    Answers <- Unreliable
INVARIANTS WorkingDirKnown CapturedFirst Conserved IndexedOnce
PROPERTIES Greeted SilentEnds CloseTerminates
