CONSTANTS
    FakePorts <- TwoFakePorts
    HoneypotPort = 9999
    MtlsPort = 8443
    p1 = p1
    Peers = {p1}
    SourcePort <- OnePort
    Critical = {21, 22}
    Fake = {21, 80}
    HONEYPOT_PORT = 9999
    Ordinary = {55536}
    Ephemeral = {40000}
    Served = {21, 22, 80, 9999, 55536}
    Windows = {0, 29200, 65535}
    Scans <- AllScans
    MaxProbes = 1
SPECIFICATION HostSpec
INVARIANTS NeverUnguarded TrafficTypeOK OnlyTrapsReached LooksDead ChecksumsValid
PROPERTIES ClosedIfStarted FallbackServed TrapAnswers
