SPECIFICATION HandlerSpec
CONSTANTS
  g1 = g1
  g2 = g2
  g3 = g3
  ipA = ipA
  ipB = ipB
  Mode = "asymmetric"
  PublicKeys = {"pk1", "pk2"}
  PublicKey = {}
  HMACSecrets = {}
  HMACSecret = {}
  TOTPSecrets = {"t1"}
  TOTPSecret = {}
  TOTPTimeStep = 2
  TOTPTolerance = 1
  MaxTimeDiff = 7
  Half = 64
  TOTP <- MCTOTP
  Calls <- HandlerCalls
  Packets <- MixedPool
  IPs <- MCIPs
  PurgeAbove = 0
  MaxDelay = 1
  StartTime = 8
  MaxClock = 9
  Datagrams <- MixedTraffic
  StaticToken <- Token
  Zeros <- Blank
INVARIANT GrantNeedsGenuine
PROPERTY StopEnds
CHECK_DEADLOCK FALSE
