SPECIFICATION Spec
CONSTANTS
  g1 = g1
  g2 = g2
  ipA = ipA
  Mode = "asymmetric"
  PublicKeys = {"pk1", "pk2"}
  PublicKey = {}
  HMACSecrets = {}
  HMACSecret = {}
  TOTPSecrets = {}
  TOTPSecret = {"t1"}
  TOTPTimeStep = 2
  TOTPTolerance = 1
  MaxTimeDiff = 7
  Half = 64
  TOTP <- MCTOTP
  Calls <- MCCalls
  Packets <- ReplayPackets
  IPs = {ipA}
  PurgeAbove = 1
  MaxDelay = 1
  StartTime = 8
  MaxClock = 17
INVARIANTS TypeOK NoReplay NoFalseReplay ForgottenIsStale
PROPERTY HonestAccepted
SYMMETRY CallSymmetry
