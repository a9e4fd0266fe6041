SPECIFICATION Spec
CONSTANTS
  c1 = c1
  c2 = c2
  t1 = t1
  CPUs = {c1,c2}
  Tasks = {t1}
  Addresses <- Mirrored
  Capacity = 1
  TokenDuration = 0
  GrantDuration = 0
  Buffer = 0
  Suspended = 0
  FallbackBase = 1
  LittleEndian = TRUE
  MaxTime = 2
PROPERTY GateSpec
SYMMETRY CPUSymmetry
