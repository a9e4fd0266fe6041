SPECIFICATION Spec
CONSTANTS
  c1 = c1
  c2 = c2
  t1 = t1
  CPUs = {c1}
  Tasks = {t1}
  Addresses <- OneAddress
  Capacity = 2
  TokenDuration = 1
  GrantDuration = 2
  Buffer = 1
  Suspended = 0
  FallbackBase = 9
  LittleEndian = TRUE
  MaxTime = 3
INVARIANT GrantHonoured
