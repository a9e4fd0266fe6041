SPECIFICATION Spec
CONSTANTS
  c1 = c1
  c2 = c2
  Conns = {c1, c2}
  Certs <- MCCerts
  CertsOf <- MCCertsOf
  AllowedSPIFFEIDs = {"id1"}
  ErrcCap = 2
  MaxSend = 2
INVARIANTS OnlyAuthorised HungUpAfterAll
PROPERTIES EndsTogether AlwaysAccepts
CHECK_DEADLOCK FALSE
