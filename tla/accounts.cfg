SPECIFICATION Spec
CONSTANTS
  b1 = b1
  b2 = b2
  r1 = r1
  r2 = r2
  None = None
  NoEmail = ""
  Browsers = {b1, b2}
  Requests = {r1, r2}
  Claims <- MCClaims
  FlowLifetime = 1
  SessionLifetime = 1
  SessionRetention = 1
  MaxTime = 3
  MaxFlows = 2
  MaxOrganisations = 2
SYMMETRY Symmetry
INVARIANTS
  TypeOK
  OneSessionPerFlow
  SessionIsTheSigners
  AccountsWhole
  OrganisationsRaced
PROPERTIES
  SessionEnds
CHECK_DEADLOCK FALSE
