SPECIFICATION Spec
CONSTANTS
  a1 = a1
  a2 = a2
  i1 = i1
  None = None
  Attempts = {a1, a2}
  Requests = {r1, r2}
  Incidents = {i1}
  Fixes = {f1}
  IncidentOf <- MCIncidentOf
  MaxRestarts = 1
SYMMETRY Symmetry
INVARIANTS
  LandingIsVouched
PROPERTIES
  LandingIsImmutable
  ImplementsHumanGate
