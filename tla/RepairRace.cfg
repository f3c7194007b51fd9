SPECIFICATION FairSpec
CONSTANTS
  a1 = a1
  a2 = a2
  i1 = i1
  None = None
  Attempts = {a1}
  Requests = {r1, r2, r3}
  Incidents = {i1}
  Fixes = {f1}
  IncidentOf <- MCIncidentOf
  MaxRestarts = 1
INVARIANTS
  TypeOK
  OneCreator
  RejectedNeverLands
  FreezeShutsOut
  TrackedIsDecidable
  IndexAgreesWithLedger
PROPERTIES
  ApprovedLands
