SPECIFICATION Spec
CONSTANTS
  Signals <- MCSignals
  AreaOf <- MCAreaOf
  MaxSignals = 4
  NoiseFloor <- MCNoiseFloor
  Nowhere = "nowhere"
  Requests <- MCRequests
  Secret = TRUE
  ClientSecret = TRUE
  Replies <- MCReplies
  Observations <- MCObservations
  Uncertainties = {0, 5}
  WindowMinutes = 60
  PageFloor = 2
  Sources <- MCSources
  Ignored = {"conf"}
  Documents = {"doc", "env"}
  Protected = {"auth", "env"}
  Unmatched <- MCUnmatched
  Patches <- MCPatches
  PullRequests <- MCPullRequests
  Suites <- MCSuites
  RequiredScore = 60
  Reruns = 3
  ImportSets = {{}, {"m"}, {"m", "n"}}
  ChangedSets = {{"m"}, {"n"}}
  Owned = {i1, i2}
  Foreign = foreign
  SetLabels = {"confirmed_good", "recurred", "superseded"}
  kShared <- MCkShared
  Scores <- MCScores
  MaxCalls = 4
SYMMETRY Symmetry
INVARIANTS
  TypeOK
  IncidentsAreConnected
  ConfirmedIsGrounded
  EscalationNamesWhatIsMissing
  QuietIsSafe
  
  PassIsGrounded
  
  AutonomousOnlyOnEvidence
  PrecedentsAreHonest
