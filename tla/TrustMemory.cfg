SPECIFICATION Spec
CONSTANTS
  Res = {r1, r2}
  Incidents = {i1, i2}
  None = None
  toL2 <- MCtoL2
  toL3 <- MCtoL3
  W_mature = 1
  OtherAt = {1}
  Churn <- MCChurn
  teams <- MCteams
  Unknown = "unknown"
  DayLen = 2
  Start = 2
  kPos = 1
  kNeg = 1
  Similarities <- MCSimilarities
  Settable = {"confirmed_good", "recurred", "reverted", "superseded"}
  MaxNow = 4
SYMMETRY Symmetry
INVARIANT TypeOK
INVARIANT PromotionIsEarned
INVARIANT QuietAfterBurst
INVARIANT RetrievalHonest
INVARIANT AutoApplyInStaffedHours
