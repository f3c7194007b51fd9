SPECIFICATION Spec
CONSTANTS
  Nonces = {n1, n2}
  Calls = {c1, c2}
  Ttl = 1
  MaxNow = 3
SYMMETRY Symmetry
INVARIANT TypeOK
INVARIANT AnswersAreTrue
INVARIANT OpsReplyWasSo
INVARIANT NobodyIsLockedOut
PROPERTY SignatureEndsOneFreeze
