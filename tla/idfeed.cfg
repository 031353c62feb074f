SPECIFICATION Spec
CONSTANTS
  u1 = u1
  u2 = u2
  u3 = u3
  Skip = Skip
  Bad = Bad
  Refused = {u3}
  SignIns <- MCSignIns
  Lines <- MCLines
  Syncs = 2
  PageSize = 1
  QueueMax = 1
  Count = 2
  MaxLen = 2
  MaxFaults = 1
  None = None
  Missing = Missing
  Malformed = Malformed
  DefaultTtl = 9
INVARIANTS NoSignInSkipped SeenIsSynced SourcesAgree
PROPERTY SignInsAreIndexed
