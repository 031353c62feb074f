SPECIFICATION Spec
CONSTANTS
  Ip = {ip1, ip2}
  User = {alice, bob}
  NoUser = NoUser
  Unknown = Unknown
  Conf = {40, 95}
  MaxTs = 2
  MaxTtl = 2
  MaxEvents = 3
SYMMETRY Symmetry
INVARIANTS ExactInOrder NeverForeign StopEndsSession
