SPECIFICATION Spec
CONSTANTS
  Ip = {"a"}
  Name = {"m", "n"}
  SaasRow <- MCSaasRow
  Seeded <- MCSeeded
  Flow <- MCFlow
  PortDefault <- MCPortDefault
  NoHit = NoHit
  Absent = Absent
  QueueMax = 2
  MaxChanges = 1
  MaxFaults = 1
INVARIANTS StoresAgree RateIsLimited
PROPERTIES LabelFollowsName UnseenIsResolved
