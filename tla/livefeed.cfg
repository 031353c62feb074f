SPECIFICATION Spec
CONSTANTS
  NoCursor = NoCursor
  Invalid = Invalid
  Tab = {t1, t2}
  User = {u1}
  Owner <- MCOwner
  Filter = {nofilter, f1}
  NoFilter = nofilter
  Conn = {1, 2}
  None = None
  Opened = Opened
  MaxDeltas = 2
  MaxFilters = 1
  MaxFaults = 1
INVARIANTS SlotsMatchSessions FeedIsFaithful 
PROPERTY FeedRecovers
