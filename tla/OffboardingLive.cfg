\* The retention sweep ends every purge.
CONSTANTS
  p1 = p1
  p2 = p2
  Users = {u1}
  Asked = {u1}
  Agents = {}
  Requests = {p1, p2}
  Signalled = {}
  Grace = 0
  MaxClock = 2
  MaxAsked = 3
  MaxFaults = 1
SPECIFICATION FairSpec
PROPERTY PurgeEnds
CHECK_DEADLOCK FALSE
