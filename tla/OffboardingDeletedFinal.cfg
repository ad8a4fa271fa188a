CONSTANTS
  p1 = p1
  p2 = p2
  Users = {u1, u2}
  Asked = {u1}
  Agents = {a1}
  Requests = {p1, p2}
  Signalled = {u1}
  Grace = 0
  MaxClock = 2
  MaxAsked = 3
  MaxFaults = 1
SPECIFICATION Spec
SYMMETRY Symmetric
PROPERTY DeletedIsFinal
CHECK_DEADLOCK FALSE
