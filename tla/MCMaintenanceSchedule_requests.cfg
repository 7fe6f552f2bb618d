\* Two requests at a time on two entries of two pumps and one work order.
SPECIFICATION Spec
CONSTANTS
  p1 = p1
  p2 = p2
  s1 = s1
  s2 = s2
  Sessions = {s1, s2}
  Entries = {1, 2}
  Orders = {1}
  Pumps = {p1, p2}
  HandPumps = {p2}
  OrderPump <- MCOrderPump
  Days = {10, 20}
  Patches <- MCPatches
  None = None
SYMMETRY Symmetry
INVARIANTS
  PlannedOncePerOrder
  RankingsNeverDeadlock
PROPERTIES
  RankingFollowsRul
