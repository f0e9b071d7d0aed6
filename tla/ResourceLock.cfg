SPECIFICATION FairSpec
CONSTANTS
  c1 = c1
  c2 = c2
  c3 = c3
  p1 = p1
  p2 = p2
  p3 = p3
  Caller = {c1, c2, c3}
  Process = {p1, p2, p3}
  processOf <- OwnProcess
  Absent = Absent
  Empty = Empty
INVARIANTS TypeOK ExclusiveUnlessMisled Debris
PROPERTIES AtomicUpdates DeadOwnerGivesWay
CHECK_DEADLOCK FALSE
