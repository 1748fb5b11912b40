CONSTANTS
  Plain = {p1, p2}
  Derived = {d1}
  Targets = {t1, t2}
  NoPromise = NoPromise
  MaxThens = 2
  MaxMembers = 2
SPECIFICATION FairSpec
INVARIANTS
  ToldTruly
  InOrder
  AllFaithful
PROPERTIES
  EventuallyTold
CHECK_DEADLOCK FALSE
