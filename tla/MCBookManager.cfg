SPECIFICATION Spec
CONSTANTS
  Locate = {s1, s2}
  Ref = {r1, r2, r3}
  Price = {1, 2}
  MaxShares = 3
  MaxFeed = 3
  VolumeMax = 5
SYMMETRY Symmetry
INVARIANTS QueuesAreOrders BooksAgree BarsAreTape
PROPERTY PriorityKept
