CONSTANTS
  c0 = c0
  c1 = c1
  c2 = c2
  c3 = c3
  Core <- MCCore
  Parties = 4
  Modulus = 8
SPECIFICATION FairSpec
INVARIANTS TypeOK NobodyLeavesEarly CounterCountsMissing
PROPERTIES EveryoneLeaves ImplementsRendezvous
CHECK_DEADLOCK FALSE
