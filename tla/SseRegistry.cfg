SPECIFICATION Spec
CONSTANTS
  Clients = {c1, c2}
  SecondClients = {}
  Visitors = {c1, c2}
  First = first
  Second = second
  Both = person
  Accounts = {first, second}
  Persons = {person}
  AccountOf <- MCAccountOf
  PersonOf <- MCPersonOf
  Jobs = {j1}
  MaxConns = 1
  RingDepth = 1
  Buffer = 2
  MaxOpens = 2
  MaxBuckets = 6
  MaxEvents = 3
  MaxLapses = 1
INVARIANTS PersonReaches SentToOpen NothingMissed NothingTwice
SYMMETRY Symmetry
CHECK_DEADLOCK FALSE
