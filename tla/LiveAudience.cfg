SPECIFICATION AudienceFairSpec
CONSTANTS
  Viewers = {alice, anon}
  SignedIn = {alice}
  Tasks = {t1, t2, sweeper}
  Sweeper = sweeper
  MaxEvents = 3
INVARIANT EndedCountsNobody
PROPERTIES LoggedOutLearn AudienceDrains
CHECK_DEADLOCK FALSE
