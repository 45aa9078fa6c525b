SPECIFICATION Spec
CONSTANTS
  t1 = t1
  t2 = t2
  t3 = t3
  Tid <- Threads
  Launches <- MCLaunches
  NoArray = NoArray
INVARIANTS BarrierHolds CountsAreVotes CleanReturn
PROPERTIES LikeAtomicsAreAtomic Terminates
CHECK_DEADLOCK FALSE
