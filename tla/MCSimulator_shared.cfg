SPECIFICATION Spec
CONSTANTS
  t1 = t1
  t2 = t2
  t3 = t3
  Tid <- Threads
  Launches <- MCShared
  NoArray = NoArray
INVARIANT OneSharedArray
CHECK_DEADLOCK FALSE
