SPECIFICATION Spec
CONSTANTS
  main = main
  worker = worker
  f1 = f1
  Thread <- MCThread
  Main = main
  Count = 2
  Foreign = {f1}
  DeviceOf <- MCDeviceOf
  MaxStack = 1
  MaxBlocks <- MCMaxBlocks
  NoContext = NoContext
INVARIANTS ScopesNest AttachedIsCurrent OneContextPerDevice ProxiesAlive LockHeldInCall
