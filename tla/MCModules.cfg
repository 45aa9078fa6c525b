SPECIFICATION Spec
CONSTANTS
  d1 = d1
  d2 = d2
  sm = sm
  Thread = {t1, t2}
  Device <- MCDevice
  Cc = {sm}
  CcOf <- MCCcOf
  Lib = {k1, k2}
  Memsys = Memsys
  MaxModules = 6
SYMMETRY Symmetry
INVARIANTS HomeIsSetUp TornDownThenUnloaded UnloadAssertion RtsysAlive
