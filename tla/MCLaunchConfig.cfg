SPECIFICATION Spec
CONSTANTS
  Thread = {t1, t2}
  Config = {c1, c2}
  Sig = {s1, s2}
  Own = {s1}
  Ensure = {s1}
  Inner = {}
  Cached = TRUE
  MarkMayFail = TRUE
  Main = Main
  NoConfig = NoConfig
  NoKey = NoKey
  MaxRecompiles = 1
  MaxOverlaps = 1
SYMMETRY Symmetry
INVARIANTS SafeReuse DiskKeyed MainRecompiledAfresh
PROPERTIES CompiledOnce DiskSparesCompiling
