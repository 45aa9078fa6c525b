SPECIFICATION Spec
CONSTANTS
  Thread = {t1}
  Config = {c1, c2}
  Sig = {s1}
  Own = {}
  Ensure = {}
  Inner = {s1}
  Cached = FALSE
  MarkMayFail = FALSE
  Main = Main
  NoConfig = NoConfig
  NoKey = NoKey
  MaxRecompiles = 0
  MaxOverlaps = 2
INVARIANT SafeReuse
