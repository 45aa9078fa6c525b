SPECIFICATION Spec
CONSTANTS
  Process = {p1, p2}
  Key = {k1, k2}
  Stamp = {s1, s2}
  NoData = NoData
SYMMETRY Symmetry
INVARIANTS TypeOK IndexIsOneToOne CleanLoads CleanIndexLeadsToCode
