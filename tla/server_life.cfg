SPECIFICATION Spec
CONSTANTS
  root = root ana = ana chess = chess go = go bad = bad g1 = g1 g2 = g2
  Codes <- MCCodes
  Root = root
  Names <- MCNames
  GameIds <- MCGameIds
  MaxUsers = 1
  MaxTypes = 2
  Absent = Absent
  None = None
  Main = Main
  Workers <- MCWorkers
  Broken <- MCBroken
  Chunk = 1
  Junk = Junk
  MaxWidth = 2
  Careful = TRUE
INVARIANTS TypeOK GameKeepsRules ListIsTheTable Roomy
PROPERTIES TypeIdsAreForGood ListIsStable
CHECK_DEADLOCK FALSE
SYMMETRY MCSymmetry
