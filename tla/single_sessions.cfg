SPECIFICATION FairSpec
CONSTANTS
  w1 = w1
  w2 = w2
  m1 = m1
  m2 = m2
  Workers = {w1}
  Users = {u1, u2}
  Admins = {}
  SessIds = {s1, s2}
  GameIds = {g1, g2}
  ClientIds = {g1}
  Moves = {m1, m2}
  MaxMoves = 2
  Bodies <- OneBody
  Ops <- SessionOps
  Timeout = 1
  MaxClock = 4
  ReadMayFail = FALSE
  WriteMayFail = TRUE
  PartidaMayFail = FALSE
  NoSess = NoSess
  NoGame = NoGame
  Nobody = Nobody
  Valid = Valid
  NoArg = NoArg
  Unknown = Unknown
  EmptyBody = EmptyBody
  Garbage = Garbage
  Free = Free
PROPERTY ImplementsRegistry
PROPERTY GoneForGood
