SPECIFICATION Spec
CONSTANTS
  w1 = w1
  w2 = w2
  m1 = m1
  m2 = m2
  Workers = {w1, w2}
  Users = {u1, u2}
  Admins = {}
  SessIds = {s1, s2}
  GameIds = {g1}
  ClientIds = {g1}
  Moves = {m1}
  MaxMoves = 1
  Bodies <- AllBodies
  Ops <- FailOps
  Timeout = 1
  MaxClock = 1
  ReadMayFail = TRUE
  WriteMayFail = TRUE
  PartidaMayFail = TRUE
  NoSess = NoSess
  NoGame = NoGame
  Nobody = Nobody
  Valid = Valid
  NoArg = NoArg
  Unknown = Unknown
  EmptyBody = EmptyBody
  Garbage = Garbage
  Free = Free
PROPERTY SessionsKeepTheirUser
CHECK_DEADLOCK FALSE
