SPECIFICATION Spec
CONSTANTS
  w1 = w1
  w2 = w2
  m1 = m1
  m2 = m2
  Workers = {w1, w2}
  Users = {u1}
  Admins = {}
  SessIds = {s1}
  GameIds = {g1}
  ClientIds = {}
  Moves = {m1, m2}
  MaxMoves = 2
  Bodies <- OneBody
  Ops <- PlayOps
  Timeout = 1
  MaxClock = 1
  ReadMayFail = FALSE
  WriteMayFail = FALSE
  PartidaMayFail = FALSE
  NoSess = NoSess
  NoGame = NoGame
  Nobody = Nobody
  Valid = Valid
  NoArg = NoArg
  Unknown = Unknown
  EmptyBody = EmptyBody
  Garbage = Garbage
  Free = Free
PROPERTY HistoryOnlyGrows
CHECK_DEADLOCK FALSE
