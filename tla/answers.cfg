SPECIFICATION Spec
CONSTANTS
  Symbols <- MCSymbols
  Numerals <- MCNumerals
  MaxDepth = 5
  MaxCount = 3
  Digits <- MCDigits
  Coords <- MCCoords
  Formats <- MCFormats
  Games <- MCGames
  Partidas <- MCPartidas
  GameTypes <- MCGameTypes
  BinLine = 6
  None = None
  TargetSize = 4
  Ids = {1, 2, 3}
  Records <- MCGames
  Walkers = {"u1", "root"}
  Administrators = {"root"}
  NoUser = None
  NoRecord = None
INVARIANTS AnswerFits JsonReadsBack YamlReadsBack WalkIsComplete
