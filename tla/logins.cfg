SPECIFICATION Spec
CONSTANTS
  Symbols <- MCSymbols
  Lower <- MCLower
  Ascii <- MCAscii
  Places <- MCPlaces
  Names <- MCNames
  Texts <- MCTexts
  Spellings <- MCSpellings
  Users <- MCUsers
  SecretKey <- MCSecretKey
  Heads <- MCHeads
  Digits <- MCDigits
  BlockSize = 8
  WordBytes = 1
  PostLen = 40
  MaxFields = 3
  MaxHeaders = 2
  None = None
INVARIANTS VarsReadBack LoginIsRight FitsBlock
