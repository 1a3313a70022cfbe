CONSTANTS
  a = a
  b = b
  A = A
  lig = lig
  sp = sp
  x = x
  y = y
  z = z
  Codepoints <- MCCodepoints
  Letters <- MCLetters
  Width <- MCWidth
  Folding <- MCFolding
  WordCodepoints <- MCWords
  Langs <- MCLangs
  Alphabet <- MCAlphabet
  Patterns <- MCPatterns
  DefaultMode <- MCDefaultMode
  MaxNormalized = 6
  MaxMatches = 2
  Texts <- Texts4
  LangLists <- AnyLists
SPECIFICATION Spec
INVARIANTS TypeOK SlicesAtCodepoints ResultIsPrefixOfFullList RefusedExactlyWhenTooLarge SpansHoldTheirTerm ModeUsedFollowsRequest EveryLanguageIsTimed DefaultScanFollowsListing
PROPERTIES ScanEnds
