CONSTANTS
  a = a
  b = b
  A = A
  lig = lig
  sp = sp
  x = x
  y = y
  z = z
  Codepoints <- MCCodepoints
  Letters <- CapitalLetters
  Width <- MCWidth
  Folding <- MCFolding
  WordCodepoints <- MCWords
  Langs <- MCLangs
  Alphabet <- MCAlphabet
  Patterns <- CapitalPatterns
  DefaultMode <- MCDefaultMode
  MaxNormalized = 6
  MaxMatches = 4
  Texts <- Texts3
  LangLists <- DistinctLists
SPECIFICATION SafetySpec
INVARIANTS ListedTermsAreFound
