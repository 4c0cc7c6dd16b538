SPECIFICATION Spec
CONSTANTS
  Ids <- MCIds
  Atoi <- MCAtoi
  ZeroLed <- MCZeroLed
  Bad = Bad
  Texts <- MCTexts
  Constraints <- MCConstraints
  MaxCandidates = 3
INVARIANTS
  ComparesLikeAnOrder
  ChoosesHighest
  EliminationsExplain
  TermsAreRanges
