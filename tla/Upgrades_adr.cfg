\* Every pair of versions, judged by what the decision record says.
CONSTANTS
  Names <- MCNames
  Sizes <- MCSizes
  States <- MCStates
  Actions <- MCActions
  None = None
SPECIFICATION PairSpec
INVARIANTS
  BreakingNeedsMajor
CHECK_DEADLOCK FALSE
