CONSTANTS
  Token <- MCToken
  Window <- MCWindow
  Predict <- MCPredict
  Prompts <- MCPrompts
  Targets = {0, 1, 3}
  DraftMaxes = {0, 1, 2}
  MaxReply = 3
  MaxContext = 4
SPECIFICATION Spec
INVARIANTS
  TypeOK
  OutputIsGreedy
  Accounted
  EveryRoundAdvances
  DraftsBounded
  ToldEverything
PROPERTIES
  CallReturns
  ImplementsGreedy
