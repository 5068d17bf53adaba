SPECIFICATION Spec
CONSTANTS
  Zero = zero
  Untouched = untouched
  None = none
  Inputs = {x1}
  Calls <- MCCalls
  Norm <- TermNorm
  Linear <- TermLinear
  Rope <- TermRope
  Attend <- TermAttend
  Add <- TermAdd
  SwiGlu <- TermSwiGlu
  AddScaled <- TermAddScaled
  Logit <- TermLogit
  Share <- TermShare
INVARIANTS
  TypeOK
  SpansValid
PROPERTY
  ImplementsBlock
