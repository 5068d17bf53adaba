CONSTANTS
  Token <- MCToken
  Prompts <- MCPrompts
  Pick <- MCPick
  MaxTokens = {0, 2}
  ContextLengths = {0, 4}
  KvFloor = 3
  MaxDepth = 2
SPECIFICATION Spec
INVARIANTS
  TypeOK
  Reproducible
  SlotsPaid
  FallbackHonest
PROPERTIES
  CallsReturn
