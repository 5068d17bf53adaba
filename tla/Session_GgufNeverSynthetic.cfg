CONSTANTS
  Token <- MCToken
  Prompts <- MCPrompts
  Pick <- MCPick
  MaxTokens = {0, 2}
  ContextLengths = {0, 4}
  KvFloor = 3
  MaxDepth = 1
SPECIFICATION Spec
INVARIANTS
  GgufNeverSynthetic
