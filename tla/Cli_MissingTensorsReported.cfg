CONSTANTS
  Profile <- Registry
  UInt32 = 128
  UInt64 = 1024
  Word = {"--check", "--inspect", "-n", "4", "m.gguf", "m.yml"}
  GgufPath <- MCGgufPath
  Dashed <- MCDashed
  Number <- MCNumber
  File <- ManyFiles
  MaxWords = 2
SPECIFICATION Spec
CHECK_DEADLOCK FALSE
INVARIANTS
  MissingTensorsReported
