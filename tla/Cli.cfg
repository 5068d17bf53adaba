CONSTANTS
  Profile <- Registry
  UInt32 = 128
  UInt64 = 1024
  Word = {"-m", "--spec-type", "--draft-model", "--accel", "--spec-strict", "--check", "--inspect", "--help", "--seed", "m.gguf", "m.yml", "mtp", "off", "turbo"}
  GgufPath <- MCGgufPath
  Dashed <- MCDashed
  Number <- MCNumber
  File <- ManyFiles
  MaxWords = 4
SPECIFICATION Spec
CONSTRAINT ManyFilesBound
CHECK_DEADLOCK FALSE
INVARIANTS
  TypeOK
  ModeDeclared
  StatusTrue
  NoMock
  IssuesGrow
