CONSTANTS
  h1 = h1
  h2 = h2
  i1 = i1
  i2 = i2
  Handle <- MCHandle
  Impl <- MCImpl
  Null = Null
  FileSizes = {0, 14}
  HeaderLen = 2
  Versions = {3}
  Counts = {1, 2}
  MetadataEntry <- MCMetadata
  TensorEntry <- MCTensor
  Page = 4
  Word = 128
  Word32 = 64
SYMMETRY Symmetric
SPECIFICATION Spec
INVARIANTS
  AdvisesPages
