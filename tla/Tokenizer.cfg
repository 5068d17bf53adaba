CONSTANTS
  Byte <- MCByte
  Visible <- MCVisible
  Spelling <- MCSpelling
  Vocabs <- MCVocabs
  DefaultVocab <- MCDefaultVocab
  MergeLists <- MCMergeLists
  Texts <- MCTexts
  MaxText = 4
SPECIFICATION Spec
INVARIANTS
  TypeOK
  TrieIsLongestMatch
  MergesAreExact
  RoundTrip
PROPERTIES
  EncodeReturns
