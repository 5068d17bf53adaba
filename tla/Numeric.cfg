SPECIFICATION Spec
CONSTANTS
  Grid = 12
  Weight <- MCWeight
  Cols <- MCCols
  Rows = {0, 1, 2, 3}
  Plans <- MCPlans
  Dims = {0, 1, 2, 4}
  Slack <- MCSlack
  Halves <- MCHalves
  ValueLists <- MCValueLists
  LogitLists <- MCLogitLists
  TopKs = {0, 1, 2, 3, 5}
  TopPs = {0, 4, 6, 9, 12}
  Temperatures = {0, 1, 2}
INVARIANTS
  ReadsInside
  ProductsExact
  NumbersExact
  SampledFromNucleus
