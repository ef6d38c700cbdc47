SPECIFICATION Spec
CONSTANTS
  W = 3
  H = 4
  Sizes <- SizesAll
INVARIANTS TypeOK CompareHolds ChainExact MulDivExact
CHECK_DEADLOCK FALSE
