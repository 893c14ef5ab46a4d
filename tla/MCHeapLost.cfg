SPECIFICATION Spec
CONSTANTS
  Start = 1
  End = 15
  Header = 2
  Rest = 1
  Sizes <- RealSizes
INVARIANTS PutBack
CHECK_DEADLOCK FALSE
