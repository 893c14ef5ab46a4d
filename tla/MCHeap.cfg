SPECIFICATION FairSpec
CONSTANTS
  Start = 1
  End = 15
  Header = 2
  Rest = 1
  Sizes <- SmallSizes
INVARIANTS HeapTypeOK Tiled ListInOrder Coalesced
PROPERTIES ImplementsHeap CallsEnd
CHECK_DEADLOCK FALSE
