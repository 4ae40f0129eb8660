SPECIFICATION Spec
CONSTANTS
  Cap = 4
  Wrap = 8
  Byte = {1, 2}
  Blocks <- MCBlocks
  MaxBytes = 3
  MaxDrops = 1
INVARIANTS TypeOK SidesKeepApart OfferStands
PROPERTY ImplementsByteQueue
