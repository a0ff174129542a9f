SPECIFICATION Spec
CONSTANTS
  Size = 3
  Window = 2
  Budget = 2
  Capacity = 2
  MaxLosses = 2
INVARIANTS
  LossesAreHarmless
PROPERTIES
  TransferImplementsDelivery
  AcceptedTransfersFinish
  EndReachesTheSource
