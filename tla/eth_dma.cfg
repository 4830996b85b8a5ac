CONSTANTS
  NRx = 2
  NTx = 2
  Mod = 3
  Pieces = 2
  Ids = {1, 2}
SPECIFICATION FairSpec
INVARIANT IInv
INVARIANT DeliveredInOrder
PROPERTY DescriptorsComeBack
PROPERTY FramesLeaveAsGiven
INVARIANT InStep
