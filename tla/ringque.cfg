CONSTANTS
  Data = {0, 1, 2}
  Zero = 0
  N = 4
  Bufs <- MCBufs
  Sizes <- MCSizes
  Users <- MCUsers
SPECIFICATION Spec
INVARIANT IInv
PROPERTY ImplementsFifo
