CONSTANTS
  NSock = 3
  Pcbs = {q0, q1, q2}
  Pbufs = {b0, b1}
  Ports = {iap, console}
  Peers = {host}
  Null = Null
  Calls <- AllCalls
SPECIFICATION Spec
SYMMETRY Symmetric
INVARIANT IInv
INVARIANT OwnPcb
INVARIANT FrameFindsItsSocket
INVARIANT PcbForEverySlot
INVARIANT LoadedFrameIsHeld
INVARIANT WaitingFrameIsHeld
PROPERTY ImplementsMailboxes
