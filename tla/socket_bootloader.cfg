CONSTANTS
  NSock = 2
  Pcbs = {q0, q1}
  Pbufs = {b0, b1}
  Ports = {iap, console}
  Peers = {host, other}
  Null = Null
  Calls <- BootloaderCalls
SPECIFICATION FairSpec
INVARIANT DeliveredToItsPort
INVARIANT SentWhereAsked
PROPERTY FrameLeavesItsSlot
PROPERTY ImplementsMailboxes
