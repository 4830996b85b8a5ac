CONSTANTS
  NSock = 1
  Pcbs = {q0}
  Pbufs = {b0, b1}
  Ports = {iap}
  Peers = {host}
  Null = Null
  Calls <- ReceiverCalls
SPECIFICATION Spec
SYMMETRY Symmetric
INVARIANT OnlyReadFramesDropped
