CONSTANTS
  AllOnes = 7
  AddrLen = 2
  Unit = 2
  Cap = 9
  XorByte <- MCXor
  Write = 2
  Read = 4
  Go = 0
  Plain = {1, 3}
  Answering = {1}
  Datagrams <- MCDatagrams
  MaxDatagrams = 0
  HostAddr <- MCHostAddr
  HostData <- MCHostData
  MaxFaults = 3
  MaxDisorder = 2
SPECIFICATION SessionSpec
INVARIANT DoneMeansWritten
INVARIANT OnlyTheBlockIsWritten
INVARIANT WritesAsFramed
PROPERTY HostIsServed
