CONSTANTS
  NWords = 7
  SectorStarts = {0, 3, 6}
  Otp <- MCOtp
  MaxLen = 2
  Bits = {1, 2}
  Leftovers <- MCLeftovers
  Requests <- AnyPages
SPECIFICATION Spec
INVARIANT NeverCrossesSector
