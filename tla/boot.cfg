CONSTANTS
  NWords = 6
  SectorStarts = {0, 5}
  Otp = {}
  MaxLen = 4
  Bits = {1, 2, 3}
  Leftovers <- MCLeftovers
  Requests <- MCRequests
  POWERUP_VAR_ADDR = 0
  VarNum = 3
  MAX_VAR_NUM_FUTURE = 4
  DEFAULT_POWERUP_VAL <- MCDefaults
  Number <- MCNumber
  BOOT_PARAM_BL <- MCBL
  BOOT_PARAM_APP <- MCAPP
  BOOT_PARAM_LOADING <- MCLOADING
  FLASH_APP1_ADDR = 5
  StackTops <- MCStackTops
  AppAsks <- MCAppAsks
  InitialMems <- MCInitialMems
  MaxFaults = 2
SPECIFICATION FairBootSpec
INVARIANT BootIInv
INVARIANT ValuesAreMeant
INVARIANT TornIsSeen
PROPERTY BoardComesBack
