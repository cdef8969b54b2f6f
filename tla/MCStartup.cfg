CONSTANTS
  CommandLine <- MCCommandLine
  FlagValues <- MCFlagValues
  Span16 = 4
  PortBits = 2
  DefaultMask = 1
  PortsPerPair = 2
  MaxLcores = 2
  LinkAttempts = 4
SPECIFICATION StartSpec
INVARIANTS
  StartTypeOK
  ArgsSplit
  ConfigFaithful
  RunReady
PROPERTY StartEnds
