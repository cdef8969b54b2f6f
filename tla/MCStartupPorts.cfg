CONSTANTS
  CommandLine <- MCProgramOnly
  FlagValues <- MCDefaultFlags
  Span16 = 4
  PortBits = 2
  DefaultMask = 1
  PortsPerPair = 2
  MaxLcores = 4
  LinkAttempts = 4
SPECIFICATION StartSpec
INVARIANT PortsServed
