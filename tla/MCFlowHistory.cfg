CONSTANTS
  k1 = k1
  k2 = k2
  k3 = k3
  u1 = u1
  u2 = u2
  u0 = u0
  s1 = s1
  s2 = s2
  nullptr = nullptr
  FlowKey <- MCFlowKey
  Endpoint <- MCEndpoint
  Unset <- MCUnset
  Ptr <- MCPtr
  Hash <- MCHash
  Config <- MCConfig
  CounterSpan = 4
  SnatBegin = 5
  SnatEndArg = 7
  IdleTimeout = 2
SPECIFICATION Spec
SYMMETRY Symmetry
INVARIANTS
  TypeOK
  SentBacked
  ReplyToOwner
  StickyFlow
  ListExact
  MapsAgree
  PortsExclusive
  FailsOnlyExhausted
PROPERTY ImplementsNat
