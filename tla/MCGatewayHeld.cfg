CONSTANTS
  u1 = u1
  c1 = c1
  i1 = i1
  NoIp = NoIp
  nullptr = nullptr
  FlowKey = {k1, k2}
  Endpoint = {u1}
  Unset = {}
  Ptr = {s1, s2}
  Ip = {c1, i1, NoIp, gw, vip}
  StaticIp = {}
  Multicast = {}
  GatewayIp = gw
  VipIp = vip
  Source = {c1, i1}
  Mbuf = {m1, m2, m3}
  KeyIp <- MCKeyIp
  EndpointIp <- MCEndpointIp
  Hash <- MCHash
  Config <- MCConfig
  CounterSpan = 4
  SnatBegin = 5
  SnatEndArg = 7
  IdleTimeout = 2
  EntryTimeout = 1
  MaxAge = 3
  Burst = 2
  PendingMax = 2
  PendingTimeout = 1
  ProbeInterval = 1
  ExpireInterval = 1
  ArpExpireInterval = 2
  PollInterval = 1
  MaxStep = 2
SPECIFICATION GatewaySpec
SYMMETRY Symmetry
INVARIANT HeldOnlyUnresolved
