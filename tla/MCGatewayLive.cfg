CONSTANTS
  u1 = u1
  c1 = c1
  i1 = i1
  NoIp = NoIp
  nullptr = nullptr
  FlowKey = {k1}
  Endpoint = {u1}
  Unset = {}
  Ptr = {s1}
  Ip = {c1, i1, NoIp, gw, vip}
  StaticIp = {}
  Multicast = {c1}
  GatewayIp = gw
  VipIp = vip
  Source = {c1, i1}
  Mbuf = {m1, m2}
  KeyIp <- MCKeyIp
  EndpointIp <- MCEndpointIp
  Hash <- MCHash
  Config <- MCConfig
  CounterSpan = 4
  SnatBegin = 5
  SnatEndArg = 6
  IdleTimeout = 3
  EntryTimeout = 1
  MaxAge = 4
  Burst = 2
  PendingMax = 2
  PendingTimeout = 2
  ProbeInterval = 1
  ExpireInterval = 1
  ArpExpireInterval = 3
  PollInterval = 1
  MaxStep = 2
SPECIFICATION FairGatewaySpec
INVARIANT TxOwned
PROPERTY Released
