CONSTANTS
  e1 = e1
  e2 = e2
  e3 = e3
  nullptr = nullptr
  vgw = vgw
  FlowKey = {}
  Endpoint = {e1, e2, e3}
  Hash <- MCHash
  CounterSpan = 1
  Publisher = {p1}
  Config <- MCConfig
  Seed <- MCSeed
  MaxEp = 2
  VersionSpan = 5
  Overlap = FALSE
  Killed = TRUE
  MaxPublish = 3
  MaxRestart = 2
SPECIFICATION CpSpec
INVARIANTS
  CpTypeOK
  QuiescentApplied
PROPERTY Converges
