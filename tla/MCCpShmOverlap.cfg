CONSTANTS
  e1 = e1
  e2 = e2
  e3 = e3
  nullptr = nullptr
  vgw = vgw
  FlowKey = {}
  Endpoint = {e1, e2, e3}
  Hash <- MCHash
  CounterSpan = 1
  Publisher = {p1, p2}
  Config <- MCConfig
  Seed <- MCSeed
  MaxEp = 2
  VersionSpan = 4
  Overlap = TRUE
  Killed = FALSE
  MaxPublish = 2
  MaxRestart = 0
SPECIFICATION CpSpec
PROPERTY TornCorrected
