CONSTANTS
  nullptr = nullptr
  Received <- MCReceived
  VipIp <- MCVipIp
  VipPort = 8000
  GatewayIp <- MCGatewayIp
  GatewayMac = "gw"
  Mac <- MCMac
  Upstream <- MCUpstream
  SnatPort = {40000}
  MacOf <- MCMacOf
  ZeroMac = "zero"
  Option <- MCOption
SPECIFICATION FrameSpec
CHECK_DEADLOCK FALSE
INVARIANTS
  FrameTypeOK
  VerifyExact
  ReceiverAccepts
  RoundTrip
  HeadersInside
  TxAddressed
  ArpAnswered
