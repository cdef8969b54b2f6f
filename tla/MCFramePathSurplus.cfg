CONSTANTS
  nullptr = nullptr
  Received <- MCSurplus
  VipIp <- MCVipIp
  VipPort = 8000
  GatewayIp <- MCGatewayIp
  GatewayMac = "gw"
  Mac <- MCMac
  Upstream <- MCUpstream
  SnatPort = {40000}
  MacOf <- MCMacOf
  ZeroMac = "zero"
  Option <- MCRecompute
SPECIFICATION FrameSpec
CHECK_DEADLOCK FALSE
INVARIANT UdpLengthChecksummed
