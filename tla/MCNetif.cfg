CONSTANTS
  RingSize = 4
  RxBurst = 2
  TxBurst = 2
  PoolSize = 6
  MaxFrames = 6
SPECIFICATION NetifSpec
INVARIANTS
  NetifTypeOK
  Conserved
  InOrder
PROPERTY Drains
