CONSTANTS
  f = f
  g = g
  h = h
  x = x
  y = y
  z = z
  Flows = {f, g, h}
  Ports <- PortsDef
  Buckets = {x, y, z}
  FlowHash <- FlowHashDef
  PortHash <- PortHashDef
  Timeout = 1
  Garbage <- GarbageDef
  MaxCopies = 4
  NoPort = NoPort
SPECIFICATION Spec
INVARIANTS TypeOK PortsCovered ExactDelivery PortKept
PROPERTY PortsReclaimed
CHECK_DEADLOCK FALSE
