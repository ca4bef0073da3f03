CONSTANTS
  Ifaces <- IfacesDef
  NbrTimeout = 4
  DbTimeout = 2
  Victims = {2}
  Window = 4
  Faults = {"loss", "wrap", "restart"}
  None = None
  Null = Null
  Garbage = Garbage
SPECIFICATION Spec
INVARIANTS TypeOK HopBound StableLives RoutesDeliver
PROPERTY Converges
CHECK_DEADLOCK FALSE
