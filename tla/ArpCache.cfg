CONSTANTS
  a = a
  b = b
  d = d
  me = me
  p1 = p1
  p2 = p2
  Alive = {a, b}
  Dead = {d}
  Self = me
  Slots = {1, 2}
  Packets = {p1, p2}
  Traffic <- TrafficDef
  Nowhere = Nowhere
  EntryTimeout = 1
  MaxRetries = 2
  NoAddr = NoAddr
SPECIFICATION Spec
INVARIANTS TypeOK TableSound EachPacketOnce
PROPERTIES NoFalseUnreachable 
