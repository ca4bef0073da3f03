CONSTANTS
  h1 = h1
  h2 = h2
  h3 = h3
  Stations = {h1, h2, h3}
  Others = {all}
  Ignored = ipv6
  Ports = {1, 2, 3}
  Place <- PlaceDef
  Buckets = {"x", "y"}
  Hash <- HashDef
  Timeout = 1
  MaxMoves = 1
SPECIFICATION Spec
INVARIANTS TypeOK OneEntry Delivered OwnBucketSafe
PROPERTY Forgets
CHECK_DEADLOCK FALSE
