CONSTANTS
  Workloads <- AllLoads
  MaxSeg = 2
SPECIFICATION Spec
CHECK_DEADLOCK FALSE
INVARIANTS TypeOK StreamIntact WindowSuffices EchoFaithful
PROPERTY AllEchoed
