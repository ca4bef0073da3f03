CONSTANTS
  Workloads <- ScarceOnly
  MaxSeg = 2
SPECIFICATION Spec
CHECK_DEADLOCK FALSE
INVARIANT WindowWakes
