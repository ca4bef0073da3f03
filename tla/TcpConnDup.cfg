CONSTANTS
  Envs <- OneLiberty
  SeqSpace = 4
  ClientISS = 3
  ServerISS = 1
  TimeWaitScans = 2
SPECIFICATION Spec
CHECK_DEADLOCK FALSE
INVARIANT NoDanglingReference
