CONSTANTS
  Byte = {zero, b}
  Zero = zero
  Size = 4
  MaxLen = 3
  MaxRead = 2
SPECIFICATION Spec
CHECK_DEADLOCK FALSE
INVARIANTS TypeOK CopiesDisjoint
PROPERTY ImplementsQueue
