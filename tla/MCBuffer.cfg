CONSTANTS
  Byte = {zero, nl}
  NewLine = nl
  Zero = zero
  DefaultSize = 3
  MaxWrite = 3
  MaxReadable = 5
SPECIFICATION Spec
INVARIANTS TypeOK SpaceBounded
PROPERTY BufferIsQueue
