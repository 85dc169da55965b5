CONSTANTS
  NCORES = 2
  ALIGN = 2
  WORD = 32
  HEADER = 3
  memheap = 2
  maxaddr = 19
  Request = {0, 1, 4}
SPECIFICATION Spec
INVARIANTS HeapDivided
PROPERTIES ImplementsHeap
