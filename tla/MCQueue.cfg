CONSTANTS
  NPROC = 2
  NQUEUE = 2
  c1 = c1
  c2 = c2
  c3 = c3
  Core = {c1, c2, c3}
  Home <- MCHome
  None = None
SPECIFICATION FairSpec
INVARIANTS DoublyLinked NonemptyIsReliable RemoveFindsQueue
PROPERTIES ImplementsFifo CallsProgress
