CONSTANTS
  NCORES = 2
  NPROC = 4
  UserPrio = {2}
  QUANTUM = 2
SPECIFICATION FairSpec
INVARIANTS ReadyListsExact ProctabExact
PROPERTIES NoStarvation
