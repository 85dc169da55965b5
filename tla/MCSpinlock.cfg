CONSTANTS
  NLOCK = 1
  c1 = c1
  c2 = c2
  t1 = t1
  t2 = t2
  t3 = t3
  Core = {c1, c2}
  Thread = {t1, t2, t3}
  CoreOf <- MCCoreOf
  Creators = {t1}
  None = None
SPECIFICATION FairSpec
INVARIANTS MutualExclusion CoreFieldExact
PROPERTIES ImplementsLock UnlockedIsTaken
