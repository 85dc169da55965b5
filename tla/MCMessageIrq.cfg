CONSTANTS
  c1 = c1
  c2 = c2
  p1 = p1
  p2 = p2
  p3 = p3
  p4 = p4
  Core = {c1, c2}
  Proc = {p1, p3, p4}
  CoreOf <- MCCoreOf
  Masked = {}
  Free = {p4}
  OpSets = {{"send", "recv"}}
  MaxSent = 1
  None = None
SPECIFICATION FairSpec
PROPERTY ReceiverStarted
