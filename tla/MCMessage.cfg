CONSTANTS
  c1 = c1
  c2 = c2
  p1 = p1
  p2 = p2
  p3 = p3
  p4 = p4
  Core = {c1, c2}
  Proc = {p1, p3, p4}
  CoreOf <- MCCoreOf
  Masked = {p1, p3}
  Free = {p4}
  OpSets = {{"send", "sendnow", "recv"}, {"sendnow", "recv", "recvnow"}}
  MaxSent = 2
  None = None
SPECIFICATION FairSpec
INVARIANTS WakeupsExact
PROPERTIES ImplementsMailbox ReceiverStarted
