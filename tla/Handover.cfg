SPECIFICATION Spec
CONSTANTS
  p1 = p1
  p2 = p2
  g1 = g1
  g2 = g2
  a = a
  b = b
  c = c
  Partitions = {p1, p2}
  Groups = {g1, g2}
  Subjects = {a, b, c}
  GroupMap <- MCGroupMap
  GroupOf <- MCGroupOf
  Initial <- MCInitial
  SourceEvents <- MCSourceEvents
  TrapEvents <- MCTrapEvents
  RemoteEvents = {}
  IrqSubjects = {b}
  NoGroup = NoGroup
  NoSubject = NoSubject
  MaxTime = 1
INVARIANT SchedulerInv
