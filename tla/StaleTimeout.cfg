SPECIFICATION Spec
CONSTANTS
  p1 = p1
  g1 = g1
  g2 = g2
  a = a
  b = b
  Partitions = {p1}
  Groups = {g1, g2}
  Subjects = {a, b}
  GroupMap <- MCGroupMap
  GroupOf <- MCGroupOf
  Initial <- MCInitial
  SourceEvents <- SleepOnly
  TrapEvents <- NoTraps
  RemoteEvents <- InjectByIPI
  IrqSubjects = {}
  NoGroup = NoGroup
  NoSubject = NoSubject
  MaxTime = 1
PROPERTY TimedWakeup
