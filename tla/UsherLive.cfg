\* Every adapter and every failure, late calls included: do commands end, and are
\* they callers of the service?
SPECIFICATION FairSpec
CONSTANTS
  a = a
  b = b
  d = d
  m1 = m1
  m2 = m2
  m3 = m3
  c1 = c1
  c2 = c2
  Host = {a}
  Machine = {m1, m2}
  MachinePort <- MCMachinePort
  PortMin = 30000
  PortMax = 30002
  Hash <- MCHash
  Requests <- EveryKind
  NoRoute = NoRoute
  Client = {c1}
  Work <- AnyWork
  MaxLate = 1
  Faults = {"sbx", "unreachable", "apply", "timeout"}
  Free = Free
  Other = Other
PROPERTY
  CommandsEnd
  CallsSpec
