\* The daemon stores a route and then fails to apply it.
SPECIFICATION Spec
CONSTANTS
  a = a
  b = b
  d = d
  m1 = m1
  m2 = m2
  m3 = m3
  c1 = c1
  c2 = c2
  Host = {a, b}
  Machine = {m1, m2}
  MachinePort <- MCMachinePort
  PortMin = 30000
  PortMax = 30002
  Hash <- MCHash
  Requests <- OneSandbox
  NoRoute = NoRoute
  Client = {c1}
  Work <- AnyWork
  MaxLate = 1
  Faults = {"apply"}
  Free = Free
  Other = Other
INVARIANT
  Reachable
