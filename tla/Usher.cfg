\* Two terminals with hostnames and sandboxes of their own; commands may fail.
SPECIFICATION Spec
CONSTANTS
  a = a
  b = b
  d = d
  m1 = m1
  m2 = m2
  m3 = m3
  c1 = c1
  c2 = c2
  Host = {a, b, d}
  Machine = {m1, m2, m3}
  MachinePort <- MCMachinePort
  PortMin = 30000
  PortMax = 30002
  Hash <- MCHash
  Requests <- AllPorts
  NoRoute = NoRoute
  Client = {c1, c2}
  Work <- WorkApart
  MaxLate = 1
  Faults = {"sbx"}
  Free = Free
  Other = Other
INVARIANTS
  UsherTypeOK
  Reachable
  PortsApart
PROPERTIES
  DetachKeepsOthers
  DestroyLeavesNothing
  CallsSpec
