\* Whether two machine ports can hold one host port.
SPECIFICATION StoreSpec
CONSTANTS
  a = a
  b = b
  m1 = m1
  m2 = m2
  Host = {a, b}
  Machine = {m1, m2}
  MachinePort <- MCMachinePort
  PortMin = 30000
  PortMax = 30002
  Hash <- MCHash
  Requests <- MCRequests
  NoRoute = NoRoute
  Torn = Torn
INVARIANT
  PortsExclusive
