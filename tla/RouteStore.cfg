\* Two hosts over four requests and a range of three ports.
SPECIFICATION StoreSpec
CONSTANTS
  a = a
  b = b
  m1 = m1
  m2 = m2
  Host = {a, b}
  Machine = {m1, m2}
  MachinePort <- MCMachinePort
  PortMin = 30000
  PortMax = 30002
  Hash <- MCHash
  Requests <- MCRequests
  NoRoute = NoRoute
  Torn = Torn
INVARIANTS
  StoreTypeOK
  FileParses
  TripleSharesPort
PROPERTY
  ReUpsertKeepsPort
