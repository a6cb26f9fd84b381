\* What a successful answer to a removal is worth.
SPECIFICATION Spec
CONSTANTS
  a = a
  b = b
  m1 = m1
  h1 = h1
  h2 = h2
  Host = {a}
  Machine = {m1}
  MachinePort <- MCMachinePort
  PortMin = 30000
  PortMax = 30001
  Hash <- MCHash
  Requests <- OneRequest
  NoRoute = NoRoute
  Torn = Torn
  Handler = {h1, h2}
  NoHandler = NoHandler
  Open = Open
PROPERTY
  RemovedStaysRemoved
