\* Two calls at a time over two hosts, with failures and crashes.
SPECIFICATION Spec
CONSTANTS
  a = a
  b = b
  m1 = m1
  h1 = h1
  h2 = h2
  Host = {a, b}
  Machine = {m1}
  MachinePort <- MCMachinePort
  PortMin = 30000
  PortMax = 30001
  Hash <- MCHash
  Requests <- MCRequests
  NoRoute = NoRoute
  Torn = Torn
  Handler = {h1, h2}
  NoHandler = NoHandler
  Open = Open
SYMMETRY MCSymmetry
INVARIANTS
  DaemonTypeOK
  AckedDurable
  AckedServed
PROPERTY
  LedgerSpec
