---------------------------- MODULE MCRouteStore ----------------------------
(***************************************************************************)
(* Small instances of RouteStore for TLC: two hostnames, a sandbox with two*)
(* ports, a container of the same name, and a VM.                          *)
(***************************************************************************)
EXTENDS RouteStore, TLC

CONSTANTS a, b, m1, m2

Sbx(m, p) ==
  [adapter |-> "sbx", machine |-> m, machinePort |-> p,
   upstream |-> NoUpstream, hostPort |-> 0]
Docker(m, p, hp) ==
  [adapter |-> "docker", machine |-> m, machinePort |-> p,
   upstream |-> NoUpstream, hostPort |-> hp]
Orb(m, p) ==
  [adapter |-> "orb", machine |-> m, machinePort |-> p,
   upstream |-> <<m, p>>, hostPort |-> 0]

MCMachinePort == {3000, 3001}

\* b probes from the first port, a from the next one.
MCHash == [h \in Host |-> IF h = a THEN 4 ELSE 0]

\* The container publishes a port of the range by itself.
MCRequests ==
  {Sbx(m1, 3000), Sbx(m1, 3001), Docker(m1, 3000, 30001), Orb(m2, 3000)}
=============================================================================
