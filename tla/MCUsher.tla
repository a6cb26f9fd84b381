------------------------------ MODULE MCUsher ------------------------------
(***************************************************************************)
(* Small instances of Usher for TLC.  Of the range of three ports the      *)
(* allocator probes two.                                                   *)
(***************************************************************************)
EXTENDS Usher, TLC

CONSTANTS a, b, d, m1, m2, m3, c1, c2

MCMachinePort == {3000, 3001}
MCHash == [h \in Host |-> 0]

Sbx(m, p) ==
  [adapter |-> "sbx", machine |-> m, machinePort |-> p,
   upstream |-> NoUpstream, hostPort |-> 0]
Docker(m, hp) ==
  [adapter |-> "docker", machine |-> m, machinePort |-> 3000,
   upstream |-> NoUpstream, hostPort |-> hp]
Direct(adapter, m) ==
  [adapter |-> adapter, machine |-> m, machinePort |-> 3000,
   upstream |-> <<m, 3000>>, hostPort |-> 0]

OneSandbox == {Sbx(m1, 3000)}
AllPorts == {Sbx(m1, 3000), Sbx(m1, 3001), Sbx(m2, 3000), Sbx(m3, 3000)}
EveryKind ==
  {Sbx(m1, 3000), Docker(m1, 18080), Direct("orb", m1), Direct("static", m2)}

AnyWork == [c \in Client |-> Host \X Requests]
\* Two hostnames that move between two sandboxes, beside a third one.
WorkApart ==
  [c \in Client |-> IF c = c1 THEN {a, b} \X {r \in AllPorts : r.machine # m3}
                    ELSE {<<d, Sbx(m3, 3000)>>}]
=============================================================================
