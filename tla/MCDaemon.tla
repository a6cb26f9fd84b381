------------------------------ MODULE MCDaemon ------------------------------
(***************************************************************************)
(* Small instances of Daemon for TLC.  The range has one usable port, so   *)
(* allocation shares it, hands it out or fails.                            *)
(***************************************************************************)
EXTENDS Daemon, TLC

CONSTANTS a, b, m1, h1, h2

MCMachinePort == {3000}
MCHash == [h \in Host |-> 0]

SbxM1 ==
  [adapter |-> "sbx", machine |-> m1, machinePort |-> 3000,
   upstream |-> NoUpstream, hostPort |-> 0]
OrbM1 ==
  [adapter |-> "orb", machine |-> m1, machinePort |-> 3000,
   upstream |-> <<m1, 3000>>, hostPort |-> 0]

MCRequests == {SbxM1, OrbM1}
OneRequest == {SbxM1}

\* All hosts have one hash, and no request names a host.
MCSymmetry == Permutations(Handler) \cup Permutations(Host)
=============================================================================
