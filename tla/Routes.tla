------------------------------- MODULE Routes -------------------------------
(***************************************************************************)
(* The values of internal/route/route.go: routes, the route table, and the *)
(* host-port allocator behind Store.Upsert.  No state lives here; the      *)
(* store, the daemon and the CLI are built on these operators.             *)
(***************************************************************************)
EXTENDS Integers

CONSTANTS
  Host,         \* sanitised hostnames, the keys of the route table
  Machine,      \* sandbox, VM and container names, and literal addresses
  MachinePort,  \* the ports applications listen on inside a machine
  PortMin,      \* cfg.PortMin and cfg.PortMax: the range host ports are
  PortMax,      \*   handed out from
  Hash,         \* the 32-bit FNV-1a hash of each hostname
  Requests,     \* the routes the CLI's adapters hand to the daemon
  NoRoute       \* what a table holds for a host without a route

LastPort == 65535
HostPort == 1..LastPort

(***************************************************************************)
(* config.validate refuses PortMin >= PortMax.  That both are port numbers *)
(* is assumed of the configuration: nothing in the code checks it.         *)
(***************************************************************************)
ASSUME PortAssumption ==
  /\ PortMin \in HostPort
  /\ PortMax \in HostPort
  /\ PortMin < PortMax

ASSUME HashAssumption == Hash \in [Host -> Nat]

ASSUME MachinePortAssumption == MachinePort \subseteq HostPort

-----------------------------------------------------------------------------
(***************************************************************************)
(* A dial target is net.JoinHostPort(host, port).  An orb target is the    *)
(* VM's <name>.orb.local and a static one its literal address: both are    *)
(* written <<machine, port>> here, the adapter tells them apart.           *)
(***************************************************************************)
Loopback == "127.0.0.1"
NoUpstream == <<>>
HostUpstream(port) == <<Loopback, port>>

(***************************************************************************)
(* What each adapter's Attach returns (Host is filled in by `usher up`).   *)
(* Only sbx leaves both the upstream and the host port to the daemon.      *)
(***************************************************************************)
SbxRequest ==
  [adapter : {"sbx"}, machine : Machine, machinePort : MachinePort,
   upstream : {NoUpstream}, hostPort : {0}]

DockerRequest ==
  [adapter : {"docker"}, machine : Machine, machinePort : MachinePort,
   upstream : {NoUpstream}, hostPort : HostPort]

DirectRoute ==
  {r \in [adapter : {"static", "orb"}, machine : Machine,
          machinePort : MachinePort, upstream : Machine \X MachinePort,
          hostPort : {0}] : r.upstream = <<r.machine, r.machinePort>>}

AttachResult == SbxRequest \cup DockerRequest \cup DirectRoute

ASSUME RequestAssumption == Requests \subseteq AttachResult

(***************************************************************************)
(* A stored route: the caller's dial target, or loopback and the host port.*)
(***************************************************************************)
LoopbackRoute ==
  {r \in [adapter : {"sbx", "docker"}, machine : Machine,
          machinePort : MachinePort, upstream : {Loopback} \X HostPort,
          hostPort : HostPort] : r.upstream = HostUpstream(r.hostPort)}

Route == LoopbackRoute \cup DirectRoute

ASSUME NoRouteAssumption == NoRoute \notin Route

Table == [Host -> Route \cup {NoRoute}]
EmptyTable == [h \in Host |-> NoRoute]
Routed(table) == {h \in Host : table[h] # NoRoute}

SameMachine(r, s) ==
  /\ r.adapter = s.adapter
  /\ r.machine = s.machine
  /\ r.machinePort = s.machinePort

OnMachine(table, adapter, machine) ==
  {h \in Routed(table) : /\ table[h].adapter = adapter
                         /\ table[h].machine = machine}

-----------------------------------------------------------------------------
(***************************************************************************)
(* allocLocked.  Go ranges over the map in no particular order, so the     *)
(* port of any matching route may be the one returned; `bound' is the set  *)
(* of loopback ports some process listens on when the probe runs.          *)
(***************************************************************************)
SharedPorts(table, r) ==
  {table[h].hostPort : h \in {x \in Routed(table) :
                                /\ SameMachine(table[x], r)
                                /\ table[x].hostPort # 0}}

Taken(table) == {table[h].hostPort : h \in Routed(table)}

Start(h) == PortMin + (Hash[h] % (PortMax - PortMin + 1))

(***************************************************************************)
(* A probe that asks the host, but not the other routes.                   *)
(***************************************************************************)
UnboundPorts(table, h, bound) == (Start(h)..(PortMax - 1)) \ bound

FreePorts(table, h, bound) ==
  (Start(h)..(PortMax - 1)) \ (Taken(table) \cup bound)

OwnPort(table, h) ==
  IF table[h] # NoRoute /\ table[h].hostPort # 0 THEN {table[h].hostPort} ELSE {}

(***************************************************************************)
(* An allocator that probes for a new port on every upsert.                *)
(***************************************************************************)
AllocAfresh(table, h, r, bound) ==
  LET free == FreePorts(table, h, bound)
  IN  {p \in free : \A q \in free : p <= q}

(***************************************************************************)
(* The ports allocLocked may return; none is its "no free host port" error.*)
(***************************************************************************)
Alloc(table, h, r, bound) ==
  LET free == FreePorts(table, h, bound)
  IN  CASE SharedPorts(table, r) # {} -> SharedPorts(table, r)
        [] SharedPorts(table, r) = {} /\ OwnPort(table, h) # {} -> OwnPort(table, h)
        [] OTHER -> {p \in free : \A q \in free : p <= q}

(***************************************************************************)
(* A probe that only looks at the routes, as if a route's machine played   *)
(* no part: the allocator without its first priority.                      *)
(***************************************************************************)
FilledWithoutSharing(table, h, r, bound) ==
  LET free == FreePorts(table, h, bound)
  IN  IF r.upstream # NoUpstream THEN {r}
      ELSE {[r EXCEPT !.hostPort = p, !.upstream = HostUpstream(p)] :
              p \in IF r.hostPort # 0 THEN {r.hostPort}
                    ELSE IF OwnPort(table, h) # {} THEN OwnPort(table, h)
                    ELSE {q \in free : \A s \in free : q <= s}}

(***************************************************************************)
(* An Upsert that forms the upstream but forgets to record the port it     *)
(* allocated.                                                              *)
(***************************************************************************)
FilledPortForgotten(table, h, r, bound) ==
  IF r.upstream # NoUpstream THEN {r}
  ELSE {[r EXCEPT !.upstream = HostUpstream(p)] :
          p \in IF r.hostPort # 0 THEN {r.hostPort} ELSE Alloc(table, h, r, bound)}

(***************************************************************************)
(* The switch of Store.Upsert: the routes it may store for request r.      *)
(***************************************************************************)
Filled(table, h, r, bound) ==
  IF r.upstream # NoUpstream THEN {r}
  ELSE {[r EXCEPT !.hostPort = p, !.upstream = HostUpstream(p)] :
          p \in IF r.hostPort # 0 THEN {r.hostPort} ELSE Alloc(table, h, r, bound)}

-----------------------------------------------------------------------------
(***************************************************************************)
(* Routes for the same sandbox port share one host port, so that `sbx      *)
(* ports' never has to publish a machine port twice (route.go:71-73).      *)
(***************************************************************************)
SharesPorts(table) ==
  \A x, y \in Routed(table) :
    /\ table[x].adapter = "sbx"
    /\ SameMachine(table[x], table[y])
    => table[x].hostPort = table[y].hostPort

=============================================================================
