--------------------------- MODULE Routes_proofs ---------------------------
(***************************************************************************)
(* What the allocator of module Routes returns: for every table, every     *)
(* port range and every hash.                                              *)
(***************************************************************************)
EXTENDS Routes, TLAPS

(***************************************************************************)
(* Port numbers, and that a dial target is not the empty upstream.         *)
(***************************************************************************)
LEMMA PortFacts ==
  /\ LastPort \in Nat
  /\ \A p \in HostPort : p \in Nat /\ p # 0
  /\ \A p : p \in HostPort <=> p \in Int /\ 1 <= p /\ p <= LastPort
<1>1. LastPort \in Nat
  BY DEF LastPort
<1> QED BY <1>1 DEF HostPort

LEMMA UpstreamFacts == \A x, y : <<x, y>> # NoUpstream
  BY DEF NoUpstream

(***************************************************************************)
(* What the shape of a route says of its host port.                        *)
(***************************************************************************)
LEMMA RouteFacts ==
  ASSUME NEW r \in Route
  PROVE  /\ r.adapter = "sbx" => r.hostPort \in HostPort
         /\ r.hostPort # 0 => r.hostPort \in HostPort
         /\ r.adapter \in {"sbx", "docker", "orb", "static"}
<1>1. CASE r \in LoopbackRoute
  <2>1. r.adapter \in {"sbx", "docker"} /\ r.hostPort \in HostPort
    BY <1>1 DEF LoopbackRoute
  <2> QED BY <2>1
<1>2. CASE r \in DirectRoute
  <2>1. r.adapter \in {"static", "orb"} /\ r.hostPort = 0
    BY <1>2 DEF DirectRoute
  <2> QED BY <2>1
<1> QED BY <1>1, <1>2 DEF Route

(***************************************************************************)
(* A request is an sbx one without a port, a docker one with a port, or a  *)
(* direct one that is already a route.                                     *)
(***************************************************************************)
LEMMA RequestFacts ==
  ASSUME NEW r \in Requests
  PROVE  \/ r \in SbxRequest
         \/ r \in DockerRequest
         \/ r \in DirectRoute
  BY RequestAssumption DEF AttachResult

(***************************************************************************)
(* The probe starts inside the configured range.                           *)
(***************************************************************************)
LEMMA StartInRange ==
  ASSUME NEW h \in Host
  PROVE  Start(h) \in PortMin..PortMax
<1> DEFINE span == PortMax - PortMin + 1
           offset == Hash[h] % span
<1>1. span \in Nat /\ span > 0
  BY PortAssumption DEF HostPort
<1>2. Hash[h] \in Nat
  BY HashAssumption
<1>3. offset \in 0..(span - 1)
  <2> HIDE DEF span
  <2> QED BY <1>1, <1>2
<1>4. Start(h) = PortMin + offset
  BY DEF Start
<1> HIDE DEF offset
<1> QED BY <1>3, <1>4, PortAssumption DEF HostPort

(***************************************************************************)
(* Whatever allocLocked returns is a port number, never zero.              *)
(***************************************************************************)
LEMMA AllocIsPort ==
  ASSUME NEW table \in Table, NEW h \in Host, NEW r, NEW bound,
         NEW p \in Alloc(table, h, r, bound)
  PROVE  p \in HostPort
<1>1. CASE p \in SharedPorts(table, r)
  <2>1. PICK x \in Routed(table) : p = table[x].hostPort /\ table[x].hostPort # 0
    BY <1>1 DEF SharedPorts
  <2>2. table[x] \in Route
    BY <2>1 DEF Routed, Table
  <2> QED BY <2>1, <2>2, RouteFacts
<1>2. CASE p \in OwnPort(table, h)
  <2>1. table[h] # NoRoute /\ table[h].hostPort # 0 /\ p = table[h].hostPort
    BY <1>2 DEF OwnPort
  <2>2. table[h] \in Route
    BY <2>1 DEF Table
  <2> QED BY <2>1, <2>2, RouteFacts
<1>3. CASE p \in FreePorts(table, h, bound)
  <2>1. p \in Start(h)..(PortMax - 1)
    BY <1>3 DEF FreePorts
  <2>2. PortMin \in Int /\ PortMax \in Int /\ 1 <= PortMin /\ PortMax <= LastPort
    BY PortAssumption, PortFacts
  <2>3. Start(h) \in Int /\ PortMin <= Start(h)
    BY <2>2, StartInRange
  <2>4. p \in Int /\ Start(h) <= p /\ p <= PortMax - 1
    BY <2>1, <2>2, <2>3
  <2> QED BY <2>2, <2>3, <2>4, PortFacts
<1> QED BY <1>1, <1>2, <1>3 DEF Alloc

(***************************************************************************)
(* The heart of "that machine port only ever gets published once": in a    *)
(* table whose sandbox routes share their ports, the port allocated for a  *)
(* machine port is the one every route to it already has.                  *)
(***************************************************************************)
LEMMA AllocShares ==
  ASSUME NEW table \in Table, SharesPorts(table),
         NEW h \in Host, NEW r \in SbxRequest, NEW bound,
         NEW p \in Alloc(table, h, r, bound),
         NEW x \in Routed(table), SameMachine(table[x], r)
  PROVE  table[x].hostPort = p
<1>1. table[x] \in Route /\ table[x].adapter = "sbx"
  BY DEF Routed, Table, SameMachine, SbxRequest
<1>2. table[x].hostPort # 0
  BY <1>1, RouteFacts, PortFacts
<1>3. SharedPorts(table, r) # {}
  BY <1>2 DEF SharedPorts
<1>4. p \in SharedPorts(table, r)
  BY <1>3 DEF Alloc
<1>5. PICK y \in Routed(table) : SameMachine(table[y], r) /\ p = table[y].hostPort
  BY <1>4 DEF SharedPorts
<1>6. SameMachine(table[x], table[y])
  BY <1>5 DEF SameMachine
<1> QED BY <1>1, <1>5, <1>6 DEF SharesPorts

(***************************************************************************)
(* What Filled stores: a route to what was asked for, with the port the    *)
(* request came with, or the allocated one, or none.                       *)
(***************************************************************************)
LEMMA FilledIsRoute ==
  ASSUME NEW table \in Table, NEW h \in Host, NEW r \in Requests, NEW bound,
         NEW stored \in Filled(table, h, r, bound)
  PROVE  /\ stored \in Route
         /\ SameMachine(stored, r)
         /\ r.adapter = "sbx" => stored.hostPort \in Alloc(table, h, r, bound)
         /\ r.adapter # "sbx" => stored.hostPort = r.hostPort
<1>1. CASE r \in DirectRoute
  <2>1. r.upstream # NoUpstream /\ r.adapter # "sbx"
    BY <1>1, UpstreamFacts DEF DirectRoute
  <2>2. stored = r
    BY <2>1 DEF Filled
  <2> QED BY <1>1, <2>1, <2>2 DEF Route, SameMachine
<1>2. CASE r \in DockerRequest
  <2>1. r.hostPort \in HostPort /\ r.hostPort # 0 /\ r.upstream = NoUpstream
    BY <1>2, PortFacts DEF DockerRequest
  <2>2. stored = [r EXCEPT !.hostPort = r.hostPort, !.upstream = HostUpstream(r.hostPort)]
    BY <2>1 DEF Filled
  <2>3. /\ stored.adapter = "docker" /\ r.adapter = "docker"
        /\ SameMachine(stored, r) /\ stored.hostPort = r.hostPort
    BY <1>2, <2>2 DEF DockerRequest, SameMachine
  <2>4. stored \in LoopbackRoute
    BY <1>2, <2>1, <2>2 DEF DockerRequest, LoopbackRoute, HostUpstream
  <2> QED BY <2>3, <2>4 DEF Route
<1>3. CASE r \in SbxRequest
  <2>1. r.hostPort = 0 /\ r.upstream = NoUpstream /\ r.adapter = "sbx"
    BY <1>3 DEF SbxRequest
  <2>2. PICK p \in Alloc(table, h, r, bound) :
          stored = [r EXCEPT !.hostPort = p, !.upstream = HostUpstream(p)]
    BY <2>1 DEF Filled
  <2>3. p \in HostPort
    BY AllocIsPort
  <2>4. stored \in LoopbackRoute /\ stored.hostPort = p
    BY <1>3, <2>2, <2>3 DEF SbxRequest, LoopbackRoute, HostUpstream
  <2>5. SameMachine(stored, r)
    BY <1>3, <2>2 DEF SbxRequest, SameMachine
  <2> QED BY <2>1, <2>4, <2>5 DEF Route
<1> QED BY <1>1, <1>2, <1>3, RequestFacts

(***************************************************************************)
(* A sandbox route is stored with the port of every route to its machine   *)
(* port.                                                                   *)
(***************************************************************************)
LEMMA FilledShares ==
  ASSUME NEW table \in Table, SharesPorts(table),
         NEW h \in Host, NEW r \in Requests, NEW bound,
         NEW stored \in Filled(table, h, r, bound)
  PROVE  /\ stored \in Route
         /\ stored.adapter = "sbx" =>
              \A x \in Routed(table) :
                SameMachine(table[x], stored) => table[x].hostPort = stored.hostPort
<1>1. stored \in Route /\ SameMachine(stored, r)
  BY FilledIsRoute
<1>2. ASSUME stored.adapter = "sbx", NEW x \in Routed(table),
             SameMachine(table[x], stored)
      PROVE  table[x].hostPort = stored.hostPort
  <2>1. r.adapter = "sbx" /\ SameMachine(table[x], r)
    BY <1>1, <1>2 DEF SameMachine
  <2>2. r \in SbxRequest
    BY <2>1, RequestFacts DEF DockerRequest, DirectRoute
  <2> QED BY <2>1, <2>2, AllocShares, FilledIsRoute
<1> QED BY <1>1, <1>2

=============================================================================
