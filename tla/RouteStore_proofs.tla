------------------------- MODULE RouteStore_proofs -------------------------
(***************************************************************************)
(* Proofs about the route table and its file: for every set of hostnames,  *)
(* machines and requests, every port range and every hash.                 *)
(***************************************************************************)
EXTENDS RouteStore, Routes_proofs

(***************************************************************************)
(* Upsert stores a route, and keeps the sandbox routes' ports shared.      *)
(***************************************************************************)
LEMMA UpsertStores ==
  ASSUME NEW table \in Table, SharesPorts(table),
         NEW h \in Host, NEW r \in Requests, NEW bound,
         NEW stored \in Filled(table, h, r, bound)
  PROVE  /\ stored \in Route
         /\ [table EXCEPT ![h] = stored] \in Table
         /\ SharesPorts([table EXCEPT ![h] = stored])
<1> DEFINE new == [table EXCEPT ![h] = stored]
<1>1. /\ stored \in Route
      /\ stored.adapter = "sbx" =>
           \A x \in Routed(table) :
             SameMachine(table[x], stored) => table[x].hostPort = stored.hostPort
  BY FilledShares
<1>2. new \in Table
  BY <1>1 DEF Table
<1>3. SharesPorts(new)
  <2> SUFFICES ASSUME NEW x \in Routed(new), NEW y \in Routed(new),
                      new[x].adapter = "sbx", SameMachine(new[x], new[y])
               PROVE  new[x].hostPort = new[y].hostPort
    BY DEF SharesPorts
  <2>1. /\ \A z \in Host : new[z] = IF z = h THEN stored ELSE table[z]
        /\ \A z \in Routed(new) : z # h => z \in Routed(table)
        /\ x \in Host /\ y \in Host
    BY DEF Table, Routed
  <2>2. CASE x = h /\ y = h
    BY <2>2
  <2>3. CASE x = h /\ y # h
    <3>1. stored.adapter = "sbx" /\ y \in Routed(table) /\ SameMachine(table[y], stored)
      BY <2>1, <2>3 DEF SameMachine
    <3> QED BY <1>1, <2>1, <2>3, <3>1
  <2>4. CASE x # h /\ y = h
    <3>1. stored.adapter = "sbx" /\ x \in Routed(table) /\ SameMachine(table[x], stored)
      BY <2>1, <2>4 DEF SameMachine
    <3> QED BY <1>1, <2>1, <2>4, <3>1
  <2>5. CASE x # h /\ y # h
    BY <2>1, <2>5 DEF SharesPorts
  <2> QED BY <2>2, <2>3, <2>4, <2>5
<1> QED BY <1>1, <1>2, <1>3

(***************************************************************************)
(* Taking routes out of a table leaves a table whose ports are shared.     *)
(***************************************************************************)
LEMMA RemovalKeepsSharing ==
  ASSUME NEW table \in Table, SharesPorts(table), NEW new \in Table,
         \A h \in Host : new[h] \in {table[h], NoRoute}
  PROVE  SharesPorts(new)
<1> SUFFICES ASSUME NEW x \in Routed(new), NEW y \in Routed(new),
                    new[x].adapter = "sbx", SameMachine(new[x], new[y])
             PROVE  new[x].hostPort = new[y].hostPort
  BY DEF SharesPorts
<1>1. /\ x \in Routed(table) /\ new[x] = table[x]
      /\ y \in Routed(table) /\ new[y] = table[y]
  BY DEF Routed
<1> QED BY <1>1 DEF SharesPorts

-----------------------------------------------------------------------------
(***************************************************************************)
(* The inductive invariant: between the write of the temporary file and    *)
(* the rename, Store.mu keeps the memory equal to what was written.        *)
(***************************************************************************)
StoreIInv ==
  /\ StoreTypeOK
  /\ file \in Table
  /\ saving = "rename" => tmp = routes
  /\ SharesPorts(routes)
  /\ SharesPorts(file)

LEMMA EmptyTableShares == EmptyTable \in Table /\ SharesPorts(EmptyTable)
  BY DEF EmptyTable, Table, SharesPorts, Routed

LEMMA StoreInitIInv == StoreInit => StoreIInv
  BY EmptyTableShares DEF StoreInit, StoreIInv, StoreTypeOK

(***************************************************************************)
(* A mutation with a well-formed table as its outcome keeps the invariant. *)
(***************************************************************************)
LEMMA ChangeIInv ==
  ASSUME StoreIInv, NEW table \in Table, SharesPorts(table), Change(table)
  PROVE  StoreIInv'
  BY DEF StoreIInv, StoreTypeOK, Change

LEMMA UpsertIInv ==
  ASSUME StoreIInv, NEW h \in Host, NEW r \in Requests, NEW bound, Upsert(h, r, bound)
  PROVE  StoreIInv'
<1>1. PICK stored \in Filled(routes, h, r, bound) :
        Change([routes EXCEPT ![h] = stored])
  BY DEF Upsert
<1>2. routes \in Table /\ SharesPorts(routes)
  BY DEF StoreIInv, StoreTypeOK
<1>3. /\ [routes EXCEPT ![h] = stored] \in Table
      /\ SharesPorts([routes EXCEPT ![h] = stored])
  BY <1>2, UpsertStores
<1> QED BY <1>1, <1>3, ChangeIInv

LEMMA RemoveIInv ==
  ASSUME StoreIInv, NEW h \in Host, Remove(h)
  PROVE  StoreIInv'
<1> DEFINE new == [routes EXCEPT ![h] = NoRoute]
<1>1. routes \in Table /\ SharesPorts(routes)
  BY DEF StoreIInv, StoreTypeOK
<1>2. new \in Table /\ \A x \in Host : new[x] \in {routes[x], NoRoute}
  BY <1>1 DEF Table
<1>3. SharesPorts(new)
  BY <1>1, <1>2, RemovalKeepsSharing
<1> QED BY <1>2, <1>3, ChangeIInv DEF Remove

LEMMA RemoveMachineIInv ==
  ASSUME StoreIInv, NEW adapter, NEW machine, RemoveMachine(adapter, machine)
  PROVE  StoreIInv'
<1> DEFINE removed == OnMachine(routes, adapter, machine)
           new == [x \in Host |-> IF x \in removed THEN NoRoute ELSE routes[x]]
<1>1. routes \in Table /\ SharesPorts(routes)
  BY DEF StoreIInv, StoreTypeOK
<1>2. new \in Table /\ \A x \in Host : new[x] \in {routes[x], NoRoute}
  BY <1>1 DEF Table
<1>3. SharesPorts(new)
  BY <1>1, <1>2, RemovalKeepsSharing
<1> QED BY <1>2, <1>3, ChangeIInv DEF RemoveMachine

LEMMA SaveIInv ==
  ASSUME StoreIInv, Save
  PROVE  StoreIInv'
<1>1. CASE WriteTmp
  BY <1>1 DEF StoreIInv, StoreTypeOK, WriteTmp
<1>2. CASE WriteFails
  BY <1>2 DEF StoreIInv, StoreTypeOK, WriteFails
<1>3. CASE Rename
  BY <1>3 DEF StoreIInv, StoreTypeOK, Rename
<1>4. CASE RenameFails
  BY <1>4 DEF StoreIInv, StoreTypeOK, RenameFails
<1> QED BY <1>1, <1>2, <1>3, <1>4 DEF Save

LEMMA RestartIInv ==
  ASSUME StoreIInv, Restart
  PROVE  StoreIInv'
  BY DEF StoreIInv, StoreTypeOK, Restart

LEMMA StoreNextIInv == StoreIInv /\ [StoreNext]_storeVars => StoreIInv'
<1> SUFFICES ASSUME StoreIInv, [StoreNext]_storeVars PROVE StoreIInv'
  OBVIOUS
<1>1. CASE \E h \in Host, r \in Requests, bound \in SUBSET (PortMin..PortMax) :
             Upsert(h, r, bound)
  BY <1>1, UpsertIInv
<1>2. CASE \E h \in Host : Remove(h)
  BY <1>2, RemoveIInv
<1>3. CASE \E r \in Requests : RemoveMachine(r.adapter, r.machine)
  BY <1>3, RemoveMachineIInv
<1>4. CASE Save
  BY <1>4, SaveIInv
<1>5. CASE Restart
  BY <1>5, RestartIInv
<1>6. CASE UNCHANGED storeVars
  BY <1>6 DEF storeVars, StoreIInv, StoreTypeOK
<1> QED BY <1>1, <1>2, <1>3, <1>4, <1>5, <1>6 DEF StoreNext

(***************************************************************************)
(* The store's invariants, for every instance (route.go).                  *)
(***************************************************************************)
THEOREM StoreInvariant == StoreSpec => []StoreIInv
  BY StoreInitIInv, StoreNextIInv, PTL DEF StoreSpec

THEOREM StoreTypeCorrect == StoreSpec => []StoreTypeOK
<1>1. StoreIInv => StoreTypeOK
  BY DEF StoreIInv
<1> QED BY <1>1, StoreInvariant, PTL

(***************************************************************************)
(* routes.json always parses: Torn is no table.                            *)
(***************************************************************************)
THEOREM FileAlwaysParses == StoreSpec => []FileParses
<1>1. StoreIInv => FileParses
  BY TornAssumption DEF StoreIInv, FileParses
<1> QED BY <1>1, StoreInvariant, PTL

(***************************************************************************)
(* Sandbox routes to one machine port share one host port for ever.        *)
(***************************************************************************)
THEOREM TriplesSharePort == StoreSpec => []TripleSharesPort
<1>1. StoreIInv => TripleSharesPort
  BY DEF StoreIInv, TripleSharesPort
<1> QED BY <1>1, StoreInvariant, PTL

(***************************************************************************)
(* No mutation re-rolls the port of a sandbox route that stays where it    *)
(* is: the port of an upserted route is the one every route to its machine *)
(* port has, its own old one among them.                                   *)
(***************************************************************************)
THEOREM UpsertKeepsPort == StoreSpec => ReUpsertKeepsPort
<1> DEFINE Keeps ==
      saving = "no" /\ saving' = "write" =>
        \A h \in Routed(routes) \cap Routed(routes') :
          /\ routes[h].adapter = "sbx"
          /\ SameMachine(routes[h], routes'[h])
          => routes'[h].hostPort = routes[h].hostPort
<1>1. StoreIInv /\ [StoreNext]_storeVars => [Keeps]_storeVars
  <2> SUFFICES ASSUME StoreIInv, StoreNext, saving = "no", saving' = "write",
                      NEW x \in Routed(routes) \cap Routed(routes'),
                      routes[x].adapter = "sbx", SameMachine(routes[x], routes'[x])
               PROVE  routes'[x].hostPort = routes[x].hostPort
    BY DEF storeVars
  <2>1. routes \in Table /\ SharesPorts(routes) /\ x \in Host
    BY DEF StoreIInv, StoreTypeOK, Routed
  <2>2. ASSUME NEW h \in Host, NEW r \in Requests, NEW bound, Upsert(h, r, bound)
        PROVE  routes'[x].hostPort = routes[x].hostPort
    <3>1. PICK stored \in Filled(routes, h, r, bound) :
            routes' = [routes EXCEPT ![h] = stored]
      BY <2>2 DEF Upsert, Change
    <3>2. CASE x = h
      <4>1. routes'[x] = stored
        BY <2>1, <3>1, <3>2 DEF Table
      <4>2. stored.adapter = "sbx"
        BY <4>1 DEF SameMachine
      <4>3. x \in Routed(routes) /\ SameMachine(routes[x], stored)
        BY <4>1
      <4>4. \A y \in Routed(routes) :
              SameMachine(routes[y], stored) => routes[y].hostPort = stored.hostPort
        BY <2>1, <4>2, FilledShares
      <4> QED BY <4>1, <4>3, <4>4
    <3>3. CASE x # h
      BY <2>1, <3>1, <3>3 DEF Table
    <3> QED BY <3>2, <3>3
  <2>3. ASSUME NEW h \in Host, Remove(h)
        PROVE  routes'[x].hostPort = routes[x].hostPort
    BY <2>1, <2>3 DEF Remove, Change, Table, Routed
  <2>4. ASSUME NEW r \in Requests, RemoveMachine(r.adapter, r.machine)
        PROVE  routes'[x].hostPort = routes[x].hostPort
    BY <2>1, <2>4 DEF RemoveMachine, Change, Table, Routed
  <2>5. ~Save /\ ~Restart
    BY DEF Save, WriteTmp, WriteFails, Rename, RenameFails, Restart
  <2> QED BY <2>2, <2>3, <2>4, <2>5 DEF StoreNext
<1> QED BY <1>1, StoreInvariant, PTL DEF StoreSpec, ReUpsertKeepsPort

=============================================================================
