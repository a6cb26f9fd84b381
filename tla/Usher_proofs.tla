---------------------------- MODULE Usher_proofs ----------------------------
(***************************************************************************)
(* Proofs about `usher up' and `usher down': for any number of terminals,  *)
(* hostnames and machines, and commands that overlap in any order.         *)
(***************************************************************************)
EXTENDS Usher, Routes_proofs

-----------------------------------------------------------------------------
(***************************************************************************)
(* The commands and the calls in flight carry what their position needs: a *)
(* request until the daemon has answered, a stored route from then on.     *)
(***************************************************************************)
Requesting == {"attach", "upsert"}
Holding == {"publish", "rollback", "list", "detach", "removeMachine", "destroy"}

HostsOf(c) == {w[1] : w \in Work[c]}

CommandsCarry ==
  \A c \in Client :
    /\ cmd[c].pc \in Requesting => <<cmd[c].host, cmd[c].route>> \in Work[c]
    /\ cmd[c].pc \in Holding => cmd[c].route \in Route
    /\ cmd[c].pc # "idle" => cmd[c].host \in HostsOf(c)

LateCarry == \A l \in late : l.pc = "upsert" => l.route \in Requests

TypeIInv == UsherTypeOK /\ CommandsCarry /\ LateCarry

Command ==
  [pc : {"idle"} \cup Waiting \cup Local, host : Host,
   route : Requests \cup Route \cup {NoRoute}, used : BOOLEAN, destroy : BOOLEAN]

LEMMA NoCommandType ==
  NoCommand \in Command /\ NoCommand.pc = "idle" /\ NoCommand.route = NoRoute
<1>1. (CHOOSE h \in Host : TRUE) \in Host
  BY WorkAssumption
<1> QED BY <1>1 DEF NoCommand, Command

LEMMA WorkFacts ==
  ASSUME NEW c \in Client, NEW h, NEW r, <<h, r>> \in Work[c]
  PROVE  h \in Host /\ r \in Requests /\ h \in HostsOf(c)
<1>1. Work[c] \subseteq Host \X Requests
  BY WorkAssumption
<1>2. <<h, r>> \in Host \X Requests
  BY <1>1
<1>3. <<h, r>>[1] = h
  OBVIOUS
<1> QED BY <1>2, <1>3 DEF HostsOf

(***************************************************************************)
(* A step of one terminal's command leaves the other terminals alone.      *)
(***************************************************************************)
LEMMA CommandStep ==
  ASSUME TypeIInv, NEW c \in Client, NEW new \in Command,
         cmd' = [cmd EXCEPT ![c] = new],
         new.pc \in Requesting => <<new.host, new.route>> \in Work[c],
         new.pc \in Holding => new.route \in Route,
         new.pc # "idle" => new.host \in HostsOf(c)
  PROVE  /\ cmd' \in [Client -> Command]
         /\ CommandsCarry'
         /\ cmd'[c] = new
         /\ \A o \in Client : o # c => cmd'[o] = cmd[o]
<1>1. cmd \in [Client -> Command]
  BY DEF TypeIInv, UsherTypeOK, Command
<1> QED BY <1>1 DEF TypeIInv, CommandsCarry

LEMMA EndStep ==
  ASSUME TypeIInv, NEW c \in Client, End(c)
  PROVE  /\ cmd' \in [Client -> Command]
         /\ CommandsCarry'
         /\ cmd'[c] = NoCommand
         /\ \A o \in Client : o # c => cmd'[o] = cmd[o]
BY CommandStep, NoCommandType DEF End, Requesting, Holding

LEMMA GotoStep ==
  ASSUME TypeIInv, NEW c \in Client, NEW label \in {"idle"} \cup Waiting \cup Local,
         Goto(c, label),
         \/ cmd[c].pc \in Requesting /\ label \in Requesting
         \/ cmd[c].pc \in Holding /\ label \in Holding
  PROVE  /\ cmd' \in [Client -> Command]
         /\ CommandsCarry'
         /\ cmd'[c] = [cmd[c] EXCEPT !.pc = label]
         /\ \A o \in Client : o # c => cmd'[o] = cmd[o]
<1> DEFINE new == [cmd[c] EXCEPT !.pc = label]
<1>1. cmd[c] \in Command
  BY DEF TypeIInv, UsherTypeOK, Command
<1>2. /\ new \in Command /\ new.pc = label
      /\ new.host = cmd[c].host /\ new.route = cmd[c].route
  BY <1>1 DEF Command
<1>3. cmd' = [cmd EXCEPT ![c] = new]
  BY DEF Goto
<1>4. /\ new.pc \in Requesting => <<new.host, new.route>> \in Work[c]
      /\ new.pc \in Holding => new.route \in Route
      /\ new.host \in HostsOf(c)
  BY <1>2 DEF TypeIInv, CommandsCarry, Requesting, Holding
<1> HIDE DEF new
<1>5. /\ cmd' \in [Client -> Command]
      /\ CommandsCarry'
      /\ cmd'[c] = new
      /\ \A o \in Client : o # c => cmd'[o] = cmd[o]
  BY <1>2, <1>3, <1>4, CommandStep
<1> QED BY <1>5 DEF new

LEMMA StoreStep ==
  ASSUME TypeIInv, NEW h \in Host, NEW r \in Requests, NEW bound,
         NEW stored \in Filled(table, h, r, bound), Put(h, stored)
  PROVE  /\ table' \in Table /\ stored \in Route
         /\ table'[h] = stored
         /\ \A x \in Host : x # h => table'[x] = table[x]
<1>1. table \in Table
  BY DEF TypeIInv, UsherTypeOK
<1>2. stored \in Route
  BY <1>1, FilledIsRoute
<1> QED BY <1>1, <1>2 DEF Put, Table

LEMMA DropStep ==
  ASSUME TypeIInv, NEW hosts, Drop(hosts)
  PROVE  /\ table' \in Table
         /\ \A x \in Host : table'[x] = IF x \in hosts THEN NoRoute ELSE table[x]
         /\ Routed(table') = Routed(table) \ hosts
BY DEF TypeIInv, UsherTypeOK, Drop, Table, Routed

(* The history only names hosts. *)
LEMMA UnsureTyped ==
  ASSUME TypeIInv, Next PROVE unsure' \subseteq Host
<1>0. /\ unsure \subseteq Host /\ Routed(table) \subseteq Host
      /\ \A c \in Client : cmd[c].host \in Host
      /\ \A l \in late : l.host \in Host
  BY DEF TypeIInv, UsherTypeOK, Routed, LateCall
<1>1. \A a, m : OnMachine(table, a, m) \subseteq Host
  BY DEF OnMachine, Routed
<1>2. ASSUME NEW c \in Client, Started(c) \/ Running(c) PROVE unsure' = unsure
  BY <1>2 DEF Started, RunUp, RunDown, Running, Attach, Publish, PublishFails,
     NothingToDestroy, Detach, DetachFails, Destroy, DestroyFails
<1>3. ASSUME NEW c \in Client, Answered(c) PROVE unsure' \subseteq Host
  BY <1>0, <1>1, <1>3 DEF Answered, Upsert, UpsertRefused, Rollback, Remove, RemoveNothing,
     List, RemoveMachine, Unreachable, Sure, Unsure
<1>4. ASSUME ServeLate PROVE unsure' \subseteq Host
  BY <1>0, <1>1, <1>4 DEF ServeLate, Dropped, Unsure
<1> QED BY <1>0, <1>2, <1>3, <1>4 DEF Next, TimesOut, Environment

-----------------------------------------------------------------------------
(***************************************************************************)
(* Each action keeps TypeIInv.                                             *)
(***************************************************************************)
LEMMA UpTypes ==
  ASSUME TypeIInv, NEW c \in Client,
         \/ \E h \in Host, r \in Requests : RunUp(c, h, r)
         \/ Attach(c) \/ Upsert(c) \/ UpsertRefused(c)
         \/ Publish(c) \/ PublishFails(c) \/ Rollback(c)
  PROVE  TypeIInv'
<1>0. cmd[c] \in Command /\ cmd \in [Client -> Command]
  BY DEF TypeIInv, UsherTypeOK, Command
<1>1. SUFFICES /\ table' \in Table
               /\ port' \in [LoopbackPort -> {Free, Other} \cup (Machine \X MachinePort)]
               /\ cmd' \in [Client -> Command] /\ CommandsCarry'
               /\ UNCHANGED <<alive, late>>
  BY UnsureTyped DEF TypeIInv, UsherTypeOK, Command, LateCarry, Next, Started, Running, Answered
<1>2. ASSUME NEW h \in Host, NEW r \in Requests, RunUp(c, h, r)
      PROVE  cmd' \in [Client -> Command] /\ CommandsCarry'
  <2> DEFINE new == [NoCommand EXCEPT !.pc = "attach", !.host = h, !.route = r]
  <2>1. new \in Command /\ new.pc = "attach" /\ new.host = h /\ new.route = r
    BY NoCommandType DEF Command, Local
  <2>2. cmd' = [cmd EXCEPT ![c] = new] /\ <<h, r>> \in Work[c]
    BY <1>2 DEF RunUp
  <2> HIDE DEF new
  <2> QED BY <2>1, <2>2, CommandStep, WorkFacts DEF Requesting, Holding
<1>3. CASE \E h \in Host, r \in Requests : RunUp(c, h, r)
  BY <1>2, <1>3 DEF RunUp, TypeIInv, UsherTypeOK
<1>4. CASE Attach(c)
  <2>1. cmd' \in [Client -> Command] /\ CommandsCarry'
    BY <1>4, EndStep, GotoStep DEF Attach, At, Requesting, Waiting
  <2> QED BY <1>4, <2>1 DEF Attach, TypeIInv, UsherTypeOK
<1>5. CASE Upsert(c)
  <2>1. /\ cmd[c].host \in Host /\ cmd[c].route \in Requests
        /\ cmd[c].host \in HostsOf(c)
    BY <1>5, WorkFacts DEF Upsert, At, TypeIInv, CommandsCarry, Requesting
  <2>2. PICK stored \in Filled(table, cmd[c].host, cmd[c].route, Bound) :
          /\ Put(cmd[c].host, stored)
          /\ \/ cmd' = [cmd EXCEPT ![c].pc = "publish", ![c].route = stored]
             \/ End(c)
    BY <1>5 DEF Upsert
  <2>3. table' \in Table /\ stored \in Route
    BY <2>1, <2>2, StoreStep
  <2>4. CASE End(c)
    BY <1>5, <2>3, <2>4, EndStep DEF Upsert, TypeIInv, UsherTypeOK
  <2>5. CASE cmd' = [cmd EXCEPT ![c].pc = "publish", ![c].route = stored]
    <3> DEFINE new == [cmd[c] EXCEPT !.pc = "publish", !.route = stored]
    <3>1. /\ new \in Command /\ new.pc = "publish"
          /\ new.host = cmd[c].host /\ new.route = stored
      BY <1>0, <2>3 DEF Command, Local
    <3>2. cmd' = [cmd EXCEPT ![c] = new]
      BY <1>0, <2>5
    <3> HIDE DEF new
    <3>3. cmd' \in [Client -> Command] /\ CommandsCarry'
      BY <2>1, <2>3, <3>1, <3>2, CommandStep DEF Requesting
    <3> QED BY <1>5, <2>3, <3>3 DEF Upsert, TypeIInv, UsherTypeOK
  <2> QED BY <2>2, <2>4, <2>5
<1>6. CASE UpsertRefused(c)
  BY <1>6, EndStep DEF UpsertRefused, TypeIInv, UsherTypeOK
<1>7. CASE Publish(c)
  <2>1. cmd[c].route \in Route
    BY <1>7 DEF Publish, At, TypeIInv, CommandsCarry, Holding
  <2>2. Published(cmd[c].route) \in Machine \X MachinePort
    BY <2>1 DEF Published, Route, LoopbackRoute, DirectRoute
  <2>3. port' \in [LoopbackPort -> {Free, Other} \cup (Machine \X MachinePort)]
    BY <1>7, <2>2 DEF Publish, TypeIInv, UsherTypeOK
  <2> QED BY <1>7, <2>3, EndStep DEF Publish, TypeIInv, UsherTypeOK
<1>8. CASE PublishFails(c)
  <2>1. cmd' \in [Client -> Command] /\ CommandsCarry'
    BY <1>8, GotoStep DEF PublishFails, At, Holding, Waiting
  <2> QED BY <1>8, <2>1 DEF PublishFails, TypeIInv, UsherTypeOK
<1>9. CASE Rollback(c)
  BY <1>9, EndStep, DropStep DEF Rollback, TypeIInv, UsherTypeOK
<1> QED BY <1>3, <1>4, <1>5, <1>6, <1>7, <1>8, <1>9

LEMMA DownTypes ==
  ASSUME TypeIInv, NEW c \in Client,
         \/ \E h \in Host, destroy \in BOOLEAN : RunDown(c, h, destroy)
         \/ Remove(c) \/ RemoveNothing(c) \/ List(c) \/ Detach(c) \/ DetachFails(c)
         \/ RemoveMachine(c) \/ NothingToDestroy(c) \/ Destroy(c) \/ DestroyFails(c)
         \/ Unreachable(c)
  PROVE  TypeIInv'
<1>0. cmd[c] \in Command /\ cmd \in [Client -> Command]
  BY DEF TypeIInv, UsherTypeOK, Command
<1>1. SUFFICES /\ table' \in Table
               /\ port' \in [LoopbackPort -> {Free, Other} \cup (Machine \X MachinePort)]
               /\ alive' \subseteq Machines
               /\ cmd' \in [Client -> Command] /\ CommandsCarry'
               /\ UNCHANGED late
  BY UnsureTyped DEF TypeIInv, UsherTypeOK, Command, LateCarry, Next, Started, Running, Answered
<1>2. ASSUME NEW h \in Host, NEW destroy \in BOOLEAN, RunDown(c, h, destroy)
      PROVE  cmd' \in [Client -> Command] /\ CommandsCarry'
  <2> DEFINE new == [NoCommand EXCEPT !.pc = "remove", !.host = h, !.destroy = destroy]
  <2>1. new \in Command /\ new.pc = "remove" /\ new.host = h
    BY NoCommandType DEF Command, Waiting
  <2>2. cmd' = [cmd EXCEPT ![c] = new] /\ h \in HostsOf(c)
    BY <1>2, WorkFacts DEF RunDown
  <2> HIDE DEF new
  <2> QED BY <2>1, <2>2, CommandStep DEF Requesting, Holding
<1>3. CASE \E h \in Host, destroy \in BOOLEAN : RunDown(c, h, destroy)
  BY <1>2, <1>3 DEF RunDown, TypeIInv, UsherTypeOK
<1>4. CASE Remove(c)
  <2> DEFINE r == table[cmd[c].host]
             new == [cmd[c] EXCEPT !.pc = "list", !.route = r]
  <2>1. cmd[c].host \in Host /\ r \in Route /\ cmd[c].host \in HostsOf(c)
    BY <1>0, <1>4 DEF Remove, At, Command, TypeIInv, UsherTypeOK, Table, CommandsCarry
  <2>2. table' \in Table
    BY <1>4, DropStep DEF Remove
  <2>3. new \in Command /\ new.pc = "list" /\ new.host = cmd[c].host /\ new.route = r
    BY <1>0, <2>1 DEF Command, Waiting
  <2>4. CASE End(c)
    BY <1>4, <2>2, <2>4, EndStep DEF Remove, TypeIInv, UsherTypeOK
  <2>5. CASE cmd' = [cmd EXCEPT ![c].pc = "list", ![c].route = r]
    <3>1. cmd' = [cmd EXCEPT ![c] = new]
      BY <1>0, <2>5
    <3> HIDE DEF new
    <3>2. cmd' \in [Client -> Command] /\ CommandsCarry'
      BY <2>1, <2>3, <3>1, CommandStep DEF Requesting
    <3> QED BY <1>4, <2>2, <3>2 DEF Remove, TypeIInv, UsherTypeOK
  <2> QED BY <1>4, <2>4, <2>5 DEF Remove
<1>5. CASE RemoveNothing(c)
  BY <1>5, EndStep DEF RemoveNothing, TypeIInv, UsherTypeOK
<1>6. CASE List(c)
  <2> DEFINE used == StillRouted(cmd[c].host, cmd[c].route)
             new == [cmd[c] EXCEPT !.pc = "detach", !.used = used]
  <2>1. used \in BOOLEAN
    BY DEF StillRouted
  <2> HIDE DEF used
  <2>2. new \in Command /\ new.pc = "detach" /\ new.host = cmd[c].host
          /\ new.route = cmd[c].route
    BY <1>0, <2>1 DEF Command, Local
  <2>3. cmd' = [cmd EXCEPT ![c] = new]
    BY <1>0, <1>6 DEF List, used
  <2>4. cmd[c].route \in Route /\ cmd[c].host \in HostsOf(c)
    BY <1>6 DEF List, At, TypeIInv, CommandsCarry, Holding
  <2> HIDE DEF new
  <2>5. cmd' \in [Client -> Command] /\ CommandsCarry'
    BY <2>2, <2>3, <2>4, CommandStep DEF Requesting
  <2> QED BY <1>6, <2>5 DEF List, TypeIInv, UsherTypeOK
<1>7. CASE Detach(c)
  <2>1. cmd' \in [Client -> Command] /\ CommandsCarry'
    BY <1>7, EndStep, GotoStep DEF Detach, At, Holding, Waiting, Local
  <2>2. port' \in [LoopbackPort -> {Free, Other} \cup (Machine \X MachinePort)]
    BY <1>7 DEF Detach, TypeIInv, UsherTypeOK
  <2> QED BY <1>7, <2>1, <2>2 DEF Detach, TypeIInv, UsherTypeOK
<1>8. CASE DetachFails(c) \/ NothingToDestroy(c) \/ DestroyFails(c) \/ Unreachable(c)
  <2>1. End(c) /\ UNCHANGED <<table, port, alive, late>>
    BY <1>8 DEF DetachFails, NothingToDestroy, DestroyFails, Unreachable
  <2> QED BY <2>1, EndStep DEF TypeIInv, UsherTypeOK
<1>9. CASE RemoveMachine(c)
  <2>1. cmd' \in [Client -> Command] /\ CommandsCarry'
    BY <1>9, EndStep, GotoStep DEF RemoveMachine, At, Holding, Local
  <2> QED BY <1>9, <2>1, DropStep DEF RemoveMachine, TypeIInv, UsherTypeOK
<1>10. CASE Destroy(c)
  <2>1. port' \in [LoopbackPort -> {Free, Other} \cup (Machine \X MachinePort)]
    BY <1>10 DEF Destroy, TypeIInv, UsherTypeOK
  <2>2. alive' \subseteq Machines
    BY <1>10 DEF Destroy, TypeIInv, UsherTypeOK
  <2> QED BY <1>10, <2>1, <2>2, EndStep DEF Destroy, TypeIInv, UsherTypeOK
<1> QED BY <1>3, <1>4, <1>5, <1>6, <1>7, <1>8, <1>9, <1>10

LEMMA LateTypes ==
  ASSUME TypeIInv, \/ \E c \in Client : TimesOut(c)
                   \/ ServeLate
  PROVE  TypeIInv'
<1>0. cmd \in [Client -> Command]
  BY DEF TypeIInv, UsherTypeOK, Command
<1>1. ASSUME NEW c \in Client, TimesOut(c) PROVE TypeIInv'
  <2>1. cmd[c] \in Command
    BY <1>0
  <2>2. GivenUp(c) \subseteq LateCall
    BY <1>1, <2>1 DEF GivenUp, TimesOut, At, LateCall, Command, Waiting
  <2>3. \A l \in GivenUp(c) : l.pc = "upsert" => l.route \in Requests
    <3>1. cmd[c].pc = "upsert" => cmd[c].route \in Requests
      BY WorkFacts DEF TypeIInv, CommandsCarry, Requesting
    <3> QED BY <3>1 DEF GivenUp
  <2>4. late' \subseteq LateCall /\ LateCarry'
    BY <1>1, <2>2, <2>3 DEF TimesOut, TypeIInv, UsherTypeOK, LateCarry
  <2> QED BY <1>1, <2>4, EndStep DEF TimesOut, TypeIInv, UsherTypeOK, Command
<1>2. ASSUME NEW l \in late,
             late' = late \ {l},
             \/ /\ l.pc = "upsert"
                /\ \E stored \in Filled(table, l.host, l.route, Bound) : Put(l.host, stored)
             \/ UNCHANGED table
             \/ Drop({l.host})
             \/ Drop(OnMachine(table, l.route.adapter, l.route.machine)),
             UNCHANGED <<port, alive, cmd>>, unsure' \subseteq Host
      PROVE  TypeIInv'
  <2>1. l.host \in Host
    BY DEF TypeIInv, UsherTypeOK, LateCall
  <2>2. table' \in Table
    <3>1. CASE l.pc = "upsert" /\
               \E stored \in Filled(table, l.host, l.route, Bound) : Put(l.host, stored)
      BY <2>1, <3>1, StoreStep DEF TypeIInv, LateCarry
    <3>2. CASE UNCHANGED table
      BY <3>2 DEF TypeIInv, UsherTypeOK
    <3>3. CASE Drop({l.host})
      BY <3>3, DropStep
    <3>4. CASE Drop(OnMachine(table, l.route.adapter, l.route.machine))
      BY <3>4, DropStep
    <3> QED BY <1>2, <3>1, <3>2, <3>3, <3>4
  <2>3. late' \subseteq LateCall /\ LateCarry'
    BY <1>2 DEF TypeIInv, UsherTypeOK, LateCarry
  <2>4. CommandsCarry'
    BY <1>2 DEF TypeIInv, CommandsCarry
  <2> QED BY <1>2, <2>2, <2>3, <2>4 DEF TypeIInv, UsherTypeOK
<1>3. ASSUME ServeLate PROVE TypeIInv'
  <2>1. PICK l \in late :
          /\ late' = late \ {l}
          /\ \/ /\ l.pc = "upsert"
                /\ \E stored \in Filled(table, l.host, l.route, Bound) : Put(l.host, stored)
             \/ UNCHANGED table
             \/ Drop({l.host})
             \/ Drop(OnMachine(table, l.route.adapter, l.route.machine))
          /\ UNCHANGED <<port, alive, cmd>>
    BY <1>3 DEF ServeLate, Dropped
  <2>2. unsure' \subseteq Host
    BY <1>3, UnsureTyped DEF Next
  <2> QED BY <1>2, <2>1, <2>2
<1> QED BY <1>1, <1>3

LEMMA TypePreserved ==
  ASSUME TypeIInv, [Next]_vars PROVE TypeIInv'
<1>1. ASSUME NEW c \in Client, Started(c) \/ Running(c) \/ Answered(c) PROVE TypeIInv'
  BY <1>1, UpTypes, DownTypes DEF Started, Running, Answered
<1>2. CASE Environment
  <2>1. port' \in [LoopbackPort -> {Free, Other} \cup (Machine \X MachinePort)]
    BY <1>2 DEF Environment, TypeIInv, UsherTypeOK
  <2>2. alive' \subseteq Machines
    BY <1>2 DEF Environment, TypeIInv, UsherTypeOK
  <2>3. CommandsCarry' /\ LateCarry'
    BY <1>2 DEF Environment, TypeIInv, CommandsCarry, LateCarry
  <2> QED BY <1>2, <2>1, <2>2, <2>3 DEF Environment, TypeIInv, UsherTypeOK
<1>3. CASE UNCHANGED vars
  BY <1>3 DEF vars, TypeIInv, UsherTypeOK, CommandsCarry, LateCarry
<1> QED BY <1>1, <1>2, <1>3, LateTypes DEF Next

LEMMA InitTypes == Init => TypeIInv
<1> SUFFICES ASSUME Init PROVE TypeIInv
  OBVIOUS
<1>1. table \in Table
  BY DEF Init, EmptyTable, Table
<1>2. cmd \in [Client -> Command] /\ CommandsCarry
  BY NoCommandType DEF Init, CommandsCarry, Requesting, Holding
<1> QED BY <1>1, <1>2 DEF Init, TypeIInv, UsherTypeOK, Command, LateCarry

LEMMA UsherTypeInvariant == Spec => []TypeIInv
<1>2. TypeIInv /\ [Next]_vars => TypeIInv'
  BY TypePreserved
<1> QED BY <1>2, InitTypes, PTL DEF Spec

(***************************************************************************)
(* The type invariant of the commands, the table and the ports: with every *)
(* fault, calls served late included.                                      *)
(***************************************************************************)
THEOREM UsherTypeCorrect == Spec => []UsherTypeOK
<1>1. TypeIInv => UsherTypeOK
  BY DEF TypeIInv
<1> QED BY <1>1, UsherTypeInvariant, PTL

-----------------------------------------------------------------------------
(***************************************************************************)
(* Terminals with hostnames and machines of their own, whose calls the     *)
(* daemon serves before they are given up.  All three conditions are       *)
(* needed: with a shared machine a route may appear between `down's List   *)
(* and its unpublish, and a call served late undoes what came after it.    *)
(***************************************************************************)
Apart ==
  /\ "timeout" \notin Faults
  /\ \A c, o \in Client :
       c # o => /\ HostsOf(c) \cap HostsOf(o) = {}
                /\ MachinesOf(c) \cap MachinesOf(o) = {}

Owns(t, c, h) == h \in HostsOf(c) /\ t[h].machine \in MachinesOf(c)

Owned == \A h \in Routed(table) : \E c \in Client : Owns(table, c, h)

HoldsOwn ==
  \A c \in Client :
    cmd[c].pc \in Holding => cmd[c].route.machine \in MachinesOf(c)

(***************************************************************************)
(* What a terminal has read or done on the way to its present step still   *)
(* is so: nobody else works on its hostname or its machine.                *)
(***************************************************************************)
OnPort(t, r) == {h \in Routed(t) : SameMachine(t[h], r)}

Sees(t, k) ==
  /\ k.pc = "publish" => t[k.host] = k.route
  /\ k.pc = "detach" /\ ~k.used => OnPort(t, k.route) = {}
  /\ k.pc = "destroy" /\ k.route.adapter # "static"
       => OnMachine(t, k.route.adapter, k.route.machine) = {}

Undisturbed == \A c \in Client : Sees(table, cmd[c])

ApartIInv == TypeIInv /\ late = {} /\ Owned /\ HoldsOwn /\ Undisturbed

LEMMA WorkMachine ==
  ASSUME NEW c \in Client, NEW h, NEW r, <<h, r>> \in Work[c]
  PROVE  r.machine \in MachinesOf(c)
<1>1. <<h, r>>[2] = r
  OBVIOUS
<1> QED BY <1>1 DEF MachinesOf

(***************************************************************************)
(* A terminal owns the route of every hostname it works on.                *)
(***************************************************************************)
LEMMA OwnRoute ==
  ASSUME Apart, Owned, NEW c \in Client, NEW h \in Routed(table), h \in HostsOf(c)
  PROVE  table[h].machine \in MachinesOf(c)
<1>1. PICK o \in Client : Owns(table, o, h)
  BY DEF Owned
<1>2. o = c
  BY <1>1 DEF Apart, Owns
<1> QED BY <1>1, <1>2 DEF Owns

(***************************************************************************)
(* With fewer routes, whoever saw none still sees none.                    *)
(***************************************************************************)
LEMMA FewerRoutes ==
  ASSUME Owned, Routed(table') \subseteq Routed(table),
         \A h \in Routed(table') : table'[h] = table[h]
  PROVE  /\ Owned'
         /\ \A r : OnPort(table, r) = {} => OnPort(table', r) = {}
         /\ \A a, m : OnMachine(table, a, m) = {} => OnMachine(table', a, m) = {}
<1>1. Owned'
  <2> SUFFICES ASSUME NEW h \in Routed(table') PROVE \E c \in Client : Owns(table', c, h)
    BY DEF Owned
  <2>1. PICK c \in Client : Owns(table, c, h)
    BY DEF Owned
  <2> QED BY <2>1 DEF Owns
<1>2. \A r : OnPort(table, r) = {} => OnPort(table', r) = {}
  BY DEF OnPort
<1>3. \A a, m : OnMachine(table, a, m) = {} => OnMachine(table', a, m) = {}
  BY DEF OnMachine
<1> QED BY <1>1, <1>2, <1>3

(***************************************************************************)
(* A stored route disturbs nobody else.                                    *)
(***************************************************************************)
LEMMA UpsertKeepsApart ==
  ASSUME Apart, ApartIInv, TypeIInv', NEW c \in Client, Upsert(c)
  PROVE  ApartIInv'
<1> DEFINE h == cmd[c].host
           r == cmd[c].route
<1>1. /\ h \in Host /\ r \in Requests /\ h \in HostsOf(c)
      /\ r.machine \in MachinesOf(c)
  BY WorkFacts, WorkMachine DEF Upsert, At, ApartIInv, TypeIInv, CommandsCarry, Requesting
<1>2. PICK stored \in Filled(table, h, r, Bound) :
        /\ Put(h, stored)
        /\ \/ cmd' = [cmd EXCEPT ![c].pc = "publish", ![c].route = stored]
           \/ End(c)
  BY DEF Upsert
<1>3. /\ table \in Table /\ cmd \in [Client -> Command]
  BY DEF ApartIInv, TypeIInv, UsherTypeOK, Command
<1>4. stored.machine = r.machine /\ stored \in Route
  BY <1>1, <1>2, <1>3, FilledIsRoute DEF SameMachine
<1>5. table'[h] = stored /\ \A x \in Host : x # h => table'[x] = table[x]
  BY <1>1, <1>2, StoreStep DEF ApartIInv
<1>6. /\ \A o \in Client : o # c => cmd'[o] = cmd[o]
      /\ cmd'[c].pc \in {"idle", "publish"}
      /\ cmd'[c].pc = "publish" => cmd'[c].host = h /\ cmd'[c].route = stored
  <2>1. CASE End(c)
    BY <2>1, EndStep, NoCommandType DEF ApartIInv
  <2>2. CASE cmd' = [cmd EXCEPT ![c].pc = "publish", ![c].route = stored]
    BY <1>3, <2>2 DEF Command
  <2> QED BY <1>2, <2>1, <2>2
<1>7. Owned'
  <2> SUFFICES ASSUME NEW x \in Routed(table') PROVE \E o \in Client : Owns(table', o, x)
    BY DEF Owned
  <2>1. x \in Host
    BY DEF Routed
  <2>2. CASE x = h
    BY <1>1, <1>4, <1>5, <2>2 DEF Owns
  <2>3. CASE x # h
    <3>1. x \in Routed(table) /\ table'[x] = table[x]
      BY <1>5, <2>1, <2>3 DEF Routed
    <3>2. PICK o \in Client : Owns(table, o, x)
      BY <3>1 DEF ApartIInv, Owned
    <3> QED BY <3>1, <3>2 DEF Owns
  <2> QED BY <2>2, <2>3
<1>8. HoldsOwn'
  BY <1>1, <1>4, <1>6 DEF ApartIInv, HoldsOwn, Holding
<1>9. Undisturbed'
  <2> SUFFICES ASSUME NEW o \in Client PROVE Sees(table', cmd'[o])
    BY DEF Undisturbed
  <2>1. CASE o = c
    BY <1>5, <1>6, <2>1 DEF Sees
  <2>2. CASE o # c
    <3> DEFINE k == cmd[o]
    <3>1. cmd'[o] = k /\ Sees(table, k)
      BY <1>6, <2>2 DEF ApartIInv, Undisturbed
    <3>2. ASSUME k.pc = "publish" PROVE table'[k.host] = k.route
      <4>1. k.host \in HostsOf(o) /\ k.host \in Host
        BY <1>3, <3>2 DEF ApartIInv, TypeIInv, CommandsCarry, Command
      <4>2. k.host # h
        BY <1>1, <2>2, <4>1 DEF Apart
      <4> QED BY <1>5, <3>1, <3>2, <4>1, <4>2 DEF Sees
    <3>3. ASSUME k.pc \in {"detach", "destroy"} PROVE k.route.machine # stored.machine
      BY <1>1, <1>4, <2>2, <3>3 DEF ApartIInv, HoldsOwn, Holding, Apart
    <3>4. \A x \in Routed(table') : x # h => x \in Routed(table) /\ table'[x] = table[x]
      BY <1>5 DEF Routed
    <3>5. ASSUME k.pc = "detach", ~k.used PROVE OnPort(table', k.route) = {}
      BY <1>5, <3>1, <3>3, <3>4, <3>5 DEF Sees, OnPort, SameMachine
    <3>6. ASSUME k.pc = "destroy", k.route.adapter # "static"
          PROVE  OnMachine(table', k.route.adapter, k.route.machine) = {}
      BY <1>5, <3>1, <3>3, <3>4, <3>6 DEF Sees, OnMachine
    <3> HIDE DEF k
    <3> QED BY <3>1, <3>2, <3>5, <3>6 DEF Sees
  <2> QED BY <2>1, <2>2
<1> QED BY <1>7, <1>8, <1>9 DEF Upsert, ApartIInv

(***************************************************************************)
(* Neither does any step that removes routes of its own hostnames at most. *)
(***************************************************************************)
LEMMA OwnStepKeepsApart ==
  ASSUME Apart, ApartIInv, TypeIInv', NEW c \in Client, UNCHANGED late,
         \A o \in Client : o # c => cmd'[o] = cmd[o],
         \A x \in Host : \/ table'[x] = table[x]
                         \/ table'[x] = NoRoute /\ x \in HostsOf(c),
         cmd'[c].pc \in Holding => cmd'[c].route.machine \in MachinesOf(c),
         Sees(table', cmd'[c])
  PROVE  ApartIInv'
<1>1. /\ Routed(table') \subseteq Routed(table)
      /\ \A h \in Routed(table') : table'[h] = table[h]
  BY DEF Routed
<1>2. /\ Owned'
      /\ \A r : OnPort(table, r) = {} => OnPort(table', r) = {}
      /\ \A a, m : OnMachine(table, a, m) = {} => OnMachine(table', a, m) = {}
  BY <1>1, FewerRoutes DEF ApartIInv
<1>3. HoldsOwn'
  BY DEF ApartIInv, HoldsOwn
<1>4. Undisturbed'
  <2> SUFFICES ASSUME NEW o \in Client, o # c PROVE Sees(table', cmd'[o])
    BY DEF Undisturbed
  <2>1. cmd'[o] = cmd[o] /\ Sees(table, cmd[o])
    BY DEF ApartIInv, Undisturbed
  <2>2. ASSUME cmd[o].pc = "publish" PROVE table'[cmd[o].host] = table[cmd[o].host]
    <3>1. cmd[o].host \in HostsOf(o) /\ cmd[o].host \in Host
      BY <2>2 DEF ApartIInv, TypeIInv, CommandsCarry, UsherTypeOK
    <3> QED BY <3>1 DEF Apart
  <2> QED BY <1>2, <2>1, <2>2 DEF Sees
<1> QED BY <1>2, <1>3, <1>4 DEF ApartIInv

LEMMA UpKeepsApart ==
  ASSUME Apart, ApartIInv, TypeIInv', NEW c \in Client,
         \/ \E h \in Host, r \in Requests : RunUp(c, h, r)
         \/ Attach(c) \/ UpsertRefused(c) \/ Publish(c) \/ PublishFails(c) \/ Rollback(c)
  PROVE  ApartIInv'
<1>0. TypeIInv /\ cmd \in [Client -> Command]
  BY DEF ApartIInv, TypeIInv, UsherTypeOK, Command
<1>1. CASE \E h \in Host, r \in Requests : RunUp(c, h, r)
  <2>1. PICK h \in Host, r \in Requests : RunUp(c, h, r)
    BY <1>1
  <2>2. cmd'[c].pc = "attach" /\ \A o \in Client : o # c => cmd'[o] = cmd[o]
    BY <1>0, <2>1, NoCommandType DEF RunUp, Command
  <2> QED BY <2>1, <2>2, OwnStepKeepsApart DEF RunUp, Holding, Sees
<1>2. CASE Attach(c)
  <2>1. CASE End(c)
    BY <1>0, <1>2, <2>1, EndStep, NoCommandType, OwnStepKeepsApart
       DEF Attach, Holding, Sees
  <2>2. CASE Goto(c, "upsert")
    <3>1. cmd'[c].pc = "upsert" /\ \A o \in Client : o # c => cmd'[o] = cmd[o]
      BY <1>0, <2>2 DEF Goto, Command
    <3> QED BY <1>2, <3>1, OwnStepKeepsApart DEF Attach, Holding, Sees
  <2> QED BY <1>2, <2>1, <2>2 DEF Attach
<1>3. CASE UpsertRefused(c) \/ Publish(c)
  BY <1>0, <1>3, EndStep, NoCommandType, OwnStepKeepsApart
     DEF UpsertRefused, Publish, Holding, Sees
<1>4. CASE PublishFails(c)
  <2>1. /\ cmd'[c].pc = "rollback" /\ cmd'[c].route = cmd[c].route
        /\ \A o \in Client : o # c => cmd'[o] = cmd[o]
    BY <1>0, <1>4 DEF PublishFails, Goto, Command
  <2>2. cmd[c].route.machine \in MachinesOf(c)
    BY <1>4 DEF PublishFails, At, ApartIInv, HoldsOwn, Holding
  <2> QED BY <1>4, <2>1, <2>2, OwnStepKeepsApart DEF PublishFails, Sees
<1>5. CASE Rollback(c)
  <2>1. cmd[c].host \in HostsOf(c)
    BY <1>0, <1>5 DEF Rollback, At, TypeIInv, CommandsCarry
  <2>2. \A x \in Host : \/ table'[x] = table[x]
                        \/ table'[x] = NoRoute /\ x \in HostsOf(c)
    BY <1>0, <1>5, <2>1, DropStep DEF Rollback
  <2> QED BY <1>0, <1>5, <2>2, EndStep, NoCommandType, OwnStepKeepsApart
          DEF Rollback, Holding, Sees
<1> QED BY <1>1, <1>2, <1>3, <1>4, <1>5

LEMMA DownKeepsApart ==
  ASSUME Apart, ApartIInv, TypeIInv', NEW c \in Client,
         \/ \E h \in Host, destroy \in BOOLEAN : RunDown(c, h, destroy)
         \/ Remove(c) \/ RemoveNothing(c) \/ List(c) \/ Detach(c) \/ DetachFails(c)
         \/ RemoveMachine(c) \/ NothingToDestroy(c) \/ Destroy(c) \/ DestroyFails(c)
         \/ Unreachable(c)
  PROVE  ApartIInv'
<1>0. TypeIInv /\ cmd \in [Client -> Command] /\ table \in Table
  BY DEF ApartIInv, TypeIInv, UsherTypeOK, Command
<1>1. CASE \E h \in Host, destroy \in BOOLEAN : RunDown(c, h, destroy)
  <2>1. PICK h \in Host, destroy \in BOOLEAN : RunDown(c, h, destroy)
    BY <1>1
  <2>2. cmd'[c].pc = "remove" /\ \A o \in Client : o # c => cmd'[o] = cmd[o]
    BY <1>0, <2>1, NoCommandType DEF RunDown, Command
  <2> QED BY <2>1, <2>2, OwnStepKeepsApart DEF RunDown, Holding, Sees
<1>2. CASE Remove(c)
  <2> DEFINE h == cmd[c].host
  <2>1. h \in Host /\ h \in HostsOf(c) /\ h \in Routed(table)
    BY <1>0, <1>2 DEF Remove, At, TypeIInv, CommandsCarry, Command, Routed
  <2>2. table[h].machine \in MachinesOf(c)
    BY <2>1, OwnRoute DEF ApartIInv
  <2>3. \A x \in Host : \/ table'[x] = table[x]
                        \/ table'[x] = NoRoute /\ x \in HostsOf(c)
    BY <1>0, <1>2, <2>1, DropStep DEF Remove
  <2>4. CASE End(c)
    BY <1>0, <1>2, <2>3, <2>4, EndStep, NoCommandType, OwnStepKeepsApart
       DEF Remove, Holding, Sees
  <2>5. CASE cmd' = [cmd EXCEPT ![c].pc = "list", ![c].route = table[h]]
    <3>1. /\ cmd'[c].pc = "list" /\ cmd'[c].route = table[h]
          /\ \A o \in Client : o # c => cmd'[o] = cmd[o]
      BY <1>0, <2>5 DEF Command
    <3> HIDE DEF h
    <3> QED BY <1>2, <2>2, <2>3, <3>1, OwnStepKeepsApart DEF Remove, Sees
  <2> QED BY <1>2, <2>4, <2>5 DEF Remove
<1>3. CASE \/ RemoveNothing(c) \/ DetachFails(c) \/ NothingToDestroy(c) \/ Destroy(c)
           \/ DestroyFails(c) \/ Unreachable(c)
  <2>1. End(c) /\ UNCHANGED <<table, late>>
    BY <1>3 DEF RemoveNothing, DetachFails, NothingToDestroy, Destroy, DestroyFails,
                Unreachable
  <2> QED BY <1>0, <2>1, EndStep, NoCommandType, OwnStepKeepsApart DEF Holding, Sees
<1>4. CASE List(c)
  <2>1. /\ cmd'[c].pc = "detach" /\ cmd'[c].route = cmd[c].route
        /\ cmd'[c].used = StillRouted(cmd[c].host, cmd[c].route)
        /\ \A o \in Client : o # c => cmd'[o] = cmd[o]
    BY <1>0, <1>4 DEF List, Command
  <2>2. cmd[c].route.machine \in MachinesOf(c)
    BY <1>4 DEF List, At, ApartIInv, HoldsOwn, Holding
  <2>3. ~StillRouted(cmd[c].host, cmd[c].route) => OnPort(table, cmd[c].route) = {}
    BY DEF StillRouted, OnPort
  <2>4. table' = table /\ late' = late
    BY <1>4 DEF List
  <2>5. Sees(table', cmd'[c])
    BY <2>1, <2>3, <2>4 DEF Sees
  <2> QED BY <2>1, <2>2, <2>4, <2>5, OwnStepKeepsApart
<1>5. CASE Detach(c)
  <2>1. cmd[c].route.machine \in MachinesOf(c)
    BY <1>5 DEF Detach, At, ApartIInv, HoldsOwn, Holding
  <2>2. PICK label \in {"idle", "removeMachine", "destroy"} :
          /\ label = "idle" \/ cmd'[c].route = cmd[c].route
          /\ cmd'[c].pc = label
          /\ label = "destroy" => cmd[c].route.adapter = "static"
          /\ \A o \in Client : o # c => cmd'[o] = cmd[o]
    <3>1. CASE End(c)
      BY <1>0, <3>1, EndStep, NoCommandType
    <3>2. ASSUME NEW label \in {"removeMachine", "destroy"}, Goto(c, label)
          PROVE  /\ cmd'[c].route = cmd[c].route /\ cmd'[c].pc = label
                 /\ \A o \in Client : o # c => cmd'[o] = cmd[o]
      BY <1>0, <3>2 DEF Goto, Command
    <3>3. \/ End(c)
          \/ Goto(c, "removeMachine")
          \/ Goto(c, "destroy") /\ cmd[c].route.adapter = "static"
      BY <1>5 DEF Detach
    <3> QED BY <3>1, <3>2, <3>3
  <2>3. Sees(table', cmd'[c])
    BY <2>2 DEF Sees
  <2> QED BY <1>5, <2>1, <2>2, <2>3, OwnStepKeepsApart DEF Detach, Holding
<1>6. CASE RemoveMachine(c)
  <2> DEFINE r == cmd[c].route
             gone == OnMachine(table, r.adapter, r.machine)
  <2>1. r.machine \in MachinesOf(c)
    BY <1>6 DEF RemoveMachine, At, ApartIInv, HoldsOwn, Holding
  <2>2. ASSUME NEW x \in gone PROVE x \in HostsOf(c)
    <3>1. x \in Routed(table) /\ table[x].machine = r.machine
      BY DEF OnMachine
    <3>2. PICK o \in Client : Owns(table, o, x)
      BY <3>1 DEF ApartIInv, Owned
    <3>3. o = c
      BY <2>1, <3>1, <3>2 DEF Owns, Apart
    <3> QED BY <3>2, <3>3 DEF Owns
  <2>3. Drop(gone) /\ UNCHANGED late
    BY <1>6 DEF RemoveMachine
  <2> HIDE DEF gone
  <2>4. /\ \A x \in Host : \/ table'[x] = table[x]
                           \/ table'[x] = NoRoute /\ x \in HostsOf(c)
        /\ \A x \in Routed(table') : x \in Routed(table) \ gone /\ table'[x] = table[x]
    BY <1>0, <2>2, <2>3, DropStep DEF Routed
  <2>5. OnMachine(table', r.adapter, r.machine) = {}
    BY <2>4 DEF OnMachine, gone
  <2>6. /\ cmd'[c].pc \in {"idle", "destroy"}
        /\ cmd'[c].pc # "idle" => cmd'[c].route = r
        /\ \A o \in Client : o # c => cmd'[o] = cmd[o]
    BY <1>0, <1>6, NoCommandType DEF RemoveMachine, End, Goto, Command
  <2>7. Sees(table', cmd'[c])
    BY <2>5, <2>6 DEF Sees
  <2> QED BY <2>1, <2>3, <2>4, <2>6, <2>7, OwnStepKeepsApart DEF Holding
<1> QED BY <1>1, <1>2, <1>3, <1>4, <1>5, <1>6

LEMMA ApartInvariant == Apart => (Spec => []ApartIInv)
<1> SUFFICES ASSUME Apart PROVE Spec => []ApartIInv
  OBVIOUS
<1>1. Init => ApartIInv
  <2> SUFFICES ASSUME Init, TypeIInv PROVE ApartIInv
    BY InitTypes
  <2>1. Routed(table) = {}
    BY DEF Init, EmptyTable, Routed
  <2>2. \A c \in Client : cmd[c].pc = "idle"
    BY NoCommandType DEF Init
  <2> QED BY <2>1, <2>2 DEF Init, ApartIInv, Owned, HoldsOwn, Holding, Undisturbed, Sees
<1>2. ASSUME ApartIInv, [Next]_vars PROVE ApartIInv'
  <2>1. TypeIInv'
    BY <1>2, TypePreserved DEF ApartIInv
  <2>2. ASSUME NEW c \in Client, Started(c) \/ Running(c) \/ Answered(c) PROVE ApartIInv'
    BY <1>2, <2>1, <2>2, UpsertKeepsApart, UpKeepsApart, DownKeepsApart
       DEF Started, Running, Answered
  <2>3. ASSUME NEW c \in Client PROVE ~TimesOut(c)
    BY DEF TimesOut, Apart
  <2>4. ~ServeLate
    BY <1>2 DEF ServeLate, ApartIInv
  <2>5. CASE UNCHANGED <<table, cmd, late>>
    BY <1>2, <2>1, <2>5 DEF ApartIInv, Owned, Owns, HoldsOwn, Undisturbed
  <2> QED BY <1>2, <2>2, <2>3, <2>4, <2>5 DEF Next, Environment, vars
<1> QED BY <1>1, <1>2, PTL DEF Spec

(***************************************************************************)
(* A terminal leaves "detach" by its own step.                             *)
(***************************************************************************)
LEMMA DetachOnly ==
  ASSUME TypeIInv, "timeout" \notin Faults, [Next]_vars, NEW c \in Client,
         At(c, "detach"), cmd'[c].pc # "detach"
  PROVE  Detach(c) \/ DetachFails(c)
<1>1. cmd \in [Client -> Command] /\ cmd'[c] # cmd[c]
  BY DEF At, TypeIInv, UsherTypeOK, Command
<1>2. PICK o \in Client : Started(o) \/ Running(o) \/ Answered(o) \/ TimesOut(o)
  BY <1>1 DEF Next, ServeLate, Environment, vars
<1>3. ASSUME o # c PROVE FALSE
  <2>1. \/ End(o)
        \/ \E new : cmd' = [cmd EXCEPT ![o] = new]
    BY <1>2 DEF Started, Running, Answered, TimesOut, RunUp, RunDown, Attach, Publish,
                PublishFails, NothingToDestroy, Detach, DetachFails, Destroy,
                DestroyFails, Upsert, UpsertRefused, Rollback, Remove, RemoveNothing,
                List, RemoveMachine, Unreachable, Goto
  <2> QED BY <1>1, <1>3, <2>1 DEF End
<1> QED BY <1>2, <1>3 DEF At, Started, Running, Answered, TimesOut, RunUp, RunDown,
             Attach, Publish, PublishFails, NothingToDestroy, Destroy, DestroyFails,
             Upsert, UpsertRefused, Rollback, Remove, RemoveNothing, List,
             RemoveMachine, Unreachable, Waiting

(***************************************************************************)
(* What working routes of two hostnames on one loopback port have in common *)
(* is the sandbox port that is published there.                            *)
(***************************************************************************)
LEMMA DetachSpares ==
  ASSUME TypeIInv, Undisturbed, NEW c \in Client, Detach(c),
         NEW h \in Host, Works(h)
  PROVE  Works(h)'
<1> DEFINE r == cmd[c].route
<1>1. UNCHANGED <<table, alive>>
  BY DEF Detach
<1>2. SUFFICES ASSUME table[h].adapter = "sbx"
               PROVE  port'[table[h].hostPort] = Published(table[h])
  BY <1>1 DEF Works, Exists
<1>3. port[table[h].hostPort] = Published(table[h])
  BY <1>2 DEF Works
<1>4. CASE ~Unpublishes(c)
  BY <1>3, <1>4 DEF Detach
<1>5. CASE Unpublishes(c)
  <2>1. r.adapter = "sbx" /\ port[r.hostPort] = Published(r)
    BY <1>5 DEF Detach, Unpublishes, Unpublishable
  <2>2. port' = [port EXCEPT ![r.hostPort] = Free]
    BY <1>5 DEF Detach
  <2>3. OnPort(table, r) = {}
    BY <1>5 DEF Undisturbed, Sees, Unpublishes, Detach, At
  <2>4. ~SameMachine(table[h], r)
    BY <2>3 DEF OnPort, Works, Routed
  <2>5. table[h].hostPort # r.hostPort
    BY <1>2, <1>3, <2>1, <2>4 DEF Published, SameMachine
  <2>6. port \in [LoopbackPort -> {Free, Other} \cup (Machine \X MachinePort)]
    BY DEF TypeIInv, UsherTypeOK
  <2>7. port'[table[h].hostPort] = port[table[h].hostPort]
    BY <2>2, <2>5, <2>6
  <2> QED BY <1>3, <2>7
<1> QED BY <1>4, <1>5

(***************************************************************************)
(* No unpublish breaks a route that worked: what List answered is still so *)
(* when the adapter acts on it.                                            *)
(***************************************************************************)
THEOREM DetachSparesOthers == Apart => (Spec => DetachKeepsOthers)
<1> SUFFICES ASSUME Apart PROVE Spec => DetachKeepsOthers
  OBVIOUS
<1>1. ASSUME ApartIInv, [Next]_vars, NEW c \in Client, At(c, "detach"),
             cmd'[c].pc # "detach", NEW h \in Host, Works(h)
      PROVE  Works(h)'
  <2>1. Detach(c) \/ DetachFails(c)
    BY <1>1, DetachOnly DEF ApartIInv, Apart
  <2>2. DetachFails(c) => Works(h)'
    BY <1>1 DEF DetachFails, Works, Exists
  <2> QED BY <1>1, <2>1, <2>2, DetachSpares DEF ApartIInv
<1>2. ApartIInv /\ [Next]_vars =>
        [\A c \in Client : At(c, "detach") /\ cmd'[c].pc # "detach"
           => \A h \in Host : Works(h) => Works(h)']_vars
  BY <1>1
<1> QED BY <1>2, ApartInvariant, PTL DEF Spec, DetachKeepsOthers

(***************************************************************************)
(* A machine is only destroyed when no hostname is left on it.             *)
(***************************************************************************)
THEOREM DestroySparesNobody == Apart => (Spec => DestroyLeavesNothing)
<1> SUFFICES ASSUME Apart PROVE Spec => DestroyLeavesNothing
  OBVIOUS
<1>1. ASSUME ApartIInv, [Next]_vars, NEW m \in alive \ alive'
      PROVE  OnMachine(table', m[1], m[2]) = {}
  <2>1. PICK c \in Client : Destroy(c)
    BY <1>1 DEF Next, Started, Running, Answered, TimesOut, ServeLate, Environment, vars,
                RunUp, RunDown, Attach, Publish, PublishFails, NothingToDestroy, Detach,
                DetachFails, DestroyFails, Upsert, UpsertRefused, Rollback, Remove,
                RemoveNothing, List, RemoveMachine, Unreachable
  <2> DEFINE r == cmd[c].route
  <2>2. m = <<r.adapter, r.machine>> /\ table' = table
    BY <1>1, <2>1 DEF Destroy, MachineOf
  <2>3. OnMachine(table, r.adapter, r.machine) = {}
    BY <1>1, <2>1 DEF Destroy, At, ApartIInv, Undisturbed, Sees
  <2> QED BY <2>2, <2>3
<1>2. ApartIInv /\ [Next]_vars =>
        [\A m \in alive \ alive' : OnMachine(table', m[1], m[2]) = {}]_vars
  BY <1>1
<1> QED BY <1>2, ApartInvariant, PTL DEF Spec, DestroyLeavesNothing

-----------------------------------------------------------------------------
(***************************************************************************)
(* Every stored port is one of the loopback ports.                         *)
(***************************************************************************)
InRange == \A h \in Routed(table) : table[h].hostPort \in LoopbackPort \cup {0}

LEMMA AllocInRange ==
  ASSUME TypeIInv, InRange, NEW h \in Host, NEW r,
         NEW p \in Alloc(table, h, r, Bound)
  PROVE  p \in LoopbackPort
<1>1. CASE p \in SharedPorts(table, r) \/ p \in OwnPort(table, h)
  <2>1. PICK x \in Routed(table) : p = table[x].hostPort /\ p # 0
    BY <1>1 DEF SharedPorts, OwnPort, Routed
  <2> QED BY <2>1 DEF InRange
<1>2. CASE p \in FreePorts(table, h, Bound)
  <2>1. PortMin \in Int /\ PortMax \in Int
    BY PortAssumption, PortFacts
  <2>2. Start(h) \in PortMin..PortMax /\ p \in Start(h)..(PortMax - 1)
    BY <1>2, StartInRange DEF FreePorts
  <2>3. p \in PortMin..PortMax
    BY <2>1, <2>2
  <2> QED BY <2>3 DEF LoopbackPort
<1> QED BY <1>1, <1>2 DEF Alloc

LEMMA FilledInRange ==
  ASSUME TypeIInv, InRange, NEW h \in Host, NEW r \in Requests,
         NEW stored \in Filled(table, h, r, Bound)
  PROVE  stored.hostPort \in LoopbackPort \cup {0}
<1>1. CASE r.adapter = "sbx"
  BY <1>1, AllocInRange, FilledIsRoute DEF TypeIInv, UsherTypeOK
<1>2. CASE r.adapter # "sbx"
  <2>1. stored.hostPort = r.hostPort
    BY <1>2, FilledIsRoute DEF TypeIInv, UsherTypeOK
  <2> QED BY <2>1 DEF LoopbackPort
<1> QED BY <1>1, <1>2

(***************************************************************************)
(* Each step either stores one route, and its terminal goes on to publish  *)
(* or has an error, or only takes routes away.                             *)
(***************************************************************************)
LEMMA TableSteps ==
  ASSUME TypeIInv, late = {}, [Next]_vars
  PROVE  \/ \E c \in Client : Upsert(c)
         \/ \A x \in Host : table'[x] = table[x] \/ table'[x] = NoRoute
<1> SUFFICES ASSUME \A c \in Client : ~Upsert(c)
             PROVE  \A x \in Host : table'[x] = table[x] \/ table'[x] = NoRoute
  OBVIOUS
<1>1. table' = table \/ \E hosts : Drop(hosts)
  BY DEF Next, Started, Running, Answered, TimesOut, ServeLate, Environment, vars,
         RunUp, RunDown, Attach, Publish, PublishFails, NothingToDestroy, Detach,
         DetachFails, Destroy, DestroyFails, UpsertRefused, Rollback, Remove,
         RemoveNothing, List, RemoveMachine, Unreachable
<1> QED BY <1>1, DropStep

LEMMA UpsertStores ==
  ASSUME TypeIInv, NEW c \in Client, Upsert(c)
  PROVE  /\ cmd[c].host \in Host /\ cmd[c].route \in Requests
         /\ <<cmd[c].host, cmd[c].route>> \in Work[c]
         /\ \E stored \in Filled(table, cmd[c].host, cmd[c].route, Bound) :
              /\ table'[cmd[c].host] = stored
              /\ stored \in Route
              /\ \/ /\ cmd'[c].pc = "publish" /\ cmd'[c].host = cmd[c].host
                    /\ cmd'[c].route = stored
                 \/ "apply" \in Faults
         /\ \A x \in Host : x # cmd[c].host => table'[x] = table[x]
         /\ \A o \in Client : o # c => cmd'[o] = cmd[o]
         /\ UNCHANGED <<port, alive>>
<1>1. /\ cmd[c].host \in Host /\ cmd[c].route \in Requests
      /\ <<cmd[c].host, cmd[c].route>> \in Work[c]
  BY WorkFacts DEF Upsert, At, TypeIInv, CommandsCarry, Requesting
<1>2. cmd \in [Client -> Command]
  BY DEF TypeIInv, UsherTypeOK, Command
<1>3. PICK stored \in Filled(table, cmd[c].host, cmd[c].route, Bound) :
        /\ Put(cmd[c].host, stored)
        /\ \/ cmd' = [cmd EXCEPT ![c].pc = "publish", ![c].route = stored]
           \/ "apply" \in Faults /\ End(c)
  BY DEF Upsert
<1>4. /\ table'[cmd[c].host] = stored /\ stored \in Route
      /\ \A x \in Host : x # cmd[c].host => table'[x] = table[x]
  BY <1>1, <1>3, StoreStep
<1>5. /\ \A o \in Client : o # c => cmd'[o] = cmd[o]
      /\ \/ /\ cmd'[c].pc = "publish" /\ cmd'[c].host = cmd[c].host
            /\ cmd'[c].route = stored
         \/ "apply" \in Faults
  <2>1. CASE "apply" \in Faults /\ End(c)
    BY <2>1, EndStep
  <2>2. CASE cmd' = [cmd EXCEPT ![c].pc = "publish", ![c].route = stored]
    BY <1>2, <2>2 DEF Command
  <2> QED BY <1>3, <2>1, <2>2
<1> QED BY <1>1, <1>3, <1>4, <1>5 DEF Upsert

LEMMA InRangePreserved ==
  ASSUME TypeIInv, late = {}, InRange, [Next]_vars PROVE InRange'
<1>1. ASSUME NEW c \in Client, Upsert(c) PROVE InRange'
  <2>1. cmd[c].host \in Host /\ cmd[c].route \in Requests
    BY <1>1, UpsertStores
  <2>2. PICK stored \in Filled(table, cmd[c].host, cmd[c].route, Bound) :
          table'[cmd[c].host] = stored
    BY <1>1, UpsertStores
  <2>3. stored.hostPort \in LoopbackPort \cup {0}
    BY <2>1, FilledInRange
  <2>4. \A x \in Host : x # cmd[c].host => table'[x] = table[x]
    BY <1>1, UpsertStores
  <2> QED BY <2>2, <2>3, <2>4 DEF InRange, Routed, LoopbackPort
<1>2. CASE \A x \in Host : table'[x] = table[x] \/ table'[x] = NoRoute
  BY <1>2 DEF InRange, Routed
<1> QED BY <1>1, <1>2, TableSteps

-----------------------------------------------------------------------------
(***************************************************************************)
(* A sandbox route works, or the command that stored it is still about to  *)
(* publish its port or to take it back.                                    *)
(***************************************************************************)
Promised(h) ==
  \E c \in Client : cmd[c].host = h /\ cmd[c].pc \in {"publish", "rollback"}

Working == \A h \in Routed(table) : Works(h) \/ Promised(h)

(***************************************************************************)
(* Beside that: nothing fails but commands in the sandboxes.               *)
(***************************************************************************)
SandboxFaults == Faults \subseteq {"sbx"}

WorkingIInv == ApartIInv /\ InRange /\ Working

LEMMA PortTypes ==
  ASSUME TypeIInv, InRange, NEW h \in Routed(table), table[h].adapter = "sbx"
  PROVE  table[h].hostPort \in LoopbackPort
<1>1. table[h] \in Route
  BY DEF TypeIInv, UsherTypeOK, Table, Routed
<1>2. table[h].hostPort # 0
  BY <1>1, RouteFacts, PortFacts
<1> QED BY <1>2 DEF InRange

LEMMA UpsertWorking ==
  ASSUME SandboxFaults, WorkingIInv, NEW c \in Client, Upsert(c)
  PROVE  Working'
<1>1. TypeIInv /\ Working /\ cmd[c].pc = "upsert"
  BY DEF WorkingIInv, ApartIInv, Upsert, At
<1>2. cmd'[c].pc = "publish" /\ cmd'[c].host = cmd[c].host
  BY <1>1, UpsertStores DEF SandboxFaults
<1>3. SUFFICES ASSUME NEW h \in Routed(table')
               PROVE  Works(h)' \/ Promised(h)'
  BY DEF Working
<1>4. CASE h = cmd[c].host
  BY <1>2, <1>4 DEF Promised
<1>5. CASE h # cmd[c].host
  <2>1. /\ h \in Routed(table) /\ table'[h] = table[h]
        /\ UNCHANGED <<port, alive>>
        /\ \A o \in Client : o # c => cmd'[o] = cmd[o]
    BY <1>1, <1>3, <1>5, UpsertStores DEF Routed
  <2>2. CASE Works(h)
    BY <2>1, <2>2 DEF Works, Exists
  <2>3. CASE Promised(h)
    BY <1>1, <2>1, <2>3 DEF Promised
  <2> QED BY <1>1, <2>1, <2>2, <2>3 DEF Working
<1> QED BY <1>4, <1>5

LEMMA OthersUnchanged ==
  ASSUME TypeIInv, NEW c \in Client, NEW o \in Client, o # c,
         Started(c) \/ Running(c) \/ Answered(c)
  PROVE  cmd'[o] = cmd[o]
<1>1. cmd \in [Client -> Command]
  BY DEF TypeIInv, UsherTypeOK, Command
<1>2. \/ End(c)
      \/ \E new : cmd' = [cmd EXCEPT ![c] = new]
  BY DEF Started, Running, Answered, RunUp, RunDown, Attach, Publish, PublishFails,
         NothingToDestroy, Detach, DetachFails, Destroy, DestroyFails, Upsert,
         UpsertRefused, Rollback, Remove, RemoveNothing, List, RemoveMachine,
         Unreachable, Goto
<1> QED BY <1>1, <1>2 DEF End

(***************************************************************************)
(* Whoever is not about to publish or roll back has promised nothing.      *)
(***************************************************************************)
LEMMA PromisedStays ==
  ASSUME TypeIInv, NEW c \in Client, Started(c) \/ Running(c) \/ Answered(c),
         NEW h, Promised(h),
         \/ cmd[c].pc \notin {"publish", "rollback"}
         \/ cmd[c].host # h
         \/ cmd'[c].pc = "rollback" /\ cmd'[c].host = cmd[c].host
  PROVE  Promised(h)'
<1>1. PICK o \in Client : cmd[o].host = h /\ cmd[o].pc \in {"publish", "rollback"}
  BY DEF Promised
<1>2. CASE o # c
  BY <1>1, <1>2, OthersUnchanged DEF Promised
<1>3. CASE o = c
  BY <1>1, <1>3 DEF Promised
<1> QED BY <1>2, <1>3

(***************************************************************************)
(* Publishing takes a port that is free, or publishes again what is there. *)
(***************************************************************************)
LEMMA PublishWorks ==
  ASSUME WorkingIInv, NEW c \in Client, Publish(c),
         NEW h \in Routed(table), Works(h) \/ cmd[c].host = h
  PROVE  Works(h)'
<1> DEFINE r == cmd[c].route
<1>1. /\ UNCHANGED <<table, alive>> /\ table[h] # NoRoute /\ TypeIInv
      /\ port \in [LoopbackPort -> {Free, Other} \cup (Machine \X MachinePort)]
  BY DEF Publish, Routed, WorkingIInv, ApartIInv, TypeIInv, UsherTypeOK
<1>2. SUFFICES ASSUME table[h].adapter = "sbx"
               PROVE  /\ Exists(table[h])
                      /\ port'[table[h].hostPort] = Published(table[h])
  BY <1>1 DEF Works, Exists
<1>3. table[h].hostPort \in LoopbackPort
  BY <1>1, <1>2, PortTypes DEF WorkingIInv
<1>4. CASE r.adapter # "sbx"
  <2>1. port' = port
    BY <1>4 DEF Publish
  <2>2. cmd[c].host = h => table[h] = r
    BY DEF Publish, At, WorkingIInv, ApartIInv, Undisturbed, Sees
  <2> QED BY <1>2, <1>4, <2>1, <2>2 DEF Works
<1>5. CASE r.adapter = "sbx"
  <2>1. Publishable(r) /\ port' = [port EXCEPT ![r.hostPort] = Published(r)]
    BY <1>5 DEF Publish
  <2>2. CASE cmd[c].host = h
    <3>1. table[h] = r
      BY <2>2 DEF Publish, At, WorkingIInv, ApartIInv, Undisturbed, Sees
    <3> QED BY <1>1, <1>3, <2>1, <3>1 DEF Publishable
  <2>3. CASE Works(h)
    <3>1. Exists(table[h]) /\ port[table[h].hostPort] = Published(table[h])
      BY <1>2, <2>3 DEF Works
    <3>2. table[h] \in Route
      BY <1>1 DEF TypeIInv, UsherTypeOK, Table, Routed
    <3>3. Published(table[h]) \in Machine \X MachinePort
      BY <3>2 DEF Published, Route, LoopbackRoute, DirectRoute
    <3>4. Published(table[h]) # Free
      BY <3>3, PortStateAssumption
    <3>5. port'[table[h].hostPort] = port[table[h].hostPort]
      <4>1. CASE table[h].hostPort # r.hostPort
        BY <1>1, <2>1, <4>1
      <4>2. CASE table[h].hostPort = r.hostPort
        BY <1>1, <1>3, <2>1, <3>1, <3>4, <4>2 DEF Publishable
      <4> QED BY <4>1, <4>2
    <3> QED BY <3>1, <3>5
  <2> QED BY <2>2, <2>3
<1> QED BY <1>4, <1>5

(***************************************************************************)
(* A machine that is destroyed takes no route's port along.                *)
(***************************************************************************)
LEMMA DestroySpares ==
  ASSUME WorkingIInv, NEW c \in Client, Destroy(c), NEW h \in Routed(table), Works(h)
  PROVE  Works(h)'
<1> DEFINE r == cmd[c].route
<1>1. UNCHANGED table /\ r.adapter # "static" /\ TypeIInv /\ table[h] # NoRoute
  BY DEF Destroy, WorkingIInv, ApartIInv, Routed
<1>2. OnMachine(table, r.adapter, r.machine) = {}
  BY <1>1 DEF Destroy, At, WorkingIInv, ApartIInv, Undisturbed, Sees
<1>3. ~(table[h].adapter = r.adapter /\ table[h].machine = r.machine)
  BY <1>2 DEF OnMachine
<1>4. SUFFICES ASSUME table[h].adapter = "sbx"
               PROVE  /\ Exists(table[h])'
                      /\ port'[table[h].hostPort] = Published(table[h])
  BY <1>1 DEF Works
<1>5. Exists(table[h]) /\ port[table[h].hostPort] = Published(table[h])
  BY <1>4 DEF Works
<1>6. Exists(table[h])'
  BY <1>1, <1>3, <1>4, <1>5 DEF Destroy, Exists, MachineOf
<1>7. table[h].hostPort \in LoopbackPort
  BY <1>1, <1>4, PortTypes DEF WorkingIInv
<1>8. ~(r.adapter = "sbx" /\ port[table[h].hostPort] \in {r.machine} \X MachinePort)
  BY <1>3, <1>4, <1>5 DEF Published
<1>9. port'[table[h].hostPort] = port[table[h].hostPort]
  BY <1>7, <1>8 DEF Destroy
<1> QED BY <1>5, <1>6, <1>9

LEMMA EnvironmentSpares ==
  ASSUME WorkingIInv, Environment, NEW h \in Routed(table), Works(h)
  PROVE  Works(h)'
<1>1. /\ table' = table /\ alive \subseteq alive' /\ TypeIInv /\ table[h] # NoRoute
      /\ port \in [LoopbackPort -> {Free, Other} \cup (Machine \X MachinePort)]
  BY DEF Environment, WorkingIInv, ApartIInv, TypeIInv, UsherTypeOK, Routed
<1>2. SUFFICES ASSUME table[h].adapter = "sbx"
               PROVE  port'[table[h].hostPort] = port[table[h].hostPort]
  BY <1>1 DEF Works, Exists
<1>3. port[table[h].hostPort] = Published(table[h]) /\ table[h] \in Route
  BY <1>1, <1>2 DEF Works, TypeIInv, UsherTypeOK, Table, Routed
<1>4. Published(table[h]) \in Machine \X MachinePort
  BY <1>3 DEF Published, Route, LoopbackRoute, DirectRoute
<1>5. port[table[h].hostPort] \notin {Free, Other}
  BY <1>3, <1>4, PortStateAssumption
<1>6. CASE port' = port
  BY <1>6
<1>7. ASSUME NEW p \in LoopbackPort, port[p] \in {Free, Other},
             NEW owner, port' = [port EXCEPT ![p] = owner]
      PROVE  port'[table[h].hostPort] = port[table[h].hostPort]
  BY <1>1, <1>5, <1>7
<1> QED BY <1>6, <1>7 DEF Environment

LEMMA WorkingPreserved ==
  ASSUME SandboxFaults, Apart, WorkingIInv, [Next]_vars PROVE Working'
<1>0. TypeIInv /\ late = {} /\ Working /\ InRange /\ Undisturbed
  BY DEF WorkingIInv, ApartIInv
<1>1. CASE \E c \in Client : Upsert(c)
  BY <1>1, UpsertWorking
<1>2. CASE \A x \in Host : table'[x] = table[x] \/ table'[x] = NoRoute
  <2>1. SUFFICES ASSUME NEW h \in Routed(table')
                 PROVE  Works(h)' \/ Promised(h)'
    BY DEF Working
  <2>2. h \in Routed(table) /\ table'[h] = table[h] /\ h \in Host /\ table[h] # NoRoute
    BY <1>2 DEF Routed
  <2>3. Works(h) \/ Promised(h)
    BY <1>0, <2>2 DEF Working
  <2>4. ASSUME Works(h), UNCHANGED <<port, alive>> PROVE Works(h)'
    BY <2>2, <2>4 DEF Works, Exists
  <2>5. ASSUME NEW c \in Client, Started(c) \/ Running(c) \/ Answered(c)
        PROVE  Works(h)' \/ Promised(h)'
    <3>1. CASE Publish(c)
      BY <1>0, <2>2, <2>3, <2>5, <3>1, PublishWorks, PromisedStays
    <3>2. CASE PublishFails(c)
      <4>1. cmd'[c].pc = "rollback" /\ cmd'[c].host = cmd[c].host
        BY <1>0, <3>2 DEF PublishFails, Goto, TypeIInv, UsherTypeOK
      <4> QED BY <1>0, <2>3, <2>4, <2>5, <3>2, <4>1, PromisedStays DEF PublishFails
    <3>3. CASE Rollback(c)
      <4>1. cmd[c].host # h
        BY <1>0, <2>1, <3>3, DropStep DEF Rollback, Routed
      <4> QED BY <1>0, <2>3, <2>4, <2>5, <3>3, <4>1, PromisedStays DEF Rollback
    <3>4. CASE Detach(c)
      BY <1>0, <2>2, <2>3, <2>5, <3>4, DetachSpares, PromisedStays DEF Detach, At
    <3>5. CASE Destroy(c)
      BY <1>0, <2>2, <2>3, <2>5, <3>5, DestroySpares, PromisedStays DEF Destroy, At
    <3>6. CASE /\ UNCHANGED <<port, alive>>
               /\ cmd[c].pc \notin {"publish", "rollback"}
      BY <1>0, <2>3, <2>4, <2>5, <3>6, PromisedStays
    <3>7. CASE Upsert(c)
      BY <1>1, <3>7, <2>1 DEF Working
    <3>8. ~Unreachable(c)
      BY DEF Unreachable, SandboxFaults
    <3>9. CASE \/ Started(c) \/ Attach(c) \/ UpsertRefused(c) \/ Remove(c)
               \/ RemoveNothing(c) \/ List(c) \/ DetachFails(c) \/ RemoveMachine(c)
               \/ NothingToDestroy(c) \/ DestroyFails(c)
      BY <3>6, <3>9 DEF Started, RunUp, RunDown, Attach, UpsertRefused, Remove,
              RemoveNothing, List, DetachFails, RemoveMachine, NothingToDestroy,
              DestroyFails, At
    <3> QED BY <2>5, <3>1, <3>2, <3>3, <3>4, <3>5, <3>7, <3>8, <3>9
            DEF Running, Answered
  <2>6. CASE Environment
    BY <2>2, <2>3, <2>6, EnvironmentSpares DEF Environment, Promised
  <2>7. CASE UNCHANGED vars
    BY <2>3, <2>4, <2>7 DEF vars, Promised
  <2>8. ASSUME NEW c \in Client PROVE ~TimesOut(c)
    BY DEF TimesOut, Apart
  <2>9. ~ServeLate
    BY <1>0 DEF ServeLate
  <2> QED BY <2>5, <2>6, <2>7, <2>8, <2>9 DEF Next
<1> QED BY <1>0, <1>1, <1>2, TableSteps

(***************************************************************************)
(* With terminals apart, and if only commands in the sandboxes fail, no    *)
(* sandbox route is left without its port when all commands have ended     *)
(* (up.go:69).                                                             *)
(***************************************************************************)
THEOREM RoutesReachable == Apart /\ SandboxFaults => (Spec => []Reachable)
<1> SUFFICES ASSUME Apart, SandboxFaults PROVE Spec => []Reachable
  OBVIOUS
<1>1. Init => InRange /\ Working
  BY DEF Init, EmptyTable, InRange, Working, Routed
<1>2. ApartIInv /\ InRange /\ Working /\ [Next]_vars => (InRange /\ Working)'
  BY InRangePreserved, WorkingPreserved DEF WorkingIInv, ApartIInv
<1>3. InRange /\ Working => Reachable
  BY DEF Working, Reachable, Quiet, Promised, At
<1>4. Spec => [](InRange /\ Working)
  BY <1>1, <1>2, ApartInvariant, PTL DEF Spec
<1> QED BY <1>3, <1>4, PTL

-----------------------------------------------------------------------------
(***************************************************************************)
(* Ports: no terminal's route has a port that another terminal's route has, *)
(* or another one's sandbox holds.  The daemon stores the host port a      *)
(* container brings along whatever the table holds, and a hostname that is *)
(* moved from the container to a sandbox keeps it (route.go:216-218), so the *)
(* containers' ports must be out of the range and no two terminals' the same. *)
(***************************************************************************)
ContainerPorts(c) == {w[2].hostPort : w \in Work[c]} \ {0}
PortsOf(c) == (PortMin..PortMax) \cup ContainerPorts(c)

ContainersElsewhere ==
  \A c \in Client :
    /\ ContainerPorts(c) \cap (PortMin..PortMax) = {}
    /\ \A o \in Client : o # c => ContainerPorts(c) \cap ContainerPorts(o) = {}

PortsFrom ==
  \A c \in Client : \A x \in Routed(table) :
    Owns(table, c, x) => table[x].hostPort \in {0} \cup PortsOf(c)

HeldFrom ==
  \A c \in Client : \A p \in LoopbackPort :
    port[p] \in MachinesOf(c) \X MachinePort => p \in PortsOf(c)

PortsDiffer ==
  \A c, o \in Client : \A x, y \in Routed(table) :
    c # o /\ Owns(table, c, x) /\ Owns(table, o, y)
      => table[x].hostPort = 0 \/ table[x].hostPort # table[y].hostPort

NotOthers(ports, c, p) ==
  \A o \in Client : o # c => ports[p] \notin MachinesOf(o) \X MachinePort

PortsOwn ==
  \A c \in Client : \A x \in Routed(table) :
    Owns(table, c, x) /\ table[x].hostPort # 0 => NotOthers(port, c, table[x].hostPort)

PortIInv == ApartIInv /\ InRange /\ PortsFrom /\ HeldFrom /\ PortsDiffer /\ PortsOwn

LEMMA MachinesTyped ==
  ASSUME NEW c \in Client PROVE MachinesOf(c) \subseteq Machine
<1> SUFFICES ASSUME NEW w \in Work[c] PROVE w[2].machine \in Machine
  BY DEF MachinesOf
<1>1. w \in Host \X Requests
  BY WorkAssumption
<1>2. w[2] \in Requests
  BY <1>1
<1> QED BY <1>2, RequestFacts DEF SbxRequest, DockerRequest, DirectRoute

(***************************************************************************)
(* The port a terminal is given is that of a route of its own, or one that *)
(* no route has and nobody listens on.                                     *)
(***************************************************************************)
LEMMA GivenPort ==
  ASSUME Apart, PortIInv, NEW c \in Client, NEW h \in Host, NEW r \in Requests,
         h \in HostsOf(c), r.machine \in MachinesOf(c),
         NEW p \in Alloc(table, h, r, Bound)
  PROVE  \/ \E x \in Routed(table) : Owns(table, c, x) /\ p = table[x].hostPort
         \/ /\ p \in PortMin..PortMax /\ p \in LoopbackPort
            /\ port[p] = Free /\ p \notin Taken(table)
<1>1. CASE p \in SharedPorts(table, r)
  <2>1. PICK x \in Routed(table) : SameMachine(table[x], r) /\ p = table[x].hostPort
    BY <1>1 DEF SharedPorts
  <2>2. PICK o \in Client : Owns(table, o, x)
    BY DEF PortIInv, ApartIInv, Owned
  <2>3. o = c
    BY <2>1, <2>2 DEF Apart, Owns, SameMachine
  <2> QED BY <2>1, <2>2, <2>3
<1>2. CASE p \in OwnPort(table, h)
  <2>1. h \in Routed(table) /\ p = table[h].hostPort
    BY <1>2 DEF OwnPort, Routed
  <2>2. Owns(table, c, h)
    BY <2>1, OwnRoute DEF PortIInv, ApartIInv, Owns
  <2> QED BY <2>1, <2>2
<1>3. CASE p \in FreePorts(table, h, Bound)
  <2>1. PortMin \in Int /\ PortMax \in Int
    BY PortAssumption, PortFacts
  <2>2. Start(h) \in PortMin..PortMax /\ p \in Start(h)..(PortMax - 1)
    BY <1>3, StartInRange DEF FreePorts
  <2>3. p \in PortMin..PortMax
    BY <2>1, <2>2
  <2>4. p \notin Taken(table) /\ p \notin Bound
    BY <1>3 DEF FreePorts
  <2> QED BY <2>3, <2>4 DEF Bound, LoopbackPort
<1> QED BY <1>1, <1>2, <1>3 DEF Alloc

(***************************************************************************)
(* What an upsert stores has a port from the terminal's own ports, that no *)
(* other terminal's route has and no other one's sandbox holds.            *)
(***************************************************************************)
LEMMA StoredPort ==
  ASSUME Apart, ContainersElsewhere, PortIInv, NEW c \in Client,
         NEW h \in Host, NEW r \in Requests, <<h, r>> \in Work[c],
         NEW stored \in Filled(table, h, r, Bound), stored.hostPort # 0
  PROVE  LET p == stored.hostPort
         IN  /\ p \in PortsOf(c)
             /\ \A o \in Client : \A x \in Routed(table) :
                  o # c /\ Owns(table, o, x) => table[x].hostPort # p
             /\ NotOthers(port, c, p)
<1> DEFINE p == stored.hostPort
<1>0. TypeIInv /\ table \in Table /\ InRange
  BY DEF PortIInv, ApartIInv, TypeIInv, UsherTypeOK
<1>1. h \in HostsOf(c) /\ r.machine \in MachinesOf(c)
  BY WorkFacts, WorkMachine
<1>2. CASE \E x \in Routed(table) : Owns(table, c, x) /\ p = table[x].hostPort
  BY <1>2 DEF PortIInv, PortsFrom, PortsDiffer, PortsOwn
<1>3. CASE /\ p \in PortMin..PortMax /\ p \in LoopbackPort
           /\ port[p] = Free /\ p \notin Taken(table)
  <2>1. \A x \in Routed(table) : table[x].hostPort # p
    BY <1>3 DEF Taken
  <2>2. \A o \in Client : MachinesOf(o) \X MachinePort \subseteq Machine \X MachinePort
    BY MachinesTyped
  <2> QED BY <1>3, <2>1, <2>2, PortStateAssumption DEF PortsOf, NotOthers
<1>4. CASE r.adapter # "sbx"
  <2>1. p = r.hostPort
    BY <1>0, <1>4, FilledIsRoute
  <2>2. <<h, r>>[2] = r
    OBVIOUS
  <2>3. p \in ContainerPorts(c)
    BY <2>1, <2>2 DEF ContainerPorts
  <2>4. p \in LoopbackPort
    BY <2>1 DEF LoopbackPort
  <2>5. \A o \in Client : o # c => p \notin PortsOf(o)
    BY <2>3 DEF ContainersElsewhere, PortsOf
  <2> QED
    BY <2>3, <2>4, <2>5 DEF PortsOf, NotOthers, PortIInv, PortsFrom, HeldFrom
<1>5. CASE r.adapter = "sbx"
  <2>1. p \in Alloc(table, h, r, Bound)
    BY <1>0, <1>5, FilledIsRoute
  <2> QED BY <1>1, <1>2, <1>3, <2>1, GivenPort
<1> QED BY <1>4, <1>5

LEMMA UpsertKeepsPorts ==
  ASSUME Apart, ContainersElsewhere, PortIInv, ApartIInv', InRange',
         NEW c \in Client, Upsert(c)
  PROVE  PortIInv'
<1> DEFINE h == cmd[c].host
           r == cmd[c].route
<1>0. TypeIInv
  BY DEF PortIInv, ApartIInv
<1>1. /\ h \in Host /\ r \in Requests /\ <<h, r>> \in Work[c] /\ h \in HostsOf(c)
  BY <1>0, UpsertStores, WorkFacts
<1>2. PICK stored \in Filled(table, h, r, Bound) : table'[h] = stored
  BY <1>0, UpsertStores
<1>3. /\ UNCHANGED port
      /\ \A x \in Host : x # h => table'[x] = table[x]
  BY <1>0, UpsertStores
<1> DEFINE p == stored.hostPort
<1>4. p # 0 => /\ p \in PortsOf(c)
               /\ \A o \in Client : \A x \in Routed(table) :
                    o # c /\ Owns(table, o, x) => table[x].hostPort # p
               /\ NotOthers(port, c, p)
  BY <1>1, StoredPort
<1> HIDE DEF h, r
<1>5. ASSUME NEW x \in Routed(table'), x # h
      PROVE  /\ x \in Routed(table) /\ table'[x] = table[x]
             /\ \A o \in Client : Owns(table', o, x) => Owns(table, o, x)
  BY <1>3, <1>5 DEF Routed, Owns
<1>6. \A o \in Client : Owns(table', o, h) => o = c
  BY <1>1 DEF Owns, Apart
<1>7. PortsFrom'
  <2> SUFFICES ASSUME NEW o \in Client, NEW x \in Routed(table'), Owns(table', o, x)
               PROVE  table'[x].hostPort \in {0} \cup PortsOf(o)
    BY DEF PortsFrom, PortsOf, ContainerPorts
  <2>1. CASE x = h
    BY <1>2, <1>4, <1>6, <2>1
  <2>2. CASE x # h
    BY <1>5, <2>2 DEF PortIInv, PortsFrom
  <2> QED BY <2>1, <2>2
<1>8. HeldFrom'
  BY <1>3 DEF PortIInv, HeldFrom, LoopbackPort, MachinesOf, PortsOf, ContainerPorts
<1>9. PortsDiffer'
  <2> SUFFICES ASSUME NEW a \in Client, NEW b \in Client, a # b,
                      NEW x \in Routed(table'), NEW y \in Routed(table'),
                      Owns(table', a, x), Owns(table', b, y), table'[x].hostPort # 0
               PROVE  table'[x].hostPort # table'[y].hostPort
    BY DEF PortsDiffer
  <2>1. CASE x = h
    <3>1. y # h /\ b # c
      BY <1>6, <2>1
    <3> QED BY <1>2, <1>4, <1>5, <2>1, <3>1
  <2>2. CASE y = h
    <3>1. x # h /\ a # c
      BY <1>6, <2>2
    <3> QED BY <1>2, <1>4, <1>5, <2>2, <3>1
  <2>3. CASE x # h /\ y # h
    BY <1>5, <2>3 DEF PortIInv, PortsDiffer
  <2> QED BY <2>1, <2>2, <2>3
<1>10. PortsOwn'
  <2> SUFFICES ASSUME NEW o \in Client, NEW x \in Routed(table'), Owns(table', o, x),
                      table'[x].hostPort # 0
               PROVE  NotOthers(port', o, table'[x].hostPort)
    BY DEF PortsOwn
  <2>1. CASE x = h
    BY <1>2, <1>3, <1>4, <1>6, <2>1 DEF NotOthers
  <2>2. CASE x # h
    <3>1. NotOthers(port, o, table[x].hostPort)
      BY <1>5, <2>2 DEF PortIInv, PortsOwn
    <3> QED BY <1>3, <1>5, <2>2, <3>1 DEF NotOthers
  <2> QED BY <2>1, <2>2
<1> QED BY <1>7, <1>8, <1>9, <1>10 DEF PortIInv

(***************************************************************************)
(* A step that stores nothing keeps the ports apart if what it publishes,  *)
(* if anything, is a sandbox of the terminal whose route has the port.     *)
(***************************************************************************)
LEMMA PortStepKeeps ==
  ASSUME PortIInv, ApartIInv', InRange',
         \A x \in Host : table'[x] = table[x] \/ table'[x] = NoRoute,
         HeldFrom',
         \A x \in Routed(table') : \A c \in Client :
           Owns(table, c, x) /\ table[x].hostPort # 0
             => NotOthers(port', c, table[x].hostPort)
  PROVE  PortIInv'
<1>1. \A x \in Routed(table') :
        /\ x \in Routed(table) /\ table'[x] = table[x]
        /\ \A o \in Client : Owns(table', o, x) => Owns(table, o, x)
  BY DEF Routed, Owns
<1>2. PortsDiffer' /\ PortsFrom'
  BY <1>1 DEF PortIInv, PortsDiffer, PortsFrom, PortsOf, ContainerPorts
<1>3. PortsOwn'
  <2> SUFFICES ASSUME NEW o \in Client, NEW x \in Routed(table'), Owns(table', o, x),
                      table'[x].hostPort # 0
               PROVE  NotOthers(port', o, table'[x].hostPort)
    BY DEF PortsOwn
  <2>1. Owns(table, o, x) /\ table'[x] = table[x]
    BY <1>1
  <2>2. NotOthers(port', o, table[x].hostPort)
    BY <2>1
  <2> QED BY <2>1, <2>2 DEF NotOthers
<1> QED BY <1>2, <1>3 DEF PortIInv

LEMMA NobodysPort ==
  ASSUME NEW c \in Client, NEW p, NotOthers(port, c, p),
         port'[p] \in {Free, Other, port[p]}
  PROVE  NotOthers(port', c, p)
<1>1. \A o \in Client : MachinesOf(o) \X MachinePort \subseteq Machine \X MachinePort
  BY MachinesTyped
<1>2. \A o \in Client : {Free, Other} \cap (MachinesOf(o) \X MachinePort) = {}
  BY <1>1, PortStateAssumption
<1> QED BY <1>2 DEF NotOthers

(***************************************************************************)
(* The route a terminal is about to publish is in the table, and its own.  *)
(***************************************************************************)
LEMMA PublishesOwn ==
  ASSUME ApartIInv, NEW c \in Client, At(c, "publish")
  PROVE  /\ cmd[c].host \in Routed(table)
         /\ table[cmd[c].host] = cmd[c].route
         /\ Owns(table, c, cmd[c].host)
<1>1. /\ table[cmd[c].host] = cmd[c].route /\ cmd[c].route \in Route
      /\ cmd[c].host \in HostsOf(c) /\ cmd[c].host \in Host
      /\ cmd[c].route.machine \in MachinesOf(c)
  BY DEF At, ApartIInv, Undisturbed, Sees, TypeIInv, CommandsCarry, UsherTypeOK,
         HoldsOwn, Holding
<1> QED BY <1>1, NoRouteAssumption DEF Routed, Owns

(***************************************************************************)
(* What a publish does to the ports, and what any other step can do.       *)
(***************************************************************************)
LEMMA PublishStep ==
  ASSUME PortIInv, NEW c \in Client, Publish(c)
  PROVE  LET r == cmd[c].route
         IN  \/ UNCHANGED port
             \/ /\ r.hostPort \in LoopbackPort /\ r.hostPort # 0
                /\ r.hostPort \in PortsOf(c) /\ r.machine \in MachinesOf(c)
                /\ port' = [port EXCEPT ![r.hostPort] = <<r.machine, r.machinePort>>]
<1> DEFINE r == cmd[c].route
           h == cmd[c].host
<1>1. /\ h \in Routed(table) /\ table[h] = r
      /\ Owns(table, c, h)
  BY PublishesOwn DEF Publish, PortIInv
<1>2. CASE r.adapter = "sbx"
  <2>1. /\ r \in Route
        /\ r.hostPort \in LoopbackPort
    BY <1>1, <1>2, PortTypes
       DEF PortIInv, ApartIInv, TypeIInv, UsherTypeOK, Table, Routed
  <2>2. r.hostPort # 0
    BY <1>2, <2>1, RouteFacts, PortFacts
  <2>3. r.hostPort \in PortsOf(c) /\ r.machine \in MachinesOf(c)
    BY <1>1, <2>2 DEF PortIInv, PortsFrom, Owns
  <2> QED BY <1>2, <2>1, <2>2, <2>3 DEF Publish, Published
<1>3. CASE r.adapter # "sbx"
  BY <1>3 DEF Publish
<1> QED BY <1>2, <1>3

LEMMA PortSteps ==
  ASSUME TypeIInv, [Next]_vars, \A c \in Client : ~Publish(c), NEW p \in LoopbackPort
  PROVE  port'[p] \in {Free, Other, port[p]}
<1>0. port \in [LoopbackPort -> {Free, Other} \cup (Machine \X MachinePort)]
  BY DEF TypeIInv, UsherTypeOK
<1>1. ASSUME NEW o \in Client, Detach(o) PROVE port'[p] \in {Free, Other, port[p]}
  BY <1>0, <1>1 DEF Detach
<1>2. ASSUME NEW o \in Client, Destroy(o) PROVE port'[p] \in {Free, Other, port[p]}
  BY <1>2 DEF Destroy
<1>3. CASE Environment
  <2>1. ASSUME NEW q \in LoopbackPort, NEW owner \in {Free, Other},
               port' = [port EXCEPT ![q] = owner]
        PROVE  port'[p] \in {Free, Other, port[p]}
    BY <1>0, <2>1
  <2>2. port' = port \/ \E q \in LoopbackPort : \E owner \in {Free, Other} :
                          port' = [port EXCEPT ![q] = owner]
    BY <1>3 DEF Environment
  <2> QED BY <2>1, <2>2
<1>4. CASE \/ \E o \in Client :
                \/ Started(o) \/ Attach(o) \/ PublishFails(o) \/ NothingToDestroy(o)
                \/ DetachFails(o) \/ DestroyFails(o) \/ Answered(o) \/ TimesOut(o)
           \/ ServeLate
           \/ UNCHANGED vars
  <2>1. UNCHANGED port
    BY <1>4 DEF Started, RunUp, RunDown, Attach, PublishFails, NothingToDestroy,
            DetachFails, DestroyFails, Answered, Upsert, UpsertRefused, Rollback, Remove,
            RemoveNothing, List, RemoveMachine, Unreachable, TimesOut, ServeLate, vars
  <2> QED BY <2>1
<1> QED BY <1>1, <1>2, <1>3, <1>4 DEF Next, Running

LEMMA PortsPreserved ==
  ASSUME Apart, ContainersElsewhere, PortIInv, ApartIInv', [Next]_vars PROVE PortIInv'
<1>0. /\ TypeIInv /\ late = {} /\ InRange
      /\ port \in [LoopbackPort -> {Free, Other} \cup (Machine \X MachinePort)]
  BY DEF PortIInv, ApartIInv, TypeIInv, UsherTypeOK
<1>1. InRange'
  BY <1>0, InRangePreserved
<1>2. CASE \E c \in Client : Upsert(c)
  BY <1>1, <1>2, UpsertKeepsPorts
<1>3. ASSUME NEW x \in Routed(table), NEW c \in Client, Owns(table, c, x),
             table[x].hostPort # 0
      PROVE  /\ table[x].hostPort \in LoopbackPort
             /\ NotOthers(port, c, table[x].hostPort)
  BY <1>3 DEF PortIInv, InRange, PortsOwn
<1>4. CASE /\ \A x \in Host : table'[x] = table[x] \/ table'[x] = NoRoute
           /\ \A o \in Client : ~Publish(o)
  <2>1. HeldFrom'
    <3> SUFFICES ASSUME NEW c \in Client, NEW p \in LoopbackPort,
                        port'[p] \in MachinesOf(c) \X MachinePort
                 PROVE  p \in PortsOf(c)
      BY DEF HeldFrom, LoopbackPort, MachinesOf, PortsOf, ContainerPorts
    <3>1. port'[p] \in {Free, Other, port[p]}
      BY <1>0, <1>4, PortSteps
    <3>2. port'[p] = port[p]
      BY <3>1, MachinesTyped, PortStateAssumption
    <3> QED BY <3>2 DEF PortIInv, HeldFrom
  <2>2. ASSUME NEW x \in Routed(table'), NEW c \in Client, Owns(table, c, x),
               table[x].hostPort # 0
        PROVE  NotOthers(port', c, table[x].hostPort)
    <3>1. x \in Routed(table)
      BY <1>4 DEF Routed
    <3>2. port'[table[x].hostPort] \in {Free, Other, port[table[x].hostPort]}
      BY <1>0, <1>3, <1>4, <2>2, <3>1, PortSteps
    <3> QED BY <1>3, <2>2, <3>1, <3>2, NobodysPort
  <2> QED BY <1>1, <1>4, <2>1, <2>2, PortStepKeeps
<1>5. ASSUME NEW o \in Client, Publish(o) PROVE PortIInv'
  <2> DEFINE r == cmd[o].route
  <2>1. UNCHANGED table
    BY <1>5 DEF Publish
  <2>2. CASE UNCHANGED port
    <3>1. HeldFrom'
      BY <2>2 DEF PortIInv, HeldFrom, LoopbackPort, MachinesOf, PortsOf, ContainerPorts
    <3>2. \A x \in Routed(table') : \A c \in Client :
            Owns(table, c, x) /\ table[x].hostPort # 0
              => NotOthers(port', c, table[x].hostPort)
      BY <1>3, <2>1, <2>2 DEF NotOthers
    <3> QED BY <1>1, <2>1, <3>1, <3>2, PortStepKeeps
  <2>3. CASE /\ r.hostPort \in LoopbackPort /\ r.hostPort # 0
             /\ r.hostPort \in PortsOf(o) /\ r.machine \in MachinesOf(o)
             /\ port' = [port EXCEPT ![r.hostPort] = <<r.machine, r.machinePort>>]
    <3> HIDE DEF r
    <3>1. /\ port'[r.hostPort] = <<r.machine, r.machinePort>>
          /\ \A p \in LoopbackPort : p # r.hostPort => port'[p] = port[p]
      BY <1>0, <2>3
    <3>2. \A c \in Client : c # o => port'[r.hostPort] \notin MachinesOf(c) \X MachinePort
      BY <2>3, <3>1 DEF Apart
    <3>3. HeldFrom'
      <4> SUFFICES ASSUME NEW c \in Client, NEW p \in LoopbackPort,
                          port'[p] \in MachinesOf(c) \X MachinePort
                   PROVE  p \in PortsOf(c)
        BY DEF HeldFrom, LoopbackPort, MachinesOf, PortsOf, ContainerPorts
      <4> QED BY <2>3, <3>1, <3>2 DEF PortIInv, HeldFrom
    <3>4. ASSUME NEW x \in Routed(table), NEW c \in Client, Owns(table, c, x),
                 table[x].hostPort # 0
          PROVE  NotOthers(port', c, table[x].hostPort)
      <4>1. CASE table[x].hostPort # r.hostPort
        BY <1>3, <3>1, <3>4, <4>1, NobodysPort
      <4>2. CASE table[x].hostPort = r.hostPort
        <5>1. /\ cmd[o].host \in Routed(table) /\ table[cmd[o].host] = r
              /\ Owns(table, o, cmd[o].host)
          BY <1>5, PublishesOwn DEF Publish, PortIInv, r
        <5>2. c = o
          BY <3>4, <4>2, <5>1 DEF PortIInv, PortsDiffer
        <5> QED BY <3>2, <4>2, <5>2 DEF NotOthers
      <4> QED BY <4>1, <4>2
    <3> QED BY <1>1, <2>1, <3>3, <3>4, PortStepKeeps
  <2> QED BY <1>5, <2>2, <2>3, PublishStep
<1> QED BY <1>0, <1>2, <1>4, <1>5, TableSteps

(***************************************************************************)
(* With terminals apart, containers whose host ports are nobody else's, and *)
(* whatever fails short of a call served late, no terminal is about to     *)
(* publish on a port that a sandbox of another one holds (route.go:203-207). *)
(***************************************************************************)
THEOREM PublishedPortsApart == Apart /\ ContainersElsewhere => (Spec => []PortsApart)
<1> SUFFICES ASSUME Apart, ContainersElsewhere PROVE Spec => []PortsApart
  OBVIOUS
<1>1. Init /\ ApartIInv => PortIInv
  <2> SUFFICES ASSUME Init, ApartIInv PROVE PortIInv
    OBVIOUS
  <2>1. Routed(table) = {}
    BY DEF Init, EmptyTable, Routed
  <2>2. HeldFrom
    BY MachinesTyped, PortStateAssumption DEF Init, HeldFrom
  <2> QED BY <2>1, <2>2 DEF PortIInv, InRange, PortsFrom, PortsDiffer, PortsOwn
<1>2. PortIInv /\ ApartIInv' /\ [Next]_vars => PortIInv'
  BY PortsPreserved
<1>3. PortIInv => PortsApart
  <2> SUFFICES ASSUME PortIInv, NEW c \in Client, NEW o \in Client, c # o,
                      At(c, "publish"), cmd[c].route.adapter = "sbx"
               PROVE  port[cmd[c].route.hostPort] \notin MachinesOf(o) \X MachinePort
    BY DEF PortsApart
  <2>1. /\ cmd[c].host \in Routed(table) /\ table[cmd[c].host] = cmd[c].route
        /\ Owns(table, c, cmd[c].host)
    BY PublishesOwn DEF PortIInv
  <2>2. cmd[c].route.hostPort # 0
    BY <2>1, RouteFacts, PortFacts
       DEF PortIInv, ApartIInv, TypeIInv, UsherTypeOK, Table, Routed
  <2>3. NotOthers(port, c, cmd[c].route.hostPort)
    BY <2>1, <2>2 DEF PortIInv, PortsOwn
  <2> QED BY <2>3 DEF NotOthers
<1>4. Spec => []PortIInv
  BY <1>1, <1>2, ApartInvariant, PTL DEF Spec
<1> QED BY <1>3, <1>4, PTL

-----------------------------------------------------------------------------
(***************************************************************************)
(* The commands are callers of RouteCalls, with every fault: a command's   *)
(* next step after a call is a step of the caller whose call took effect, or *)
(* failed, or was given up.  That a request is a call of the service needs *)
(* CommandsCarry.                                                          *)
(***************************************************************************)
LateCalls == {Requested(l) : l \in late}

(* The values the calls are about are those of the commands. *)
LEMMA SameAlloc ==
  ASSUME NEW t, NEW h, NEW r, NEW bound
  PROVE  Calls!Alloc(t, h, r, bound) = Alloc(t, h, r, bound)
<1>1. Calls!Routed(t) = Routed(t)
  BY DEF Calls!Routed, Routed
<1>2. Calls!SharedPorts(t, r) = SharedPorts(t, r)
  BY <1>1 DEF Calls!SharedPorts, SharedPorts, Calls!SameMachine, SameMachine
<1>3. Calls!FreePorts(t, h, bound) = FreePorts(t, h, bound)
  BY <1>1 DEF Calls!FreePorts, FreePorts, Calls!Taken, Taken, Calls!Start, Start
<1>4. Calls!OwnPort(t, h) = OwnPort(t, h)
  BY DEF Calls!OwnPort, OwnPort
<1> QED BY <1>2, <1>3, <1>4 DEF Calls!Alloc, Alloc

LEMMA SameFilled ==
  ASSUME NEW t, NEW h, NEW r, NEW bound
  PROVE  Calls!Filled(t, h, r, bound) = Filled(t, h, r, bound)
<1>1. Calls!NoUpstream = NoUpstream /\ \A p : Calls!HostUpstream(p) = HostUpstream(p)
  BY DEF Calls!NoUpstream, NoUpstream, Calls!HostUpstream, HostUpstream, Calls!Loopback,
         Loopback
<1> QED BY <1>1, SameAlloc DEF Calls!Filled, Filled

LEMMA SameRouted ==
  ASSUME NEW t
  PROVE  /\ Calls!Routed(t) = Routed(t)
         /\ \A a, m : Calls!OnMachine(t, a, m) = OnMachine(t, a, m)
BY DEF Calls!Routed, Routed, Calls!OnMachine, OnMachine

(***************************************************************************)
(* The probe asks only about ports of the range: what else is bound on the *)
(* host does not matter to it.                                             *)
(***************************************************************************)
LEMMA ProbesInRange ==
  ASSUME NEW t, NEW h \in Host, NEW r, NEW bound
  PROVE  Filled(t, h, r, bound) = Filled(t, h, r, bound \cap (PortMin..PortMax))
<1>1. (Start(h)..(PortMax - 1)) \subseteq PortMin..PortMax
  BY StartInRange, PortAssumption DEF HostPort
<1>2. FreePorts(t, h, bound) = FreePorts(t, h, bound \cap (PortMin..PortMax))
  BY <1>1 DEF FreePorts
<1> QED BY <1>2 DEF Filled, Alloc

(***************************************************************************)
(* Every request a command waits with is a call of the service.            *)
(***************************************************************************)
LEMMA RequestsAreCalls ==
  ASSUME NEW k \in Command, k.pc \in Waiting,
         k.pc \in Requesting => k.route \in Requests,
         k.pc \in Holding => k.route \in Route
  PROVE  Requested(k) \in Calls!Call
<1>1. k.host \in Host
  BY DEF Command
<1>2. CASE k.pc = "upsert"
  BY <1>1, <1>2 DEF Requested, Requesting, Calls!Call
<1>3. CASE k.pc \in {"rollback", "remove"}
  BY <1>1, <1>3 DEF Requested, Calls!Call
<1>4. CASE k.pc = "removeMachine"
  <2>1. k.route \in Route
    BY <1>4 DEF Holding
  <2>2. k.route.adapter \in Calls!Adapter /\ k.route.machine \in Machine
    BY <2>1, RouteFacts DEF Calls!Adapter, Route, LoopbackRoute, DirectRoute
  <2> QED BY <1>4, <2>2 DEF Requested, Calls!Call
<1>5. CASE k.pc = "list"
  BY <1>5 DEF Requested, Calls!Call
<1> QED BY <1>2, <1>3, <1>4, <1>5 DEF Waiting

(***************************************************************************)
(* A step of one command, as a step of one caller.                         *)
(***************************************************************************)
OnlyCommand(c) == \A o \in Client : o # c => cmd'[o] = cmd[o]

LEMMA CallerGoes ==
  ASSUME TypeIInv', NEW c \in Client, OnlyCommand(c)
  PROVE  /\ Calls!Becomes(c, AsCall(c)')
         /\ AsCall(c)' \in {Calls!Idle} \cup {Calls!Made(q) : q \in Calls!Call}
         /\ Calls!Goes(c)
<1>1. \A o \in Client : o # c => AsCall(o)' = AsCall(o)
  BY DEF OnlyCommand, AsCall
<1>2. Calls!Becomes(c, AsCall(c)')
  BY <1>1 DEF Calls!Becomes
<1>3. AsCall(c)' \in {Calls!Idle} \cup {Calls!Made(q) : q \in Calls!Call}
  <2>1. CASE cmd'[c].pc \in Waiting
    <3>1. cmd'[c] \in Command
      BY DEF TypeIInv, UsherTypeOK, Command
    <3>2. /\ cmd'[c].pc \in Requesting => cmd'[c].route \in Requests
          /\ cmd'[c].pc \in Holding => cmd'[c].route \in Route
      BY WorkFacts DEF TypeIInv, CommandsCarry
    <3>3. Requested(cmd'[c]) \in Calls!Call
      BY <2>1, <3>1, <3>2, RequestsAreCalls
    <3>4. AsCall(c)' = Calls!Made(Requested(cmd'[c]))
      BY <2>1 DEF AsCall, Calls!Made
    <3> QED BY <3>3, <3>4
  <2>2. CASE cmd'[c].pc \notin Waiting
    BY <2>2 DEF AsCall, Calls!Idle
  <2> QED BY <2>1, <2>2
<1> QED BY <1>2, <1>3 DEF Calls!Goes

LEMMA LocalIsMake ==
  ASSUME TypeIInv', NEW c \in Client, OnlyCommand(c), cmd[c].pc \notin Waiting,
         UNCHANGED <<table, late, unsure>>
  PROVE  Calls!Make(c) \/ UNCHANGED Calls!callsVars
<1>1. AsCall(c) = Calls!Idle
  BY DEF AsCall, Calls!Idle
<1>2. CASE AsCall(c)' = Calls!Idle
  <2>1. \A o \in Client : AsCall(o)' = AsCall(o)
    BY <1>1, <1>2 DEF OnlyCommand, AsCall
  <2> QED BY <2>1 DEF Calls!callsVars
<1>3. CASE AsCall(c)' # Calls!Idle
  <2>1. \E q \in Calls!Call : Calls!Becomes(c, Calls!Made(q))
    BY <1>3, CallerGoes
  <2> QED BY <1>1, <2>1 DEF Calls!Make
<1> QED BY <1>2, <1>3

(* The command is told, or it ends with an error. *)
Told(c, hosts) ==
  \/ Sure(hosts)
  \/ Unsure(hosts) /\ cmd'[c].pc \notin Waiting

LEMMA AnswerIsEffect ==
  ASSUME TypeIInv', NEW c \in Client, OnlyCommand(c), cmd[c].pc \in Waiting,
         NEW bound \in SUBSET (PortMin..PortMax),
         NEW f, f \in Calls!Effects(table, Requested(cmd[c]), bound),
         table' = Calls!Applied(table, f), Told(c, DOMAIN f), UNCHANGED late
  PROVE  Calls!TakeEffect(c)
<1>1. AsCall(c).stage = "made" /\ AsCall(c).request = Requested(cmd[c])
  BY DEF AsCall
<1>2. Calls!Goes(c) /\ Calls!Becomes(c, AsCall(c)')
  BY CallerGoes
<1>3. \/ Calls!Becomes(c, Calls!Idle) /\ unsure' = unsure \cup DOMAIN f
      \/ Calls!Goes(c) /\ unsure' = unsure \ DOMAIN f
  <2>1. cmd'[c].pc \notin Waiting => AsCall(c)' = Calls!Idle
    BY DEF AsCall, Calls!Idle
  <2> QED BY <1>2, <2>1 DEF Told, Sure, Unsure
<1> QED BY <1>1, <1>3 DEF Calls!TakeEffect

LEMMA EndIsIdle ==
  ASSUME TypeIInv, TypeIInv', NEW c \in Client, cmd[c].pc \in Waiting, End(c)
  PROVE  /\ Calls!Becomes(c, Calls!Idle)
         /\ AsCall(c) # Calls!Idle
         /\ AsCall(c).stage = "made" /\ AsCall(c).request = Requested(cmd[c])
<1>1. OnlyCommand(c) /\ cmd'[c].pc \notin Waiting
  BY EndStep, NoCommandType DEF OnlyCommand, Waiting
<1>2. AsCall(c)' = Calls!Idle
  BY <1>1 DEF AsCall, Calls!Idle
<1>3. AsCall(c).stage = "made" /\ AsCall(c).request = Requested(cmd[c])
  BY DEF AsCall
<1>4. Calls!Idle.stage = "none"
  BY DEF Calls!Idle
<1> QED BY <1>1, <1>2, <1>3, <1>4, CallerGoes

LEMMA EndIsFail ==
  ASSUME TypeIInv, TypeIInv', NEW c \in Client, cmd[c].pc \in Waiting, End(c),
         UNCHANGED <<table, late, unsure>>
  PROVE  Calls!Fail(c)
BY EndIsIdle DEF Calls!Fail

(***************************************************************************)
(* Only the command that takes a step changes.                             *)
(***************************************************************************)
LEMMA OneCommand ==
  ASSUME TypeIInv, NEW c \in Client, Started(c) \/ Running(c) \/ Answered(c)
  PROVE  OnlyCommand(c)
<1>0. cmd \in [Client -> Command]
  BY DEF TypeIInv, UsherTypeOK, Command
<1>1. ASSUME \E new : cmd' = [cmd EXCEPT ![c] = new] PROVE OnlyCommand(c)
  BY <1>0, <1>1 DEF OnlyCommand
<1>2. CASE Started(c)
  BY <1>1, <1>2 DEF Started, RunUp, RunDown
<1>3. CASE Running(c)
  BY <1>0, <1>3 DEF Running, Attach, Publish, PublishFails, NothingToDestroy, Detach,
     DetachFails, Destroy, DestroyFails, End, Goto, OnlyCommand
<1>4. CASE Answered(c)
  BY <1>0, <1>4 DEF Answered, Upsert, UpsertRefused, Rollback, Remove, RemoveNothing, List,
     RemoveMachine, Unreachable, End, Goto, OnlyCommand
<1> QED BY <1>2, <1>3, <1>4

LEMMA LocalSteps ==
  ASSUME TypeIInv, TypeIInv', NEW c \in Client, Started(c) \/ Running(c)
  PROVE  Calls!Make(c) \/ UNCHANGED Calls!callsVars
<1>1. cmd[c].pc \notin Waiting /\ UNCHANGED <<table, late, unsure>>
  BY DEF Started, RunUp, RunDown, Running, Attach, Publish, PublishFails, NothingToDestroy,
         Detach, DetachFails, Destroy, DestroyFails, At, Waiting
<1> QED BY <1>1, OneCommand, LocalIsMake

(***************************************************************************)
(* The effect of each call that is answered.                               *)
(***************************************************************************)
LEMMA StoreIsEffect ==
  ASSUME TypeIInv, NEW h \in Host, NEW r, NEW q, NEW stored \in Filled(table, h, r, Bound),
         q.op = "upsert", q.host = h, q.route = r, Put(h, stored)
  PROVE  \E bound \in SUBSET (PortMin..PortMax) : \E f \in Calls!Effects(table, q, bound) :
           table' = Calls!Applied(table, f) /\ DOMAIN f = {h}
<1> DEFINE bound == Bound \cap (PortMin..PortMax)
           f == [x \in {h} |-> stored]
<1>1. table \in [Host -> Route \cup {NoRoute}]
  BY DEF TypeIInv, UsherTypeOK, Table
<1>2. stored \in Calls!Filled(table, h, r, bound)
  BY ProbesInRange, SameFilled
<1>3. f \in Calls!Effects(table, q, bound)
  <2> HIDE DEF bound
  <2> QED BY <1>2 DEF Calls!Effects
<1>4. table' = Calls!Applied(table, f) /\ DOMAIN f = {h}
  BY <1>1 DEF Put, Calls!Applied
<1>5. bound \in SUBSET (PortMin..PortMax)
  OBVIOUS
<1> HIDE DEF f, bound
<1> QED BY <1>3, <1>4, <1>5

LEMMA DropIsEffect ==
  ASSUME TypeIInv, NEW gone, Drop(gone), NEW hosts, hosts = gone \cap Routed(table)
  PROVE  /\ table' = Calls!Applied(table, Calls!Removing(hosts))
         /\ DOMAIN Calls!Removing(hosts) = hosts
<1> DEFINE f == Calls!Removing(hosts)
<1>1. DOMAIN f = hosts /\ \A h \in hosts : f[h] = NoRoute
  BY DEF Calls!Removing
<1>2. \A h \in Host : h \in gone \ hosts => table[h] = NoRoute
  BY DEF Routed
<1>3. table' = Calls!Applied(table, f)
  <2> HIDE DEF f
  <2> QED BY <1>1, <1>2 DEF Drop, Calls!Applied
<1> QED BY <1>1, <1>3

(* What each removal removes. *)
LEMMA RemovalEffects ==
  ASSUME NEW q
  PROVE  /\ q.op = "remove"
              => Calls!Removing({q.host} \cap Routed(table)) \in Calls!Effects(table, q, {})
         /\ q.op = "removeMachine"
              => Calls!Removing(OnMachine(table, q.adapter, q.machine))
                   \in Calls!Effects(table, q, {})
         /\ q.op = "list" => Calls!Removing({}) \in Calls!Effects(table, q, {})
BY SameRouted DEF Calls!Effects

LEMMA UpsertIsEffect ==
  ASSUME TypeIInv, TypeIInv', NEW c \in Client, Upsert(c)
  PROVE  Calls!TakeEffect(c)
<1> DEFINE h == cmd[c].host
           r == cmd[c].route
           q == Requested(cmd[c])
<1>1. h \in Host
  BY DEF TypeIInv, UsherTypeOK
<1>2. PICK stored \in Filled(table, h, r, Bound) :
        /\ Put(h, stored)
        /\ \/ Sure({h})
           \/ End(c) /\ Unsure({h})
  BY DEF Upsert
<1>3. q.op = "upsert" /\ q.host = h /\ q.route = r
  BY DEF Upsert, At, Requested
<1>4. PICK bound \in SUBSET (PortMin..PortMax) : \E f \in Calls!Effects(table, q, bound) :
        table' = Calls!Applied(table, f) /\ DOMAIN f = {h}
  <2> HIDE DEF h, r, q
  <2> QED BY <1>1, <1>2, <1>3, StoreIsEffect
<1>5. OnlyCommand(c) /\ cmd[c].pc \in Waiting /\ UNCHANGED late
  BY OneCommand DEF Answered, Upsert, At, Waiting
<1>6. Told(c, {h})
  BY <1>2, EndStep, NoCommandType DEF Told, Waiting
<1> HIDE DEF h
<1> QED BY <1>4, <1>5, <1>6, AnswerIsEffect

LEMMA RemovalIsEffect ==
  ASSUME TypeIInv, TypeIInv', NEW c \in Client, Answered(c), cmd[c].pc \in Waiting,
         NEW gone, Drop(gone), NEW hosts, hosts = gone \cap Routed(table),
         Told(c, hosts), UNCHANGED late,
         Calls!Removing(hosts) \in Calls!Effects(table, Requested(cmd[c]), {})
  PROVE  Calls!TakeEffect(c)
<1> DEFINE f == Calls!Removing(hosts)
<1>1. table' = Calls!Applied(table, f) /\ DOMAIN f = hosts
  BY DropIsEffect
<1>2. f \in Calls!Effects(table, Requested(cmd[c]), {}) /\ OnlyCommand(c)
  BY OneCommand
<1>3. PICK bound \in SUBSET (PortMin..PortMax) : bound = {}
  OBVIOUS
<1>4. f \in Calls!Effects(table, Requested(cmd[c]), bound)
  BY <1>2, <1>3
<1> HIDE DEF f
<1>5. Told(c, DOMAIN f)
  BY <1>1
<1> QED BY <1>1, <1>2, <1>4, <1>5, AnswerIsEffect

LEMMA RemoveIsEffect ==
  ASSUME TypeIInv, TypeIInv', NEW c \in Client, Remove(c) \/ Rollback(c)
  PROVE  Calls!TakeEffect(c)
<1> DEFINE h == cmd[c].host
           hosts == {h} \cap Routed(table)
<1>1. /\ Answered(c) /\ cmd[c].pc \in Waiting /\ UNCHANGED late
      /\ Requested(cmd[c]).op = "remove" /\ Requested(cmd[c]).host = h
  BY DEF Remove, Rollback, Answered, At, Waiting, Requested
<1>2. h \in Host
  BY DEF TypeIInv, UsherTypeOK
<1>3. Remove(c) => hosts = {h}
  BY <1>2 DEF Remove, Routed
<1>4. Drop(hosts) /\ (Sure(hosts) \/ (End(c) /\ Unsure(hosts)))
  <2>1. CASE Remove(c)
    <3> HIDE DEF hosts
    <3> QED BY <1>3, <2>1 DEF Remove
  <2>2. CASE Rollback(c)
    BY <2>2 DEF Rollback
  <2> QED BY <2>1, <2>2
<1>5. Told(c, hosts)
  BY <1>4, EndStep, NoCommandType DEF Told, Waiting
<1>6. Calls!Removing(hosts) \in Calls!Effects(table, Requested(cmd[c]), {})
  BY <1>1, RemovalEffects
<1>7. hosts = hosts \cap Routed(table)
  OBVIOUS
<1> HIDE DEF h, hosts
<1> QED BY <1>1, <1>4, <1>5, <1>6, <1>7, RemovalIsEffect

LEMMA RemoveMachineIsEffect ==
  ASSUME TypeIInv, TypeIInv', NEW c \in Client, RemoveMachine(c)
  PROVE  Calls!TakeEffect(c)
<1> DEFINE hosts == OnMachine(table, cmd[c].route.adapter, cmd[c].route.machine)
<1>1. /\ Answered(c) /\ cmd[c].pc \in Waiting /\ UNCHANGED late
      /\ Requested(cmd[c]).op = "removeMachine"
      /\ Requested(cmd[c]).adapter = cmd[c].route.adapter
      /\ Requested(cmd[c]).machine = cmd[c].route.machine
  BY DEF RemoveMachine, Answered, At, Waiting, Requested
<1>2. /\ Drop(hosts)
      /\ \/ Sure(hosts)
         \/ End(c) /\ Unsure(hosts)
  BY DEF RemoveMachine
<1>3. Told(c, hosts)
  BY <1>2, EndStep, NoCommandType DEF Told, Waiting
<1>4. Calls!Removing(hosts) \in Calls!Effects(table, Requested(cmd[c]), {})
  BY <1>1, RemovalEffects
<1>5. hosts = hosts \cap Routed(table)
  BY DEF OnMachine
<1> HIDE DEF hosts
<1> QED BY <1>1, <1>2, <1>3, <1>4, <1>5, RemovalIsEffect

LEMMA NothingIsEffect ==
  ASSUME TypeIInv, TypeIInv', NEW c \in Client, RemoveNothing(c) \/ List(c)
  PROVE  Calls!TakeEffect(c)
<1>1. /\ Answered(c) /\ cmd[c].pc \in Waiting
      /\ UNCHANGED <<table, late, unsure>>
  BY DEF RemoveNothing, List, Answered, At, Waiting
<1>2. Drop({}) /\ Told(c, {})
  BY <1>1 DEF Drop, Told, Sure, TypeIInv, UsherTypeOK, Table
<1>3. Calls!Removing({}) \in Calls!Effects(table, Requested(cmd[c]), {})
  <2>1. CASE RemoveNothing(c)
    <3>1. Requested(cmd[c]).op = "remove" /\ Requested(cmd[c]).host = cmd[c].host
      BY <2>1 DEF RemoveNothing, At, Requested
    <3>2. {cmd[c].host} \cap Routed(table) = {}
      BY <2>1 DEF RemoveNothing, Routed
    <3> QED BY <3>1, <3>2, RemovalEffects
  <2>2. CASE List(c)
    <3>1. Requested(cmd[c]).op = "list"
      BY <2>2 DEF List, At, Requested
    <3> QED BY <3>1, RemovalEffects
  <2> QED BY <2>1, <2>2
<1>4. {} = {} \cap Routed(table)
  OBVIOUS
<1> QED BY <1>1, <1>2, <1>3, <1>4, RemovalIsEffect

LEMMA RefusalIsFail ==
  ASSUME TypeIInv, TypeIInv', NEW c \in Client, UpsertRefused(c) \/ Unreachable(c)
  PROVE  Calls!Fail(c)
<1>1. End(c) /\ UNCHANGED <<table, late, unsure>> /\ cmd[c].pc \in Waiting
  BY DEF UpsertRefused, Unreachable, At, Waiting
<1> QED BY <1>1, EndIsFail

(***************************************************************************)
(* Calls given up, and served or not.                                      *)
(***************************************************************************)
LEMMA TimesOutIsGiveUp ==
  ASSUME TypeIInv, TypeIInv', NEW c \in Client, TimesOut(c)
  PROVE  Calls!Fail(c) \/ Calls!GiveUp(c)
<1>1. End(c) /\ UNCHANGED <<table, unsure>> /\ cmd[c].pc \in Waiting
  BY DEF TimesOut
<1>2. CASE late' = late
  BY <1>1, <1>2, EndIsFail
<1>3. CASE late' = late \cup GivenUp(c) /\ late' # late
  <2> DEFINE k == cmd[c]
             removes == k.pc \in {"remove", "rollback"}
             g == [pc |-> IF removes THEN "remove" ELSE k.pc, host |-> k.host,
                   route |-> IF removes THEN NoRoute ELSE k.route]
  <2>1. GivenUp(c) = {g} /\ k.pc # "list"
    BY <1>3 DEF GivenUp, At
  <2>2. Requested(g) = Requested(k)
    BY <1>1, <2>1 DEF Requested, Waiting
  <2>3. late' = late \cup {g}
    BY <1>3, <2>1
  <2> HIDE DEF g, k
  <2>4. LateCalls' = LateCalls \cup {Requested(k)}
    BY <2>2, <2>3 DEF LateCalls
  <2> QED BY <1>1, <2>4, EndIsIdle DEF Calls!GiveUp, LateCalls, k
<1> QED BY <1>2, <1>3 DEF TimesOut

LEMMA LateIsServeLate ==
  ASSUME TypeIInv, ServeLate
  PROVE  \E q \in LateCalls : Calls!ServeLate(q)
<1>1. PICK l \in late :
        /\ late' = late \ {l}
        /\ \/ /\ l.pc = "upsert"
              /\ \E stored \in Filled(table, l.host, l.route, Bound) : Put(l.host, stored)
              /\ Unsure({l.host})
           \/ UNCHANGED <<table, unsure>>
           \/ l.pc = "remove" /\ Dropped({l.host})
           \/ /\ l.pc = "removeMachine"
              /\ Dropped(OnMachine(table, l.route.adapter, l.route.machine))
        /\ UNCHANGED <<port, alive, cmd>>
  BY DEF ServeLate
<1> DEFINE q == Requested(l)
<1>2. l.host \in Host
  BY DEF TypeIInv, UsherTypeOK, LateCall
<1>3. q \in LateCalls /\ LateCalls' \in {LateCalls, LateCalls \ {q}}
  <2> HIDE DEF q
  <2>1. q = Requested(l)
    BY DEF q
  <2> QED BY <1>1, <2>1 DEF LateCalls
<1>4. \A o \in Client : AsCall(o)' = AsCall(o)
  BY <1>1 DEF AsCall
<1>5. \/ \E bound \in SUBSET (PortMin..PortMax) : \E f \in Calls!Effects(table, q, bound) :
           table' = Calls!Applied(table, f) /\ unsure' = unsure \cup DOMAIN f
      \/ UNCHANGED <<table, unsure>>
  <2>1. CASE /\ l.pc = "upsert"
             /\ \E stored \in Filled(table, l.host, l.route, Bound) : Put(l.host, stored)
             /\ Unsure({l.host})
    <3>1. q.op = "upsert" /\ q.host = l.host /\ q.route = l.route
      BY <2>1 DEF Requested
    <3> HIDE DEF q
    <3>2. \E bound \in SUBSET (PortMin..PortMax) : \E f \in Calls!Effects(table, q, bound) :
            table' = Calls!Applied(table, f) /\ DOMAIN f = {l.host}
      BY <1>2, <2>1, <3>1, StoreIsEffect
    <3> QED BY <2>1, <3>2 DEF Unsure
  <2>2. ASSUME NEW gone, Dropped(gone),
               Calls!Removing(gone \cap Routed(table)) \in Calls!Effects(table, q, {})
        PROVE  \E f \in Calls!Effects(table, q, {}) :
                 table' = Calls!Applied(table, f) /\ unsure' = unsure \cup DOMAIN f
    <3> DEFINE hosts == gone \cap Routed(table)
    <3>1. table' = Calls!Applied(table, Calls!Removing(hosts))
          /\ DOMAIN Calls!Removing(hosts) = hosts
      BY <2>2, DropIsEffect DEF Dropped
    <3> QED BY <2>2, <3>1 DEF Dropped, Unsure
  <2>3. CASE l.pc = "remove" /\ Dropped({l.host})
    <3>1. q.op = "remove" /\ q.host = l.host
      BY <2>3 DEF Requested
    <3>2. Calls!Removing({l.host} \cap Routed(table)) \in Calls!Effects(table, q, {})
      BY <3>1, RemovalEffects
    <3> HIDE DEF q
    <3> QED BY <2>2, <2>3, <3>2
  <2>4. CASE /\ l.pc = "removeMachine"
             /\ Dropped(OnMachine(table, l.route.adapter, l.route.machine))
    <3> DEFINE gone == OnMachine(table, l.route.adapter, l.route.machine)
    <3>1. q.op = "removeMachine" /\ q.adapter = l.route.adapter /\ q.machine = l.route.machine
      BY <2>4 DEF Requested
    <3>2. gone \cap Routed(table) = gone
      BY DEF OnMachine
    <3>3. Calls!Removing(gone \cap Routed(table)) \in Calls!Effects(table, q, {})
      BY <3>1, <3>2, RemovalEffects
    <3>4. Dropped(gone)
      BY <2>4
    <3> HIDE DEF q, gone
    <3> QED BY <2>2, <3>3, <3>4
  <2> HIDE DEF q
  <2> QED BY <1>1, <2>1, <2>3, <2>4
<1> HIDE DEF q
<1>6. Calls!ServeLate(q)
  BY <1>3, <1>4, <1>5 DEF Calls!ServeLate, LateCalls
<1> QED BY <1>3, <1>6

LEMMA NextIsCallsNext ==
  ASSUME TypeIInv, TypeIInv', [Next]_vars
  PROVE  Calls!CallsNext \/ UNCHANGED Calls!callsVars
<1>1. ASSUME NEW c \in Client, Started(c) \/ Running(c)
      PROVE  Calls!Make(c) \/ UNCHANGED Calls!callsVars
  BY <1>1, LocalSteps
<1>2. ASSUME NEW c \in Client, Answered(c) \/ TimesOut(c)
      PROVE  Calls!TakeEffect(c) \/ Calls!Fail(c) \/ Calls!GiveUp(c)
  BY <1>2, UpsertIsEffect, RemoveIsEffect, RemoveMachineIsEffect, NothingIsEffect,
     RefusalIsFail, TimesOutIsGiveUp DEF Answered
<1>3. ServeLate => \E q \in LateCalls : Calls!ServeLate(q)
  BY LateIsServeLate
<1>4. CASE Environment \/ UNCHANGED vars
  <2>1. UNCHANGED <<table, cmd, late, unsure>>
    BY <1>4 DEF Environment, vars
  <2>2. \A o \in Client : AsCall(o)' = AsCall(o)
    BY <2>1 DEF AsCall
  <2> QED BY <2>1, <2>2 DEF Calls!callsVars
<1> QED BY <1>1, <1>2, <1>3, <1>4 DEF Next, Calls!CallsNext, LateCalls

LEMMA CallsInitially == Init => Calls!CallsInit
<1> SUFFICES ASSUME Init PROVE Calls!CallsInit
  OBVIOUS
<1>1. \A c \in Client : AsCall(c) = Calls!Idle
  BY NoCommandType DEF Init, AsCall, Waiting, Calls!Idle
<1>2. table = Calls!EmptyTable
  BY DEF Init, EmptyTable, Calls!EmptyTable
<1>3. late = {} /\ unsure = {} /\ LateCalls = {}
  BY DEF Init, LateCalls
<1> QED BY <1>1, <1>2, <1>3 DEF Calls!CallsInit, LateCalls

(***************************************************************************)
(* `usher up' and `usher down' are callers of the service that the daemon  *)
(* implements: any number of commands, with hostnames and machines of their *)
(* own or shared, whatever fails and whatever is served late (up.go:45-76, *)
(* down.go:36-103).                                                        *)
(***************************************************************************)
THEOREM UsherImplementsCalls == Spec => CallsSpec
<1>1. TypeIInv /\ TypeIInv' /\ [Next]_vars => [Calls!CallsNext]_(Calls!callsVars)
  BY NextIsCallsNext
<1> QED BY <1>1, UsherTypeInvariant, CallsInitially, PTL DEF Spec, CallsSpec, Calls!Spec

=============================================================================
