------------------------------- MODULE Usher -------------------------------
(***************************************************************************)
(* The whole of `usher up' and `usher down': commands run side by side by  *)
(* several terminals (cmd/up.go, cmd/down.go), the adapters that act on    *)
(* machines from within them, the daemon's table, and the sandboxes.       *)
(*                                                                         *)
(* The daemon answers a call in one step here, a step of RouteCalls, which *)
(* Daemon implements as well.  A command that fails says so and ends.      *)
(***************************************************************************)
EXTENDS Routes, FiniteSets

CONSTANTS
  Client,   \* the terminals
  Work,     \* the hostnames and requests each terminal is used for
  MaxLate,  \* bound on the calls given up and not yet served
  Faults,   \* what may go wrong: "sbx" (a sandbox command fails),
            \*   "unreachable" (no daemon), "apply" (the daemon stores a
            \*   mutation and then answers an error), "timeout"
  Free,     \* a loopback port nothing listens on
  Other     \* a loopback port of a process usher knows nothing of

ASSUME WorkAssumption ==
  /\ Host # {}
  /\ Work \in [Client -> SUBSET (Host \X Requests)]
  /\ MaxLate \in Nat
ASSUME FaultsAssumption == Faults \subseteq {"sbx", "unreachable", "apply", "timeout"}
ASSUME PortStateAssumption ==
  /\ Free # Other
  /\ {Free, Other} \cap (Machine \X MachinePort) = {}

VARIABLES
  table,   \* the daemon's routes
  port,    \* who listens on each loopback port
  alive,   \* the machines that exist: <<adapter, machine>>
  cmd,     \* the command each terminal runs
  late,    \* calls whose client gave up before the daemon came to them
  unsure   \* history: hosts whose last change no command was told of

vars == <<table, port, alive, cmd, late, unsure>>

LoopbackPort == (PortMin..PortMax) \cup ({r.hostPort : r \in Requests} \ {0})
MachineOf(r) == <<r.adapter, r.machine>>
Machines == {MachineOf(r) : r \in {x \in Requests : x.adapter # "static"}}

Waiting == {"upsert", "rollback", "remove", "list", "removeMachine"}
Local == {"attach", "publish", "detach", "destroy"}

NoCommand ==
  [pc |-> "idle", host |-> CHOOSE h \in Host : TRUE, route |-> NoRoute,
   used |-> FALSE, destroy |-> FALSE]

LateCall ==
  [pc : {"upsert", "remove", "removeMachine"}, host : Host,
   route : Requests \cup Route \cup {NoRoute}]

UsherTypeOK ==
  /\ table \in Table
  /\ port \in [LoopbackPort -> {Free, Other} \cup (Machine \X MachinePort)]
  /\ alive \subseteq Machines
  /\ cmd \in [Client -> [pc : {"idle"} \cup Waiting \cup Local, host : Host,
                         route : Requests \cup Route \cup {NoRoute},
                         used : BOOLEAN, destroy : BOOLEAN]]
  /\ late \subseteq LateCall
  /\ unsure \subseteq Host

Init ==
  /\ table = EmptyTable
  /\ port = [p \in LoopbackPort |-> Free]
  /\ alive = Machines
  /\ cmd = [c \in Client |-> NoCommand]
  /\ late = {}
  /\ unsure = {}

-----------------------------------------------------------------------------
At(c, label) == cmd[c].pc = label
Goto(c, label) == cmd' = [cmd EXCEPT ![c].pc = label]
End(c) == cmd' = [cmd EXCEPT ![c] = NoCommand]

Bound == {p \in LoopbackPort : port[p] # Free}
Exists(r) == r.adapter = "static" \/ MachineOf(r) \in alive

Put(h, r) == table' = [table EXCEPT ![h] = r]
Drop(hosts) == table' = [h \in Host |-> IF h \in hosts THEN NoRoute ELSE table[h]]

(***************************************************************************)
(* The command was told of its change, or it was not.                      *)
(***************************************************************************)
Sure(hosts) == unsure' = unsure \ hosts
Unsure(hosts) == unsure' = unsure \cup hosts

-----------------------------------------------------------------------------
(***************************************************************************)
(* usher up: Attach, Upsert, Publish, and Remove if publishing fails.      *)
(***************************************************************************)
RunUp(c, h, r) ==
  /\ At(c, "idle")
  /\ <<h, r>> \in Work[c]
  /\ cmd' = [cmd EXCEPT ![c] = [NoCommand EXCEPT !.pc = "attach", !.host = h,
                                                 !.route = r]]
  /\ UNCHANGED <<table, port, alive, late, unsure>>

Attach(c) ==
  /\ At(c, "attach")
  /\ IF Exists(cmd[c].route) THEN Goto(c, "upsert") ELSE End(c)
  /\ UNCHANGED <<table, port, alive, late, unsure>>

Upsert(c) ==
  /\ At(c, "upsert")
  /\ \E stored \in Filled(table, cmd[c].host, cmd[c].route, Bound) :
       /\ Put(cmd[c].host, stored)
       /\ \/ /\ cmd' = [cmd EXCEPT ![c].pc = "publish", ![c].route = stored]
             /\ Sure({cmd[c].host})
          \/ "apply" \in Faults /\ End(c) /\ Unsure({cmd[c].host})
  /\ UNCHANGED <<port, alive, late>>

UpsertRefused(c) ==
  /\ At(c, "upsert")
  /\ Filled(table, cmd[c].host, cmd[c].route, Bound) = {}
  /\ End(c)
  /\ UNCHANGED <<table, port, alive, late, unsure>>

Published(r) == <<r.machine, r.machinePort>>

(***************************************************************************)
(* `sbx ports --publish': repeating a publish that is there is accepted.   *)
(***************************************************************************)
Publishable(r) ==
  /\ Exists(r)
  /\ port[r.hostPort] \in {Free, Published(r)}

Publish(c) ==
  LET r == cmd[c].route
  IN  /\ At(c, "publish")
      /\ IF r.adapter = "sbx"
         THEN Publishable(r) /\ port' = [port EXCEPT ![r.hostPort] = Published(r)]
         ELSE UNCHANGED port
      /\ End(c)
      /\ UNCHANGED <<table, alive, late, unsure>>

(***************************************************************************)
(* A command that reports the failure and leaves the route.                *)
(***************************************************************************)
PublishFailsNoRollback(c) ==
  /\ At(c, "publish")
  /\ cmd[c].route.adapter = "sbx"
  /\ "sbx" \in Faults \/ ~Publishable(cmd[c].route)
  /\ End(c)
  /\ UNCHANGED <<table, port, alive, late, unsure>>

PublishFails(c) ==
  /\ At(c, "publish")
  /\ cmd[c].route.adapter = "sbx"
  /\ "sbx" \in Faults \/ ~Publishable(cmd[c].route)
  /\ Goto(c, "rollback")
  /\ UNCHANGED <<table, port, alive, late, unsure>>

(***************************************************************************)
(* A rollback that calls RemoveMachine instead of Remove.                  *)
(***************************************************************************)
RollbackMachine(c) ==
  LET gone == OnMachine(table, cmd[c].route.adapter, cmd[c].route.machine)
  IN  /\ At(c, "rollback")
      /\ Drop(gone)
      /\ Sure(gone)
      /\ End(c)
      /\ UNCHANGED <<port, alive, late>>

Rollback(c) ==
  LET gone == {cmd[c].host} \cap Routed(table)
  IN  /\ At(c, "rollback")
      /\ Drop(gone)
      /\ \/ Sure(gone)
         \/ "apply" \in Faults /\ Unsure(gone)
      /\ End(c)
      /\ UNCHANGED <<port, alive, late>>

-----------------------------------------------------------------------------
(***************************************************************************)
(* usher down: Remove, List, Detach and, with --destroy, RemoveMachine and *)
(* Destroy.                                                                *)
(***************************************************************************)
RunDown(c, h, destroy) ==
  /\ At(c, "idle")
  /\ \E r \in Requests : <<h, r>> \in Work[c]
  /\ cmd' = [cmd EXCEPT ![c] = [NoCommand EXCEPT !.pc = "remove", !.host = h,
                                                 !.destroy = destroy]]
  /\ UNCHANGED <<table, port, alive, late, unsure>>

Remove(c) ==
  LET h == cmd[c].host
      r == table[h]
  IN  /\ At(c, "remove")
      /\ r # NoRoute
      /\ Drop({h})
      /\ \/ cmd' = [cmd EXCEPT ![c].pc = "list", ![c].route = r] /\ Sure({h})
         \/ "apply" \in Faults /\ End(c) /\ Unsure({h})
      /\ UNCHANGED <<port, alive, late>>

RemoveNothing(c) ==
  /\ At(c, "remove")
  /\ table[cmd[c].host] = NoRoute
  /\ End(c)
  /\ UNCHANGED <<table, port, alive, late, unsure>>

(***************************************************************************)
(* A List whose answer is matched on the hostname as well.                 *)
(***************************************************************************)
StillRoutedSameHost(h, r) == table[h] # NoRoute /\ SameMachine(table[h], r)

(***************************************************************************)
(* machinePortStillRouted, over the routes the daemon lists now.           *)
(***************************************************************************)
StillRouted(h, r) == \E x \in Routed(table) : SameMachine(table[x], r)

List(c) ==
  /\ At(c, "list")
  /\ cmd' = [cmd EXCEPT ![c].pc = "detach",
                        ![c].used = StillRouted(cmd[c].host, cmd[c].route)]
  /\ UNCHANGED <<table, port, alive, late, unsure>>

Unpublishes(c) == cmd[c].route.adapter = "sbx" /\ ~cmd[c].used
Unpublishable(r) == Exists(r) /\ port[r.hostPort] = Published(r)

Detach(c) ==
  LET r == cmd[c].route
  IN  /\ At(c, "detach")
      /\ IF Unpublishes(c)
         THEN Unpublishable(r) /\ port' = [port EXCEPT ![r.hostPort] = Free]
         ELSE UNCHANGED port
      /\ \/ ~cmd[c].destroy /\ End(c)
         \/ cmd[c].destroy /\ r.adapter = "static" /\ Goto(c, "destroy")
         \/ cmd[c].destroy /\ r.adapter # "static" /\ Goto(c, "removeMachine")
      /\ UNCHANGED <<table, alive, late, unsure>>

DetachFails(c) ==
  /\ At(c, "detach")
  /\ Unpublishes(c)
  /\ "sbx" \in Faults \/ ~Unpublishable(cmd[c].route)
  /\ End(c)
  /\ UNCHANGED <<table, port, alive, late, unsure>>

(***************************************************************************)
(* A --destroy that goes straight to the machine.                          *)
(***************************************************************************)
KeepMachineRoutes(c) ==
  /\ At(c, "removeMachine")
  /\ Goto(c, "destroy")
  /\ UNCHANGED <<table, port, alive, late, unsure>>

RemoveMachine(c) ==
  LET r == cmd[c].route
      gone == OnMachine(table, r.adapter, r.machine)
  IN  /\ At(c, "removeMachine")
      /\ Drop(gone)
      /\ \/ Goto(c, "destroy") /\ Sure(gone)
         \/ "apply" \in Faults /\ End(c) /\ Unsure(gone)
      /\ UNCHANGED <<port, alive, late>>

NothingToDestroy(c) ==
  /\ At(c, "destroy")
  /\ cmd[c].route.adapter \in {"static", "orb"}
  /\ End(c)
  /\ UNCHANGED <<table, port, alive, late, unsure>>

(***************************************************************************)
(* `sbx rm --force' and ContainerRemove: a sandbox's published ports go    *)
(* with it.                                                                *)
(***************************************************************************)
Destroy(c) ==
  LET r == cmd[c].route
  IN  /\ At(c, "destroy")
      /\ r.adapter \in {"sbx", "docker"}
      /\ Exists(r)
      /\ alive' = alive \ {MachineOf(r)}
      /\ port' = [p \in LoopbackPort |->
                    IF r.adapter = "sbx" /\ port[p] \in {r.machine} \X MachinePort
                    THEN Free ELSE port[p]]
      /\ End(c)
      /\ UNCHANGED <<table, late, unsure>>

DestroyFails(c) ==
  /\ At(c, "destroy")
  /\ cmd[c].route.adapter \in {"sbx", "docker"}
  /\ "sbx" \in Faults \/ ~Exists(cmd[c].route)
  /\ End(c)
  /\ UNCHANGED <<table, port, alive, late, unsure>>

-----------------------------------------------------------------------------
(***************************************************************************)
(* Calls that come to nothing: no daemon behind the socket, or no answer   *)
(* within callTimeout.  The daemon's handler does not look at its context, *)
(* so a call given up may still be served, late.                           *)
(***************************************************************************)
Unreachable(c) ==
  /\ "unreachable" \in Faults
  /\ cmd[c].pc \in Waiting
  /\ End(c)
  /\ UNCHANGED <<table, port, alive, late, unsure>>

(***************************************************************************)
(* What the daemon may still be asked for: a List changes nothing.         *)
(***************************************************************************)
GivenUp(c) ==
  LET removes == cmd[c].pc \in {"remove", "rollback"}
  IN  IF At(c, "list") THEN {}
      ELSE {[pc |-> IF removes THEN "remove" ELSE cmd[c].pc, host |-> cmd[c].host,
             route |-> IF removes THEN NoRoute ELSE cmd[c].route]}

(***************************************************************************)
(* A List without the timeout of the other calls.                          *)
(***************************************************************************)
ListWaits(c) ==
  /\ "timeout" \in Faults
  /\ cmd[c].pc \in Waiting \ {"list"}
  /\ late' \in {late, late \cup GivenUp(c)}
  /\ Cardinality(late') <= MaxLate
  /\ End(c)
  /\ UNCHANGED <<table, port, alive, unsure>>

(***************************************************************************)
(* A client that makes its call again when the deadline has passed.        *)
(***************************************************************************)
RetriesAtTimeout(c) ==
  /\ "timeout" \in Faults
  /\ cmd[c].pc \in Waiting
  /\ late' \in {late, late \cup GivenUp(c)}
  /\ Cardinality(late') <= MaxLate
  /\ UNCHANGED <<table, port, alive, cmd, unsure>>

(***************************************************************************)
(* A call given up before it reached the daemon is one that never arrives. *)
(***************************************************************************)
TimesOut(c) ==
  /\ "timeout" \in Faults
  /\ cmd[c].pc \in Waiting
  /\ late' \in {late, late \cup GivenUp(c)}
  /\ Cardinality(late') <= MaxLate
  /\ End(c)
  /\ UNCHANGED <<table, port, alive, unsure>>

Dropped(hosts) == Drop(hosts) /\ Unsure(hosts \cap Routed(table))

ServeLate ==
  \E l \in late :
    /\ late' = late \ {l}
    /\ \/ /\ l.pc = "upsert"
          /\ \E stored \in Filled(table, l.host, l.route, Bound) : Put(l.host, stored)
          /\ Unsure({l.host})
       \/ /\ l.pc = "upsert"
          /\ Filled(table, l.host, l.route, Bound) = {}
          /\ UNCHANGED <<table, unsure>>
       \/ l.pc = "remove" /\ Dropped({l.host})
       \/ /\ l.pc = "removeMachine"
          /\ Dropped(OnMachine(table, l.route.adapter, l.route.machine))
    /\ UNCHANGED <<port, alive, cmd>>

(***************************************************************************)
(* The rest of the host: other processes come and go on loopback ports,    *)
(* and a user creates a machine under a name that was destroyed.           *)
(***************************************************************************)
Environment ==
  /\ \/ \E p \in LoopbackPort : /\ port[p] \in {Free, Other}
                                /\ \E owner \in {Free, Other} \ {port[p]} :
                                     port' = [port EXCEPT ![p] = owner]
                                /\ UNCHANGED alive
     \/ \E m \in Machines \ alive : alive' = alive \cup {m} /\ UNCHANGED port
  /\ UNCHANGED <<table, cmd, late, unsure>>

Started(c) ==
  \/ \E h \in Host, r \in Requests : RunUp(c, h, r)
  \/ \E h \in Host, destroy \in BOOLEAN : RunDown(c, h, destroy)

Running(c) ==
  \/ Attach(c) \/ Publish(c) \/ PublishFails(c) \/ NothingToDestroy(c)
  \/ Detach(c) \/ DetachFails(c) \/ Destroy(c) \/ DestroyFails(c)

Answered(c) ==
  \/ Upsert(c) \/ UpsertRefused(c) \/ Rollback(c) \/ Remove(c) \/ RemoveNothing(c)
  \/ List(c) \/ RemoveMachine(c) \/ Unreachable(c)

Next ==
  \/ \E c \in Client : Started(c) \/ Running(c) \/ Answered(c) \/ TimesOut(c)
  \/ ServeLate
  \/ Environment

Spec == Init /\ [][Next]_vars

(***************************************************************************)
(* The commands a CLI process runs end, and a call that is not answered    *)
(* times out.  Nothing is assumed of the daemon.                           *)
(***************************************************************************)
FairSpec == Spec /\ \A c \in Client : WF_vars(Running(c)) /\ WF_vars(TimesOut(c))

-----------------------------------------------------------------------------
Works(h) ==
  /\ table[h] # NoRoute
  /\ table[h].adapter = "sbx"
     => Exists(table[h]) /\ port[table[h].hostPort] = Published(table[h])

Quiet == late = {} /\ \A c \in Client : At(c, "idle")

(***************************************************************************)
(* "Never leave a route pointing at something unreachable" (up.go:69):     *)
(* when no command is running, every sandbox route has its port published. *)
(***************************************************************************)
Reachable == Quiet => \A h \in Routed(table) : Works(h)

(***************************************************************************)
(* "Other hostnames pointing at the same machine keep working"             *)
(* (down.go:21-22): no unpublish breaks a route that worked.               *)
(***************************************************************************)
DetachKeepsOthers ==
  [][\A c \in Client : At(c, "detach") /\ cmd'[c].pc # "detach"
       => \A h \in Host : Works(h) => Works(h)']_vars

(***************************************************************************)
(* When `down --destroy' has removed a machine, "nothing is left pointing  *)
(* at something that no longer exists" (down.go:74-75).                    *)
(***************************************************************************)
DestroyLeavesNothing ==
  [][\A m \in alive \ alive' : OnMachine(table', m[1], m[2]) = {}]_vars

(***************************************************************************)
(* Terminals that work on hostnames and machines of their own never get in *)
(* each other's way, whatever ports their earlier commands left published: *)
(* the port the daemon gave one of them to publish is not one a sandbox of *)
(* another holds by then (route.go:203-207).                               *)
(***************************************************************************)
MachinesOf(c) == {w[2].machine : w \in Work[c]}

PortsApart ==
  \A c, o \in Client :
    c # o /\ At(c, "publish") /\ cmd[c].route.adapter = "sbx"
      => port[cmd[c].route.hostPort] \notin MachinesOf(o) \X MachinePort

(***************************************************************************)
(* The commands and the table are callers of the service that Daemon       *)
(* implements: each call of up.go and down.go does to the table what its   *)
(* handler does, a command goes on to its next call only after a success,  *)
(* and only a call that was given up can be served without its command.    *)
(***************************************************************************)
Requested(k) ==
  CASE k.pc = "upsert" -> [op |-> "upsert", host |-> k.host, route |-> k.route]
    [] k.pc \in {"rollback", "remove"} -> [op |-> "remove", host |-> k.host]
    [] k.pc = "removeMachine" ->
         [op |-> "removeMachine", adapter |-> k.route.adapter, machine |-> k.route.machine]
    [] OTHER -> [op |-> "list"]

AsCall(c) ==
  IF cmd[c].pc \in Waiting THEN [stage |-> "made", request |-> Requested(cmd[c])]
  ELSE [stage |-> "none"]

Calls == INSTANCE RouteCalls WITH
  Caller <- Client,
  calls  <- [c \in Client |-> AsCall(c)],
  late   <- {Requested(l) : l \in late},
  open   <- unsure

CallsSpec == Calls!Spec

(***************************************************************************)
(* A command ends whatever the daemon does: every call it makes has the    *)
(* deadline of api.go:27-29, so a daemon stuck in a reload does not hang it*)
(***************************************************************************)
CommandsEnd == \A c \in Client : ~At(c, "idle") ~> At(c, "idle")

=============================================================================
