----------------------------- MODULE RouteCalls -----------------------------
(***************************************************************************)
(* What a caller of the route service may think of a call: it takes effect *)
(* at one instant between being made and being answered, on the table as   *)
(* it is then, or not at all.  No handlers, locks, saves or reloads.       *)
(***************************************************************************)
EXTENDS Routes

CONSTANT Caller

VARIABLES
  table,   \* the routes
  calls,   \* the call each caller has made, and what it has done so far
  late,    \* calls given up that are still to be served
  open     \* hosts with a mutation that is not answered, or failed

callsVars == <<table, calls, late, open>>

Adapter == {"sbx", "docker", "orb", "static"}

Call ==
  [op : {"upsert"}, host : Host, route : Requests]
  \cup [op : {"remove"}, host : Host]
  \cup [op : {"removeMachine"}, adapter : Adapter, machine : Machine]
  \cup [op : {"list", "malformed"}]

Idle == [stage |-> "none"]
Made(q) == [stage |-> "made", request |-> q]
Done(f) == [stage |-> "done", answer |-> f]

-----------------------------------------------------------------------------
(***************************************************************************)
(* What a request does to which hosts of a table.                          *)
(***************************************************************************)
Removing(hosts) == [h \in hosts |-> NoRoute]

Effects(t, q, bound) ==
  CASE q.op = "upsert" ->
         {[h \in {q.host} |-> r] : r \in Filled(t, q.host, q.route, bound)}
    [] q.op = "remove" -> {Removing({q.host} \cap Routed(t))}
    [] q.op = "removeMachine" -> {Removing(OnMachine(t, q.adapter, q.machine))}
    [] q.op = "list" -> {Removing({})}
    [] OTHER -> {}

Applied(t, f) == [h \in Host |-> IF h \in DOMAIN f THEN f[h] ELSE t[h]]

-----------------------------------------------------------------------------
CallsInit ==
  /\ table = EmptyTable
  /\ calls = [c \in Caller |-> Idle]
  /\ late = {}
  /\ open = {}

Becomes(c, new) == calls' = [calls EXCEPT ![c] = new]

(***************************************************************************)
(* A caller with its answer can make its next call at once.                *)
(***************************************************************************)
Goes(c) == \E new \in {Idle} \cup {Made(q) : q \in Call} : Becomes(c, new)

Make(c) ==
  /\ calls[c] = Idle
  /\ \E q \in Call : Becomes(c, Made(q))
  /\ UNCHANGED <<table, late, open>>

(***************************************************************************)
(* The answer may come in the same step, a success or an error; until a    *)
(* success the hosts are open.                                             *)
(***************************************************************************)
TakeEffect(c) ==
  /\ calls[c].stage = "made"
  /\ \E bound \in SUBSET (PortMin..PortMax) :
       \E f \in Effects(table, calls[c].request, bound) :
         /\ table' = Applied(table, f)
         /\ \/ Becomes(c, Done(f)) /\ open' = open \cup DOMAIN f
            \/ Becomes(c, Idle) /\ open' = open \cup DOMAIN f
            \/ Goes(c) /\ open' = open \ DOMAIN f
  /\ UNCHANGED late

(***************************************************************************)
(* A success is true when it is answered: nobody has changed the hosts     *)
(* since.                                                                  *)
(***************************************************************************)
Succeed(c) ==
  /\ calls[c].stage = "done"
  /\ \A h \in DOMAIN calls[c].answer : table[h] = calls[c].answer[h]
  /\ Goes(c)
  /\ open' = open \ DOMAIN calls[c].answer
  /\ UNCHANGED <<table, late>>

(***************************************************************************)
(* An error before or after the effect; the effect is not undone.          *)
(***************************************************************************)
Fail(c) ==
  /\ calls[c] # Idle
  /\ Becomes(c, Idle)
  /\ UNCHANGED <<table, late, open>>

(***************************************************************************)
(* A caller that does not wait any longer cannot take its call back.       *)
(***************************************************************************)
GiveUp(c) ==
  /\ calls[c].stage = "made"
  /\ Becomes(c, Idle)
  /\ late' = late \cup {calls[c].request}
  /\ UNCHANGED <<table, open>>

(***************************************************************************)
(* Callers that gave up the same call have made it more than once.         *)
(***************************************************************************)
ServeLate(q) ==
  /\ late' \in {late, late \ {q}}
  /\ \/ \E bound \in SUBSET (PortMin..PortMax) :
          \E f \in Effects(table, q, bound) :
            /\ table' = Applied(table, f)
            /\ open' = open \cup DOMAIN f
     \/ UNCHANGED <<table, open>>
  /\ UNCHANGED calls

(***************************************************************************)
(* No caller hears of its call any more, and what was never answered may   *)
(* be lost.                                                                *)
(***************************************************************************)
Restarted ==
  /\ calls' = [c \in Caller |-> Idle]
  /\ late' = {}
  /\ table' \in Table
  /\ \A h \in Host \ open : table'[h] = table[h]
  /\ UNCHANGED open

CallsNext ==
  \/ \E c \in Caller : Make(c) \/ TakeEffect(c) \/ Succeed(c) \/ Fail(c) \/ GiveUp(c)
  \/ \E q \in late : ServeLate(q)
  \/ Restarted

Spec == CallsInit /\ [][CallsNext]_callsVars

=============================================================================
