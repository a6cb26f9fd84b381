------------------------------- MODULE Daemon -------------------------------
(***************************************************************************)
(* internal/daemon: the gRPC handlers over the route store, the reloads of *)
(* Caddy under applyMu, and the life of the process.                       *)
(*                                                                         *)
(* Every call is served by a goroutine of its own, one of Handler.  None   *)
(* looks at its context, so a call whose client has gone or timed out runs *)
(* to its end all the same: a Handler is a call, not a terminal.           *)
(***************************************************************************)
EXTENDS RouteStore

CONSTANTS
  Handler,     \* the goroutines that can serve calls at one time
  NoHandler,   \* applyMu when it is free
  Open         \* a host whose last mutation has no successful answer

ASSUME HandlerAssumption == NoHandler \notin Handler
ASSUME OpenAssumption == Open \notin Route \cup {NoRoute}

VARIABLES
  state,     \* "down", "serving", or "draining" (GracefulStop)
  applyMu,   \* the handler that holds Daemon.applyMu
  pc,        \* how far each handler has come
  call,      \* the request it serves
  reply,     \* what it did to which hosts, as it will report it
  listed,    \* the List it is about to hand to proxy.Apply
  proxied,   \* the table whose Caddyfile Caddy runs
  acked      \* history: what the last successful answer said of each host

daemonVars == <<state, applyMu, pc, call, reply, listed, proxied, acked>>
vars == <<storeVars, daemonVars>>

UpsertCall == [op : {"upsert"}, host : Host, route : Requests]
RemoveCall == [op : {"remove"}, host : Host]
RemoveMachineCall ==
  {[op |-> "removeMachine", adapter |-> r.adapter, machine |-> r.machine] :
     r \in Requests}
ListCall == [op |-> "list"]
Malformed == [op |-> "malformed"]
NoCall == [op |-> "none"]

Mutation == UpsertCall \cup RemoveCall \cup RemoveMachineCall
Call == Mutation \cup {ListCall, Malformed}

NoReply == [h \in {} |-> NoRoute]

IsReply(f) ==
  /\ DOMAIN f \subseteq Host
  /\ f \in [DOMAIN f -> Route \cup {NoRoute}]

Holding == {"locked", "saving", "apply", "load"}

DaemonTypeOK ==
  /\ StoreTypeOK
  /\ state \in {"down", "serving", "draining"}
  /\ applyMu \in Handler \cup {NoHandler}
  /\ pc \in [Handler -> {"idle", "called"} \cup Holding]
  /\ call \in [Handler -> Call \cup {NoCall}]
  /\ reply = [c \in Handler |-> reply[c]]
  /\ \A c \in Handler : IsReply(reply[c])
  /\ listed \in [Handler -> Table]
  /\ proxied \in Table
  /\ acked \in [Host -> Route \cup {NoRoute, Open}]

Init ==
  /\ StoreInit
  /\ state = "down"
  /\ applyMu = NoHandler
  /\ pc = [c \in Handler |-> "idle"]
  /\ call = [c \in Handler |-> NoCall]
  /\ reply = [c \in Handler |-> NoReply]
  /\ listed = [c \in Handler |-> EmptyTable]
  /\ proxied = EmptyTable
  /\ acked = EmptyTable

-----------------------------------------------------------------------------
(***************************************************************************)
(* Arrival and return of a call.                                           *)
(***************************************************************************)
Goto(c, label) == pc' = [pc EXCEPT ![c] = label]

Finish(c) ==
  /\ Goto(c, "idle")
  /\ call' = [call EXCEPT ![c] = NoCall]
  /\ reply' = [reply EXCEPT ![c] = NoReply]
  /\ listed' = [listed EXCEPT ![c] = EmptyTable]

(***************************************************************************)
(* The deferred Unlock runs on every return of a handler that has locked.  *)
(***************************************************************************)
Return(c) == Finish(c) /\ applyMu' = NoHandler

Accept(c) ==
  /\ state = "serving"
  /\ pc[c] = "idle"
  /\ Goto(c, "called")
  /\ \E request \in Call : call' = [call EXCEPT ![c] = request]
  /\ UNCHANGED <<storeVars, state, applyMu, reply, listed, proxied, acked>>

(***************************************************************************)
(* InvalidArgument: nothing is locked and nothing changes.                 *)
(***************************************************************************)
Reject(c) ==
  /\ pc[c] = "called"
  /\ call[c] = Malformed
  /\ Finish(c)
  /\ UNCHANGED <<storeVars, state, applyMu, proxied, acked>>

(***************************************************************************)
(* ListRoutes takes Store.mu only, so it waits for a save in progress but  *)
(* not for a reload.                                                       *)
(***************************************************************************)
ListRoutes(c) ==
  /\ pc[c] = "called"
  /\ call[c] = ListCall
  /\ saving = "no"
  /\ Finish(c)
  /\ UNCHANGED <<storeVars, state, applyMu, proxied, acked>>

(***************************************************************************)
(* A handler that does not wait for applyMu.                               *)
(***************************************************************************)
LockWithoutWaiting(c) ==
  /\ pc[c] = "called"
  /\ call[c] \in Mutation
  /\ Goto(c, "locked")
  /\ UNCHANGED <<storeVars, state, applyMu, call, reply, listed, proxied, acked>>

Lock(c) ==
  /\ pc[c] = "called"
  /\ call[c] \in Mutation
  /\ applyMu = NoHandler
  /\ applyMu' = c
  /\ Goto(c, "locked")
  /\ UNCHANGED <<storeVars, state, call, reply, listed, proxied, acked>>

-----------------------------------------------------------------------------
(***************************************************************************)
(* The mutation of the store.  The hosts it touches are open from here on. *)
(***************************************************************************)
Begin(c, touched) ==
  /\ Goto(c, "saving")
  /\ reply' = [reply EXCEPT ![c] = [h \in touched |-> routes'[h]]]
  /\ acked' = [h \in Host |-> IF h \in touched THEN Open ELSE acked[h]]
  /\ UNCHANGED <<state, applyMu, call, listed, proxied>>

UpsertRoute(c) ==
  /\ pc[c] = "locked"
  /\ call[c] \in UpsertCall
  /\ \E bound \in SUBSET (PortMin..PortMax) :
       Upsert(call[c].host, call[c].route, bound)
  /\ Begin(c, {call[c].host})

UpsertRefused(c) ==
  /\ pc[c] = "locked"
  /\ call[c] \in UpsertCall
  /\ \E bound \in SUBSET (PortMin..PortMax) :
       Filled(routes, call[c].host, call[c].route, bound) = {}
  /\ Return(c)
  /\ UNCHANGED <<storeVars, state, proxied, acked>>

RemoveRoute(c) ==
  /\ pc[c] = "locked"
  /\ call[c] \in RemoveCall
  /\ Remove(call[c].host)
  /\ Begin(c, {call[c].host})

RemoveMachineRoutes(c) ==
  /\ pc[c] = "locked"
  /\ call[c] \in RemoveMachineCall
  /\ RemoveMachine(call[c].adapter, call[c].machine)
  /\ Begin(c, OnMachine(routes, call[c].adapter, call[c].machine))

(***************************************************************************)
(* Both removals tolerate having nothing to remove, and reload Caddy.      *)
(***************************************************************************)
NothingToRemove(c) ==
  /\ pc[c] = "locked"
  /\ \/ call[c] \in RemoveCall /\ routes[call[c].host] = NoRoute
     \/ /\ call[c] \in RemoveMachineCall
        /\ OnMachine(routes, call[c].adapter, call[c].machine) = {}
  /\ Goto(c, "apply")
  /\ UNCHANGED <<storeVars, state, applyMu, call, reply, listed, proxied, acked>>

SaveWrites(c) ==
  /\ pc[c] = "saving"
  /\ WriteTmp
  /\ UNCHANGED daemonVars

(***************************************************************************)
(* A return on a failed save that leaves applyMu locked.                   *)
(***************************************************************************)
SaveFailsStillLocked(c) ==
  /\ pc[c] = "saving"
  /\ WriteFails \/ RenameFails
  /\ Finish(c)
  /\ UNCHANGED <<state, applyMu, proxied, acked>>

(***************************************************************************)
(* A handler that answers a failed save as if it had gone well.            *)
(***************************************************************************)
SaveFailsUnnoticed(c) ==
  /\ pc[c] = "saving"
  /\ WriteFails \/ RenameFails
  /\ Goto(c, "apply")
  /\ UNCHANGED <<state, applyMu, call, reply, listed, proxied, acked>>

SaveFails(c) ==
  /\ pc[c] = "saving"
  /\ WriteFails \/ RenameFails
  /\ Return(c)
  /\ UNCHANGED <<state, proxied, acked>>

Saved(c) ==
  /\ pc[c] = "saving"
  /\ Rename
  /\ Goto(c, "apply")
  /\ UNCHANGED <<state, applyMu, call, reply, listed, proxied, acked>>

-----------------------------------------------------------------------------
(***************************************************************************)
(* applyLocked: the routes are listed under Store.mu, then rendered and    *)
(* loaded without it.                                                      *)
(***************************************************************************)
ListForApply(c) ==
  /\ pc[c] = "apply"
  /\ saving = "no"
  /\ listed' = [listed EXCEPT ![c] = routes]
  /\ Goto(c, "load")
  /\ UNCHANGED <<storeVars, state, applyMu, call, reply, proxied, acked>>

(***************************************************************************)
(* caddy.Load swaps the whole configuration; the handler answers what the  *)
(* mutation returned.                                                      *)
(***************************************************************************)
Load(c) ==
  /\ pc[c] = "load"
  /\ proxied' = listed[c]
  /\ acked' = [h \in Host |-> IF h \in DOMAIN reply[c] THEN reply[c][h] ELSE acked[h]]
  /\ Return(c)
  /\ UNCHANGED <<storeVars, state>>

(***************************************************************************)
(* An answer that ignores applyLocked's error.                             *)
(***************************************************************************)
LoadFailsUnnoticed(c) ==
  /\ pc[c] = "load"
  /\ acked' = [h \in Host |-> IF h \in DOMAIN reply[c] THEN reply[c][h] ELSE acked[h]]
  /\ Return(c)
  /\ UNCHANGED <<storeVars, state, proxied>>

(***************************************************************************)
(* Adapting or loading fails: Caddy goes on with the configuration it has, *)
(* and the store keeps the mutation.                                       *)
(***************************************************************************)
LoadFails(c) ==
  /\ pc[c] = "load"
  /\ Return(c)
  /\ UNCHANGED <<storeVars, state, proxied, acked>>

-----------------------------------------------------------------------------
(***************************************************************************)
(* Run reads the table, has Caddy load it, and only then listens: the      *)
(* store's memory is the file's content since Restart.                     *)
(***************************************************************************)
Boot ==
  /\ state = "down"
  /\ file # Torn
  /\ state' = "serving"
  /\ proxied' = routes
  /\ UNCHANGED <<storeVars, applyMu, pc, call, reply, listed, acked>>

(***************************************************************************)
(* SIGINT or SIGTERM: GracefulStop refuses calls and waits for handlers.   *)
(***************************************************************************)
Signal ==
  /\ state = "serving"
  /\ state' = "draining"
  /\ UNCHANGED <<storeVars, applyMu, pc, call, reply, listed, proxied, acked>>

Ended ==
  /\ Restart
  /\ state' = "down"
  /\ applyMu' = NoHandler
  /\ pc' = [c \in Handler |-> "idle"]
  /\ call' = [c \in Handler |-> NoCall]
  /\ reply' = [c \in Handler |-> NoReply]
  /\ listed' = [c \in Handler |-> EmptyTable]
  /\ proxied' = EmptyTable
  /\ UNCHANGED acked

Exit ==
  /\ state = "draining"
  /\ \A c \in Handler : pc[c] = "idle"
  /\ Ended

Crash == state # "down" /\ Ended

(***************************************************************************)
(* What a handler does by itself, without waiting for another one.         *)
(***************************************************************************)
Step(c) ==
  \/ Reject(c) \/ UpsertRoute(c) \/ UpsertRefused(c) \/ RemoveRoute(c)
  \/ RemoveMachineRoutes(c) \/ NothingToRemove(c) \/ SaveWrites(c)
  \/ SaveFails(c) \/ Saved(c) \/ ListForApply(c) \/ Load(c) \/ LoadFails(c)

Next ==
  \/ \E c \in Handler : Accept(c) \/ ListRoutes(c) \/ Lock(c) \/ Step(c)
  \/ Boot \/ Signal \/ Exit \/ Crash

Spec == Init /\ [][Next]_vars

(***************************************************************************)
(* A goroutine that can run does.  sync.Mutex hands itself to a waiter     *)
(* that has waited for a millisecond, so a waiter is not overtaken for     *)
(* ever.  GracefulStop returns once the handlers have.                     *)
(***************************************************************************)
Fairness ==
  /\ \A c \in Handler : WF_vars(Step(c)) /\ SF_vars(Lock(c)) /\ SF_vars(ListRoutes(c))
  /\ WF_vars(Exit)

FairSpec == Spec /\ Fairness

-----------------------------------------------------------------------------
(***************************************************************************)
(* A route the CLI was told of, and a removal it was told of, is what      *)
(* routes.json holds: a crash cannot lose it (route.go:105-107).           *)
(***************************************************************************)
AckedDurable == \A h \in Host : acked[h] # Open => file[h] = acked[h]

(***************************************************************************)
(* Caddy runs every route the CLI was told of: concurrent calls do not     *)
(* race each other into loading stale route sets (daemon.go:38-39), and a  *)
(* new process serves what the old one promised.                           *)
(***************************************************************************)
AckedServed ==
  state # "down" => \A h \in Host : acked[h] # Open => proxied[h] = acked[h]

(***************************************************************************)
(* The promise of the daemon as a whole: a durable table that only a       *)
(* mutation in progress, or one that failed, may change.                   *)
(***************************************************************************)
Ledger == INSTANCE RouteLedger WITH
  ledger <- file,
  served <- IF state = "down" THEN EmptyTable ELSE proxied,
  up     <- state # "down",
  open   <- {h \in Host : acked[h] = Open}

LedgerSpec == Ledger!Spec

(***************************************************************************)
(* To its callers, each call takes effect at one instant on the whole table, *)
(* the store's change under applyMu (daemon.go:169-172), although the save and *)
(* the reload come later and ListRoutes takes only Store.mu; what a success *)
(* says is still so when it is said; a restart loses nothing answered.     *)
(***************************************************************************)
AsCall(c) ==
  IF pc[c] = "idle" THEN [stage |-> "none"]
  ELSE IF pc[c] \in {"called", "locked"} THEN [stage |-> "made", request |-> call[c]]
  ELSE [stage |-> "done", answer |-> reply[c]]

Calls == INSTANCE RouteCalls WITH
  Caller <- Handler,
  table  <- routes,
  calls  <- [c \in Handler |-> AsCall(c)],
  late   <- {},
  open   <- {h \in Host : acked[h] = Open}

CallsSpec == Calls!Spec

(***************************************************************************)
(* Every accepted call returns: an error path that kept applyMu or         *)
(* Store.mu would leave all later calls waiting.                           *)
(***************************************************************************)
CallsAnswered == \A c \in Handler : pc[c] = "called" ~> pc[c] = "idle"

(***************************************************************************)
(* A signalled daemon ends: GracefulStop waits for handlers that do end.   *)
(***************************************************************************)
DrainEnds == state = "draining" ~> state = "down"

(***************************************************************************)
(* "Every mutation writes the file before returning" (route.go:105): when  *)
(* the answer to a removal is a success, routes.json has no such route.    *)
(***************************************************************************)
RemovedStaysRemoved ==
  [][\A c \in Handler :
       /\ call[c] \in RemoveCall
       /\ pc[c] = "load" /\ pc'[c] = "idle"
       /\ proxied' = listed[c] /\ state' # "down"
       => file'[call[c].host] = NoRoute]_vars

=============================================================================
