--------------------------- MODULE Daemon_proofs ---------------------------
(***************************************************************************)
(* Proofs about the daemon: for every number of concurrent calls, every    *)
(* set of hostnames and requests, and failures and crashes at any step.    *)
(***************************************************************************)
EXTENDS Daemon, RouteStore_proofs

(***************************************************************************)
(* Every step of the daemon is a step of its store, or leaves it alone.    *)
(***************************************************************************)
LEMMA NextIsStoreNext == [Next]_vars => [StoreNext]_storeVars
<1> SUFFICES ASSUME [Next]_vars PROVE [StoreNext]_storeVars
  OBVIOUS
<1>1. ASSUME NEW c \in Handler, UpsertRoute(c) PROVE StoreNext
  <2>1. call[c].host \in Host /\ call[c].route \in Requests
    BY <1>1 DEF UpsertRoute, UpsertCall
  <2> QED BY <1>1, <2>1 DEF UpsertRoute, StoreNext
<1>2. ASSUME NEW c \in Handler, RemoveRoute(c) PROVE StoreNext
  <2>1. call[c].host \in Host
    BY <1>2 DEF RemoveRoute, RemoveCall
  <2> QED BY <1>2, <2>1 DEF RemoveRoute, StoreNext
<1>3. ASSUME NEW c \in Handler, RemoveMachineRoutes(c) PROVE StoreNext
  <2>1. PICK r \in Requests :
          call[c].adapter = r.adapter /\ call[c].machine = r.machine
    BY <1>3 DEF RemoveMachineRoutes, RemoveMachineCall
  <2>2. RemoveMachine(r.adapter, r.machine)
    BY <1>3, <2>1 DEF RemoveMachineRoutes
  <2> QED BY <2>2 DEF StoreNext
<1>4. ASSUME NEW c \in Handler, SaveWrites(c) \/ SaveFails(c) \/ Saved(c)
      PROVE  StoreNext
  BY <1>4 DEF SaveWrites, SaveFails, Saved, Save, StoreNext
<1>5. ASSUME NEW c \in Handler,
             \/ Accept(c) \/ ListRoutes(c) \/ Lock(c) \/ Reject(c)
             \/ UpsertRefused(c) \/ NothingToRemove(c)
             \/ ListForApply(c) \/ Load(c) \/ LoadFails(c)
      PROVE  UNCHANGED storeVars
  BY <1>5 DEF Accept, ListRoutes, Lock, Reject, UpsertRefused, NothingToRemove,
              ListForApply, Load, LoadFails
<1>6. ASSUME Exit \/ Crash PROVE StoreNext
  BY <1>6 DEF Exit, Crash, Ended, StoreNext
<1>7. ASSUME Boot \/ Signal \/ UNCHANGED vars PROVE UNCHANGED storeVars
  BY <1>7 DEF Boot, Signal, vars
<1> QED BY <1>1, <1>2, <1>3, <1>4, <1>5, <1>6, <1>7 DEF Next, Step

(***************************************************************************)
(* The daemon implements its store: whatever holds of RouteStore holds of  *)
(* the table inside the daemon.                                            *)
(***************************************************************************)
THEOREM DaemonImplementsStore == Spec => StoreSpec
<1>1. Init => StoreInit
  BY DEF Init
<1> QED BY <1>1, NextIsStoreNext, PTL DEF Spec, StoreSpec

-----------------------------------------------------------------------------
(***************************************************************************)
(* The inductive invariant.  applyMu is held exactly by the handler that   *)
(* is between Lock and its return, so at most one mutation is under way;   *)
(* what it has done so far is in its reply, and every host it touches is   *)
(* open.  For the other hosts memory, file and proxy agree with the last   *)
(* answer, and a List taken under applyMu is not stale when it is loaded.  *)
(***************************************************************************)
LockHeld ==
  /\ \A c \in Handler : pc[c] \in Holding <=> applyMu = c
  /\ \A c \in Handler : pc[c] = "saving" => saving # "no"
  /\ saving # "no" => \E c \in Handler : pc[c] = "saving"

NobodyWhenDown ==
  state = "down" => routes = file /\ \A c \in Handler : pc[c] = "idle"

Settled ==
  \A h \in Host : acked[h] # Open =>
    /\ routes[h] = acked[h]
    /\ file[h] = acked[h]
    /\ state # "down" => proxied[h] = acked[h]

Pending ==
  \A c \in Handler : \A h \in DOMAIN reply[c] :
    /\ pc[c] \in {"saving", "apply", "load"}
    /\ acked[h] = Open
    /\ routes[h] = reply[c][h]
    /\ pc[c] # "saving" => file[h] = reply[c][h]

ListedIsFresh == \A c \in Handler : pc[c] = "load" => listed[c] = routes

DaemonIInv ==
  /\ DaemonTypeOK
  /\ StoreIInv
  /\ LockHeld
  /\ NobodyWhenDown
  /\ Settled
  /\ Pending
  /\ ListedIsFresh

-----------------------------------------------------------------------------
(***************************************************************************)
(* Each step of a handler keeps the invariant.                             *)
(***************************************************************************)
LEMMA NoReplyIsReply == IsReply(NoReply)
  BY DEF IsReply, NoReply

LEMMA NothingListed == EmptyTable \in Table
  BY DEF EmptyTable, Table

(* A new call starts with nothing done and nothing listed. *)
LEMMA AcceptIInv ==
  ASSUME DaemonIInv, StoreIInv', NEW c \in Handler, Accept(c)
  PROVE  DaemonIInv'
<1>1. DaemonTypeOK'
  BY HandlerAssumption, NoReplyIsReply, NothingListed
     DEF DaemonIInv, DaemonTypeOK, StoreIInv, Accept, Goto, storeVars, Holding, Mutation,
         Call
<1>2. LockHeld' /\ NobodyWhenDown'
  BY HandlerAssumption
     DEF DaemonIInv, DaemonTypeOK, LockHeld, NobodyWhenDown, Holding, Accept, Goto,
         storeVars
<1>3. Settled'
  BY DEF DaemonIInv, DaemonTypeOK, StoreIInv, StoreTypeOK, LockHeld, Settled, Pending,
         ListedIsFresh, Holding, Accept, Goto, storeVars
<1>4. Pending'
  BY DEF DaemonIInv, DaemonTypeOK, StoreIInv, StoreTypeOK, LockHeld, Pending, NoReply,
         Holding, Accept, Goto, storeVars
<1>5. ListedIsFresh'
  BY DEF DaemonIInv, DaemonTypeOK, LockHeld, ListedIsFresh, Holding, Accept, Goto,
         storeVars
<1> QED BY <1>1, <1>2, <1>3, <1>4, <1>5 DEF DaemonIInv

LEMMA RejectIInv ==
  ASSUME DaemonIInv, StoreIInv', NEW c \in Handler, Reject(c)
  PROVE  DaemonIInv'
<1>1. DaemonTypeOK'
  BY HandlerAssumption, NoReplyIsReply, NothingListed
     DEF DaemonIInv, DaemonTypeOK, StoreIInv, Reject, Finish, Goto, storeVars, Holding,
         Mutation, Call
<1>2. LockHeld' /\ NobodyWhenDown'
  BY HandlerAssumption
     DEF DaemonIInv, DaemonTypeOK, LockHeld, NobodyWhenDown, Holding, Reject, Finish,
         Goto, storeVars
<1>3. Settled'
  BY DEF DaemonIInv, DaemonTypeOK, StoreIInv, StoreTypeOK, LockHeld, Settled, Pending,
         ListedIsFresh, Holding, Reject, Finish, Goto, storeVars
<1>4. Pending'
  BY DEF DaemonIInv, DaemonTypeOK, StoreIInv, StoreTypeOK, LockHeld, Pending, NoReply,
         Holding, Reject, Finish, Goto, storeVars
<1>5. ListedIsFresh'
  BY DEF DaemonIInv, DaemonTypeOK, LockHeld, ListedIsFresh, Holding, Reject, Finish,
         Goto, storeVars
<1> QED BY <1>1, <1>2, <1>3, <1>4, <1>5 DEF DaemonIInv

LEMMA ListRoutesIInv ==
  ASSUME DaemonIInv, StoreIInv', NEW c \in Handler, ListRoutes(c)
  PROVE  DaemonIInv'
<1>1. DaemonTypeOK'
  BY HandlerAssumption, NoReplyIsReply, NothingListed
     DEF DaemonIInv, DaemonTypeOK, StoreIInv, ListRoutes, Finish, Goto, storeVars,
         Holding, Mutation, Call
<1>2. LockHeld' /\ NobodyWhenDown'
  BY HandlerAssumption
     DEF DaemonIInv, DaemonTypeOK, LockHeld, NobodyWhenDown, Holding, ListRoutes, Finish,
         Goto, storeVars
<1>3. Settled'
  BY DEF DaemonIInv, DaemonTypeOK, StoreIInv, StoreTypeOK, LockHeld, Settled, Pending,
         ListedIsFresh, Holding, ListRoutes, Finish, Goto, storeVars
<1>4. Pending'
  BY DEF DaemonIInv, DaemonTypeOK, StoreIInv, StoreTypeOK, LockHeld, Pending, NoReply,
         Holding, ListRoutes, Finish, Goto, storeVars
<1>5. ListedIsFresh'
  BY DEF DaemonIInv, DaemonTypeOK, LockHeld, ListedIsFresh, Holding, ListRoutes, Finish,
         Goto, storeVars
<1> QED BY <1>1, <1>2, <1>3, <1>4, <1>5 DEF DaemonIInv

(* The handler that finds applyMu free becomes its only holder. *)
LEMMA LockIInv ==
  ASSUME DaemonIInv, StoreIInv', NEW c \in Handler, Lock(c)
  PROVE  DaemonIInv'
<1>1. DaemonTypeOK'
  BY HandlerAssumption, NoReplyIsReply, NothingListed
     DEF DaemonIInv, DaemonTypeOK, StoreIInv, Lock, Goto, storeVars, Holding, Mutation,
         Call
<1>2. LockHeld' /\ NobodyWhenDown'
  BY HandlerAssumption
     DEF DaemonIInv, DaemonTypeOK, LockHeld, NobodyWhenDown, Holding, Lock, Goto,
         storeVars
<1>3. Settled'
  BY DEF DaemonIInv, DaemonTypeOK, StoreIInv, StoreTypeOK, LockHeld, Settled, Pending,
         ListedIsFresh, Holding, Lock, Goto, storeVars
<1>4. Pending'
  BY DEF DaemonIInv, DaemonTypeOK, StoreIInv, StoreTypeOK, LockHeld, Pending, NoReply,
         Holding, Lock, Goto, storeVars
<1>5. ListedIsFresh'
  BY DEF DaemonIInv, DaemonTypeOK, LockHeld, ListedIsFresh, Holding, Lock, Goto,
         storeVars
<1> QED BY <1>1, <1>2, <1>3, <1>4, <1>5 DEF DaemonIInv

LEMMA UpsertRefusedIInv ==
  ASSUME DaemonIInv, StoreIInv', NEW c \in Handler, UpsertRefused(c)
  PROVE  DaemonIInv'
<1>1. DaemonTypeOK'
  BY HandlerAssumption, NoReplyIsReply, NothingListed
     DEF DaemonIInv, DaemonTypeOK, StoreIInv, UpsertRefused, Return, Finish, Goto,
         storeVars, Holding, Mutation, Call
<1>2. LockHeld' /\ NobodyWhenDown'
  BY HandlerAssumption
     DEF DaemonIInv, DaemonTypeOK, LockHeld, NobodyWhenDown, Holding, UpsertRefused,
         Return, Finish, Goto, storeVars
<1>3. Settled'
  BY DEF DaemonIInv, DaemonTypeOK, StoreIInv, StoreTypeOK, LockHeld, Settled, Pending,
         ListedIsFresh, Holding, UpsertRefused, Return, Finish, Goto, storeVars
<1>4. Pending'
  BY DEF DaemonIInv, DaemonTypeOK, StoreIInv, StoreTypeOK, LockHeld, Pending, NoReply,
         Holding, UpsertRefused, Return, Finish, Goto, storeVars
<1>5. ListedIsFresh'
  BY DEF DaemonIInv, DaemonTypeOK, LockHeld, ListedIsFresh, Holding, UpsertRefused,
         Return, Finish, Goto, storeVars
<1> QED BY <1>1, <1>2, <1>3, <1>4, <1>5 DEF DaemonIInv

(* A removal of nothing goes on to reload, with no reply about any host. *)
LEMMA NothingToRemoveIInv ==
  ASSUME DaemonIInv, StoreIInv', NEW c \in Handler, NothingToRemove(c)
  PROVE  DaemonIInv'
<1>1. DaemonTypeOK'
  BY HandlerAssumption, NoReplyIsReply, NothingListed
     DEF DaemonIInv, DaemonTypeOK, StoreIInv, NothingToRemove, Goto, storeVars, Holding,
         Mutation, Call
<1>2. LockHeld' /\ NobodyWhenDown'
  BY HandlerAssumption
     DEF DaemonIInv, DaemonTypeOK, LockHeld, NobodyWhenDown, Holding, NothingToRemove,
         Goto, storeVars
<1>3. Settled'
  BY DEF DaemonIInv, DaemonTypeOK, StoreIInv, StoreTypeOK, LockHeld, Settled, Pending,
         ListedIsFresh, Holding, NothingToRemove, Goto, storeVars
<1>4. Pending'
  BY DEF DaemonIInv, DaemonTypeOK, StoreIInv, StoreTypeOK, LockHeld, Pending, NoReply,
         Holding, NothingToRemove, Goto, storeVars
<1>5. ListedIsFresh'
  BY DEF DaemonIInv, DaemonTypeOK, LockHeld, ListedIsFresh, Holding, NothingToRemove,
         Goto, storeVars
<1> QED BY <1>1, <1>2, <1>3, <1>4, <1>5 DEF DaemonIInv

(* The steps of the save: only the rename changes the file, at open hosts. *)
LEMMA SaveWritesIInv ==
  ASSUME DaemonIInv, StoreIInv', NEW c \in Handler, SaveWrites(c)
  PROVE  DaemonIInv'
<1>1. DaemonTypeOK'
  BY HandlerAssumption, NoReplyIsReply, NothingListed
     DEF DaemonIInv, DaemonTypeOK, StoreIInv, SaveWrites, WriteTmp, daemonVars,
         storeVars, Holding, Mutation, Call
<1>2. LockHeld' /\ NobodyWhenDown'
  BY HandlerAssumption
     DEF DaemonIInv, DaemonTypeOK, LockHeld, NobodyWhenDown, Holding, SaveWrites,
         WriteTmp, daemonVars, storeVars
<1>3. Settled'
  BY DEF DaemonIInv, DaemonTypeOK, StoreIInv, StoreTypeOK, LockHeld, Settled, Pending,
         ListedIsFresh, Holding, SaveWrites, WriteTmp, daemonVars, storeVars
<1>4. Pending'
  BY DEF DaemonIInv, DaemonTypeOK, StoreIInv, StoreTypeOK, LockHeld, Pending, NoReply,
         Holding, SaveWrites, WriteTmp, daemonVars, storeVars
<1>5. ListedIsFresh'
  BY DEF DaemonIInv, DaemonTypeOK, LockHeld, ListedIsFresh, Holding, SaveWrites,
         WriteTmp, daemonVars, storeVars
<1> QED BY <1>1, <1>2, <1>3, <1>4, <1>5 DEF DaemonIInv

LEMMA SaveFailsIInv ==
  ASSUME DaemonIInv, StoreIInv', NEW c \in Handler, SaveFails(c)
  PROVE  DaemonIInv'
<1>1. DaemonTypeOK'
  BY HandlerAssumption, NoReplyIsReply, NothingListed
     DEF DaemonIInv, DaemonTypeOK, StoreIInv, SaveFails, Return, Finish, Goto,
         WriteFails, RenameFails, storeVars, Holding, Mutation, Call
<1>2. LockHeld' /\ NobodyWhenDown'
  BY HandlerAssumption
     DEF DaemonIInv, DaemonTypeOK, LockHeld, NobodyWhenDown, Holding, SaveFails, Return,
         Finish, Goto, WriteFails, RenameFails, storeVars
<1>3. Settled'
  BY DEF DaemonIInv, DaemonTypeOK, StoreIInv, StoreTypeOK, LockHeld, Settled, Pending,
         ListedIsFresh, Holding, SaveFails, Return, Finish, Goto, WriteFails,
         RenameFails, storeVars
<1>4. Pending'
  BY DEF DaemonIInv, DaemonTypeOK, StoreIInv, StoreTypeOK, LockHeld, Pending, NoReply,
         Holding, SaveFails, Return, Finish, Goto, WriteFails, RenameFails, storeVars
<1>5. ListedIsFresh'
  BY DEF DaemonIInv, DaemonTypeOK, LockHeld, ListedIsFresh, Holding, SaveFails, Return,
         Finish, Goto, WriteFails, RenameFails, storeVars
<1> QED BY <1>1, <1>2, <1>3, <1>4, <1>5 DEF DaemonIInv

LEMMA SavedIInv ==
  ASSUME DaemonIInv, StoreIInv', NEW c \in Handler, Saved(c)
  PROVE  DaemonIInv'
<1>1. DaemonTypeOK'
  BY HandlerAssumption, NoReplyIsReply, NothingListed
     DEF DaemonIInv, DaemonTypeOK, StoreIInv, Saved, Rename, Goto, storeVars, Holding,
         Mutation, Call
<1>2. LockHeld' /\ NobodyWhenDown'
  BY HandlerAssumption
     DEF DaemonIInv, DaemonTypeOK, LockHeld, NobodyWhenDown, Holding, Saved, Rename,
         Goto, storeVars
<1>3. Settled'
  BY DEF DaemonIInv, DaemonTypeOK, StoreIInv, StoreTypeOK, LockHeld, Settled, Pending,
         ListedIsFresh, Holding, Saved, Rename, Goto, storeVars
<1>4. Pending'
  BY DEF DaemonIInv, DaemonTypeOK, StoreIInv, StoreTypeOK, LockHeld, Pending, NoReply,
         Holding, Saved, Rename, Goto, storeVars
<1>5. ListedIsFresh'
  BY DEF DaemonIInv, DaemonTypeOK, LockHeld, ListedIsFresh, Holding, Saved, Rename, Goto,
         storeVars
<1> QED BY <1>1, <1>2, <1>3, <1>4, <1>5 DEF DaemonIInv

(* Nobody else can change the table between this List and the Load. *)
LEMMA ListForApplyIInv ==
  ASSUME DaemonIInv, StoreIInv', NEW c \in Handler, ListForApply(c)
  PROVE  DaemonIInv'
<1>1. DaemonTypeOK'
  BY HandlerAssumption, NoReplyIsReply, NothingListed
     DEF DaemonIInv, DaemonTypeOK, StoreIInv, StoreTypeOK, ListForApply, Goto, storeVars,
         Holding, Mutation, Call
<1>2. LockHeld' /\ NobodyWhenDown'
  BY HandlerAssumption
     DEF DaemonIInv, DaemonTypeOK, LockHeld, NobodyWhenDown, Holding, ListForApply, Goto,
         storeVars
<1>3. Settled'
  BY DEF DaemonIInv, DaemonTypeOK, StoreIInv, StoreTypeOK, LockHeld, Settled, Pending,
         ListedIsFresh, Holding, ListForApply, Goto, storeVars
<1>4. Pending'
  BY DEF DaemonIInv, DaemonTypeOK, StoreIInv, StoreTypeOK, LockHeld, Pending, NoReply,
         Holding, ListForApply, Goto, storeVars
<1>5. ListedIsFresh'
  BY DEF DaemonIInv, DaemonTypeOK, LockHeld, ListedIsFresh, Holding, ListForApply, Goto,
         storeVars
<1> QED BY <1>1, <1>2, <1>3, <1>4, <1>5 DEF DaemonIInv

(* The load closes the touched hosts: they are served as they are recorded. *)
LEMMA LoadIInv ==
  ASSUME DaemonIInv, StoreIInv', NEW c \in Handler, Load(c)
  PROVE  DaemonIInv'
<1>1. DaemonTypeOK'
  <2>1. \A h \in DOMAIN reply[c] : reply[c][h] \in Route \cup {NoRoute}
    BY DEF DaemonIInv, DaemonTypeOK, IsReply
  <2>2. acked' \in [Host -> Route \cup {NoRoute, Open}]
    BY <2>1 DEF DaemonIInv, DaemonTypeOK, Load
  <2> QED
    BY <2>2, NoReplyIsReply, NothingListed
       DEF DaemonIInv, DaemonTypeOK, StoreIInv, Load, Return, Finish, Goto
<1>2. LockHeld' /\ NobodyWhenDown'
  BY HandlerAssumption
     DEF DaemonIInv, DaemonTypeOK, LockHeld, NobodyWhenDown, Holding, Load, Return,
         Finish, Goto, storeVars
<1>3. Settled'
  BY DEF DaemonIInv, DaemonTypeOK, StoreIInv, StoreTypeOK, LockHeld, Settled, Pending,
         ListedIsFresh, Holding, Load, Return, Finish, Goto, storeVars
<1>4. Pending'
  BY DEF DaemonIInv, DaemonTypeOK, StoreIInv, StoreTypeOK, LockHeld, Pending, NoReply,
         Holding, Load, Return, Finish, Goto, storeVars
<1>5. ListedIsFresh'
  BY DEF DaemonIInv, DaemonTypeOK, LockHeld, ListedIsFresh, Holding, Load, Return,
         Finish, Goto, storeVars
<1> QED BY <1>1, <1>2, <1>3, <1>4, <1>5 DEF DaemonIInv

LEMMA LoadFailsIInv ==
  ASSUME DaemonIInv, StoreIInv', NEW c \in Handler, LoadFails(c)
  PROVE  DaemonIInv'
<1>1. DaemonTypeOK'
  BY HandlerAssumption, NoReplyIsReply, NothingListed
     DEF DaemonIInv, DaemonTypeOK, StoreIInv, LoadFails, Return, Finish, Goto, storeVars,
         Holding, Mutation, Call
<1>2. LockHeld' /\ NobodyWhenDown'
  BY HandlerAssumption
     DEF DaemonIInv, DaemonTypeOK, LockHeld, NobodyWhenDown, Holding, LoadFails, Return,
         Finish, Goto, storeVars
<1>3. Settled'
  BY DEF DaemonIInv, DaemonTypeOK, StoreIInv, StoreTypeOK, LockHeld, Settled, Pending,
         ListedIsFresh, Holding, LoadFails, Return, Finish, Goto, storeVars
<1>4. Pending'
  BY DEF DaemonIInv, DaemonTypeOK, StoreIInv, StoreTypeOK, LockHeld, Pending, NoReply,
         Holding, LoadFails, Return, Finish, Goto, storeVars
<1>5. ListedIsFresh'
  BY DEF DaemonIInv, DaemonTypeOK, LockHeld, ListedIsFresh, Holding, LoadFails, Return,
         Finish, Goto, storeVars
<1> QED BY <1>1, <1>2, <1>3, <1>4, <1>5 DEF DaemonIInv

(***************************************************************************)
(* The three mutations: the store changes at the touched hosts only.       *)
(***************************************************************************)
LEMMA BeginIInv ==
  ASSUME DaemonIInv, StoreIInv', NEW c \in Handler, pc[c] = "locked",
         NEW table, Change(table), NEW touched \in SUBSET Host,
         \A h \in Host \ touched : table[h] = routes[h],
         Begin(c, touched)
  PROVE  DaemonIInv'
<1>1. DaemonTypeOK'
  <2>1. routes' \in Table
    BY DEF StoreIInv, StoreTypeOK
  <2>2. IsReply([h \in touched |-> routes'[h]])
    BY <2>1 DEF IsReply, Table
  <2> QED BY <2>2 DEF DaemonIInv, DaemonTypeOK, StoreIInv, Begin, Goto, Holding
<1>2. LockHeld' /\ NobodyWhenDown'
  BY HandlerAssumption
     DEF DaemonIInv, DaemonTypeOK, LockHeld, NobodyWhenDown, Holding, Begin, Goto, Change
<1>3. Settled'
  BY DEF DaemonIInv, Settled, Begin, Change
<1>4. Pending'
  BY DEF DaemonIInv, DaemonTypeOK, Pending, LockHeld, Holding, Begin, Goto
<1>5. ListedIsFresh'
  BY DEF DaemonIInv, DaemonTypeOK, LockHeld, ListedIsFresh, Holding, Begin, Goto
<1> QED BY <1>1, <1>2, <1>3, <1>4, <1>5 DEF DaemonIInv

LEMMA UpsertRouteIInv ==
  ASSUME DaemonIInv, StoreIInv', NEW c \in Handler, UpsertRoute(c)
  PROVE  DaemonIInv'
<1> DEFINE h == call[c].host
<1>1. h \in Host /\ pc[c] = "locked" /\ Begin(c, {h})
  BY DEF UpsertRoute, UpsertCall
<1>2. PICK stored : Change([routes EXCEPT ![h] = stored])
  BY DEF UpsertRoute, Upsert
<1>3. \A x \in Host \ {h} : [routes EXCEPT ![h] = stored][x] = routes[x]
  BY DEF DaemonIInv, StoreIInv, StoreTypeOK, Table
<1> HIDE DEF h
<1> QED BY <1>1, <1>2, <1>3, BeginIInv

LEMMA RemoveRouteIInv ==
  ASSUME DaemonIInv, StoreIInv', NEW c \in Handler, RemoveRoute(c)
  PROVE  DaemonIInv'
<1> DEFINE h == call[c].host
<1>1. h \in Host /\ pc[c] = "locked" /\ Begin(c, {h})
  BY DEF RemoveRoute, RemoveCall
<1>2. Change([routes EXCEPT ![h] = NoRoute])
  BY DEF RemoveRoute, Remove
<1>3. \A x \in Host \ {h} : [routes EXCEPT ![h] = NoRoute][x] = routes[x]
  BY DEF DaemonIInv, StoreIInv, StoreTypeOK, Table
<1> HIDE DEF h
<1> QED BY <1>1, <1>2, <1>3, BeginIInv

LEMMA RemoveMachineRoutesIInv ==
  ASSUME DaemonIInv, StoreIInv', NEW c \in Handler, RemoveMachineRoutes(c)
  PROVE  DaemonIInv'
<1> DEFINE removed == OnMachine(routes, call[c].adapter, call[c].machine)
           new == [x \in Host |-> IF x \in removed THEN NoRoute ELSE routes[x]]
<1>1. pc[c] = "locked" /\ Begin(c, removed) /\ Change(new)
  BY DEF RemoveMachineRoutes, RemoveMachine
<1>2. removed \in SUBSET Host
  BY DEF OnMachine, Routed
<1>3. \A x \in Host \ removed : new[x] = routes[x]
  OBVIOUS
<1> HIDE DEF removed, new
<1> QED BY <1>1, <1>2, <1>3, BeginIInv

-----------------------------------------------------------------------------
(***************************************************************************)
(* The life of the process.                                                *)
(***************************************************************************)
LEMMA EndedIInv ==
  ASSUME DaemonIInv, StoreIInv', Ended
  PROVE  DaemonIInv'
<1>1. DaemonTypeOK'
  BY NoReplyIsReply, NothingListed DEF DaemonIInv, DaemonTypeOK, StoreIInv, Ended
<1>2. LockHeld' /\ NobodyWhenDown'
  BY HandlerAssumption DEF LockHeld, NobodyWhenDown, Holding, Ended, Restart
<1>3. Settled'
  BY DEF DaemonIInv, Settled, Ended, Restart
<1>4. Pending' /\ ListedIsFresh'
  BY DEF Pending, ListedIsFresh, NoReply, Ended
<1> QED BY <1>1, <1>2, <1>3, <1>4 DEF DaemonIInv

(***************************************************************************)
(* No handler runs while the daemon is down, so no save is in progress and *)
(* every settled host is in the table that the new process reads.          *)
(***************************************************************************)
LEMMA BootIInv ==
  ASSUME DaemonIInv, StoreIInv', Boot
  PROVE  DaemonIInv'
<1>1. DaemonTypeOK'
  BY DEF DaemonIInv, DaemonTypeOK, StoreIInv, StoreTypeOK, Boot
<1>2. LockHeld' /\ NobodyWhenDown'
  BY DEF DaemonIInv, LockHeld, NobodyWhenDown, Boot, storeVars
<1>3. Settled'
  BY DEF DaemonIInv, Settled, Boot, storeVars
<1>4. Pending' /\ ListedIsFresh'
  BY DEF DaemonIInv, Pending, ListedIsFresh, Boot, storeVars
<1> QED BY <1>1, <1>2, <1>3, <1>4 DEF DaemonIInv

LEMMA SignalIInv ==
  ASSUME DaemonIInv, StoreIInv', Signal
  PROVE  DaemonIInv'
<1>1. DaemonTypeOK'
  BY DEF DaemonIInv, DaemonTypeOK, StoreIInv, Signal
<1>2. LockHeld' /\ NobodyWhenDown' /\ Settled'
  BY DEF DaemonIInv, LockHeld, NobodyWhenDown, Settled, Signal, storeVars
<1>3. Pending' /\ ListedIsFresh'
  BY DEF DaemonIInv, Pending, ListedIsFresh, Signal, storeVars
<1> QED BY <1>1, <1>2, <1>3 DEF DaemonIInv

LEMMA InitIInv == Init => DaemonIInv
<1> SUFFICES ASSUME Init PROVE DaemonIInv
  OBVIOUS
<1>1. StoreIInv
  BY StoreInitIInv DEF Init
<1>2. DaemonTypeOK
  BY <1>1, NoReplyIsReply, NothingListed DEF Init, DaemonTypeOK, StoreIInv, EmptyTable
<1>3. LockHeld /\ NobodyWhenDown
  BY HandlerAssumption DEF Init, StoreInit, LockHeld, NobodyWhenDown, Holding
<1>4. Settled
  BY DEF Init, StoreInit, Settled, EmptyTable
<1>5. Pending /\ ListedIsFresh
  BY DEF Init, Pending, ListedIsFresh, NoReply
<1> QED BY <1>1, <1>2, <1>3, <1>4, <1>5 DEF DaemonIInv

LEMMA StutterIInv ==
  ASSUME DaemonIInv, StoreIInv', UNCHANGED vars
  PROVE  DaemonIInv'
<1>1. DaemonTypeOK' /\ LockHeld' /\ NobodyWhenDown'
  BY DEF vars, storeVars, daemonVars, DaemonIInv, DaemonTypeOK, StoreIInv, LockHeld,
         NobodyWhenDown
<1>2. Settled' /\ Pending' /\ ListedIsFresh'
  BY DEF vars, storeVars, daemonVars, DaemonIInv, Settled, Pending, ListedIsFresh
<1> QED BY <1>1, <1>2 DEF DaemonIInv

LEMMA NextIInv == DaemonIInv /\ [Next]_vars => DaemonIInv'
<1> SUFFICES ASSUME DaemonIInv, [Next]_vars PROVE DaemonIInv'
  OBVIOUS
<1>1. StoreIInv'
  BY NextIsStoreNext, StoreNextIInv DEF DaemonIInv
<1>2. ASSUME NEW c \in Handler, Accept(c) \/ ListRoutes(c) \/ Lock(c) PROVE DaemonIInv'
  BY <1>1, <1>2, AcceptIInv, ListRoutesIInv, LockIInv
<1>3. ASSUME NEW c \in Handler, Step(c) PROVE DaemonIInv'
  BY <1>1, <1>3, RejectIInv, UpsertRouteIInv, UpsertRefusedIInv, RemoveRouteIInv,
     RemoveMachineRoutesIInv, NothingToRemoveIInv, SaveWritesIInv, SaveFailsIInv,
     SavedIInv, ListForApplyIInv, LoadIInv, LoadFailsIInv
     DEF Step
<1>4. ASSUME Exit \/ Crash PROVE DaemonIInv'
  BY <1>1, <1>4, EndedIInv DEF Exit, Crash
<1> QED BY <1>1, <1>2, <1>3, <1>4, BootIInv, SignalIInv, StutterIInv DEF Next

-----------------------------------------------------------------------------
THEOREM DaemonInvariant == Spec => []DaemonIInv
  BY InitIInv, NextIInv, PTL DEF Spec

(***************************************************************************)
(* The daemon's state is well typed.                                       *)
(***************************************************************************)
THEOREM DaemonTypeCorrect == Spec => []DaemonTypeOK
<1>1. DaemonIInv => DaemonTypeOK
  BY DEF DaemonIInv
<1> QED BY <1>1, DaemonInvariant, PTL

(***************************************************************************)
(* What a successful answer said is what routes.json holds, whatever       *)
(* fails, crashes or runs beside it (route.go:105-107).                    *)
(***************************************************************************)
THEOREM AnswersDurable == Spec => []AckedDurable
<1>1. DaemonIInv => AckedDurable
  BY DEF DaemonIInv, Settled, AckedDurable
<1> QED BY <1>1, DaemonInvariant, PTL

(***************************************************************************)
(* What a successful answer said is what Caddy runs (daemon.go:38-39).     *)
(***************************************************************************)
THEOREM AnswersServed == Spec => []AckedServed
<1>1. DaemonIInv => AckedServed
  BY DEF DaemonIInv, Settled, AckedServed
<1> QED BY <1>1, DaemonInvariant, PTL

-----------------------------------------------------------------------------
(***************************************************************************)
(* The daemon implements the ledger.  Under the invariant, a mutation is a *)
(* Begin, a rename a Record, a load that succeeds an Answer; every other   *)
(* step of a handler leaves what the ledger sees unchanged.                *)
(***************************************************************************)
OpenHosts == {h \in Host : acked[h] = Open}
Served == IF state = "down" THEN EmptyTable ELSE proxied

(* The ledger's tables are the daemon's. *)
LEMMA SameTables == Ledger!Table = Table
<1>1. Ledger!HostPort = HostPort
  BY DEF Ledger!HostPort, HostPort, Ledger!LastPort, LastPort
<1>2. \A p : Ledger!HostUpstream(p) = HostUpstream(p)
  BY DEF Ledger!HostUpstream, HostUpstream, Ledger!Loopback, Loopback
<1>3. Ledger!LoopbackRoute = LoopbackRoute
  BY <1>1, <1>2 DEF Ledger!LoopbackRoute, LoopbackRoute, Ledger!Loopback, Loopback
<1>4. Ledger!DirectRoute = DirectRoute
  BY DEF Ledger!DirectRoute, DirectRoute
<1> QED BY <1>3, <1>4 DEF Ledger!Table, Table, Ledger!Route, Route

LEMMA LedgerInitially == Init => Ledger!LedgerInit
<1> SUFFICES ASSUME Init PROVE Ledger!LedgerInit
  OBVIOUS
<1>1. \A h \in Host : acked[h] # Open
  BY OpenAssumption DEF Init, EmptyTable
<1> QED BY <1>1 DEF Init, StoreInit, Ledger!LedgerInit, Ledger!EmptyTable, EmptyTable

LEMMA BeginIsBegin ==
  ASSUME DaemonIInv, NEW c \in Handler, pc[c] = "locked",
         NEW table, Change(table), NEW touched \in SUBSET Host, Begin(c, touched)
  PROVE  Ledger!Begin(touched)
<1>1. state # "down"
  BY DEF DaemonIInv, NobodyWhenDown
<1>2. OpenHosts' = OpenHosts \cup touched
  BY DEF Begin, OpenHosts
<1> QED BY <1>1, <1>2 DEF Ledger!Begin, Begin, Change, OpenHosts

LEMMA UpsertIsBegin ==
  ASSUME DaemonIInv, NEW c \in Handler,
         UpsertRoute(c) \/ RemoveRoute(c) \/ RemoveMachineRoutes(c)
  PROVE  \E H \in SUBSET Host : Ledger!Begin(H)
<1>1. CASE UpsertRoute(c)
  <2>1. {call[c].host} \in SUBSET Host /\ pc[c] = "locked" /\ Begin(c, {call[c].host})
    BY <1>1 DEF UpsertRoute, UpsertCall
  <2>2. PICK table : Change(table)
    BY <1>1 DEF UpsertRoute, Upsert
  <2> QED BY <2>1, <2>2, BeginIsBegin
<1>2. CASE RemoveRoute(c)
  <2>1. {call[c].host} \in SUBSET Host /\ pc[c] = "locked" /\ Begin(c, {call[c].host})
    BY <1>2 DEF RemoveRoute, RemoveCall
  <2>2. PICK table : Change(table)
    BY <1>2 DEF RemoveRoute, Remove
  <2> QED BY <2>1, <2>2, BeginIsBegin
<1>3. CASE RemoveMachineRoutes(c)
  <2> DEFINE removed == OnMachine(routes, call[c].adapter, call[c].machine)
  <2>1. removed \in SUBSET Host /\ pc[c] = "locked" /\ Begin(c, removed)
    BY <1>3 DEF RemoveMachineRoutes, OnMachine, Routed
  <2>2. PICK table : Change(table)
    BY <1>3 DEF RemoveMachineRoutes, RemoveMachine
  <2> HIDE DEF removed
  <2> QED BY <2>1, <2>2, BeginIsBegin
<1> QED BY <1>1, <1>2, <1>3

(***************************************************************************)
(* The file may take along what a failed mutation left in memory, but only *)
(* at open hosts.                                                          *)
(***************************************************************************)
LEMMA SavedIsRecord ==
  ASSUME DaemonIInv, NEW c \in Handler, Saved(c)
  PROVE  Ledger!Record
<1>1. state # "down"
  BY DEF DaemonIInv, NobodyWhenDown, Saved
<1>2. file' = routes /\ routes \in Table
  BY DEF DaemonIInv, StoreIInv, StoreTypeOK, Saved, Rename
<1>3. \A h \in Host \ OpenHosts : routes[h] = file[h]
  BY DEF DaemonIInv, Settled, OpenHosts
<1>4. UNCHANGED <<state, proxied, acked>>
  BY DEF Saved
<1>5. file' \in Ledger!Table
  BY <1>2, SameTables
<1>6. Ledger!Agree(file', file, Host \ OpenHosts)
  BY <1>2, <1>3 DEF Ledger!Agree
<1> QED BY <1>1, <1>4, <1>5, <1>6 DEF Ledger!Record, OpenHosts

LEMMA LoadIsAnswer ==
  ASSUME DaemonIInv, NEW c \in Handler, Load(c)
  PROVE  \E H \in SUBSET Host : Ledger!Answer(H)
<1>0. PICK H \in SUBSET Host : H = DOMAIN reply[c]
  BY DEF DaemonIInv, DaemonTypeOK, IsReply
<1>1. state # "down" /\ state' = state /\ file' = file
  BY DEF DaemonIInv, NobodyWhenDown, Load, storeVars
<1>2. proxied' = routes /\ routes \in Table
  BY DEF DaemonIInv, ListedIsFresh, StoreIInv, StoreTypeOK, Load
<1>3. \A h \in H : reply[c][h] # Open
  BY <1>0, OpenAssumption DEF DaemonIInv, DaemonTypeOK, IsReply
<1>4. OpenHosts' = OpenHosts \ H
  BY <1>0, <1>3 DEF Load, OpenHosts
<1>5. \A h \in H : routes[h] = file[h]
  BY <1>0 DEF DaemonIInv, Pending, Load
<1>6. \A h \in Host \ OpenHosts : routes[h] = file[h]
  BY DEF DaemonIInv, Settled, OpenHosts
<1>7. Served' = routes /\ Served' \in Ledger!Table
  BY <1>1, <1>2, SameTables DEF Served
<1>8. Ledger!Agree(Served', file, Host \ OpenHosts')
  BY <1>4, <1>5, <1>6, <1>7 DEF Ledger!Agree
<1>9. Ledger!Answer(H)
  BY <1>1, <1>4, <1>7, <1>8 DEF Ledger!Answer, OpenHosts, Served
<1> QED BY <1>9

LEMMA BootIsComeUp ==
  ASSUME DaemonIInv, Boot
  PROVE  Ledger!ComeUp
  BY DEF DaemonIInv, NobodyWhenDown, Boot, storeVars, Ledger!ComeUp

LEMMA EndedIsGoDown ==
  ASSUME Exit \/ Crash
  PROVE  Ledger!GoDown
  BY DEF Exit, Crash, Ended, Restart, Ledger!GoDown, Ledger!EmptyTable, EmptyTable

LEMMA OthersAreStutters ==
  ASSUME DaemonIInv, NEW c \in Handler,
         \/ Accept(c) \/ ListRoutes(c) \/ Lock(c) \/ Reject(c)
         \/ UpsertRefused(c) \/ NothingToRemove(c) \/ SaveWrites(c)
         \/ SaveFails(c) \/ ListForApply(c) \/ LoadFails(c)
  PROVE  UNCHANGED <<file, state, proxied, acked>>
  BY DEF Accept, ListRoutes, Lock, Reject, UpsertRefused, NothingToRemove, SaveWrites,
         SaveFails, ListForApply, LoadFails, storeVars, daemonVars,
         WriteTmp, WriteFails, RenameFails

LEMMA SameLedger ==
  ASSUME UNCHANGED file, UNCHANGED acked, Served' = Served,
         (state' = "down") <=> (state = "down")
  PROVE  UNCHANGED Ledger!ledgerVars
  BY DEF Ledger!ledgerVars, Served

LEMMA NextIsLedgerNext ==
  DaemonIInv /\ [Next]_vars => [Ledger!LedgerNext]_(Ledger!ledgerVars)
<1> SUFFICES ASSUME DaemonIInv, [Next]_vars
             PROVE  Ledger!LedgerNext \/ UNCHANGED Ledger!ledgerVars
  OBVIOUS
<1>1. ASSUME NEW c \in Handler,
             UpsertRoute(c) \/ RemoveRoute(c) \/ RemoveMachineRoutes(c)
      PROVE  Ledger!LedgerNext
  BY <1>1, UpsertIsBegin DEF Ledger!LedgerNext
<1>2. ASSUME NEW c \in Handler, Saved(c) PROVE Ledger!LedgerNext
  BY <1>2, SavedIsRecord DEF Ledger!LedgerNext
<1>3. ASSUME NEW c \in Handler, Load(c) PROVE Ledger!LedgerNext
  BY <1>3, LoadIsAnswer DEF Ledger!LedgerNext
<1>4. ASSUME NEW c \in Handler,
             \/ Accept(c) \/ ListRoutes(c) \/ Lock(c) \/ Reject(c)
             \/ UpsertRefused(c) \/ NothingToRemove(c) \/ SaveWrites(c)
             \/ SaveFails(c) \/ ListForApply(c) \/ LoadFails(c)
      PROVE  UNCHANGED Ledger!ledgerVars
  BY <1>4, OthersAreStutters, SameLedger DEF Served
<1>5. ASSUME Boot PROVE Ledger!LedgerNext
  BY <1>5, BootIsComeUp DEF Ledger!LedgerNext
<1>6. ASSUME Exit \/ Crash PROVE Ledger!LedgerNext
  BY <1>6, EndedIsGoDown DEF Ledger!LedgerNext
<1>7. ASSUME Signal PROVE UNCHANGED Ledger!ledgerVars
  BY <1>7, SameLedger DEF Signal, storeVars, Served
<1>8. ASSUME UNCHANGED vars PROVE UNCHANGED Ledger!ledgerVars
  BY <1>8, SameLedger DEF vars, storeVars, daemonVars, Served
<1> QED BY <1>1, <1>2, <1>3, <1>4, <1>5, <1>6, <1>7, <1>8 DEF Next, Step

(***************************************************************************)
(* The promise of the daemon, kept by every instance of it.                *)
(***************************************************************************)
THEOREM DaemonImplementsLedger == Spec => LedgerSpec
  BY LedgerInitially, NextIsLedgerNext, DaemonInvariant, PTL
     DEF Spec, LedgerSpec, Ledger!Spec

-----------------------------------------------------------------------------
(***************************************************************************)
(* The daemon implements RouteCalls.  The change of the map is the effect of *)
(* a call, the load that succeeds its answer, a process that ends a restart; *)
(* the steps between leave what a caller sees unchanged.  That a success is *)
(* still true needs Pending, that a restart loses nothing answered Settled. *)
(***************************************************************************)

(* The values the calls are about are the daemon's. *)
LEMMA SameAlloc ==
  ASSUME NEW t, NEW h, NEW r, NEW bound
  PROVE  Calls!Alloc(t, h, r, bound) = Alloc(t, h, r, bound)
<1>1. Calls!Routed(t) = Routed(t)
  BY DEF Calls!Routed, Routed
<1>2. Calls!SharedPorts(t, r) = SharedPorts(t, r)
  BY <1>1 DEF Calls!SharedPorts, SharedPorts, Calls!SameMachine, SameMachine
<1>3. Calls!FreePorts(t, h, bound) = FreePorts(t, h, bound)
  BY <1>1 DEF Calls!FreePorts, FreePorts, Calls!Taken, Taken, Calls!Start, Start
<1>4. Calls!OwnPort(t, h) = OwnPort(t, h)
  BY DEF Calls!OwnPort, OwnPort
<1> QED BY <1>2, <1>3, <1>4 DEF Calls!Alloc, Alloc

LEMMA SameFilled ==
  ASSUME NEW t, NEW h, NEW r, NEW bound
  PROVE  Calls!Filled(t, h, r, bound) = Filled(t, h, r, bound)
<1>1. Calls!NoUpstream = NoUpstream /\ \A p : Calls!HostUpstream(p) = HostUpstream(p)
  BY DEF Calls!NoUpstream, NoUpstream, Calls!HostUpstream, HostUpstream, Calls!Loopback,
         Loopback
<1> QED BY <1>1, SameAlloc DEF Calls!Filled, Filled

LEMMA SameOnMachine ==
  ASSUME NEW t
  PROVE  /\ Calls!Routed(t) = Routed(t)
         /\ \A a, m : Calls!OnMachine(t, a, m) = OnMachine(t, a, m)
BY DEF Calls!Routed, Routed, Calls!OnMachine, OnMachine

LEMMA SameTableOfCalls == Calls!Table = Table /\ Calls!EmptyTable = EmptyTable
<1>1. Calls!HostPort = HostPort
  BY DEF Calls!HostPort, HostPort, Calls!LastPort, LastPort
<1>2. \A p : Calls!HostUpstream(p) = HostUpstream(p)
  BY DEF Calls!HostUpstream, HostUpstream, Calls!Loopback, Loopback
<1>3. Calls!LoopbackRoute = LoopbackRoute
  BY <1>1, <1>2 DEF Calls!LoopbackRoute, LoopbackRoute, Calls!Loopback, Loopback
<1>4. Calls!DirectRoute = DirectRoute
  BY DEF Calls!DirectRoute, DirectRoute
<1>5. Calls!EmptyTable = EmptyTable
  BY DEF Calls!EmptyTable, EmptyTable
<1> QED BY <1>3, <1>4, <1>5 DEF Calls!Table, Table, Calls!Route, Route

LEMMA CallsAreCalls == Call \subseteq Calls!Call
<1>1. UpsertCall \cup RemoveCall \subseteq Calls!Call
  BY DEF UpsertCall, RemoveCall, Calls!Call
<1>2. ASSUME NEW r \in Requests
      PROVE  [op |-> "removeMachine", adapter |-> r.adapter, machine |-> r.machine]
               \in Calls!Call
  BY RequestFacts DEF SbxRequest, DockerRequest, DirectRoute, Calls!Call, Calls!Adapter
<1>3. RemoveMachineCall \subseteq Calls!Call
  BY <1>2 DEF RemoveMachineCall
<1>4. {ListCall, Malformed} \subseteq Calls!Call
  BY DEF ListCall, Malformed, Calls!Call
<1> QED BY <1>1, <1>3, <1>4 DEF Call, Mutation

(***************************************************************************)
(* A step of one handler, as its caller sees it.                           *)
(***************************************************************************)
OnlyMoves(c) ==
  \A o \in Handler : o # c =>
    pc'[o] = pc[o] /\ call'[o] = call[o] /\ reply'[o] = reply[o]

LEMMA HandlerBecomes ==
  ASSUME NEW c \in Handler, OnlyMoves(c)
  PROVE  Calls!Becomes(c, AsCall(c)')
<1>1. \A o \in Handler : o # c => AsCall(o)' = AsCall(o)
  BY DEF OnlyMoves, AsCall
<1> QED BY <1>1 DEF Calls!Becomes

LEMMA HandlerFinishes ==
  ASSUME DaemonTypeOK, NEW c \in Handler, Finish(c)
  PROVE  Calls!Becomes(c, Calls!Idle) /\ Calls!Goes(c)
<1>1. OnlyMoves(c) /\ pc'[c] = "idle"
  BY DEF DaemonTypeOK, Finish, Goto, OnlyMoves
<1>2. AsCall(c)' = Calls!Idle
  BY <1>1 DEF AsCall, Calls!Idle
<1>3. Calls!Becomes(c, Calls!Idle)
  BY <1>1, <1>2, HandlerBecomes
<1> QED BY <1>3 DEF Calls!Goes

LEMMA AcceptIsMake ==
  ASSUME DaemonIInv, NEW c \in Handler, Accept(c)
  PROVE  Calls!Make(c)
<1>1. PICK q \in Call : call' = [call EXCEPT ![c] = q]
  BY DEF Accept
<1>2. OnlyMoves(c) /\ pc[c] = "idle" /\ pc'[c] = "called" /\ call'[c] = q
  BY <1>1 DEF DaemonIInv, DaemonTypeOK, Accept, Goto, OnlyMoves
<1>3. AsCall(c) = Calls!Idle /\ AsCall(c)' = Calls!Made(q)
  BY <1>2 DEF AsCall, Calls!Idle, Calls!Made
<1>4. Calls!Becomes(c, Calls!Made(q)) /\ q \in Calls!Call
  BY <1>2, <1>3, HandlerBecomes, CallsAreCalls
<1>5. UNCHANGED <<routes, acked>>
  BY DEF Accept, storeVars
<1> QED BY <1>3, <1>4, <1>5 DEF Calls!Make

LEMMA RefusalIsFail ==
  ASSUME DaemonIInv, NEW c \in Handler,
         Reject(c) \/ UpsertRefused(c) \/ SaveFails(c) \/ LoadFails(c)
  PROVE  Calls!Fail(c)
<1>1. Finish(c) /\ pc[c] # "idle"
  BY DEF Reject, UpsertRefused, SaveFails, LoadFails, Return
<1>2. UNCHANGED <<routes, acked>>
  BY DEF Reject, UpsertRefused, SaveFails, LoadFails, WriteFails, RenameFails, storeVars
<1>3. AsCall(c) # Calls!Idle
  <2>1. AsCall(c).stage \in {"made", "done"}
    BY <1>1 DEF AsCall
  <2>2. Calls!Idle.stage = "none"
    BY DEF Calls!Idle
  <2> QED BY <2>1, <2>2
<1>4. Calls!Becomes(c, Calls!Idle)
  BY <1>1, HandlerFinishes DEF DaemonIInv
<1> QED BY <1>2, <1>3, <1>4 DEF Calls!Fail

(***************************************************************************)
(* The effects: of nothing, and of each mutation.                          *)
(***************************************************************************)
LEMMA NothingApplied ==
  ASSUME DaemonIInv
  PROVE  /\ Calls!Applied(routes, Calls!Removing({})) = routes
         /\ DOMAIN Calls!Removing({}) = {}
<1>1. routes \in [Host -> Route \cup {NoRoute}]
  BY DEF DaemonIInv, StoreIInv, StoreTypeOK, Table
<1>2. DOMAIN Calls!Removing({}) = {}
  BY DEF Calls!Removing
<1>3. Calls!Applied(routes, Calls!Removing({})) = [h \in Host |-> routes[h]]
  BY <1>2 DEF Calls!Applied
<1> QED BY <1>1, <1>2, <1>3

LEMMA ListIsEffect ==
  ASSUME DaemonIInv, NEW c \in Handler, ListRoutes(c)
  PROVE  Calls!TakeEffect(c)
<1> DEFINE f == Calls!Removing({})
<1>1. AsCall(c) = Calls!Made(ListCall)
  BY DEF ListRoutes, AsCall, Calls!Made
<1>2. Calls!Goes(c)
  BY HandlerFinishes DEF DaemonIInv, ListRoutes
<1>3. f \in Calls!Effects(routes, ListCall, {})
  BY DEF Calls!Effects, ListCall
<1>4. UNCHANGED <<routes, acked>>
  BY DEF ListRoutes, storeVars
<1>5. Calls!Applied(routes, f) = routes /\ DOMAIN f = {}
  BY NothingApplied
<1>6. AsCall(c).stage = "made" /\ AsCall(c).request = ListCall
  BY <1>1 DEF Calls!Made
<1> HIDE DEF f
<1> QED BY <1>2, <1>3, <1>4, <1>5, <1>6 DEF Calls!TakeEffect

LEMMA EffectOf ==
  ASSUME DaemonIInv, NEW c \in Handler, pc[c] = "locked", OnlyMoves(c),
         NEW bound \in SUBSET (PortMin..PortMax),
         NEW f, f \in Calls!Effects(routes, call[c], bound),
         routes' = Calls!Applied(routes, f), AsCall(c)' = Calls!Done(f),
         OpenHosts' = OpenHosts \cup DOMAIN f
  PROVE  Calls!TakeEffect(c)
<1>1. AsCall(c).stage = "made" /\ AsCall(c).request = call[c]
  BY DEF AsCall
<1>2. Calls!Becomes(c, Calls!Done(f))
  BY HandlerBecomes
<1> QED BY <1>1, <1>2 DEF Calls!TakeEffect, OpenHosts

LEMMA BeginSeen ==
  ASSUME DaemonIInv, NEW c \in Handler, NEW touched \in SUBSET Host, Begin(c, touched)
  PROVE  /\ OnlyMoves(c)
         /\ AsCall(c)' = Calls!Done([h \in touched |-> routes'[h]])
         /\ OpenHosts' = OpenHosts \cup touched
<1>1. OnlyMoves(c) /\ pc'[c] = "saving"
  BY DEF DaemonIInv, DaemonTypeOK, Begin, Goto, OnlyMoves
<1>2. reply'[c] = [h \in touched |-> routes'[h]]
  BY DEF DaemonIInv, DaemonTypeOK, Begin
<1>3. AsCall(c)' = Calls!Done([h \in touched |-> routes'[h]])
  BY <1>1, <1>2 DEF AsCall, Calls!Done
<1>4. OpenHosts' = OpenHosts \cup touched
  BY DEF Begin, OpenHosts
<1> QED BY <1>1, <1>3, <1>4

LEMMA UpsertIsEffect ==
  ASSUME DaemonIInv, NEW c \in Handler, UpsertRoute(c)
  PROVE  Calls!TakeEffect(c)
<1> DEFINE h == call[c].host
           r == call[c].route
<1>1. h \in Host /\ call[c].op = "upsert" /\ pc[c] = "locked" /\ Begin(c, {h})
  BY DEF UpsertRoute, UpsertCall
<1>2. PICK bound \in SUBSET (PortMin..PortMax) : Upsert(h, r, bound)
  BY DEF UpsertRoute
<1>3. PICK stored \in Filled(routes, h, r, bound) : routes' = [routes EXCEPT ![h] = stored]
  BY <1>2 DEF Upsert, Change
<1>4. routes \in [Host -> Route \cup {NoRoute}]
  BY DEF DaemonIInv, StoreIInv, StoreTypeOK, Table
<1> DEFINE f == [x \in {h} |-> stored]
<1>5. routes' = Calls!Applied(routes, f) /\ DOMAIN f = {h}
  BY <1>1, <1>3, <1>4 DEF Calls!Applied
<1>6. [x \in {h} |-> routes'[x]] = f
  BY <1>1, <1>3, <1>4
<1>7. f \in Calls!Effects(routes, call[c], bound)
  <2>1. stored \in Calls!Filled(routes, h, r, bound)
    BY SameFilled
  <2> QED BY <1>1, <2>1 DEF Calls!Effects
<1>8. /\ OnlyMoves(c) /\ AsCall(c)' = Calls!Done([x \in {h} |-> routes'[x]])
      /\ OpenHosts' = OpenHosts \cup {h}
  BY <1>1, BeginSeen
<1> HIDE DEF f, h, r
<1> QED BY <1>1, <1>5, <1>6, <1>7, <1>8, EffectOf

LEMMA RemovalIsEffect ==
  ASSUME DaemonIInv, NEW c \in Handler, pc[c] = "locked",
         NEW removed \in SUBSET Host, Begin(c, removed),
         routes' = [h \in Host |-> IF h \in removed THEN NoRoute ELSE routes[h]],
         Calls!Removing(removed) \in Calls!Effects(routes, call[c], {})
  PROVE  Calls!TakeEffect(c)
<1> DEFINE f == Calls!Removing(removed)
<1>1. DOMAIN f = removed /\ \A h \in removed : f[h] = NoRoute
  BY DEF Calls!Removing
<1>2. [h \in removed |-> routes'[h]] = f
  BY DEF Calls!Removing
<1>3. routes' = Calls!Applied(routes, f)
  BY <1>1 DEF Calls!Applied
<1>4. /\ OnlyMoves(c) /\ AsCall(c)' = Calls!Done([h \in removed |-> routes'[h]])
      /\ OpenHosts' = OpenHosts \cup removed
  BY BeginSeen
<1> HIDE DEF f
<1> QED BY <1>1, <1>2, <1>3, <1>4, EffectOf DEF f

LEMMA RemoveIsEffect ==
  ASSUME DaemonIInv, NEW c \in Handler, RemoveRoute(c)
  PROVE  Calls!TakeEffect(c)
<1> DEFINE h == call[c].host
<1>1. /\ h \in Host /\ call[c].op = "remove" /\ pc[c] = "locked" /\ Begin(c, {h})
      /\ routes[h] # NoRoute /\ routes' = [routes EXCEPT ![h] = NoRoute]
  BY DEF RemoveRoute, RemoveCall, Remove, Change
<1>2. routes \in [Host -> Route \cup {NoRoute}]
  BY DEF DaemonIInv, StoreIInv, StoreTypeOK, Table
<1>3. routes' = [x \in Host |-> IF x \in {h} THEN NoRoute ELSE routes[x]]
  BY <1>1, <1>2
<1>4. {h} \cap Calls!Routed(routes) = {h}
  BY <1>1 DEF Calls!Routed
<1>5. Calls!Removing({h}) \in Calls!Effects(routes, call[c], {})
  BY <1>1, <1>4 DEF Calls!Effects
<1> HIDE DEF h
<1> QED BY <1>1, <1>3, <1>5, RemovalIsEffect

LEMMA RemoveMachineIsEffect ==
  ASSUME DaemonIInv, NEW c \in Handler, RemoveMachineRoutes(c)
  PROVE  Calls!TakeEffect(c)
<1> DEFINE removed == OnMachine(routes, call[c].adapter, call[c].machine)
<1>1. call[c].op = "removeMachine" /\ pc[c] = "locked" /\ Begin(c, removed)
  BY DEF RemoveMachineRoutes, RemoveMachineCall
<1>2. routes' = [h \in Host |-> IF h \in removed THEN NoRoute ELSE routes[h]]
  BY DEF RemoveMachineRoutes, RemoveMachine, Change
<1>3. removed \in SUBSET Host
  BY DEF OnMachine, Routed
<1>4. Calls!Removing(removed) \in Calls!Effects(routes, call[c], {})
  BY <1>1, SameOnMachine DEF Calls!Effects
<1> HIDE DEF removed
<1> QED BY <1>1, <1>2, <1>3, <1>4, RemovalIsEffect

(* A removal of nothing has said of no host that it changed it. *)
LEMMA NothingIsEffect ==
  ASSUME DaemonIInv, NEW c \in Handler, NothingToRemove(c)
  PROVE  Calls!TakeEffect(c)
<1> DEFINE f == Calls!Removing({})
<1>1. /\ pc[c] = "locked" /\ pc'[c] = "apply" /\ OnlyMoves(c)
      /\ UNCHANGED <<routes, acked, reply>>
  BY DEF DaemonIInv, DaemonTypeOK, NothingToRemove, Goto, OnlyMoves, storeVars
<1>2. reply[c] = f
  <2>1. DOMAIN reply[c] = {}
    BY <1>1 DEF DaemonIInv, Pending
  <2>2. reply[c] = [h \in {} |-> reply[c][h]]
    BY <2>1 DEF DaemonIInv, DaemonTypeOK, IsReply
  <2> QED BY <2>2 DEF Calls!Removing
<1>3. AsCall(c)' = Calls!Done(f)
  BY <1>1, <1>2 DEF AsCall, Calls!Done
<1>4. f \in Calls!Effects(routes, call[c], {})
  <2>1. CASE call[c] \in RemoveCall /\ routes[call[c].host] = NoRoute
    <3>1. call[c].op = "remove" /\ {call[c].host} \cap Calls!Routed(routes) = {}
      BY <2>1 DEF RemoveCall, Calls!Routed
    <3> QED BY <3>1 DEF Calls!Effects
  <2>2. CASE /\ call[c] \in RemoveMachineCall
             /\ OnMachine(routes, call[c].adapter, call[c].machine) = {}
    <3>1. /\ call[c].op = "removeMachine"
          /\ Calls!OnMachine(routes, call[c].adapter, call[c].machine) = {}
      BY <2>2, SameOnMachine DEF RemoveMachineCall
    <3> QED BY <3>1 DEF Calls!Effects
  <2> QED BY <2>1, <2>2 DEF NothingToRemove
<1>5. routes' = Calls!Applied(routes, f) /\ OpenHosts' = OpenHosts \cup DOMAIN f
  BY <1>1, NothingApplied DEF OpenHosts
<1> HIDE DEF f
<1> QED BY <1>1, <1>3, <1>4, <1>5, EffectOf

LEMMA LoadIsSucceed ==
  ASSUME DaemonIInv, NEW c \in Handler, Load(c)
  PROVE  Calls!Succeed(c)
<1>1. AsCall(c).stage = "done" /\ AsCall(c).answer = reply[c]
  BY DEF Load, AsCall
<1>2. \A h \in DOMAIN reply[c] : routes[h] = reply[c][h]
  BY DEF DaemonIInv, Pending
<1>3. Calls!Goes(c)
  BY HandlerFinishes DEF DaemonIInv, Load, Return
<1>4. \A h \in DOMAIN reply[c] : h \in Host /\ reply[c][h] # Open
  BY OpenAssumption DEF DaemonIInv, DaemonTypeOK, IsReply
<1>5. OpenHosts' = OpenHosts \ DOMAIN reply[c]
  BY <1>4 DEF Load, OpenHosts
<1>6. UNCHANGED routes
  BY DEF Load, storeVars
<1> QED BY <1>1, <1>2, <1>3, <1>5, <1>6 DEF Calls!Succeed, OpenHosts

LEMMA EndedIsRestarted ==
  ASSUME DaemonIInv, Ended
  PROVE  Calls!Restarted
<1>1. \A c \in Handler : AsCall(c)' = Calls!Idle
  BY DEF Ended, AsCall, Calls!Idle
<1>2. routes' \in Calls!Table
  BY SameTableOfCalls DEF DaemonIInv, StoreIInv, StoreTypeOK, FileParses, Ended, Restart
<1>3. \A h \in Host \ OpenHosts : routes'[h] = routes[h]
  BY DEF DaemonIInv, Settled, OpenHosts, Ended, Restart
<1>4. UNCHANGED acked
  BY DEF Ended
<1> QED BY <1>1, <1>2, <1>3, <1>4 DEF Calls!Restarted, OpenHosts

LEMMA UnseenSteps ==
  ASSUME DaemonIInv,
         \/ Boot \/ Signal \/ UNCHANGED vars
         \/ \E c \in Handler : Lock(c) \/ SaveWrites(c) \/ Saved(c) \/ ListForApply(c)
  PROVE  UNCHANGED Calls!callsVars
<1>1. UNCHANGED <<routes, acked, call, reply>>
  BY DEF Boot, Signal, vars, Lock, SaveWrites, Saved, ListForApply, WriteTmp, Rename,
         storeVars, daemonVars
<1>2. ASSUME NEW o \in Handler PROVE AsCall(o)' = AsCall(o)
  <2>1. CASE UNCHANGED pc
    BY <1>1, <2>1 DEF AsCall
  <2>2. ASSUME NEW c \in Handler, Lock(c) \/ Saved(c) \/ ListForApply(c)
        PROVE  AsCall(o)' = AsCall(o)
    <3>1. CASE o = c
      BY <1>1, <2>2, <3>1
         DEF Lock, Saved, ListForApply, Goto, AsCall, DaemonIInv, DaemonTypeOK
    <3>2. CASE o # c
      BY <1>1, <2>2, <3>2
         DEF Lock, Saved, ListForApply, Goto, AsCall, DaemonIInv, DaemonTypeOK
    <3> QED BY <3>1, <3>2
  <2> QED BY <2>1, <2>2 DEF Boot, Signal, vars, SaveWrites, daemonVars
<1> QED BY <1>1, <1>2 DEF Calls!callsVars

LEMMA NextIsCallsNext ==
  DaemonIInv /\ [Next]_vars => [Calls!CallsNext]_(Calls!callsVars)
<1> SUFFICES ASSUME DaemonIInv, [Next]_vars
             PROVE  Calls!CallsNext \/ UNCHANGED Calls!callsVars
  OBVIOUS
<1>1. ASSUME NEW c \in Handler,
             \/ Accept(c) \/ Reject(c) \/ UpsertRefused(c) \/ SaveFails(c) \/ LoadFails(c)
             \/ ListRoutes(c) \/ UpsertRoute(c) \/ RemoveRoute(c)
             \/ RemoveMachineRoutes(c) \/ NothingToRemove(c) \/ Load(c)
      PROVE  Calls!Make(c) \/ Calls!TakeEffect(c) \/ Calls!Succeed(c) \/ Calls!Fail(c)
  BY <1>1, AcceptIsMake, RefusalIsFail, ListIsEffect, UpsertIsEffect, RemoveIsEffect,
     RemoveMachineIsEffect, NothingIsEffect, LoadIsSucceed
<1>2. ASSUME Exit \/ Crash PROVE Calls!Restarted
  BY <1>2, EndedIsRestarted DEF Exit, Crash
<1> QED BY <1>1, <1>2, UnseenSteps DEF Next, Step, Calls!CallsNext

LEMMA CallsInitially == Init => Calls!CallsInit
<1> SUFFICES ASSUME Init PROVE Calls!CallsInit
  OBVIOUS
<1>1. \A h \in Host : acked[h] # Open
  BY OpenAssumption DEF Init, EmptyTable
<1>2. \A c \in Handler : AsCall(c) = Calls!Idle
  BY DEF Init, AsCall, Calls!Idle
<1>3. routes = Calls!EmptyTable
  BY SameTableOfCalls DEF Init, StoreInit
<1> QED BY <1>1, <1>2, <1>3 DEF Calls!CallsInit

(***************************************************************************)
(* Every behaviour of the daemon is one of RouteCalls: a call takes effect at *)
(* one instant, a success is true when it is answered, and a restart loses no *)
(* host whose last mutation was answered with success (daemon.go:169-187). *)
(***************************************************************************)
THEOREM DaemonImplementsCalls == Spec => CallsSpec
  BY CallsInitially, NextIsCallsNext, DaemonInvariant, PTL
     DEF Spec, CallsSpec, Calls!Spec

(***************************************************************************)
(* What holds of the store holds of the daemon's table: sandbox routes to  *)
(* one machine port share one host port (route.go:71-73).                  *)
(***************************************************************************)
THEOREM DaemonSharesPorts == Spec => []TripleSharesPort
  BY DaemonImplementsStore, TriplesSharePort

=============================================================================
