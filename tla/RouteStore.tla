----------------------------- MODULE RouteStore -----------------------------
(***************************************************************************)
(* route.Store: the daemon's route table in memory and in routes.json.     *)
(*                                                                         *)
(* A mutation holds Store.mu from the change of the map to the end of      *)
(* saveLocked, so one mutation is in progress at a time and List never     *)
(* sees a half-made one; `saving' is how far its save has come, and mu is  *)
(* free exactly when saving = "no".  What can happen in between is a write *)
(* error, a rename error, or the end of the process.                       *)
(***************************************************************************)
EXTENDS Routes

CONSTANT Torn   \* the content of a file that is not a complete table

ASSUME TornAssumption == Torn \notin Table

VARIABLES
  routes,   \* Store.routes
  file,     \* routes.json; a missing file reads as an empty table
  tmp,      \* routes.json.tmp; Torn when it is missing or half written
  saving    \* "no", "write" (saveLocked not begun), "rename" (tmp written)

storeVars == <<routes, file, tmp, saving>>

StoreTypeOK ==
  /\ routes \in Table
  /\ file \in Table \cup {Torn}
  /\ tmp \in Table \cup {Torn}
  /\ saving \in {"no", "write", "rename"}

StoreInit ==
  /\ routes = EmptyTable
  /\ file = EmptyTable
  /\ tmp = Torn
  /\ saving = "no"

-----------------------------------------------------------------------------
(***************************************************************************)
(* The mutations, up to their call of saveLocked.                          *)
(***************************************************************************)
Change(table) ==
  /\ saving = "no"
  /\ routes' = table
  /\ saving' = "write"
  /\ UNCHANGED <<file, tmp>>

Upsert(h, r, bound) ==
  \E stored \in Filled(routes, h, r, bound) :
    Change([routes EXCEPT ![h] = stored])

Remove(h) ==
  /\ routes[h] # NoRoute
  /\ Change([routes EXCEPT ![h] = NoRoute])

RemoveMachine(adapter, machine) ==
  LET removed == OnMachine(routes, adapter, machine)
  IN  /\ removed # {}
      /\ Change([h \in Host |-> IF h \in removed THEN NoRoute ELSE routes[h]])

-----------------------------------------------------------------------------
(***************************************************************************)
(* saveLocked: write the temporary file, then rename it into place.        *)
(***************************************************************************)
WriteTmp ==
  /\ saving = "write"
  /\ tmp' = routes
  /\ saving' = "rename"
  /\ UNCHANGED <<routes, file>>

(***************************************************************************)
(* A save that writes routes.json itself and fails half way.               *)
(***************************************************************************)
WriteInPlaceFails ==
  /\ saving = "write"
  /\ file' \in {file, Torn}
  /\ saving' = "no"
  /\ UNCHANGED <<routes, tmp>>

(***************************************************************************)
(* MkdirAll or WriteFile fails; WriteFile may leave a partial file behind. *)
(* The map keeps the mutation: nothing in Upsert or Remove undoes it.      *)
(***************************************************************************)
WriteFails ==
  /\ saving = "write"
  /\ tmp' \in {tmp, Torn}
  /\ saving' = "no"
  /\ UNCHANGED <<routes, file>>

Rename ==
  /\ saving = "rename"
  /\ file' = tmp
  /\ tmp' = Torn
  /\ saving' = "no"
  /\ UNCHANGED routes

RenameFails ==
  /\ saving = "rename"
  /\ saving' = "no"
  /\ UNCHANGED <<routes, file, tmp>>

Save == WriteTmp \/ WriteFails \/ Rename \/ RenameFails

(***************************************************************************)
(* The process ends, possibly inside WriteFile, and the next one's         *)
(* NewStore reads the file back.  Nothing reads the memory of a dead       *)
(* process and nothing writes the file of one, so the two are one step.    *)
(***************************************************************************)
Restart ==
  /\ routes' = file
  /\ saving' = "no"
  /\ tmp' \in {tmp} \cup (IF saving = "write" THEN {Torn} ELSE {})
  /\ UNCHANGED file

StoreNext ==
  \/ \E h \in Host, r \in Requests, bound \in SUBSET (PortMin..PortMax) :
       Upsert(h, r, bound)
  \/ \E h \in Host : Remove(h)
  \/ \E r \in Requests : RemoveMachine(r.adapter, r.machine)
  \/ Save
  \/ Restart

StoreSpec == StoreInit /\ [][StoreNext]_storeVars

-----------------------------------------------------------------------------
(***************************************************************************)
(* routes.json always parses, whatever step a save was in when it failed   *)
(* or the process ended: NewStore, and `usher daemon config' reading the   *)
(* file beside a running daemon, never see a torn table (route.go:296).    *)
(***************************************************************************)
FileParses == file # Torn

(***************************************************************************)
(* Sandbox routes to one machine port share one host port, in memory and   *)
(* in whichever table a restart would bring back (route.go:71-73).         *)
(***************************************************************************)
TripleSharesPort ==
  /\ SharesPorts(routes)
  /\ file # Torn => SharesPorts(file)

(***************************************************************************)
(* "re-upserting a host must never re-roll its host port" (route_test.go:  *)
(* 91): no mutation moves a sandbox route that stays on its machine port   *)
(* to another host port, whatever is bound on the host by then.            *)
(***************************************************************************)
ReUpsertKeepsPort ==
  [][saving = "no" /\ saving' = "write" =>
       \A h \in Routed(routes) \cap Routed(routes') :
         /\ routes[h].adapter = "sbx"
         /\ SameMachine(routes[h], routes'[h])
         => routes'[h].hostPort = routes[h].hostPort]_storeVars

-----------------------------------------------------------------------------
(***************************************************************************)
(* Statements of the documentation that the allocator does not keep.       *)
(***************************************************************************)

(***************************************************************************)
(* "no free host port in min-max" (route.go:233) is said only when every   *)
(* port of the range is claimed by a route or bound by a process.          *)
(***************************************************************************)
ExhaustedOnlyWhenFull ==
  \A h \in Host, r \in Requests, bound \in SUBSET (PortMin..PortMax) :
    Filled(routes, h, r, bound) = {}
      => PortMin..PortMax \subseteq Taken(routes) \cup bound

(***************************************************************************)
(* A host port claimed by one machine port is not handed to another: the   *)
(* probe goes "past anything already claimed by another route"             *)
(* (route.go:206), and the test calls sharing across machine ports a bug.  *)
(***************************************************************************)
PortsExclusive ==
  \A x, y \in Routed(routes) :
    /\ routes[x].adapter = "sbx" /\ routes[y].adapter = "sbx"
    /\ routes[x].hostPort = routes[y].hostPort
    => SameMachine(routes[x], routes[y])

=============================================================================
