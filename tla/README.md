# usher: specifications, model checking and proofs

`usher` gives every sandbox, VM and container a hostname under one wildcard
domain. A root daemon holds the route table, a DNS server and an embedded Caddy;
an unprivileged CLI asks the daemon for changes over a unix socket and runs
`sbx`, `orbctl` and docker itself. These modules specify where state is shared,
calls overlap and steps fail: the route table and its file, the daemon's handlers,
the commands `usher up` and `usher down`, the start of the daemon with its DNS
listeners and its socket, and the installer beside launchd; and, as functions, what
is done to names.

Paths are relative to `src/`.

## 1. Inventory

| Component | Code | State | Operations |
|---|---|---|---|
| Route table and allocator | `internal/route/route.go` | `Store.routes`, `routes.json`, `routes.json.tmp`, `Store.mu` | `NewStore`, `List`, `Upsert` (with `allocLocked`), `Remove`, `RemoveMachine`, `saveLocked`; `Sanitize` |
| Daemon | `internal/daemon/daemon.go` | `applyMu`, the handlers in progress, what Caddy runs | `Run`, `ListRoutes`, `UpsertRoute`, `RemoveRoute`, `RemoveMachineRoutes`, `applyLocked` |
| API | `proto/usher/v1/usher.proto`, `internal/api/api.go` | none | four calls, each with a 60 s deadline, and their errors |
| CLI up, down | `cmd/up.go`, `cmd/down.go` | the local state of one run of a command | Attach, Upsert, Publish, rollback; Remove, List, Detach, RemoveMachine, Destroy |
| Adapters | `internal/adapter/*.go`, `internal/sbx/sbx.go` | none: the machines and the published ports live in sbx, OrbStack and docker | Attach, Publish, Detach, Destroy for four kinds |
| Proxy | `internal/proxy/*.go` | Caddy's running configuration | `LoadToken`, `Apply`, `Stop`; rendering of the Caddyfile |
| DNS server | `internal/dnsd/dnsd.go` | the started listeners | `Start` (four listeners, each with its goroutine), `Stop`, `handle` |
| Loopback alias | `internal/netalias/netalias.go` | the address of `lo0` | `Ensure`: ask, then poll until a deadline |
| Configuration | `internal/config/config.go` | `config.json` | `Path`, `Load`, `applyDefaults`, `validate` |
| Install, uninstall | `cmd/daemoninstall.go`, `cmd/daemonuninstall.go` | config file, resolver files, plist, launchd job | write config, directories, resolver, alias, plist, reload; remove them |
| Other commands | `cmd/root.go`, `cmd/urls.go`, `cmd/daemon.go`, `main.go` | none | wiring and printing |

How they interact. A command makes one call after another; each call is a
goroutine of its own in the daemon. The handlers share the store (under
`Store.mu`, held for a mutation *and* its save) and Caddy (under `applyMu`, held
from before the mutation until after the reload). The store is shared with the
next process through `routes.json`. Between two calls a command runs `sbx`, so
the table and the published ports are changed by different processes at
different times, and nothing but the order of the steps keeps them together.

What is hard here:

- concurrency: two handlers that list and load; two terminals whose calls
  interleave with each other's `sbx` commands; `ListRoutes`, which takes
  `Store.mu` only;
- failure: a save that fails after the map is changed, a reload that fails after
  the save, a publish that fails after the route is stored, a machine that
  cannot be removed after its routes are gone;
- restarts: a crash between any two of those steps, and the table it brings
  back;
- deadlines: a call given up by the client is still served by the daemon;
- the allocator: sharing, reuse and probing, each right alone, over a sequence
  of calls that re-points hostnames;
- installing: six files and services changed one after another by a command that may
  stop anywhere and is then repeated, beside a launchd that restarts what dies;
- starting: an alias that comes late, ports in use, a second daemon, a socket file
  left behind.

What would make each component correct: the file always parses, and what was
answered is in it; one sandbox port has one host port; Caddy runs what was
answered; every call returns and the daemon ends when told to; a command never
leaves a route nobody serves, never breaks another hostname, and leaves nothing
behind when it destroys a machine; an install that reports success has done all of it;
a purge loses no record of what is still there; a daemon that serves has every
listener and its socket; a job that stays loaded comes up in the end; what a user typed
becomes one label that DNS, certificate and routes agree on.
`PROJECT.json` lists the hazards line by line with the properties aimed at them.

## 2. Modules

    Routes            values: routes, tables, the allocator        (no state)
      |
      +-- RouteStore      Store and routes.json
      |     +-- Daemon        handlers, applyMu, Caddy, process life
      |           '-- refines RouteLedger and RouteCalls
      +-- RouteLedger     what the daemon promises across crashes
      +-- RouteCalls      what a caller of the daemon may think of its call
      +-- Usher           terminals, adapters, sandboxes, the daemon's table
            '-- refines RouteCalls

    Install           config, resolver, plist, alias, launchd job
      '-- Startup         daemon processes, DNS listeners, usher.sock
            '-- Front         both, as a client of the host sees them
    Names ------'         hostnames, DNS replies, served names    (no state)

`MC*.tla` give the constants small values. `*_proofs.tla` hold the theorems.

**Routes.** A table is a function from hosts to routes or `NoRoute`; a missing
entry of the Go map is `NoRoute`. `AttachResult` is what the four adapters'
`Attach` return, so a request is always one the CLI can make. An upstream is the
pair of host and port that `net.JoinHostPort` joins. `Alloc` is `allocLocked`: a
*set* of ports because Go iterates over the map in no order, empty for its "no
free host port" error. The hash of a hostname is a constant: any function from
hosts to naturals.

**RouteStore.** Every mutation is `Change`, the assignment to the map, followed by
the steps of `saveLocked`: `WriteTmp`, `Rename`, and their failures. `saving` is
the position inside the save and stands for `Store.mu` as well: it is held exactly
when `saving # "no"`. `Restart` is the end of a process, possibly inside
`WriteFile`, with the `NewStore` of the next. A missing `routes.json` reads as an
empty table and is one; `Torn` is content that is not a complete table, and for the
temporary file also its absence, which nothing in the code tells apart.

**Daemon.** A handler's `pc` goes

    idle --Accept--> called --Lock--> locked --UpsertRoute, Remove...--> saving
         --SaveWrites, Saved--> apply --ListForApply--> load --Load--> idle

with `Reject`, `ListRoutes`, `UpsertRefused`, `SaveFails` and `LoadFails` as the other
ways out and `NothingToRemove` from `locked` to `apply`. The deferred unlock of
`applyMu` is in `Return`. `state` is the process: `Boot` is `Run` up to `Serve`
(read the table, reload, listen), `Signal` the start of `GracefulStop`, `Exit` its
end, `Crash` anything else. No handler looks at its context, so nothing in this
module knows whether a client still waits. `acked` is a history variable: what the
last successful answer said of each host, `Open` from the moment a mutation of the
host begins, and still after it failed. Nothing reads it but the properties.

**RouteLedger** is the abstract specification: a durable table, a served one, and
the set of open hosts. Only open hosts change durably; a host is closed only when
it is served as recorded; closed hosts stay so across crashes. The mapping is
`ledger <- file`, `served <- proxied` (empty while down), `open <- {h : acked[h] =
Open}`. A save that carries along what an earlier failed mutation left in memory is
a `Record` step over an open host: that is what the code does, and the ledger
says how far it goes.

**RouteCalls** is the other abstract specification, the daemon as its callers see it: a table, and
for each caller the call it has made and what the call has done so far. A call takes effect on the
whole table at one instant between being made and being answered (`TakeEffect`), or not at all; an
error may come before or after the effect (`Fail`); a success comes only while the table still has
what it says (`Succeed`); a restart answers nobody and may lose only hosts that are open. A caller
may also give its call up (`GiveUp`): it stays in `late` and is served later, with whatever it then
does to the table, or never (`ServeLate`). `Daemon` maps a handler to a caller (`AsCall`: made until
the store's change, done from there to the answer), `routes` to the table and the hosts with
`acked[h] = Open` to the open ones. `Usher` maps a terminal to a caller whose present position says
which call it waits for (`Requested`), its table to the table and its late calls to the late ones.
Its open hosts are `unsure`, a history variable: the hosts whose last change no command was told of,
because the daemon stored it and then failed, or because the call had been given up. No guard reads
`unsure`.

**Usher** has one record per terminal with the position in `up` or `down`. Local steps (`Attach`,
`Publish`, `Detach`, `Destroy`) act on machines and ports; calls (`Upsert`, `Rollback`, `Remove`,
`List`, `RemoveMachine`) act on the daemon's table in one step. Both `Daemon` and `Usher` implement
`RouteCalls`, so the commands ask for nothing, and see nothing, that the daemon's handlers do not
offer. `RouteCalls` lets other calls come between effect and answer, as they do in `Daemon`; in
`Usher` a command's effect, its answer (a success or an error) and its move to its next position are
one step. The answer and the move change nothing another terminal reads, so that they come at once
hides no interleaving; this is an argument, not a theorem. A call can fail before the daemon
(`Unreachable`), in the daemon after it stored the change (the `"apply"` alternative), or at the
client (`TimesOut`), in which case `ServeLate` may still serve it. `Faults` selects which of these a
run allows. `Publishable` and `Unpublishable` are what `sbx ports` is taken to accept: publishing a
port that is already published the same way succeeds, and a port someone else listens on fails. In
the runs with the fault `"sbx"` a command may fail whatever the state, so `usher` and `usher_live`
do not rest on the first half of that. `Environment` is other processes on loopback ports and a
machine created again under its old name.

**Install** has one command of root at a time, `admin`, whose `pc` goes

    install:   config -> resolver -> alias (-> poll) -> job (-> unload) -> plist -> load -> installed
    uninstall: stop -> rmPlist -> rmResolver (-> rmState -> rmConfig) -> uninstalled

one label for each file or service the code changes. `CheckJob` is the pair of tests at
`daemoninstall.go:221-231`. Every step may fail (`AdminFails`), which includes being killed and
the torn file that `os.WriteFile` leaves; the error of the unload is ignored, as in the code.
What the commands read and write is external and modelled from its use: `Load` leaves a
loaded job as it is, `Stop` (`unload -w`) ends and disables it in one step, `Reboot` takes the alias
and loads an enabled job from its plist.

**Startup** adds the processes. `proc[p].pc` goes

    off --Start--> alias (--NeedAlias--> poll) --> dns --Bind x 4--> apply --> socket
        --Listen--> bound --Notify--> serving --signal--> draining --Drained--> off

and `Gone` is every other end: the kernel closes the listeners and the socket file stays,
`Stale`. `next` counts the listeners of `dnsd.Start`. `Listen` removes whatever the path leads to
and binds; the start of `GracefulStop` unlinks whatever it leads to by then. `PollExpires` needs
no alias to be missing, because the code looks at the deadline first. `Launchd` is the process
KeepAlive restarts, `Foreground` an `usher daemon` typed by hand; launchd starts no job whose process
still runs, and signals it on unload (`Unloads`).

**Names** has `Sanitize`, `Owns`, `Reply` and the names the Caddyfile serves, over five kinds of
characters. Its recursions are recursive functions, so that there are theorems about
them. `Flattens` is the reference definition `Sanitize` is compared with: the letters of the
input in order, a dash between two of them exactly where the input has something else, cut
to the length. **Front** joins `Startup` and `Names`.

What the modules leave out on purpose: log lines, wording, the JSON and
Caddyfile text, wire types (the four adapter names are the identity, and numbers are
checked to be ports before they reach the store), flag parsing.

## 3. What TLC checks

Each run takes from seconds to about two minutes with two workers. "Holds" means TLC explored
all reachable states of the instance.

| Run | Instance | Checked | Result |
|---|---|---|---|
| `store` | 2 hosts; 4 requests (two ports of a sandbox, a container that publishes a port of the range, an orb VM); range of 3 ports; any set of bound ports at each probe | `StoreTypeOK`, `FileParses`, `TripleSharesPort`, `ReUpsertKeepsPort` | holds |
| `daemon` | 2 concurrent calls, 2 hosts, an sbx and an orb request, range with one usable port | `DaemonTypeOK`, `AckedDurable`, `AckedServed`, `LedgerSpec` | holds |
| `daemon_live` | 2 calls, 1 host, 1 request | `CallsAnswered`, `DrainEnds`, `CallsSpec` | holds |
| `usher` | 2 terminals: one moves 2 hosts between 3 ports of 2 sandboxes, the other has a host and a sandbox of its own; failing sandbox commands | `UsherTypeOK`, `Reachable`, `PortsApart`, `DetachKeepsOthers`, `DestroyLeavesNothing`, `CallsSpec` | holds |
| `usher_live` | 1 terminal, all four adapters, all faults | `CommandsEnd`, `CallsSpec` | holds |
| `host` | 1 configuration, 2 executables, 2 daemon processes, 2 mishaps; names up to 6 characters | `HostTypeOK`, `InstallComplete`, `NothingOrphaned`, `SocketKept`, `ComesUp`, `StartsEnd`, `ServesHosts`, `AnswersZoneOnly` | holds |
| `store_exhausted` | as `store` | `ExhaustedOnlyWhenFull` | violated |
| `store_exclusive` | as `store` | `PortsExclusive` | violated |
| `daemon_removed` | 2 calls, 1 host, 1 request | `RemovedStaysRemoved` | violated |
| `usher_apply` | 1 terminal; the daemon may fail to apply | `Reachable` | violated |
| `usher_race` | 2 terminals on one sandbox, no faults | `DetachKeepsOthers` | violated |
| `install_drift` | 2 configurations that differ in the domain, no mishaps | `InstallAgrees` | violated |

`CallsSpec` is checked where it is cheap, on one host in `daemon_live`: what could go wrong is that
a second call changes the host between the first one's change and its answer, which is what
`applyMu` is held for until the reload is over. For the commands it is checked in `usher`, with two
terminals, and in `usher_live`, with every fault: a rollback removes one hostname and not a machine,
and only a call that its command has given up is served without it. Section 5 has it for any number
of hosts and calls.

What the properties of `host` are for. `InstallComplete`: a retry must not take what an earlier
attempt left half done for done; the plist is written before the load, so a test of the plist alone
would. `NothingOrphaned`: the configuration is the only record of the resolver file and the state directory.
`SocketKept`: nothing in `listen` or `GracefulStop` looks whose socket file it removes; what keeps a
second daemon from getting there is that a failed bind of *any* of the four listeners ends a start.
`ComesUp`: a stale socket, a late alias, a port in use or a crash costs an attempt and never the job.
`StartsEnd`: nothing hangs on the way. `ServesHosts` and `AnswersZoneOnly` relate a serving process to the
functions of `Names`, evaluated over every input up to the bound.

### Disagreements between the code and what is written of it

1. *Exhaustion* (`store_exhausted`). `allocLocked` probes from the hash of the hostname to
   `portMax - 1`. It does not wrap round and never tries `portMax`, so "no free host
   port in min-max" is said while ports of the range are free.
2. *Exclusive ports* (`store_exclusive`). Hosts `a` and `b` share a port for one sandbox
   port; `b` is pointed at another one; "this host's own previous port" gives it the port
   `a` still uses. By the same line a hostname that moves from a container to a sandbox
   takes the container's port along, whether or not it is in the configured range.
3. *Repeated removal* (`daemon_removed`). A removal whose save failed has changed memory.
   Repeating it finds no route, saves nothing and succeeds; a restart brings the route back.
4. *Failed apply* (`usher_apply`). `Upsert` answers an error after the route is stored when
   the reload fails; `usher up` returns without publishing and without removing it.
5. *Up beside down* (`usher_race`). Between down's `List` and its unpublish another terminal
   can route and publish the same sandbox port; the unpublish breaks it. `down --destroy`
   has the same gap between `RemoveMachine` and `Destroy`: `DestroyLeavesNothing` holds for
   one terminal and not for two.
6. *Reinstall* (`install_drift`). `daemon install --domain` over a running daemon writes the new
   configuration and resolver file, finds plist (executable and state directory) and job in
   order and reports success without a reload. Daemon and CLI are then on different domains.

Seen while modelling, without a run of their own:

- When `down --destroy` failed half way, the route is gone and the second attempt stops at "no
  route named", although `daemon.go:189-190` is written to tolerate exactly that.
- An `up` whose upsert was given up at the deadline may be served afterwards: the route stays
  without a publish, as in 4.
- An unload that failed silently leaves the old job loaded under the new plist. The load may then
  report an error, and the repeated install finds plist and job "in order".
- A `config.json` torn by a crash makes `uninstall --purge` skip the resolver file and the state directory
  it can no longer name, and then remove the configuration.
- The resolver file of an earlier domain is never removed.
- Two daemons whose configurations have different DNS ports do take each other's socket.
- A poll that finds its deadline passed does not look at the address again; the alias may be up.
- `dockerclient.go` means to report the original connection failure where a lookup failed; the
  variable it wraps is by then the nil of a later call.

The first two numbered ones are sequences of successful calls, and so is the last; the others need a
fault or a second terminal. In the runs that hold, these cases are excluded by the constants,
not by the actions: `usher` has no failing apply and no shared machine, `host` one configuration.

### Bounds

- Hosts: two. Sharing, stealing and keeping a port are relations between two routes,
  and the properties quantify over pairs. A single host suffices where the property is
  about one call's fate.
- Ports: ranges of two or three. Of three, the probe uses two, starting from either;
  of two, one: that is enough for every branch of `Alloc` including the error.
- `bound` is any subset of the range at each probe, so no assumption is made on other
  processes.
- Calls in flight: two. More handlers only queue on `applyMu`; the proofs in section 5 are
  for any number.
- Terminals: two. The races found need one command beside another. In `usher` the first has two
  hostnames, so that it shares, moves and detaches a port by itself, and the second one a sandbox
  whose port must stay out of all that; three hosts and sandboxes are the fewest for this.
- `MaxTrouble` (2) bounds the mishaps of a behaviour of `host`: a crash, a reboot, a foreign
  listener, a failed ifconfig, a daemon started by hand, a signal to launchd's. Two allow each
  combination of two, such as a daemon started by hand that crashes. Failures of the commands are not
  counted. The invariants and `NothingOrphaned` are proved without the bound.
- One configuration in `host`: with two, `install_drift` shows what happens. The theorems have any
  number, with one DNS port where needed. Two executables give two plists.
- Names: inputs up to `MaxInput` (6) characters, `MaxLabel` 4 in place of 40, so that inputs are cut at
  a letter, at a dash and at a run of dashes, and a domain with a capital and a dot.
- `MaxLate` (1) bounds the calls given up and not yet served.
- `MCSymmetry` is used in `daemon` only, for safety: no property there names a handler or a
  host, the hosts have one hash, and no request names a host. Liveness runs use no symmetry.

Deadlock is checked in every run; no configuration switches it off.

### Liveness and fairness

`Daemon!FairSpec`: weak fairness of a handler's own steps (a goroutine that can run
does; file operations and `caddy.Load` end, well or badly), strong fairness of `Lock` and
`ListRoutes` (`sync.Mutex` hands itself to a waiter that has waited a millisecond, so no
waiter is overtaken for ever), weak fairness of `Exit` (`GracefulStop` returns once the
handlers have). Nothing is assumed of `Boot`, `Accept`, `Signal` or `Crash`.

`Usher!FairSpec`: weak fairness of the local steps (a process started with `exec` ends)
and of `TimesOut` (the deadline of every call). *Nothing* is assumed of the daemon: a
command ends even if no call is ever answered. `usher_live` has every fault, so that
failure is always one of the outcomes. That `MaxLate` blocks `TimesOut` never matters,
because giving a call up that never reached the daemon is always possible.

`Startup!FairSpec`: weak fairness of the processes' and commands' own steps, of launchd's `Start`
(KeepAlive), of the kernel attaching an address it was asked for, and of a foreign listener going
away some day. Nothing is assumed of root, of signals or of reboots but that mishaps end. A poll may
expire at every attempt; but once the address is up, the next start finds it at once, so
`ComesUp` needs no luck. Its premise is a job that stays loaded and a configuration that can be read.

## 4. Mutants

Each property of a passing run comes with a mutant: an operator next to the definition
it replaces (a missing rollback, a lock that is not waited for, an error path that
keeps the lock, a failed save reported as success, a probe that forgets the table, ...)
under which the same run must fail. `PROJECT.json` names them.

## 5. What is proved

All theorems hold for every value of the constants that satisfies the `ASSUME`s of the
modules: any sets of hosts, machines and requests the adapters can make, any port range
inside 1..65535, any hash, any number of concurrent calls, terminals, settings and mishaps.
tlapm checks them to the last leaf.

**Routes_proofs** has the lemmas about the allocator (`StartInRange`, `AllocIsPort`, `AllocShares`,
`FilledIsRoute`, `FilledShares`), shared by the store and by `Usher`.

**RouteStore_proofs.** `StoreTypeCorrect`, `FileAlwaysParses`,
`TriplesSharePort`, `UpsertKeepsPort`. The
inductive invariant `StoreIInv` adds one fact to the properties: between the write and the
rename the temporary file *is* the table in memory, so that a rename installs a whole table
that shares its ports. The step that matters is
`Upsert`: a sandbox route is stored with a port of `SharedPorts` whenever that set is
non-empty, and by induction that set has one element, the old port of the host itself
if it stays on its machine port (`UpsertKeepsPort`, an action property).

**Daemon_proofs.** `DaemonImplementsStore`: every daemon step is a store step or leaves the
store alone, so `StoreIInv` holds in the daemon (`DaemonSharesPorts`). `DaemonInvariant`
establishes `DaemonIInv`:

- `LockHeld`: a handler past `Lock` is the one that holds `applyMu`, and a save is in
  progress exactly when that handler is in `"saving"`;
- `NobodyWhenDown`: a process that is down has no handlers;
- `Settled`: a host that is not open has the same route in memory, in the file, in the
  answer and, while up, in Caddy;
- `Pending`: what a handler is about to answer is what memory holds, and after
  the save what the file holds, and its hosts are open;
- `ListedIsFresh`: the list about to be loaded is the table in memory.

`AckedDurable` and `AckedServed` are `Settled`. Neither is inductive alone: that `Load`
closes a host correctly needs `Pending` for the file and `ListedIsFresh` for Caddy, and both
survive other handlers only because of `LockHeld`. `DaemonImplementsLedger` uses the
same invariant to map each action to a step of `RouteLedger` or a stutter. `DaemonImplementsCalls`
does so for `RouteCalls`: the mutation of the map is the effect, `Load` the success, `Exit` and
`Crash` the restart, and what lies between is invisible to the caller. That a success is still true
is `Pending`; that a restart loses nothing answered is `Settled`. `ListRoutes`, which takes no
`applyMu`, is an effect of its own that touches no host.

**RouteLedger_proofs.** `LedgerServes`: in a ledger, every closed host is served as it is
recorded while the daemon is up.

**Startup_proofs.** Two inductive invariants that do not need each other. `InstallIInv` says for
each position of a command what is in place (`InPlace`) or gone (`Removed`) by then; that a loaded
job is an enabled one lets an install that skips the load be complete, and typing itself needs it,
since `Load` hands launchd the plist `WritePlist` left. It gives `InstallCompletes` and
`PurgeOrphansNothing`. `ProcIInv` says that a process past `dnsd.Start` holds its four listeners and one
inside it those before `next`. It gives `ServingListens` and, where all configurations name one
DNS port (`OneDnsPort`, without which it is false), `SocketStays`: two processes at or past the
socket would both hold the first listener. `HostTypeCorrect` is both together.

**Names_proofs.** About names of any length over any domain, where TLC has those up to `MaxInput`:
`SanitizeResult` (one label of at most `MaxLabel` characters, with the letters of the input in
order and a dash wherever anything stood between two of them, as many as fit), `SanitizeSame` (doing
it again changes nothing, which `up` relies on when it prints the name the daemon will store),
`OwnsByLabels` (the comparison of strings in `owns` decides by whole labels), and `NoneUnresolved`
and `NoneAnsweredWrongly`, which join them to DNS and the wildcard site. The library's induction
theorems take a predicate, which the provers cannot instantiate; `NatSetInduction` and
`SeqSetInduction` take a *set* instead and are proved from the least element of its complement. With
them each recursive function is shown to satisfy its equations, and the rest is induction on
the length of the input.

**Front_proofs.** `HostsServed` and `ZoneOnlyAnswered` are `ServesHosts` and `AnswersZoneOnly`. That a
process which serves has its four listeners is `Held`; that it has no others needs `Owned`: a bound
listener belongs to a process that runs, on that process's own port. Without it a start could begin
with listeners left from another one, or an install with another port leave one behind.

**Usher_proofs.** `UsherTypeCorrect` holds with every fault; it needs `CommandsCarry`, that a command
carries a request until the daemon has answered and a stored route afterwards. The others are
about terminals that are `Apart`: hostnames and machines of their own, and no call served after it
was given up. `ApartIInv` adds to the types that every route is owned by one terminal (`Owned`) and that
what a terminal has read or done still holds when it acts on it (`Undisturbed`): the route it
publishes is in the table, the port it unpublishes has no other route, the machine it
destroys has none. From it:

- `DetachSparesOthers` and `DestroySparesNobody`, with failing applies and unreachable daemons;
- `RoutesReachable`, if nothing but commands in the sandboxes fails: a sandbox route works, or
  a command is at `publish` or `rollback` for it (`Working`);
- `PublishedPortsApart`, if containers bring host ports outside the range and no two terminals'
  containers the same one (`ContainersElsewhere`): every port a terminal's routes have or its
  sandboxes hold is of the range or of its own containers (`PortsFrom`, `HeldFrom`), ports of different
  owners differ and no route's port is held by another owner's sandbox (`PortsDiffer`, `PortsOwn`).

The conditions are those the disagreements of section 3 need: `usher_race` has no `Apart`, `usher_apply` no
`SandboxFaults`, and a hostname moved from a container to a sandbox takes the container's port along.

`UsherImplementsCalls` needs neither `Apart` nor a restriction of the faults: terminals may share
hostnames and machines, the daemon may fail after it stored a change, and calls may be given up and
served late. `CommandsCarry` makes what a command waits with a call of the service, `ProbesInRange`
says that the ports bound outside the range do not matter to the allocator, and `UnsureTyped` that
what is open are hosts. A lemma for each kind of step names the step of `RouteCalls` it is: a call
that succeeds or that fails after the store is `TakeEffect` with the answer in the same step, one
that fails before it is `Fail`, `TimesOut` is `GiveUp` or `Fail`, and the local steps stutter or
`Make` the next call.

**Only model-checked:** liveness (`CallsAnswered`, `DrainEnds`, `CommandsEnd`, `ComesUp`, `StartsEnd`),
which is out of the prover's reach. Every other property of a passing run is stated by a theorem.

## 6. What is not modelled

- In `Daemon` the start is one step, `Boot`, and in `Startup` applying the table is one: the two are
  not composed. A process that reads `routes.json` while an older one drains is in neither.
- `$USHER_CONFIG`, the per-user configuration and the refusal to install on a host managed by nix;
  flag checks come before any state changes.
- The contents of the state directory (certificates, token); binding 443, which Caddy does.
- Two installers at once; `launchctl` beyond what is said under **Install**.
- The text of the Caddyfile, parsing of the output of `sbx`, `orbctl` and docker, choice of
  the docker socket, printing, Nix modules, generated code: pure functions or I/O.
- Power loss: the file is modelled as the operating system shows it to processes; the
  code does not sync, and nothing here speaks of the disk.
- Machines that are removed or restarted behind usher's back.
- Old contents of `routes.json` that this program did not write.

## 7. Plan

Done: all modules of section 2 and the proofs of section 5. Next, in this order:

1. The overlap of two processes: the table a start reads while another one drains, with `Startup`'s
   listeners and `RouteStore`'s file in one module.
2. An abstract specification of what `up` and `down` promise, with `Usher` as its refinement where
   terminals are `Apart`. What a rollback may remove when two terminals work on one hostname belongs
   there.
