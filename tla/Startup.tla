------------------------------ MODULE Startup ------------------------------
(***************************************************************************)
(* The life of daemon processes: daemon.Run up to Serve, with the alias    *)
(* poll, the four DNS listeners and the API socket, and its end.  launchd  *)
(* keeps one process running while the job is loaded; root may run another *)
(* one in the foreground.  Commands of module Install run beside them.     *)
(***************************************************************************)
EXTENDS Install

CONSTANTS
  Launchd,     \* the process launchd keeps alive
  Foreground,  \* a `usher daemon' typed by root
  Other,       \* a process usher knows nothing of
  Nobody,      \* a listener nobody has bound
  Stale        \* a socket file whose process is gone

Proc == {Launchd, Foreground}

ASSUME ProcAssumption ==
  /\ Launchd # Foreground
  /\ Other # Nobody
  /\ Proc \cap {Other, Nobody, NoFile, Stale} = {}
  /\ NoFile # Stale

VARIABLES
  proc,    \* how far each process has come, with the settings it loaded
  dns,     \* who has bound each DNS listener
  socket   \* usher.sock: NoFile, Stale, or the process behind it

procVars == <<proc, dns, socket>>
vars == <<installVars, procVars>>

(***************************************************************************)
(* dnsd.Start binds these in order: udp and tcp on 127.0.0.1, then both on *)
(* the alias.                                                              *)
(***************************************************************************)
Listener == (1..4) \X {s.dnsPort : s \in Setting}
NeedsAlias(l) == l[1] \in {3, 4}

Starting == {"alias", "poll", "dns", "apply", "socket", "bound"}
Up == {"bound", "serving"}

Off == [pc |-> "off", cfg |-> NoCommand.cfg, next |-> 1]

HostTypeOK ==
  /\ InstallTypeOK
  /\ proc \in [Proc -> [pc : Starting \cup {"off", "serving", "draining"},
                        cfg : Setting, next : 1..5]]
  /\ dns \in [Listener -> Proc \cup {Other, Nobody}]
  /\ socket \in Proc \cup {NoFile, Stale}

Init ==
  /\ InstallInit
  /\ proc = [p \in Proc |-> Off]
  /\ dns = [l \in Listener |-> Nobody]
  /\ socket = NoFile

-----------------------------------------------------------------------------
Reached(p, label) == proc[p].pc = label
Advance(p, label) == proc' = [proc EXCEPT ![p].pc = label]

(***************************************************************************)
(* The end of processes: the kernel closes what they had bound, and leaves *)
(* their socket file.                                                      *)
(***************************************************************************)
Gone(ps) ==
  /\ proc' = [p \in Proc |-> IF p \in ps THEN Off ELSE proc[p]]
  /\ dns' = [l \in Listener |-> IF dns[l] \in ps THEN Nobody ELSE dns[l]]
  /\ socket' = IF socket \in ps THEN Stale ELSE socket

(***************************************************************************)
(* A start that counts the listeners from zero.                            *)
(***************************************************************************)
StartAtZero(p) ==
  /\ Reached(p, "off")
  /\ p = Launchd /\ job # NoJob /\ Readable
  /\ proc' = [proc EXCEPT ![p] = [pc |-> "alias", cfg |-> config, next |-> 0]]
  /\ UNCHANGED <<installVars, dns, socket>>

(***************************************************************************)
(* launchd starts the process again whenever it has ended.  A process that *)
(* cannot load its configuration ends at once.                             *)
(***************************************************************************)
Start(p) ==
  /\ Reached(p, "off")
  /\ \/ p = Launchd /\ job # NoJob /\ UNCHANGED trouble
     \/ p = Foreground /\ Mishap
  /\ Readable
  /\ proc' = [proc EXCEPT ![p] = [pc |-> "alias", cfg |-> config, next |-> 1]]
  /\ UNCHANGED <<config, resolver, plist, job, enabled, alias, admin, dns, socket>>

NeedAlias(p) ==
  /\ Reached(p, "alias")
  /\ IF alias = "up" THEN Advance(p, "dns") /\ UNCHANGED <<alias, trouble>>
     ELSE Advance(p, "poll") /\ AddAlias
  /\ UNCHANGED <<config, resolver, plist, job, enabled, admin, dns, socket>>

SeeAlias(p) ==
  /\ Reached(p, "poll")
  /\ alias = "up"
  /\ Advance(p, "dns")
  /\ UNCHANGED <<installVars, dns, socket>>

(***************************************************************************)
(* A poll without a deadline.                                              *)
(***************************************************************************)
PollGoesOn(p) ==
  /\ Reached(p, "poll")
  /\ UNCHANGED vars

(***************************************************************************)
(* The deadline, which the code looks at before it looks for the address.  *)
(***************************************************************************)
PollExpires(p) ==
  /\ Reached(p, "poll")
  /\ Gone({p})
  /\ UNCHANGED installVars

NextListener(p) == <<proc[p].next, proc[p].cfg.dnsPort>>
CanBind(p) ==
  /\ dns[NextListener(p)] = Nobody
  /\ NeedsAlias(NextListener(p)) => alias = "up"

Bind(p) ==
  /\ Reached(p, "dns")
  /\ CanBind(p)
  /\ dns' = [dns EXCEPT ![NextListener(p)] = p]
  /\ proc' = [proc EXCEPT ![p].next = @ + 1,
                          ![p].pc = IF proc[p].next = 4 THEN "apply" ELSE "dns"]
  /\ UNCHANGED <<installVars, socket>>

(***************************************************************************)
(* A bind failure that is lost to a background goroutine.                  *)
(***************************************************************************)
BindFailsUnnoticed(p) ==
  /\ Reached(p, "dns")
  /\ ~CanBind(p)
  /\ proc' = [proc EXCEPT ![p].next = @ + 1,
                          ![p].pc = IF proc[p].next = 4 THEN "apply" ELSE "dns"]
  /\ UNCHANGED <<installVars, dns, socket>>

BindFails(p) ==
  /\ Reached(p, "dns")
  /\ ~CanBind(p)
  /\ Gone({p})
  /\ UNCHANGED installVars

Apply(p) ==
  /\ Reached(p, "apply")
  /\ Advance(p, "socket")
  /\ UNCHANGED <<installVars, dns, socket>>

(***************************************************************************)
(* A listen that does not remove what an unclean end has left.             *)
(***************************************************************************)
ListenOnly(p) ==
  /\ Reached(p, "socket")
  /\ IF socket = NoFile
     THEN socket' = p /\ Advance(p, "bound") /\ UNCHANGED dns
     ELSE Gone({p})
  /\ UNCHANGED installVars

(***************************************************************************)
(* Remove and bind: whatever the path led to, it now leads here.           *)
(***************************************************************************)
Listen(p) ==
  /\ Reached(p, "socket")
  /\ socket' = p
  /\ Advance(p, "bound")
  /\ UNCHANGED <<installVars, dns>>

(***************************************************************************)
(* Signals are caught from here on; until now one killed the process.      *)
(***************************************************************************)
Notify(p) ==
  /\ Reached(p, "bound")
  /\ Advance(p, "serving")
  /\ UNCHANGED <<installVars, dns, socket>>

(***************************************************************************)
(* An error of NewStore, LoadToken, caddy.Run, apply or listen, and any    *)
(* other end nobody asked for.                                             *)
(***************************************************************************)
Crash(p) ==
  /\ ~Reached(p, "off")
  /\ Mishap
  /\ Gone({p})
  /\ UNCHANGED <<config, resolver, plist, job, enabled, alias, admin>>

(***************************************************************************)
(* GracefulStop closes the listener first, which unlinks its path: the     *)
(* file that is there by then.                                             *)
(***************************************************************************)
Signalled(p) ==
  IF Reached(p, "serving")
  THEN Advance(p, "draining") /\ socket' = NoFile /\ UNCHANGED dns
  ELSE IF Reached(p, "draining") THEN UNCHANGED procVars
  ELSE Gone({p})

Interrupt(p) ==
  /\ ~Reached(p, "off")
  /\ \/ p = Foreground /\ UNCHANGED trouble
     \/ p = Launchd /\ Mishap
  /\ Signalled(p)
  /\ UNCHANGED <<config, resolver, plist, job, enabled, alias, admin>>

Drained(p) ==
  /\ Reached(p, "draining")
  /\ Gone({p})
  /\ UNCHANGED installVars

-----------------------------------------------------------------------------
(***************************************************************************)
(* launchd signals the process of a job it unloads.                        *)
(***************************************************************************)
Unloads ==
  /\ Unload \/ Stop
  /\ IF job' # job THEN Signalled(Launchd) ELSE UNCHANGED procVars

(***************************************************************************)
(* The state directory holds the socket.                                   *)
(***************************************************************************)
Purge ==
  /\ RemoveState
  /\ socket' = IF Readable THEN NoFile ELSE socket
  /\ UNCHANGED <<proc, dns>>

Admin ==
  \/ Unloads \/ Purge
  \/ (AdminStep \/ AdminFails) /\ UNCHANGED procVars

PowerCycle ==
  /\ Reboot
  /\ proc' = [p \in Proc |-> Off]
  /\ dns' = [l \in Listener |-> Nobody]
  /\ socket' = IF socket \in Proc THEN Stale ELSE socket

(***************************************************************************)
(* Another program binds the port usher was told to use, and gives it up.  *)
(***************************************************************************)
OtherBinds ==
  /\ Mishap
  /\ \E l \in Listener : /\ dns[l] = Nobody
                         /\ NeedsAlias(l) => alias = "up"
                         /\ dns' = [dns EXCEPT ![l] = Other]
  /\ UNCHANGED <<config, resolver, plist, job, enabled, alias, admin, proc, socket>>

OtherLeaves ==
  /\ \E l \in Listener : dns[l] = Other
  /\ dns' = [l \in Listener |-> IF dns[l] = Other THEN Nobody ELSE dns[l]]
  /\ UNCHANGED <<installVars, proc, socket>>

Commands == (RunInstall \/ RunUninstall) /\ UNCHANGED procVars
Kernel == AliasComesUp /\ UNCHANGED procVars

Step(p) ==
  \/ NeedAlias(p) \/ SeeAlias(p) \/ PollExpires(p) \/ Bind(p) \/ BindFails(p)
  \/ Apply(p) \/ Listen(p) \/ Notify(p) \/ Drained(p)

Next ==
  \/ Commands \/ Admin
  \/ \E p \in Proc : Start(p) \/ Step(p) \/ Crash(p) \/ Interrupt(p)
  \/ PowerCycle \/ Kernel \/ OtherBinds \/ OtherLeaves

Spec == Init /\ [][Next]_vars

(***************************************************************************)
(* Processes and commands run; launchd starts its job again (KeepAlive);   *)
(* an address asked for comes up at some time; a foreign program does not  *)
(* keep the port for ever.                                                 *)
(***************************************************************************)
FairSpec ==
  /\ Spec
  /\ \A p \in Proc : WF_vars(Step(p))
  /\ WF_vars(Start(Launchd)) /\ WF_vars(Admin)
  /\ WF_vars(Kernel) /\ WF_vars(OtherLeaves)

-----------------------------------------------------------------------------
(***************************************************************************)
(* `install' leaves launchd's process, if it runs, on the executable and   *)
(* the settings just installed, "so that the daemon and the CLI agree"     *)
(* (config.go:3-6).                                                        *)
(***************************************************************************)
InstallAgrees ==
  At("installed") =>
    /\ job = Desired
    /\ ~Reached(Launchd, "off") => proc[Launchd].cfg = admin.cfg

(***************************************************************************)
(* A daemon that listens keeps its socket: no other one, starting or       *)
(* ending, takes the path from it while it serves.  Listen and GracefulStop *)
(* do not look whose file they remove; what keeps two processes from       *)
(* reaching them is that dnsd.Start reports every bind that failed.  A     *)
(* purge does remove the directory under a foreground daemon.              *)
(***************************************************************************)
SocketKept ==
  [][\A p \in Proc :
       socket = p /\ proc[p].pc \in Up /\ proc'[p].pc \in Up /\ ~At("rmState")
         => socket' = p]_vars

(***************************************************************************)
(* A job that stays loaded and has a configuration comes up and stays up,  *)
(* after crashes, a reboot, ports in use and an alias that was late.       *)
(***************************************************************************)
ComesUp ==
  <>[](job # NoJob /\ Readable) => <>[](\E p \in Proc : Reached(p, "serving"))

(***************************************************************************)
(* No start and no command hangs: netalias.Ensure gives up, and a bind     *)
(* either succeeds or is reported.                                         *)
(***************************************************************************)
StartsEnd ==
  /\ \A p \in Proc : proc[p].pc \in Starting ~> proc[p].pc \notin Starting
  /\ admin.pc \notin Ready ~> admin.pc \in Ready

=============================================================================
