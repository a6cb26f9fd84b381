--------------------------- MODULE Startup_proofs ---------------------------
(***************************************************************************)
(* Proofs about the host: for any settings and executables, any number of  *)
(* mishaps, and commands that fail and are repeated in any order.          *)
(***************************************************************************)
EXTENDS Startup, TLAPS

-----------------------------------------------------------------------------
(***************************************************************************)
(* Type correctness.                                                       *)
(***************************************************************************)
LEMMA NoCommandType ==
  NoCommand \in [pc : {"idle"}, cfg : Setting, exe : Exe, purge : {FALSE}]
<1>1. (CHOOSE s \in Setting : TRUE) \in Setting /\ (CHOOSE e \in Exe : TRUE) \in Exe
  BY SettingAssumption
<1> QED BY <1>1 DEF NoCommand

LEMMA OffType == Off \in [pc : {"off"}, cfg : Setting, next : {1}]
BY NoCommandType DEF Off

LEMMA GotoType ==
  ASSUME NEW label, Goto(label), InstallTypeOK
  PROVE  /\ admin' = [pc |-> label, cfg |-> admin.cfg, exe |-> admin.exe,
                     purge |-> admin.purge]
         /\ admin.cfg \in Setting /\ admin.exe \in Exe /\ admin.purge \in BOOLEAN
BY DEF Goto, InstallTypeOK

(***************************************************************************)
(* What the commands, the kernel and a reboot do to the files, the job and *)
(* the alias, and what the processes do to them.                           *)
(***************************************************************************)
InstallStep ==
  \/ RunInstall \/ RunUninstall \/ AdminStep \/ Unload \/ Stop \/ RemoveState
  \/ AdminFails \/ Reboot

ProcessStep ==
  /\ UNCHANGED <<config, resolver, plist, job, enabled, admin>>
  /\ alias' \in {"down", "coming", "up"}
  /\ trouble' \in 0..MaxTrouble

LEMMA MishapType ==
  ASSUME trouble \in 0..MaxTrouble, Mishap PROVE trouble' \in 0..MaxTrouble
BY TroubleAssumption DEF Mishap

LEMMA AddAliasType ==
  ASSUME InstallTypeOK, AddAlias
  PROVE  alias' \in {"down", "coming", "up"} /\ trouble' \in 0..MaxTrouble
BY MishapType DEF AddAlias, InstallTypeOK

LEMMA StepCases ==
  ASSUME InstallTypeOK, [Next]_vars PROVE InstallStep \/ ProcessStep
<1>1. ASSUME NEW p \in Proc,
             Start(p) \/ Step(p) \/ Crash(p) \/ Interrupt(p)
      PROVE  ProcessStep
  <2>1. CASE Start(p) \/ Crash(p) \/ Interrupt(p)
    BY <2>1, MishapType DEF Start, Crash, Interrupt, ProcessStep, InstallTypeOK
  <2>2. CASE NeedAlias(p)
    BY <2>2, AddAliasType DEF NeedAlias, ProcessStep, InstallTypeOK
  <2>3. CASE \/ SeeAlias(p) \/ PollExpires(p) \/ Bind(p) \/ BindFails(p)
             \/ Apply(p) \/ Listen(p) \/ Notify(p) \/ Drained(p)
    BY <2>3 DEF SeeAlias, PollExpires, Bind, BindFails, Apply, Listen, Notify,
                Drained, installVars, ProcessStep, InstallTypeOK
  <2> QED BY <1>1, <2>1, <2>2, <2>3 DEF Step
<1>2. ASSUME Kernel \/ OtherBinds \/ OtherLeaves \/ UNCHANGED vars
      PROVE  ProcessStep
  BY <1>2, MishapType DEF Kernel, AliasComesUp, OtherBinds, OtherLeaves, vars,
                          installVars, ProcessStep, InstallTypeOK
<1>3. ASSUME Commands \/ Admin \/ PowerCycle PROVE InstallStep
  BY <1>3 DEF Commands, Admin, PowerCycle, Unloads, Purge, InstallStep
<1> QED BY <1>1, <1>2, <1>3 DEF Next

(***************************************************************************)
(* The inductive invariant of the commands: what an install has put in     *)
(* place by the time it has come so far, whatever it found; and what an    *)
(* uninstall has removed.  That a loaded job is enabled is what lets       *)
(* CheckJob skip `load -w'.                                                *)
(***************************************************************************)
Loading == {"load", "installed"}
Aliasing == {"alias", "poll", "job", "unload", "plist"} \cup Loading
Resolving == {"resolver"} \cup Aliasing

InPlace ==
  /\ admin.pc \in Resolving => config = admin.cfg
  /\ admin.pc \in Aliasing => resolver[admin.cfg.domain] = admin.cfg.dnsPort
  /\ admin.pc \in Loading => plist = Desired
  /\ admin.pc = "installed" => job # NoJob
  /\ job # NoJob => enabled

Purging == {"rmState", "rmConfig"}
Unlisted == {"rmResolver", "uninstalled"} \cup Purging

Removed ==
  /\ admin.pc \in {"rmPlist"} \cup Unlisted => job = NoJob
  /\ admin.pc \in Unlisted => plist = NoFile
  /\ admin.pc \in Purging /\ Readable => resolver[config.domain] = NoFile

InstallIInv == InstallTypeOK /\ InPlace /\ Removed

LEMMA DesiredType == InstallTypeOK => Desired \in Plist /\ Desired # NoJob
BY JobAssumption DEF InstallTypeOK, Desired, Plist

LEMMA InstallTypePreserved ==
  ASSUME InstallTypeOK, InPlace, [Next]_vars PROVE InstallTypeOK'
<1> USE DEF InstallTypeOK
<1>1. CASE ProcessStep
  BY <1>1 DEF ProcessStep, Plist, Domains
<1>2. ASSUME RunInstall \/ RunUninstall PROVE InstallTypeOK'
  <2>1. CASE RunInstall
    <3>1. PICK cfg \in Setting, exe \in Exe :
            admin' = [pc |-> "config", cfg |-> cfg, exe |-> exe, purge |-> FALSE]
      BY <2>1 DEF RunInstall
    <3> QED BY <2>1, <3>1 DEF RunInstall, Installing
  <2>2. CASE RunUninstall
    <3>1. PICK purge \in BOOLEAN :
            admin' = [NoCommand EXCEPT !.pc = "stop", !.purge = purge]
      BY <2>2 DEF RunUninstall
    <3>2. admin' = [pc |-> "stop", cfg |-> NoCommand.cfg, exe |-> NoCommand.exe,
                    purge |-> purge]
      BY <3>1, NoCommandType
    <3> QED BY <2>2, <3>2, NoCommandType DEF RunUninstall, Uninstalling
  <2> QED BY <1>2, <2>1, <2>2
<1>3. ASSUME AdminStep \/ Unload \/ Stop \/ RemoveState PROVE InstallTypeOK'
  <2>1. CASE WriteConfig
    BY <2>1, GotoType DEF WriteConfig, Installing
  <2>2. CASE WriteResolver
    <3>1. admin.cfg.dnsPort \in {s.dnsPort : s \in Setting}
      BY SettingAssumption
    <3>2. resolver' \in [Domains -> {s.dnsPort : s \in Setting} \cup {NoFile, Torn}]
      BY <2>2, <3>1 DEF WriteResolver
    <3> QED BY <2>2, <3>2, GotoType DEF WriteResolver, Installing
  <2>3. CASE EnsureAlias
    BY <2>3, GotoType, AddAliasType DEF EnsureAlias, Installing
  <2>4. CASE AliasSeen
    BY <2>4, GotoType DEF AliasSeen, Installing
  <2>5. CASE CheckJob
    BY <2>5, GotoType DEF CheckJob, Installing, Ready
  <2>6. CASE WritePlist
    BY <2>6, GotoType DEF WritePlist, Installing, Desired, Plist
  <2>7. CASE Load
    <3>1. job' \in Plist \cup {NoJob}
      BY <2>7, DesiredType DEF Load, At, InPlace, Loading
    <3> QED BY <2>7, <3>1, GotoType DEF Load, Ready
  <2>8. CASE RemovePlist \/ RemoveResolver \/ RemoveConfig
    <3>1. resolver' \in [Domains -> {s.dnsPort : s \in Setting} \cup {NoFile, Torn}]
      BY <2>8 DEF RemovePlist, RemoveResolver, RemoveConfig
    <3>2. CASE RemovePlist \/ RemoveConfig
      BY <3>2, GotoType DEF RemovePlist, RemoveConfig, Uninstalling, Ready
    <3>3. CASE RemoveResolver
      BY <3>1, <3>3, GotoType DEF RemoveResolver, AfterResolver, Uninstalling, Ready
    <3> QED BY <2>8, <3>2, <3>3
  <2>9. CASE Unload
    BY <2>9, GotoType DEF Unload, Installing
  <2>10. CASE Stop
    BY <2>10, GotoType DEF Stop, Uninstalling
  <2>11. CASE RemoveState
    BY <2>11, GotoType DEF RemoveState, Uninstalling
  <2> QED BY <1>3, <2>1, <2>2, <2>3, <2>4, <2>5, <2>6, <2>7, <2>8, <2>9, <2>10, <2>11
          DEF AdminStep
<1>4. ASSUME AdminFails PROVE InstallTypeOK'
  <2>1. config' \in Setting \cup {NoFile, Torn}
    BY <1>4 DEF AdminFails
  <2>2. resolver' \in [Domains -> {s.dnsPort : s \in Setting} \cup {NoFile, Torn}]
    BY <1>4 DEF AdminFails
  <2>3. plist' \in Plist \cup {NoFile, Torn}
    BY <1>4 DEF AdminFails
  <2> QED BY <1>4, <2>1, <2>2, <2>3, NoCommandType DEF AdminFails, Ready
<1>5. ASSUME Reboot PROVE InstallTypeOK'
  BY <1>5, NoCommandType, MishapType DEF Reboot, Ready
<1> QED BY <1>1, <1>2, <1>3, <1>4, <1>5, StepCases DEF InstallStep

LEMMA InPlacePreserved ==
  ASSUME InstallIInv, [Next]_vars PROVE InPlace'
<1> USE DEF InstallIInv, InPlace
<1>1. CASE ProcessStep
  BY <1>1 DEF ProcessStep, Desired
<1>2. CASE RunInstall
  <2>1. admin'.pc = "config"
    BY <1>2 DEF RunInstall
  <2> QED BY <1>2, <2>1 DEF RunInstall, Loading, Aliasing, Resolving
<1>3. CASE RunUninstall
  <2>1. admin'.pc = "stop"
    BY <1>3, NoCommandType DEF RunUninstall
  <2> QED BY <1>3, <2>1 DEF RunUninstall, Loading, Aliasing, Resolving
<1>4. CASE AdminFails \/ Reboot
  BY <1>4, NoCommandType DEF AdminFails, Reboot, Loading, Aliasing, Resolving
<1>5. CASE WriteConfig
  BY <1>5, GotoType DEF WriteConfig, Loading, Aliasing, Resolving
<1>6. CASE WriteResolver
  <2>1. resolver'[admin.cfg.domain] = admin.cfg.dnsPort
    BY <1>6 DEF WriteResolver, InstallTypeOK, Domains
  <2> QED BY <1>6, <2>1, GotoType DEF WriteResolver, At, Loading, Aliasing, Resolving
<1>7. CASE EnsureAlias
  BY <1>7, GotoType DEF EnsureAlias, At, Loading, Aliasing, Resolving
<1>8. CASE AliasSeen
  BY <1>8, GotoType DEF AliasSeen, At, Loading, Aliasing, Resolving
<1>9. CASE CheckJob
  BY <1>9, GotoType DEF CheckJob, At, Desired, Loading, Aliasing, Resolving
<1>10. CASE Unload
  BY <1>10, GotoType DEF Unload, At, Loading, Aliasing, Resolving
<1>11. CASE WritePlist
  BY <1>11, GotoType DEF WritePlist, At, Desired, Loading, Aliasing, Resolving
<1>12. CASE Load
  BY <1>12, GotoType, DesiredType DEF Load, At, Desired, Loading, Aliasing, Resolving
<1>13. CASE Stop \/ RemovePlist \/ RemoveResolver \/ RemoveState \/ RemoveConfig
  BY <1>13, GotoType DEF Stop, RemovePlist, RemoveResolver, RemoveState, RemoveConfig,
                         AfterResolver, Loading, Aliasing, Resolving
<1> QED BY <1>1, <1>2, <1>3, <1>4, <1>5, <1>6, <1>7, <1>8, <1>9, <1>10, <1>11, <1>12,
           <1>13, StepCases DEF InstallStep, AdminStep

LEMMA RemovedPreserved ==
  ASSUME InstallIInv, [Next]_vars PROVE Removed'
<1> USE DEF InstallIInv, Removed, Readable
<1>1. CASE ProcessStep
  BY <1>1 DEF ProcessStep
<1>2. CASE RunInstall
  <2>1. admin'.pc = "config"
    BY <1>2 DEF RunInstall
  <2> QED BY <2>1 DEF Unlisted, Purging
<1>3. CASE RunUninstall
  <2>1. admin'.pc = "stop"
    BY <1>3, NoCommandType DEF RunUninstall
  <2> QED BY <2>1 DEF Unlisted, Purging
<1>4. CASE AdminFails \/ Reboot
  BY <1>4, NoCommandType DEF AdminFails, Reboot, Unlisted, Purging
<1>5. CASE \/ WriteConfig \/ WriteResolver \/ EnsureAlias \/ AliasSeen \/ CheckJob
           \/ Unload \/ WritePlist \/ Load
  BY <1>5, GotoType DEF WriteConfig, WriteResolver, EnsureAlias, AliasSeen, CheckJob,
                        Unload, WritePlist, Load, Unlisted, Purging
<1>6. CASE Stop
  BY <1>6, GotoType DEF Stop, Unlisted, Purging
<1>7. CASE RemovePlist
  BY <1>7, GotoType DEF RemovePlist, At, Unlisted, Purging
<1>8. CASE RemoveResolver
  <2>1. ASSUME Readable PROVE resolver'[config.domain] = NoFile
    BY <1>8, <2>1 DEF RemoveResolver, Domains
  <2> QED BY <1>8, <2>1, GotoType DEF RemoveResolver, At, AfterResolver, Unlisted, Purging
<1>9. CASE RemoveState
  BY <1>9, GotoType DEF RemoveState, At, Unlisted, Purging
<1>10. CASE RemoveConfig
  BY <1>10, GotoType DEF RemoveConfig, At, Unlisted, Purging
<1> QED BY <1>1, <1>2, <1>3, <1>4, <1>5, <1>6, <1>7, <1>8, <1>9, <1>10, StepCases
        DEF InstallStep, AdminStep

LEMMA InstallInitially == Init => InstallIInv
<1> SUFFICES ASSUME Init PROVE InstallIInv
  OBVIOUS
<1>1. InstallTypeOK
  <2>1. admin \in [pc : Installing \cup Uninstalling \cup Ready,
                   cfg : Setting, exe : Exe, purge : BOOLEAN]
    BY NoCommandType DEF Init, InstallInit, Ready
  <2>2. resolver \in [Domains -> {s.dnsPort : s \in Setting} \cup {NoFile, Torn}]
    BY DEF Init, InstallInit
  <2> QED BY <2>1, <2>2, TroubleAssumption DEF Init, InstallInit, InstallTypeOK
<1>2. InPlace /\ Removed
  BY NoCommandType DEF Init, InstallInit, InPlace, Removed, Loading, Aliasing,
                       Resolving, Unlisted, Purging
<1> QED BY <1>1, <1>2 DEF InstallIInv

LEMMA InstallInvariant == Spec => []InstallIInv
<1>1. InstallIInv /\ [Next]_vars => InstallIInv'
  BY InstallTypePreserved, InPlacePreserved, RemovedPreserved DEF InstallIInv
<1> QED BY <1>1, InstallInitially, PTL DEF Spec

(***************************************************************************)
(* Whatever earlier commands and failures have left, an install that       *)
(* reports success has put everything in place (daemoninstall.go:204-303). *)
(***************************************************************************)
THEOREM InstallCompletes == Spec => []InstallComplete
<1>1. InstallIInv => InstallComplete
  BY DEF InstallIInv, InPlace, InstallComplete, At, Loading, Aliasing, Resolving
<1> QED BY <1>1, InstallInvariant, PTL

(***************************************************************************)
(* No purge drops the configuration before what it is the record of        *)
(* (daemonuninstall.go:35-92).                                             *)
(***************************************************************************)
THEOREM PurgeOrphansNothing == Spec => NothingOrphaned
<1>1. ASSUME InstallIInv, [Next]_vars, config # NoFile, config' = NoFile
      PROVE  /\ job = NoJob /\ plist = NoFile
             /\ Readable => resolver[config.domain] = NoFile
  <2>1. NoFile \notin Setting /\ NoFile # Torn
    BY SettingAssumption
  <2>2. CASE RemoveConfig
    BY <1>1, <2>2 DEF RemoveConfig, At, InstallIInv, Removed, Unlisted, Purging
  <2>3. CASE ProcessStep
    BY <1>1, <2>3 DEF ProcessStep
  <2>4. CASE WriteConfig
    BY <1>1, <2>1, <2>4 DEF WriteConfig, InstallIInv, InstallTypeOK
  <2>5. CASE \/ RunInstall \/ RunUninstall \/ WriteResolver \/ EnsureAlias
             \/ AliasSeen \/ CheckJob \/ Unload \/ WritePlist \/ Load \/ Stop
             \/ RemovePlist \/ RemoveResolver \/ RemoveState \/ Reboot
    BY <1>1, <2>5 DEF RunInstall, RunUninstall, WriteResolver, EnsureAlias, AliasSeen,
                      CheckJob, Unload, WritePlist, Load, Stop, RemovePlist,
                      RemoveResolver, RemoveState, Reboot
  <2>6. CASE AdminFails
    BY <1>1, <2>1, <2>6 DEF AdminFails
  <2> QED BY <1>1, <2>2, <2>3, <2>4, <2>5, <2>6, StepCases
          DEF InstallIInv, InstallStep, AdminStep
<1>2. InstallIInv /\ [Next]_vars =>
        [config # NoFile /\ config' = NoFile
           => /\ job = NoJob /\ plist = NoFile
              /\ Readable => resolver[config.domain] = NoFile]_installVars
  BY <1>1
<1> QED BY <1>2, InstallInvariant, PTL DEF Spec, NothingOrphaned

-----------------------------------------------------------------------------
(***************************************************************************)
(* The inductive invariant of the processes: a daemon past dnsd.Start has  *)
(* bound all four listeners, and one inside it those before the next.      *)
(***************************************************************************)
Started == {"apply", "socket", "bound", "serving", "draining"}

ProcTypeOK ==
  /\ proc \in [Proc -> [pc : Starting \cup {"off", "serving", "draining"},
                        cfg : Setting, next : 1..5]]
  /\ dns \in [Listener -> Proc \cup {Other, Nobody}]
  /\ socket \in Proc \cup {NoFile, Stale}

Counted ==
  \A p \in Proc :
    /\ proc[p].pc \in {"off", "alias", "poll"} => proc[p].next = 1
    /\ proc[p].pc = "dns" => proc[p].next \in 1..4

Has(p, i) == dns[<<i, proc[p].cfg.dnsPort>>] = p

Held ==
  \A p \in Proc : \A i \in 1..4 :
    \/ proc[p].pc \in Started
    \/ proc[p].pc = "dns" /\ i < proc[p].next
    => Has(p, i)

ProcIInv == ProcTypeOK /\ Counted /\ Held

LEMMA ListenerOf ==
  ASSUME ProcTypeOK, NEW p \in Proc, NEW i \in 1..4
  PROVE  <<i, proc[p].cfg.dnsPort>> \in Listener
BY DEF ProcTypeOK, Listener

LEMMA UnchangedKeeps ==
  ASSUME ProcIInv, UNCHANGED procVars PROVE ProcIInv'
BY DEF ProcIInv, ProcTypeOK, Counted, Held, Has, procVars

LEMMA GoneKeeps ==
  ASSUME ProcIInv, NEW ps \in SUBSET Proc, Gone(ps) PROVE ProcIInv'
<1> USE DEF ProcIInv
<1>1. ProcTypeOK'
  BY OffType DEF ProcTypeOK, Gone
<1>2. Counted'
  BY OffType DEF Counted, ProcTypeOK, Gone
<1>3. ASSUME NEW p \in Proc, NEW i \in 1..4,
             \/ proc'[p].pc \in Started
             \/ proc'[p].pc = "dns" /\ i < proc'[p].next
      PROVE  Has(p, i)'
  <2>1. p \notin ps /\ proc'[p] = proc[p]
    BY <1>3, OffType DEF Gone, Started
  <2>2. Has(p, i)
    BY <1>3, <2>1 DEF Held
  <2> QED BY <2>1, <2>2, ListenerOf DEF Has, Gone
<1> QED BY <1>1, <1>2, <1>3 DEF Held

(***************************************************************************)
(* A step of one process that leaves the listeners alone and goes from one *)
(* label to another of the same standing.                                  *)
(***************************************************************************)
LEMMA AdvanceKeeps ==
  ASSUME ProcIInv, NEW p \in Proc, NEW label, Advance(p, label), UNCHANGED dns,
         socket' \in Proc \cup {NoFile, Stale},
         \/ proc[p].pc \in {"alias"} /\ label = "poll"
         \/ proc[p].pc \in {"alias", "poll"} /\ label = "dns"
         \/ proc[p].pc \in Started /\ label \in Started
  PROVE  ProcIInv'
<1> USE DEF ProcIInv
<1>1. label \in Starting \cup {"off", "serving", "draining"}
  BY DEF Starting, Started
<1>2. /\ \A q \in Proc : q # p => proc'[q] = proc[q]
      /\ proc'[p].pc = label /\ proc'[p].cfg = proc[p].cfg
      /\ proc'[p].next = proc[p].next
  BY DEF Advance, ProcTypeOK
<1>3. ProcTypeOK'
  BY <1>1 DEF Advance, ProcTypeOK
<1>4. Counted'
  BY <1>2 DEF Counted, Started
<1>5. ASSUME NEW q \in Proc, NEW i \in 1..4,
             \/ proc'[q].pc \in Started
             \/ proc'[q].pc = "dns" /\ i < proc'[q].next
      PROVE  Has(q, i)'
  <2>1. Has(q, i)
    <3>1. CASE q # p
      BY <1>2, <1>5, <3>1 DEF Held
    <3>2. CASE q = p /\ proc[p].pc \in Started
      BY <3>2 DEF Held
    <3>3. CASE q = p /\ proc[p].pc \in {"alias", "poll"}
      BY <1>2, <1>5, <3>3 DEF Counted, Started
    <3> QED BY <3>1, <3>2, <3>3
  <2> QED BY <1>2, <2>1 DEF Has
<1> QED BY <1>3, <1>4, <1>5 DEF Held

LEMMA StartKeeps ==
  ASSUME ProcIInv, NEW p \in Proc, Start(p) PROVE ProcIInv'
<1> USE DEF ProcIInv
<1>1. proc' = [proc EXCEPT ![p] = [pc |-> "alias", cfg |-> config, next |-> 1]]
  BY DEF Start
<1>2. config \in Setting /\ UNCHANGED <<dns, socket>>
  BY DEF Start, Readable
<1>3. ProcTypeOK'
  BY <1>1, <1>2 DEF ProcTypeOK, Starting
<1>4. Counted'
  BY <1>1 DEF Counted, ProcTypeOK
<1>5. Held'
  BY <1>1, <1>2 DEF Held, Has, ProcTypeOK, Started
<1> QED BY <1>3, <1>4, <1>5

LEMMA BindKeeps ==
  ASSUME ProcIInv, NEW p \in Proc, Bind(p) PROVE ProcIInv'
<1> USE DEF ProcIInv
<1> DEFINE n == proc[p].next
<1>1. n \in 1..4 /\ proc[p].pc = "dns"
  BY DEF Bind, Reached, Counted
<1>2. /\ \A q \in Proc : q # p => proc'[q] = proc[q]
      /\ proc'[p].pc = (IF n = 4 THEN "apply" ELSE "dns")
      /\ proc'[p].cfg = proc[p].cfg
      /\ proc'[p].next = n + 1
  BY DEF Bind, ProcTypeOK
<1>3. NextListener(p) \in Listener /\ dns[NextListener(p)] = Nobody
  BY <1>1, ListenerOf DEF NextListener, Bind, CanBind
<1>4. /\ dns'[NextListener(p)] = p
      /\ \A l \in Listener : l # NextListener(p) => dns'[l] = dns[l]
  BY <1>3 DEF Bind, ProcTypeOK
<1>5. ProcTypeOK'
  <2>1. n + 1 \in 1..5
    BY <1>1
  <2> QED BY <2>1 DEF Bind, ProcTypeOK, Starting
<1>6. Counted'
  BY <1>1, <1>2 DEF Counted
<1>7. ASSUME NEW q \in Proc, NEW i \in 1..4,
             \/ proc'[q].pc \in Started
             \/ proc'[q].pc = "dns" /\ i < proc'[q].next
      PROVE  Has(q, i)'
  <2>1. CASE q # p
    <3>1. Has(q, i)
      BY <1>2, <1>7, <2>1 DEF Held
    <3>2. <<i, proc[q].cfg.dnsPort>> # NextListener(p)
      BY <1>3, <3>1, ProcAssumption DEF Has
    <3> QED BY <1>2, <1>4, <2>1, <3>1, <3>2, ListenerOf DEF Has
  <2>2. CASE q = p /\ i = n
    BY <1>2, <1>4, <2>2 DEF Has, NextListener
  <2>3. CASE q = p /\ i # n
    <3>1. i < n
      <4>1. CASE n = 4
        BY <2>3, <4>1
      <4>2. CASE n # 4
        BY <1>1, <1>2, <1>7, <2>3, <4>2 DEF Started
      <4> QED BY <4>1, <4>2
    <3>2. Has(p, i)
      BY <1>1, <3>1 DEF Held
    <3>3. <<i, proc[p].cfg.dnsPort>> # NextListener(p)
      BY <2>3 DEF NextListener
    <3> QED BY <1>2, <1>4, <2>3, <3>2, <3>3, ListenerOf DEF Has
  <2> QED BY <2>1, <2>2, <2>3
<1> QED BY <1>5, <1>6, <1>7 DEF Held

LEMMA SignalledKeeps ==
  ASSUME ProcIInv, NEW p \in Proc, Signalled(p) PROVE ProcIInv'
<1>1. CASE Reached(p, "serving")
  BY <1>1, AdvanceKeeps DEF Signalled, Reached, Started
<1>2. CASE Reached(p, "draining")
  BY <1>2, UnchangedKeeps DEF Signalled, Reached
<1>3. CASE ~Reached(p, "serving") /\ ~Reached(p, "draining")
  <2>1. Gone({p})
    BY <1>3 DEF Signalled
  <2> QED BY <2>1, GoneKeeps
<1> QED BY <1>1, <1>2, <1>3

LEMMA ForeignKeeps ==
  ASSUME ProcIInv, OtherBinds \/ OtherLeaves PROVE ProcIInv'
<1> USE DEF ProcIInv
<1>1. UNCHANGED <<proc, socket>>
  BY DEF OtherBinds, OtherLeaves
<1>2. dns' \in [Listener -> Proc \cup {Other, Nobody}]
  BY DEF OtherBinds, OtherLeaves, ProcTypeOK
<1>3. \A l \in Listener : dns[l] \in Proc => dns'[l] = dns[l]
  BY ProcAssumption DEF OtherBinds, OtherLeaves, ProcTypeOK
<1>4. ProcTypeOK' /\ Counted'
  BY <1>1, <1>2 DEF ProcTypeOK, Counted
<1>5. ASSUME NEW p \in Proc, NEW i \in 1..4, Has(p, i) PROVE Has(p, i)'
  BY <1>1, <1>3, <1>5, ListenerOf DEF Has
<1> QED BY <1>1, <1>4, <1>5 DEF Held

LEMMA StepKeeps ==
  ASSUME ProcIInv, NEW p \in Proc, Step(p) PROVE ProcIInv'
<1> USE DEF Reached, Started
<1>0. socket \in Proc \cup {NoFile, Stale} /\ p \in Proc
  BY DEF ProcIInv, ProcTypeOK
<1>1. CASE NeedAlias(p)
  BY <1>0, <1>1, AdvanceKeeps DEF NeedAlias
<1>2. CASE SeeAlias(p)
  BY <1>0, <1>2, AdvanceKeeps DEF SeeAlias
<1>3. CASE PollExpires(p) \/ BindFails(p) \/ Drained(p)
  <2>1. Gone({p})
    BY <1>3 DEF PollExpires, BindFails, Drained
  <2> QED BY <2>1, GoneKeeps
<1>4. CASE Bind(p)
  BY <1>4, BindKeeps
<1>5. CASE Apply(p)
  BY <1>0, <1>5, AdvanceKeeps DEF Apply
<1>6. CASE Listen(p)
  BY <1>0, <1>6, AdvanceKeeps DEF Listen
<1>7. CASE Notify(p)
  BY <1>0, <1>7, AdvanceKeeps DEF Notify
<1> QED BY <1>1, <1>2, <1>3, <1>4, <1>5, <1>6, <1>7 DEF Step

LEMMA ProcPreserved ==
  ASSUME ProcIInv, [Next]_vars PROVE ProcIInv'
<1>1. CASE UNCHANGED procVars
  BY <1>1, UnchangedKeeps
<1>2. ASSUME NEW p \in Proc, Start(p) \/ Step(p) PROVE ProcIInv'
  BY <1>2, StartKeeps, StepKeeps
<1>3. ASSUME NEW p \in Proc, Crash(p) PROVE ProcIInv'
  <2>1. Gone({p})
    BY <1>3 DEF Crash
  <2> QED BY <2>1, GoneKeeps
<1>4. ASSUME NEW p \in Proc, Interrupt(p) PROVE ProcIInv'
  BY <1>4, SignalledKeeps DEF Interrupt
<1>5. CASE Unloads
  BY <1>1, <1>5, SignalledKeeps DEF Unloads, Proc
<1>6. CASE Purge
  BY <1>6 DEF Purge, ProcIInv, ProcTypeOK, Counted, Held, Has
<1>7. CASE PowerCycle
  <2>1. ProcTypeOK'
    BY <1>7, OffType DEF PowerCycle, ProcIInv, ProcTypeOK
  <2>2. Counted' /\ Held'
    BY <1>7, OffType DEF PowerCycle, Counted, Held, Started
  <2> QED BY <2>1, <2>2 DEF ProcIInv
<1>8. CASE OtherBinds \/ OtherLeaves
  BY <1>8, ForeignKeeps
<1> QED BY <1>1, <1>2, <1>3, <1>4, <1>5, <1>6, <1>7, <1>8
        DEF Next, Commands, Admin, Kernel, vars

LEMMA ProcInvariant == Spec => []ProcIInv
<1>1. Init => ProcIInv
  <2> SUFFICES ASSUME Init PROVE ProcIInv
    OBVIOUS
  <2>1. ProcTypeOK
    BY OffType DEF Init, ProcTypeOK
  <2>2. Counted /\ Held
    BY OffType DEF Init, Counted, Held, Started
  <2> QED BY <2>1, <2>2 DEF ProcIInv
<1>2. ProcIInv /\ [Next]_vars => ProcIInv'
  BY ProcPreserved
<1> QED BY <1>1, <1>2, PTL DEF Spec

(***************************************************************************)
(* The type invariant of the host.                                         *)
(***************************************************************************)
THEOREM HostTypeCorrect == Spec => []HostTypeOK
<1>1. InstallIInv /\ ProcIInv => HostTypeOK
  BY DEF InstallIInv, ProcIInv, ProcTypeOK, HostTypeOK
<1> QED BY <1>1, InstallInvariant, ProcInvariant, PTL

(***************************************************************************)
(* A daemon that serves answers on all four listeners (dnsd.go:36-56).     *)
(***************************************************************************)
THEOREM ServingListens ==
  Spec => [](\A p \in Proc : Reached(p, "serving") => \A i \in 1..4 : Has(p, i))
<1>1. ProcIInv =>
        \A p \in Proc : Reached(p, "serving") => \A i \in 1..4 : Has(p, i)
  BY DEF ProcIInv, Held, Reached, Started
<1> QED BY <1>1, ProcInvariant, PTL

(***************************************************************************)
(* With one DNS port, whoever gets as far as the socket holds the four     *)
(* listeners, and so is alone.                                             *)
(***************************************************************************)
OneDnsPort == \A s, t \in Setting : s.dnsPort = t.dnsPort

LEMMA StartedAlone ==
  ASSUME OneDnsPort, ProcIInv, NEW p \in Proc, NEW q \in Proc,
         proc[p].pc \in Started, proc[q].pc \in Started
  PROVE  p = q
<1>1. Has(p, 1) /\ Has(q, 1)
  BY DEF ProcIInv, Held
<1>2. proc[p].cfg.dnsPort = proc[q].cfg.dnsPort
  BY DEF ProcIInv, ProcTypeOK, OneDnsPort
<1> QED BY <1>1, <1>2 DEF Has

(***************************************************************************)
(* If all configurations name one DNS port, no daemon loses its socket to  *)
(* another, although Listen and GracefulStop remove whatever is at the     *)
(* path (daemon.go:85, 108).                                               *)
(***************************************************************************)
THEOREM SocketStays == OneDnsPort => (Spec => SocketKept)
<1> SUFFICES ASSUME OneDnsPort PROVE Spec => SocketKept
  OBVIOUS
<1>1. ASSUME ProcIInv, [Next]_vars, NEW p \in Proc,
             socket = p, proc[p].pc \in Up, proc'[p].pc \in Up, ~At("rmState")
      PROVE  socket' = p
  <2>1. proc[p].pc \in Started /\ p \in Proc
    BY <1>1 DEF Up, Started
  <2>2. ASSUME NEW ps \in SUBSET Proc, Gone(ps) PROVE socket' = p
    <3>1. p \notin ps
      BY <1>1, <2>2, OffType DEF Gone, Up
    <3> QED BY <1>1, <2>2, <3>1 DEF Gone
  <2>3. ASSUME NEW q \in Proc, Signalled(q) PROVE socket' = p
    <3>1. CASE Reached(q, "serving")
      <4>1. q = p
        BY <1>1, <2>1, <3>1, StartedAlone DEF Reached, Started
      <4>2. proc'[p].pc = "draining"
        BY <1>1, <2>3, <3>1, <4>1 DEF Signalled, Advance, ProcIInv, ProcTypeOK
      <4> QED BY <1>1, <4>2 DEF Up
    <3>2. CASE Reached(q, "draining")
      BY <1>1, <2>3, <3>2 DEF Signalled, Reached, procVars
    <3>3. CASE ~Reached(q, "serving") /\ ~Reached(q, "draining")
      BY <2>2, <2>3, <3>3 DEF Signalled
    <3> QED BY <3>1, <3>2, <3>3
  <2>4. ASSUME NEW q \in Proc, Listen(q) PROVE socket' = p
    <3>1. q = p
      BY <1>1, <2>1, <2>4, StartedAlone DEF Listen, Reached, Started
    <3> QED BY <2>4, <3>1 DEF Listen
  <2>5. ASSUME NEW q \in Proc,
               \/ Start(q) \/ NeedAlias(q) \/ SeeAlias(q) \/ Bind(q) \/ Apply(q)
               \/ Notify(q)
        PROVE  socket' = p
    BY <1>1, <2>5 DEF Start, NeedAlias, SeeAlias, Bind, Apply, Notify
  <2>6. ASSUME NEW q \in Proc,
               PollExpires(q) \/ BindFails(q) \/ Drained(q) \/ Crash(q)
        PROVE  socket' = p
    <3>1. Gone({q})
      BY <2>6 DEF PollExpires, BindFails, Drained, Crash
    <3> QED BY <2>2, <3>1
  <2>7. ASSUME NEW q \in Proc, Interrupt(q) PROVE socket' = p
    BY <2>3, <2>7 DEF Interrupt
  <2>8. CASE UNCHANGED socket
    BY <1>1, <2>8
  <2>9. CASE Unloads
    BY <2>3, <2>8, <2>9 DEF Unloads, Proc, procVars
  <2>10. CASE Purge
    BY <1>1, <2>10 DEF Purge, RemoveState
  <2>11. CASE PowerCycle
    BY <1>1, <2>11, OffType DEF PowerCycle, Up
  <2>12. ASSUME Commands \/ Kernel \/ OtherBinds \/ OtherLeaves \/ UNCHANGED vars
         PROVE  socket' = p
    BY <2>8, <2>12 DEF Commands, Kernel, OtherBinds, OtherLeaves, vars, procVars
  <2>13. ASSUME NEW q \in Proc, Start(q) \/ Step(q) \/ Crash(q) \/ Interrupt(q)
         PROVE  socket' = p
    BY <2>4, <2>5, <2>6, <2>7, <2>13 DEF Step
  <2>14. ASSUME Admin PROVE socket' = p
    BY <2>8, <2>9, <2>10, <2>14 DEF Admin, procVars
  <2> QED BY <1>1, <2>11, <2>12, <2>13, <2>14 DEF Next
<1>2. ProcIInv /\ [Next]_vars =>
        [\A p \in Proc :
           socket = p /\ proc[p].pc \in Up /\ proc'[p].pc \in Up /\ ~At("rmState")
             => socket' = p]_vars
  BY <1>1
<1> QED BY <1>2, ProcInvariant, PTL DEF Spec, SocketKept

=============================================================================
