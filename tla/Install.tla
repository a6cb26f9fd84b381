------------------------------ MODULE Install ------------------------------
(***************************************************************************)
(* `usher daemon install' and `usher daemon uninstall': the files they     *)
(* write and remove, the loopback alias, and the launchd job.  A command   *)
(* may fail at every step, and is then run again.                          *)
(***************************************************************************)
EXTENDS Naturals

CONSTANTS
  Setting,    \* the configurations `install' is called with
  Exe,        \* the paths the usher binary has been run from
  NoFile,     \* a file that is not there
  Torn,       \* a file whose writing stopped half way
  NoJob,      \* launchd knows no job of ours
  MaxTrouble  \* bound on the mishaps of one behaviour

ASSUME SettingAssumption ==
  /\ Setting # {} /\ Exe # {}
  /\ \A s \in Setting : {"domain", "stateDir", "dnsPort"} \subseteq DOMAIN s
  /\ NoFile # Torn
  /\ {NoFile, Torn} \cap Setting = {}
  /\ {NoFile, Torn} \cap {s.dnsPort : s \in Setting} = {}
ASSUME JobAssumption ==
  {NoJob, NoFile, Torn} \cap (Exe \X {s.stateDir : s \in Setting}) = {}
ASSUME TroubleAssumption == MaxTrouble \in Nat

VARIABLES
  config,    \* /etc/usher/config.json
  resolver,  \* /etc/resolver/<domain>: the port it names
  plist,     \* the job's plist: the executable and the log directory it names
  job,       \* the plist launchd has loaded
  enabled,   \* launchd loads the job at boot (`load -w', `unload -w')
  alias,     \* the address on lo0: "down", "coming" or "up"
  admin,     \* the command root runs
  trouble    \* the mishaps so far

installVars == <<config, resolver, plist, job, enabled, alias, admin, trouble>>

Domains == {s.domain : s \in Setting}
Plist == Exe \X {s.stateDir : s \in Setting}

(***************************************************************************)
(* The plist `install' wants: of the settings, only the state directory.   *)
(***************************************************************************)
Desired == <<admin.exe, admin.cfg.stateDir>>

(***************************************************************************)
(* config.Load finds a file that parses; what install writes validates.    *)
(***************************************************************************)
Readable == config \in Setting

Installing == {"config", "resolver", "alias", "poll", "job", "unload", "plist", "load"}
Uninstalling == {"stop", "rmPlist", "rmResolver", "rmState", "rmConfig"}
Ready == {"idle", "installed", "uninstalled"}

InstallTypeOK ==
  /\ config \in Setting \cup {NoFile, Torn}
  /\ resolver \in [Domains -> {s.dnsPort : s \in Setting} \cup {NoFile, Torn}]
  /\ plist \in Plist \cup {NoFile, Torn}
  /\ job \in Plist \cup {NoJob}
  /\ enabled \in BOOLEAN
  /\ alias \in {"down", "coming", "up"}
  /\ admin \in [pc : Installing \cup Uninstalling \cup Ready, cfg : Setting,
                exe : Exe, purge : BOOLEAN]
  /\ trouble \in 0..MaxTrouble

NoCommand ==
  [pc |-> "idle", cfg |-> CHOOSE s \in Setting : TRUE,
   exe |-> CHOOSE e \in Exe : TRUE, purge |-> FALSE]

InstallInit ==
  /\ config = NoFile
  /\ resolver = [d \in Domains |-> NoFile]
  /\ plist = NoFile
  /\ job = NoJob
  /\ enabled = TRUE
  /\ alias = "down"
  /\ admin = NoCommand
  /\ trouble = 0

-----------------------------------------------------------------------------
At(label) == admin.pc = label
Goto(label) == admin' = [admin EXCEPT !.pc = label]
Mishap == trouble < MaxTrouble /\ trouble' = trouble + 1

(***************************************************************************)
(* netalias.Ensure: add the address unless it is there.  The kernel        *)
(* attaches it in its own time; ifconfig may also fail, which Ensure does  *)
(* not look at before its poll has ended.                                  *)
(***************************************************************************)
AddAlias ==
  \/ /\ alias' = IF alias = "down" THEN "coming" ELSE alias
     /\ UNCHANGED trouble
  \/ Mishap /\ UNCHANGED alias

AliasComesUp ==
  /\ alias = "coming"
  /\ alias' = "up"
  /\ UNCHANGED <<config, resolver, plist, job, enabled, admin, trouble>>

-----------------------------------------------------------------------------
(***************************************************************************)
(* install: the configuration, the resolver file, the alias, the job.      *)
(***************************************************************************)
RunInstall ==
  /\ admin.pc \in Ready
  /\ \E cfg \in Setting, exe \in Exe :
       admin' = [pc |-> "config", cfg |-> cfg, exe |-> exe, purge |-> FALSE]
  /\ UNCHANGED <<config, resolver, plist, job, enabled, alias, trouble>>

WriteConfig ==
  /\ At("config")
  /\ config' = admin.cfg
  /\ Goto("resolver")
  /\ UNCHANGED <<resolver, plist, job, enabled, alias, trouble>>

WriteResolver ==
  /\ At("resolver")
  /\ resolver' = [resolver EXCEPT ![admin.cfg.domain] = admin.cfg.dnsPort]
  /\ Goto("alias")
  /\ UNCHANGED <<config, plist, job, enabled, alias, trouble>>

EnsureAlias ==
  /\ At("alias")
  /\ IF alias = "up" THEN Goto("job") /\ UNCHANGED <<alias, trouble>>
     ELSE Goto("poll") /\ AddAlias
  /\ UNCHANGED <<config, resolver, plist, job, enabled>>

AliasSeen ==
  /\ At("poll")
  /\ alias = "up"
  /\ Goto("job")
  /\ UNCHANGED <<config, resolver, plist, job, enabled, alias, trouble>>

(***************************************************************************)
(* An install that trusts an unchanged plist to be a loaded one.           *)
(***************************************************************************)
CheckPlistOnly ==
  /\ At("job")
  /\ \/ plist = Desired /\ Goto("installed")
     \/ plist # Desired /\ Goto(IF job # NoJob THEN "unload" ELSE "plist")
  /\ UNCHANGED <<config, resolver, plist, job, enabled, alias, trouble>>

CheckJob ==
  /\ At("job")
  /\ \/ plist = Desired /\ job # NoJob /\ Goto("installed")
     \/ plist # Desired /\ job # NoJob /\ Goto("unload")
     \/ job = NoJob /\ Goto("plist")
  /\ UNCHANGED <<config, resolver, plist, job, enabled, alias, trouble>>

(***************************************************************************)
(* The error of this unload is ignored: the job may still be loaded.       *)
(***************************************************************************)
Unload ==
  /\ At("unload")
  /\ job' \in {NoJob, job}
  /\ Goto("plist")
  /\ UNCHANGED <<config, resolver, plist, enabled, alias, trouble>>

WritePlist ==
  /\ At("plist")
  /\ plist' = Desired
  /\ Goto("load")
  /\ UNCHANGED <<config, resolver, job, enabled, alias, trouble>>

(***************************************************************************)
(* `launchctl load -w'.  A job that is loaded stays as it is, and launchctl *)
(* may report that or not: the failure is AdminFails.                      *)
(***************************************************************************)
Load ==
  /\ At("load")
  /\ job' = IF job = NoJob THEN plist ELSE job
  /\ enabled' = TRUE
  /\ Goto("installed")
  /\ UNCHANGED <<config, resolver, plist, alias, trouble>>

-----------------------------------------------------------------------------
(***************************************************************************)
(* uninstall: the job and its plist, the resolver file and, with --purge,  *)
(* the state directory and at last the configuration, which says where     *)
(* those two are.                                                          *)
(***************************************************************************)
RunUninstall ==
  /\ admin.pc \in Ready
  /\ \E purge \in BOOLEAN :
       admin' = [NoCommand EXCEPT !.pc = "stop", !.purge = purge]
  /\ UNCHANGED <<config, resolver, plist, job, enabled, alias, trouble>>

Stop ==
  /\ At("stop")
  /\ job' = NoJob
  /\ enabled' = (enabled /\ job = NoJob)
  /\ Goto("rmPlist")
  /\ UNCHANGED <<config, resolver, plist, alias, trouble>>

RemovePlist ==
  /\ At("rmPlist")
  /\ plist' = NoFile
  /\ Goto("rmResolver")
  /\ UNCHANGED <<config, resolver, job, enabled, alias, trouble>>

AfterResolver == IF admin.purge THEN "rmState" ELSE "uninstalled"

(***************************************************************************)
(* An uninstall that removes the configuration once it has read it.        *)
(***************************************************************************)
ForgetConfigFirst ==
  /\ At("rmResolver")
  /\ config' = IF admin.purge THEN NoFile ELSE config
  /\ Goto(AfterResolver)
  /\ UNCHANGED <<resolver, plist, job, enabled, alias, trouble>>

RemoveResolver ==
  /\ At("rmResolver")
  /\ resolver' = [d \in Domains |->
                    IF Readable /\ config.domain = d THEN NoFile
                    ELSE resolver[d]]
  /\ Goto(AfterResolver)
  /\ UNCHANGED <<config, plist, job, enabled, alias, trouble>>

(***************************************************************************)
(* What is in the directory is the business of the modules that use it.    *)
(***************************************************************************)
RemoveState ==
  /\ At("rmState")
  /\ Goto("rmConfig")
  /\ UNCHANGED <<config, resolver, plist, job, enabled, alias, trouble>>

RemoveConfig ==
  /\ At("rmConfig")
  /\ config' = NoFile
  /\ Goto("uninstalled")
  /\ UNCHANGED <<resolver, plist, job, enabled, alias, trouble>>

-----------------------------------------------------------------------------
(***************************************************************************)
(* Every step may fail, or the command is killed there, and the poll may   *)
(* reach its deadline, also when the address has come up during its last   *)
(* sleep.  os.WriteFile truncates a file before it writes.                 *)
(***************************************************************************)
AdminFails ==
  /\ admin.pc \notin Ready
  /\ admin' = NoCommand
  /\ \/ UNCHANGED <<config, resolver, plist>>
     \/ At("config") /\ config' = Torn /\ UNCHANGED <<resolver, plist>>
     \/ /\ At("resolver") /\ resolver[admin.cfg.domain] # admin.cfg.dnsPort
        /\ resolver' = [resolver EXCEPT ![admin.cfg.domain] = Torn]
        /\ UNCHANGED <<config, plist>>
     \/ /\ At("plist") /\ plist # Desired /\ plist' = Torn
        /\ UNCHANGED <<config, resolver>>
  /\ UNCHANGED <<job, enabled, alias, trouble>>

(***************************************************************************)
(* The address is gone after a reboot, and launchd loads the job anew.     *)
(***************************************************************************)
Reboot ==
  /\ Mishap
  /\ alias' = "down"
  /\ admin' = NoCommand
  /\ job' = IF enabled /\ plist \in Plist THEN plist ELSE NoJob
  /\ UNCHANGED <<config, resolver, plist, enabled>>

AdminStep ==
  \/ WriteConfig \/ WriteResolver \/ EnsureAlias \/ AliasSeen \/ CheckJob
  \/ WritePlist \/ Load \/ RemovePlist \/ RemoveResolver \/ RemoveConfig

-----------------------------------------------------------------------------
(***************************************************************************)
(* Whatever failed before, once `install' reports success everything it    *)
(* writes is in place and the job is loaded, now and after a boot:         *)
(* daemoninstall.go:201-203 calls it idempotent.                           *)
(***************************************************************************)
InstallComplete ==
  At("installed") =>
    /\ config = admin.cfg
    /\ resolver[admin.cfg.domain] = admin.cfg.dnsPort
    /\ plist = Desired
    /\ job # NoJob /\ enabled

(***************************************************************************)
(* The configuration is the only record of where the rest is.  No purge    *)
(* drops it while a job, a plist or the resolver file it names remains,    *)
(* so that an uninstall that failed half way can be repeated.              *)
(***************************************************************************)
NothingOrphaned ==
  [][config # NoFile /\ config' = NoFile
       => /\ job = NoJob /\ plist = NoFile
          /\ Readable => resolver[config.domain] = NoFile]_installVars

=============================================================================
