\* Installs, uninstalls, reboots and two daemon processes on one configuration.
SPECIFICATION FairSpec
CONSTANTS
  d1 = d1
  d2 = d2
  dir1 = dir1
  Setting <- OneSetting
  Exe = {e1, e2}
  NoFile = NoFile
  Torn = Torn
  NoJob = NoJob
  MaxTrouble = 2
  Launchd = Launchd
  Foreground = Foreground
  Other = Other
  Nobody = Nobody
  Stale = Stale
  Domain <- MCDomain
  MaxLabel = 4
  MaxInput = 6
INVARIANTS
  HostTypeOK
  InstallComplete
  ServesHosts
  AnswersZoneOnly
PROPERTIES
  NothingOrphaned
  SocketKept
  ComesUp
  StartsEnd
