\* An install with another domain over a running daemon; no mishaps.
SPECIFICATION Spec
CONSTANTS
  d1 = d1
  d2 = d2
  dir1 = dir1
  Setting <- TwoDomains
  Exe = {e1}
  NoFile = NoFile
  Torn = Torn
  NoJob = NoJob
  MaxTrouble = 0
  Launchd = Launchd
  Foreground = Foreground
  Other = Other
  Nobody = Nobody
  Stale = Stale
  Domain <- MCDomain
  MaxLabel = 4
  MaxInput = 0
INVARIANT
  InstallAgrees
