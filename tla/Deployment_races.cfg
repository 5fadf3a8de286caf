\* Two pages: restart_after_kill, kill_process and a manual download run beside
\* two deployments; backups may be overwritten.
CONSTANTS
  Services = {s1}
  Builds = {b1, b2}
  SizeOf <- SameSize
  NumDays = 1
  VerifyJarChecksum = FALSE
  KeepTempFiles = FALSE
  Overwrites = {FALSE, TRUE}
  MaxDeployments = 2
  MaxRestarts = 1
  MaxKills = 1
  MaxDownloads = 1
  MaxCrashes = 0
  None = None
  Broken = Broken
SYMMETRY BuildSymmetry
SPECIFICATION Spec
INVARIANTS
  RollbackReady
PROPERTIES
  KeepsRollout
  RecordedSuccessIsInstalled
