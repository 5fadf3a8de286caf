\* One operator on one page: deployments, crashes, midnights.
CONSTANTS
  Services = {s1}
  Builds = {b1, b2}
  SizeOf <- SameSize
  NumDays = 2
  VerifyJarChecksum = TRUE
  KeepTempFiles = FALSE
  Overwrites = {FALSE}
  MaxDeployments = 2
  MaxRestarts = 0
  MaxKills = 0
  MaxDownloads = 0
  MaxCrashes = 1
  None = None
  Broken = Broken
SPECIFICATION Spec
INVARIANTS
  TypeOK
  LastGoodRecoverable
  StageTableSettled
  RecordMatchesState
PROPERTIES
  DeploymentEnds
