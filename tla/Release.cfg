\* The page's two deploy buttons; d has no code.
CONSTANTS
  a = a
  b = b
  c = c
  d = d
  r1 = r1
  r2 = r2
  Bundles <- Zips
  Published = {a, b, c}
  Name <- Versions
  Requests = {r1, r2}
  FetchWhileDeploying = FALSE
  MaxFetches = 2
  MaxVerifies = 2
  MaxDeploys = 3
  None = None
CHECK_DEADLOCK FALSE
SPECIFICATION Spec
INVARIANTS
  TypeOK
  InstalledIsVerified
  InstalledIsRequested
