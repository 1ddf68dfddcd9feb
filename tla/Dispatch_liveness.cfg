SPECIFICATION FairSpec
CONSTANTS
  a1 = a1  a2 = a2  a3 = a3  r1 = r1  z1 = z1
  c1 = c1  c2 = c2  p1 = p1  p2 = p2  m1 = m1
  None = None
  Apps = {a1, a2, a3}
  Sources = {r1, z1}  GitHub = {r1}  Uploads = {z1}  Allowlist = {r1}
  SourceOf <- MonorepoAndUpload
  Gated = {a2}
  Commits = {c1, c2}
  ShortNames = {"c1c1", "c2c2"}
  Abbrev <- Short
  PushIds = {p1}
  PushRepo <- OnePush
  ManualIds = {m1}
  ManualApp <- ManualA3
  MaxConcurrentBuilds = 1
  Stuck = {}
  CatchUp = FALSE
  MaxHeads = 2
  MaxFaults = 1
  UserApps = {a3}
  Mortal = {}
PROPERTY EveryRowServed
