SPECIFICATION Spec
CONSTANTS
  a1 = a1  a2 = a2  a3 = a3  r1 = r1  z1 = z1
  c1 = c1  c2 = c2  p1 = p1  p2 = p2  m1 = m1
  None = None
  Apps = {a1, a2}
  Sources = {r1}  GitHub = {r1}  Uploads = {}  Allowlist = {r1}
  SourceOf <- BothR1
  Gated = {}
  Commits = {c1, c2}
  ShortNames = {"c1c1", "c2c2"}
  Abbrev <- Short
  PushIds = {p1, p2}
  PushRepo <- BothPushR1
  ManualIds = {}
  ManualApp <- NoManual
  MaxConcurrentBuilds = 1
  Stuck = {r1}
  CatchUp = TRUE
  MaxHeads = 3
  MaxFaults = 2
  UserApps = {}
  Mortal = {r1}
INVARIANTS NoDoorbellLost 
PROPERTY BuildsInHeadOrder
