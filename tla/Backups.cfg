SPECIFICATION Spec
CONSTANTS
  c1 = c1
  c2 = c2
  t1 = t1
  t2 = t2
  elsewhere = elsewhere
  kept = kept
  Calls = {c1, c2}
  Paths = {t1, t2, elsewhere, kept}
  Temp = {t1, t2}
  Dir = {kept}
  Generated = {t1, t2, elsewhere, kept}
  MaxFiles = 3
  MaxConfig = 1
  MaxDay = 2
  Toml = "pihole.toml"
  Leases = "dhcp.leases"
  Databases = {"gravity.db", "moved.db"}
  Usual = "gravity.db"
  Others = {"hosts"}
  Unset = "unset"
  Unread = "unread"
  Archives <- ShortArchives
  GravityAt <- TwoPlaces
SYMMETRY Symmetry
VIEW View
CONSTRAINT InScope
INVARIANTS
  NoPartialLeft
  SavedLasts
  RollbackFirst
  PlanTruthful
PROPERTIES
  NeverReplaced
  SourceKept
