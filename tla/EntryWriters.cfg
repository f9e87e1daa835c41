SPECIFICATION Spec
CONSTANTS
  p1 = p1
  p2 = p2
  old = old
  new = new
  Missing = Missing
  Procs <- TwoCalls
  Names <- AllNames
  Clients <- ClientNames
  Groups <- GroupNames
  Fold <- Cases
  Replaced <- Comment
  Kept <- GroupsOf
  Values <- TwoValues
  Default = old
  MaxLate = 1
SYMMETRY Symmetry
CONSTRAINT OneCollection
INVARIANTS
  LocksReturned
PROPERTIES
  UpdatesCompose
