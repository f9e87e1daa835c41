SPECIFICATION Spec
CONSTANTS
  p1 = p1
  p2 = p2
  old = old
  new = new
  Missing = Missing
  Procs <- TwoCalls
  Names <- OneName
  Clients <- Nothing
  Groups <- Nothing
  Fold <- Alone
  Replaced <- Comment
  Kept <- Nothing
  Values <- TwoValues
  Default = old
  MaxLate = 1
SYMMETRY Symmetry
PROPERTIES
  UpdateNeverCreates
