SPECIFICATION Spec
CONSTANTS
  g = g
  d = d
  h = h
  a = a
  b = b
  x = x
  y = y
  old = old
  new = new
  Missing = Missing
  Items <- SomeItems
  Values <- TwoValues
  Askable <- Asked
  MaxEdits = 1
CONSTRAINT InScope
INVARIANTS
  InSyncTruthful
  ReadsHold
  ServedOrSaid
PROPERTIES
  OnlyConfirmed
  NeverEmptied
  AliasesStay
