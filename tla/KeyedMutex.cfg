SPECIFICATION FairSpec
CONSTANTS
  p1 = p1
  p2 = p2
  p3 = p3
  o1 = o1
  o2 = o2
  o3 = o3
  Nil = Nil
  Procs <- ThreeCallers
  Keys <- TwoKeys
  Objs <- ThreeCells
INVARIANTS
  MutualExclusion
  DroppedWhenUnused
PROPERTIES
  EveryCallerServed
  TakesTurns
