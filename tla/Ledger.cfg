SPECIFICATION Spec
CONSTANTS
  b1 = b1 
  b2 = b2
  b3 = b3
  o1 = o1
  o2 = o2
  o3 = o3
  s1 = s1
  s2 = s2
  Key = {1, 2}
  FeeKey = 1
  Val = {v}
  Absent = Absent
  Unset = Unset
  NoView = NoView
  NoFees = NoFees
  Seqs = {1}
  Slot = {s1, s2}
  BaseId = {b1, b2}
  OvlId = {o1, o2, o3}
INVARIANT UnfrozenIsPrivate
INVARIANT SuccIsNext
PROPERTY ImplementsLedger
SYMMETRY HeapSymmetry
VIEW Reachable
CHECK_DEADLOCK FALSE
