CONSTANTS
  k1 = k1
  k2 = k2
  k3 = k3
  k4 = k4
  p1 = p1
  p2 = p2
  Wild = Wild
  KernelItems = {k1, k2, k3, k4}
  ProcessItems = {p1, p2}
  Capacity = 3
SPECIFICATION Spec
SYMMETRY MCSymmetry
INVARIANT DumpOnce
CHECK_DEADLOCK FALSE
