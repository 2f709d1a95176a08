\* Two kernels, two sizes: merged and appended dispatches, over any number of
\* processes of at most four dispatches.
SPECIFICATION Spec
CONSTANTS
  Kernels = {k1, k2}
  Sizes = {s1, s2}
  Grids = {g1, g2}
  Nodes = {n1, n2, n3, n4, n5}
  Garbage = {0, 7}
  MaxDispatches = 4
SYMMETRY NodeSymmetry
INVARIANTS
  TypeOK
  OwnedOnce
  ChainedWithDispatches
  OneDispatchPerSize
  DispatchesOfThisProcess
  FirstCountExact
\* gdb stops when it quits.
CHECK_DEADLOCK FALSE
