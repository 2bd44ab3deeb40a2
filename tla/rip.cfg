SPECIFICATION Spec
CONSTANTS
  Targets <- RipTargets
  Distances <- MCDistances
  Rel32Reach = 40000
  Threads = {t1}
  Builds <- AllBuilds
  Quiet = TRUE
INVARIANT NoRipOperandMoved
