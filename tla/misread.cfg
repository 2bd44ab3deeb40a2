SPECIFICATION Spec
CONSTANTS
  Targets <- MisreadTargets
  Distances <- MCDistances
  Rel32Reach = 40000
  Threads = {t1}
  Builds <- AllBuilds
  Quiet = TRUE
INVARIANT WholeInstructions
