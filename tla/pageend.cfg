SPECIFICATION Spec
CONSTANTS
  Targets <- PageEndTargets
  Distances <- MCDistances
  Rel32Reach = 40000
  Threads = {t1}
  Builds <- AllBuilds
  Quiet = TRUE
INVARIANT StoresAllowed
