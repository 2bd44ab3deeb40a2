SPECIFICATION Spec
CONSTANTS
  Targets <- SoundTargets
  Distances <- MCDistances
  Rel32Reach = 40000
  Threads = {t1}
  Builds <- AllBuilds
  Quiet = TRUE
INVARIANTS
  TypeOK HookInv MovedInv FlagsInv ThreadInv LeftClean HookedWhole NoneLost NearBranchesFollow WholeInstructions
  TornOnlyWhileWritten
PROPERTIES CallsReturn HookCallsReturn IsRedirection
