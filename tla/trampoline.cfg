SPECIFICATION Spec
CONSTANTS
  Targets <- ClientTargets
  Distances <- ClientDistances
  Rel32Reach = 40000
  Threads = {t1}
INVARIANTS ClientTypeOK HookInv MovedInv ThreadsInv PointerLives Settled
PROPERTY BehavesLikeOriginal
