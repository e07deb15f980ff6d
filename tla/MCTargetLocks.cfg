CONSTANTS
  Requests = {r1, r2, r3}
  Targets <- MCTargets
  None = None
SPECIFICATION LockSpec
SYMMETRY Symmetry
INVARIANTS RegistrySound
PROPERTY ImplementsWriteLocks
