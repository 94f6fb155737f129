SPECIFICATION Spec
CONSTANTS
  Environments <- AllEnvironments
  MaxPermits = 20
INVARIANT
  ServesAsLaunched
PROPERTY
  OpenPortIsServed
