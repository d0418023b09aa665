SPECIFICATION FairSpec
CONSTANTS
  CPUs = {c1, c2, c3, c4}
  NoCpu = NoCpu
INVARIANTS MutualExclusion OwnerIsRight
PROPERTIES ImplementsKernelLock SomeoneGetsIn
