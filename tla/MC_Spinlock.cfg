SPECIFICATION Spec
INVARIANTS MutualExclusion NoOrphanedLock
PROPERTY SomeoneGetsIn
