\* Two threads, four increments each: enough for a thread to lose the race for
\* the lock, win it, and lose it again.
CONSTANT N = 4
SPECIFICATION Spec
INVARIANTS
  MutualExclusion
  NoLostUpdate
PROPERTIES
  CounterSpec
