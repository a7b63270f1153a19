\* Two producers and two consumers on a ring of two: wrap-around, a full and an
\* empty ring, and contention on each of the three semaphores.
SPECIFICATION Spec
CONSTANTS
  Producers = {p1, p2}
  Consumers = {c1, c2}
  Values = {a, b}
  NULL = NULL
  Max = 2
INVARIANTS
  TypeOK
  MutualExclusion
  SlotsAccounted
  AdmittedSucceeds
  RingShape
PROPERTY ImplementsFifo
