\* The daemon's own use: one producer, one consumer, a ring of three.
SPECIFICATION FairSpec
CONSTANTS
  Producers = {p1}
  Consumers = {c1}
  Values = {a, b}
  NULL = NULL
  Max = 3
PROPERTY CallsReturn
