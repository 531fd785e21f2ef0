SPECIFICATION Spec
CONSTANTS
  Producers = {p1, p2}
  Consumers = {c1, c2}
  Observers = {o}
  Strategies = {"Single", "Spsc", "Mpsc", "Spmc", "Mpmc"}
  Capacity = 2
  MaxBatch = 2
  Values = {x, y}
  TsMod = 4
  Nobody = Nobody
INVARIANTS ReservedSlotsAreDisjoint
PROPERTIES ImplementsQueue
