\* Two threads and a host on a six-word buffer: a record of four words and
\* one of two fit, two of four words do not.
\* 248 = 4 * Mod - 8 is 0xFFFFFFF8: read as a payload_len it makes a record of
\* no words.
\* Two class slots for two good names, two sink slots, one record, one reset.
CONSTANTS
  Threads = {t1, t2}
  ClassIds = {0, 1}
  Lens = {0, 5}
  Values = {1, 248}
  Size = 6
  Mod = 64
  MaxEmits = 3
  MaxDrains = 2
  Names <- MCNames
  Patterns <- MCPatterns
  Sinks = {s1}
  NameMax = 3
  MaxClasses = 2
  MaxSinks = 2
  MaxPending = 1
  MaxResets = 1
SPECIFICATION SSpec
INVARIANTS TypeOK AcceptedIntact DrainComplete DeliveredUnderItsName
PROPERTIES DrainTerminates RoutingIsStable
CHECK_DEADLOCK FALSE
