CONSTANTS
  Blocks = {b1, b2, b3}
  Threads = {t0, t1}
  Leader = t0
  Resident = 3
  Gens = 2
  Rounds = 3
SPECIFICATION Spec
PROPERTIES
  ARendezvous
  AllThrough
