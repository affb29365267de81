\* The instance of SysprintBuffer.cfg, for what sysprint.c says of a full buffer.
\* 248 = 4 * Mod - 8 is 0xFFFFFFF8: read as a payload_len it makes a record of
\* no words.
CONSTANTS
  Threads = {t1, t2}
  ClassIds = {0, 1}
  Lens = {0, 5}
  Values = {1, 248}
  Size = 6
  Mod = 64
  MaxEmits = 3
  MaxDrains = 2
SPECIFICATION Spec
INVARIANT DrainExact
CHECK_DEADLOCK FALSE
