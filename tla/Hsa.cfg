\* Two devices and one kernel slot; an allocator that reuses addresses and
\* leaves gaps between them; a tracking table of two entries, so that it
\* overflows; two contexts.  A ring of two slots and five dispatches: every
\* slot is used again twice.
CONSTANTS
  Devs = {d1, d2}
  Slots = {k1}
  KernNames = {saxpy}
  Blobs = {b1, b2}
  NoDev = NoDev
  NoCtx = NoCtx
  NoName = NoName
  NoBlob = NoBlob
  Bases = {2, 6}
  AllocSize = 1
  MaxAlloc = 2
  MaxInits = 2
  QSize = 2
  MaxDispatch = 5
\* No state of the ring, which alone has liveness, holds a device or a blob.
SYMMETRY Alike
SPECIFICATION HSpec
INVARIANTS NoDanglingContext OnlyOrphansLeak DumpTellsTruth RunsOnlyWhatIsReady SynchronousAndClean
PROPERTY DispatchReturns
CHECK_DEADLOCK FALSE
