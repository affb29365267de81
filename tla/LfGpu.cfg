\* Either file; two kernels of two arguments on a device with room for three
\* buffers; scalars of one word and of two.
CONSTANTS
  Arrays = {x, y}
  Scalars <- BothWidths
  MaxKern = 2
  MaxArgs = 2
  DevMem = 3
SYMMETRY Alike
SPECIFICATION Spec
INVARIANTS BuffersLive MemoryAccounted NoSilentJunk KernelSeesArgs
CHECK_DEADLOCK FALSE
