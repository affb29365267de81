\* Three commands in one temporary directory, two of them at a time; one
\* process that compiles up to three times; a launch of up to two arguments.
SPECIFICATION Spec
CONSTANTS
  Procs = {p1, p2, p3}
  Dirs <- DirSet
  DirOf <- OneDir
  Exts = {"o"}
  MaxAtOnce = 2
  BeList <- List
  Uncalled <- NoCallSet
  Bytes <- BytesSet
  Flags <- FlagSet
  Jobs <- JobSet
  Paths = {f1, f2}
  MaxSlots = 2
  IntRegs = 2
  FltRegs = 1
INVARIANTS OwnCode WroteWhatWasAsked EmittedWhole KernelSeesFiles ZeroMeansWritten NothingHeld
PROPERTY LaunchReturns
