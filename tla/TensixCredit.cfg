\* The instance of TensixPipe.cfg, for what emit.c says of the compute core.
SPECIFICATION Spec
CONSTANTS
    Depth = 2
    NTiles = 3
    Mod = 6
    MaxSigs = 1
    MaxOver = 1
INVARIANT ComputesOnlyArrived
CHECK_DEADLOCK FALSE
