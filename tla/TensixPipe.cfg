\* Rings of two slots, as TT_CB_DEPTH, and three tiles, so that slots are used again.
SPECIFICATION FairSpec
CONSTANTS
    Depth = 2
    NTiles = 3
    Mod = 6
    MaxSigs = 1
    MaxOver = 1
INVARIANTS CreditsConserved OnlyArrivedTiles OnlyDrainedSlots
PROPERTIES PipelineDrains ImplementsPipe
CHECK_DEADLOCK FALSE
