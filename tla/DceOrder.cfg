CONSTANTS
    M2R_MAX_PROMOTE = 64
    M2R_MAX_PREDS = 16
    M2R_MAX_DF = 64
    M2R_MAX_CHANGES = 200
    StructFields = 2
    Bits <- TestBits
    Fuel = 400
    MAX_CDEP = 4
    MAX_LOOPS = 4
    MAX_CASES = 4
    PP_MAX_MACROS = 12
    PP_MAX_PARAMS = 3
    PP_MAX_ARGS = 4
    PP_MAX_COND_DEPTH = 3
    PP_MAX_FILE_DEPTH = 3
    PP_MAX_EXPAND_DEPTH = 6
    PP_MAX_JOIN = 3
    PP_OUT_MAX = 500
    Jobs <- IdleJobs
    Inputs <- TestInputs
SPECIFICATION FSpec
INVARIANT
    WriteBehindRead
