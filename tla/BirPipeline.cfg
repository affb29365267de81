CONSTANTS
  M2R_MAX_PROMOTE = 3
  M2R_MAX_PREDS = 4
  M2R_MAX_DF = 4
  M2R_MAX_CHANGES = 16
  StructFields = 2
  Bits <- TestBits
  Fuel = 60
  Jobs <- TestJobs
  Inputs <- TestInputs
SPECIFICATION Spec
INVARIANTS SameBehaviour DominatorsExact SsaForm LinesFollow StillVerifies CallsGone
