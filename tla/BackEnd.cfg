CONSTANTS
  Bits <- TestBits
  Fuel = 100
  RvImm = 192
  RvReach = 256
  Jobs <- TestJobs
  Inputs <- TestInputs
SPECIFICATION Spec
INVARIANTS SameResult
