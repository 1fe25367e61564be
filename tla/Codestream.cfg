SPECIFICATION Spec
CONSTANTS
  Jobs <- MCJobs
  MAX_EOBRUN = 3
  MAX_CORR_BITS = 70
INVARIANTS
  RoundTrip
  NothingAmiss
  DamageIsLocal
  CorrectionBitsHaveRoom
