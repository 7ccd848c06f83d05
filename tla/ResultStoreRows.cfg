SPECIFICATION Spec
CONSTANTS
  Evals <- MCEvals
  Readers = {r1, r2}
  None = None
  Verdict <- MCVerdict
INVARIANTS TypeOK RowsBelongToHeader
CHECK_DEADLOCK FALSE
