SPECIFICATION FairSpec
CONSTANTS
  c1 = c1  c2 = c2  r1 = r1  r2 = r2  n1 = n1  n2 = n2  Nil = Nil
  Callers = {c1, c2}
  Readers = {r1, r2}
  Names = {n1}
  MaxOps = 3
  MayFail = TRUE
INVARIANTS SpecOpTypeOK ResultIsItsOwn HandlersAgree
PROPERTIES OperationReturns
CHECK_DEADLOCK FALSE
