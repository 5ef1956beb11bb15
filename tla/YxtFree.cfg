SPECIFICATION Spec
CONSTANTS
  c1 = c1  c2 = c2  c3 = c3  e1 = e1  e2 = e2  Nil = Nil
  Calls = {c1}
  Casts = {}
  Events = {}
  Readers = {r1, r2}
  Lines <- MCLines
  LineOf <- MCLinesOf
  HookCall <- MCHook
  Number <- MCNumber
  TabSize = 4
  MayFail = FALSE
INVARIANTS FreedOnce
