SPECIFICATION FairSpec
CONSTANTS
  c1 = c1  c2 = c2  c3 = c3  e1 = e1  e2 = e2  Nil = Nil
  Calls = {c1, c2, c3}
  Casts = {}
  Events = {e1}
  Readers = {r1, r2}
  Lines <- MCLines
  LineOf <- MCLinesOf
  HookCall <- MCHook
  Number <- MCNumber
  TabSize = 4
  MayFail = TRUE
INVARIANTS YxtTypeOK WorkIsCounted ExpectedIsFound FreedIsForgotten
PROPERTIES ReturnsItsAnswer DispatchReturns EventIsAnswered
