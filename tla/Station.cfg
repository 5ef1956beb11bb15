SPECIFICATION StationSpec
CONSTANTS
  r1 = r1  w1 = w1  w2 = w2  Nil = Nil
  Lines = {1, 2}
  Readers = {r1}
  Workers = {w1}
  MaxChans = 2
  MaxTracks = 2
  MaxDigits = 1
  PadOffhook = FALSE
  MaxExpired = 1
  DefSelect = Nil
  MayFail = TRUE
  MaxStimuli = 4
INVARIANT StationTypeOK
PROPERTIES ImplementsLines CallSurvivesSwitch
CHECK_DEADLOCK FALSE
