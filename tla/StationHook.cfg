SPECIFICATION StationSpec
CONSTANTS
  r1 = r1  w1 = w1  w2 = w2  Nil = Nil
  Lines = {1}
  Readers = {r1}
  Workers = {w1}
  MaxChans = 3
  MaxTracks = 2
  MaxDigits = 1
  PadOffhook = FALSE
  MaxExpired = 1
  DefSelect = Nil
  MayFail = FALSE
  MaxStimuli = 8
PROPERTIES AnswersOffhook
CHECK_DEADLOCK FALSE
