SPECIFICATION FairSpec
CONSTANTS
  l1 = l1  l2 = l2  r1 = r1  r2 = r2  Nil = Nil
  Lines = {l1}
  Readers = {r1}
  MaxChans = 3
  MaxTracks = 2
  MaxDigits = 1
  PadOffhook = TRUE
  MaxExpired = 1
INVARIANTS LineTypeOK TimedIsWatched CallCanBeDropped IdsAreFound ActiveListens
PROPERTIES TimedStateIsLeft
