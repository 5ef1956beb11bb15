SPECIFICATION FairMux
CONSTANTS
  SeqMod = 3
  MaxIretr = 1
  MaxKeepalives = 1
  s1 = s1
  s2 = s2
  w1 = w1
  w2 = w2
  Senders = {s1}
  Workers = {w1}
  MaxSend = 1
  MaxExpired = 1
  Cap = 1
  Ups = 1
  Downs = 0
  Restarts = 0
  Keys = 0
  Losses = 1
  Budget <- MCBudget
CHECK_DEADLOCK FALSE
PROPERTY
  BringUpIsRepeated
