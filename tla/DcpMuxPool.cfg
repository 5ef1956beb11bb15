SPECIFICATION MuxSpec
CONSTANTS
  SeqMod = 3
  MaxIretr = 1
  MaxKeepalives = 1
  s1 = s1
  s2 = s2
  w1 = w1
  w2 = w2
  Senders = {s1}
  Workers = {w1, w2}
  MaxSend = 2
  MaxExpired = 1
  Cap = 1
  Ups = 1
  Downs = 1
  Restarts = 0
  Keys = 0
  Losses = 0
  Budget <- MCBudget
SYMMETRY WorkerSymmetry
CHECK_DEADLOCK FALSE
PROPERTIES
  InOrderOnce
  ImplementsLink
