SPECIFICATION FairMux
CONSTANTS
  SeqMod = 2
  MaxIretr = 1
  MaxKeepalives = 1
  s1 = s1
  s2 = s2
  w1 = w1
  w2 = w2
  Senders = {s1}
  Workers = {w1}
  MaxSend = 1
  MaxExpired = 1
  Cap = 1
  Ups = 1
  Downs = 0
  Restarts = 1
  Keys = 1
  Losses = 1
  Budget <- MCBudget
CHECK_DEADLOCK FALSE
INVARIANTS
  MuxTypeOK
  AckedIsDelivered
  UpIsWatched
PROPERTIES
  NoMissedWakeup
  DeadPhoneIsNoticed
  AcceptedIsSettled
