SPECIFICATION ServerSpec
CONSTANTS
  t1 = t1
  t2 = t2
  ca = ca
  cb = cb
  NoThread = NoThread
  NoRow = NoRow
  Threads <- MCThreads
  Channels <- MCChannels
  Msgs <- MCMsgs
  ThreadOf <- MCThreadOf
  ChanOf <- MCChanOf
  General = ca
  MaxCall = 4
  Scenes <- MCScenes
INVARIANTS  BadgeMatches
PROPERTIES SessionsHeal
CHECK_DEADLOCK FALSE
