CONSTANTS
  c1 = c1
  w1 = w1
  w2 = w2
  cb = cb
  d1 = d1
  p1 = p1
  p2 = p2
  s1 = s1
  t1 = t1
  kA = kA
  kB = kB
  kC = kC
  Wake = Wake
  None = None
  Keys <- MCKeys
  Events <- LiveEvents
  Policy <- LivePolicy
  Lane <- LiveLane
  Key <- LiveKey
  Callbacks <- LiveCallbacks
  ChannelCap = 1
  SpillCap = 2
  BufferCap = 1
SPECIFICATION FairSpec
PROPERTY AcceptedIsReceived CoalescedIsDrained ShutdownEnds
CHECK_DEADLOCK FALSE
