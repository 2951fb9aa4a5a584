CONSTANTS
  c1 = c1
  w1 = w1
  w2 = w2
  cb = cb
  d1 = d1
  p1 = p1
  p2 = p2
  s1 = s1
  t1 = t1
  kA = kA
  kB = kB
  kC = kC
  Wake = Wake
  None = None
  Keys <- MCKeys
  Events <- IngressEvents
  Policy <- IngressPolicy
  Lane <- IngressLane
  Key <- IngressKey
  Callbacks <- IngressCallbacks
  ChannelCap = 1
  SpillCap = 1
  BufferCap = 2
SPECIFICATION Spec
INVARIANTS DeferredIsOwned ReserveIsKept ShutdownLosesNothing WakeIsNeverLost
PROPERTIES ImplementsMailbox ProtectedIsNeverRevoked
CHECK_DEADLOCK FALSE
