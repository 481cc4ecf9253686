SPECIFICATION FairSpec
CONSTANTS
  k1 = k1
  k2 = k2
  k3 = k3
  Keys <- MCKeys
  Interval <- MCInterval
  Workers = {w1, w2}
  Bounds <- MCBounds
  Reverses = {"refund", "partial_refund"}
  None = None
INVARIANTS
  PremiumWasCharged
  AbandonedNeedsFault
PROPERTIES
  SubscriptionNeverRewinds
  ImplementsPaymentIntent
  PaidIsRecorded
CHECK_DEADLOCK FALSE
