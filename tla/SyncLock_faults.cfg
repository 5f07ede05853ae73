SPECIFICATION FaultSpec
CONSTANTS
  b1 = b1  b2 = b2  p1 = p1  m1 = m1  dest = dest  mut = mut
  NoKey = NoKey
  NoRequest = NoRequest
  Key <- FaultKey
  Request <- FaultRequest
  KeyOf <- FaultKeyOf
  Blocker <- FaultBlocker
  Preempting <- FaultPreempting
  MayStall = {b1}
  MayCrash = {b1}
INVARIANTS TypeOK MutualExclusion NoWaiterForgotten SkippedIsCovered PreemptorVisible
PROPERTY AcquireReturns
CHECK_DEADLOCK FALSE
