SPECIFICATION PartsSpec
CONSTANTS
  b1 = b1  b2 = b2  p1 = p1  m1 = m1  dest = dest  mut = mut
  NoKey = NoKey
  NoRequest = NoRequest
  Key <- MCKey
  Request <- MCRequest
  KeyOf <- MCKeyOf
  Blocker <- MCBlocker
  Preempting <- MCPreempting
  MayStall = {}
  MayCrash = {}
  Destinations = {1, 2}
  ApiCalls = {"call"}
  Drains = {"drain"}
  MaxStalled = 1
  MaxEvents = 2
  Targets = {"d1", "d2"}
  JobIds = {"j1", "j2"}
  MaxTotal = 1
  MaxJobs = 2
  Attempts = {"a1", "a2"}
  MappedSources = {"s1"}
  MaxCount = 2
  MaxTrouble = 2
  MapSources = {1, 2}
  MapTargets = {1, 2}
  Changes <- MCChanges
  Mutations = {"m1", "m2"}
  MappingLimit = 2
  InitialMaps <- MCMaps
  MaxLeases = 1
INVARIANTS
  EgressTypeOK LimitHeld NoChangeForgotten
PROPERTIES
  LockServes
  PromiseKept RequestsDrained
  HoldIsSound
  BackoffClimbs
  PushesWhatIsMapped WritingSettles
CHECK_DEADLOCK FALSE
