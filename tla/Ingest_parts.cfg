SPECIFICATION PartsSpec
CONSTANTS
  Events = {"e1", "e2"}
  Contents <- MCContents
  OverBudget = {"dense"}
  Ranges = {1, 2}
  Ingests = {"i1", "i2"}
  Absent = Absent
  Invalid = Invalid
  MaxChanges = 2
  Calendars = {"g", "o"}
  Accounts = {"a", "b"}
  AccountOf <- MCAccountOf
  GoogleCalendars = {"g"}
  Sweeps = {"cron"}
  Rows = {1, 2, 3}
  MaxDeregister = 2
  MaxMishaps = 2
  Callers = {"h", "m", "e", "x"}
  Weight <- MCWeight
  Budget = 8
  ExpressWeight = 3
  Headroom = 2
  MaxOvertakes = 2
  WriterSlots = 1
  Clients = {"c1", "c2", "c3", "c4"}
  Processes = {"p1", "p2", "p3"}
  ProcessOf <- MCProcessOf
  MaxExpiries = 1
  MaxLapses = 1
  Requests = {"r1", "r2", "r3", "r4"}
  Hosts = {"h1", "h2"}
  HostOf <- MCHostOf
  SlotKeys = {"s1"}
  GateWidth = 1
  MaxOrphans = 1
  Takers = {"big", "s1", "s2", "user"}
  Need <- MCNeed
  LimitOf <- MCLimitOf
  Interactive = {"user"}
  MaxPassed = 1
  MaxStops = 2
INVARIANTS
  IngestTypeOK StoredIsSound FlushBooksBalance RefreshIsSafe PermitsHold
PROPERTIES
  PersistsForward IngestConverges
  ChannelsAreSafe ChannelsSettle
  WaitersServed
  RefreshSettles
  WindowIsFair
CHECK_DEADLOCK FALSE
