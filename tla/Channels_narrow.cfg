SPECIFICATION NarrowSweepSpec
CONSTANTS
  Calendars = {"g", "o"}
  Accounts = {"a", "b"}
  AccountOf <- MCAccountOf
  GoogleCalendars = {"g"}
  Sweeps = {"cron"}
  Rows = {1, 2, 3}
  MaxDeregister = 2
  MaxMishaps = 2
PROPERTIES NarrowSweepSparesOthers
CHECK_DEADLOCK FALSE
