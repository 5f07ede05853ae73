SPECIFICATION Spec
CONSTANTS
  c1 = c1
  oauth = oauth
  caldav = caldav
  t1 = t1
  t2 = t2
  Calendar = {c1}
  Account = {caldav}
  AccountOf <- OneCalDAV
  CalDAV = {caldav}
  Claim = {t1, t2}
  NoClaim = NoClaim
  MaxWakes = 1
  MaxReleases = 1
  MaxGrants = 0
SYMMETRY Symmetry
INVARIANTS
  NoDoubleRead
  NoWakeLost
CHECK_DEADLOCK FALSE
