SPECIFICATION FairSpec
CONSTANTS
  c1 = c1
  oauth = oauth
  caldav = caldav
  t1 = t1
  t2 = t2
  Calendar = {c1}
  Account = {oauth}
  AccountOf <- OneOAuth
  CalDAV = {}
  Claim = {t1}
  NoClaim = NoClaim
  MaxWakes = 1
  MaxReleases = 3
  MaxGrants = 1
INVARIANTS
  TypeOK
  EnabledIsScheduled
PROPERTIES
  EnabledIsClaimed
  ParkedStaysParked
CHECK_DEADLOCK FALSE
