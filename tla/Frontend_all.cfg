SPECIFICATION FairSpec
CONSTANTS
  ERR = ERR
  NoPassword = NoPassword
  Active = Active
  ann = ann
  bob = bob
  cat = cat
  pw1 = pw1
  pw2 = pw2
  pw3 = pw3
  t1 = t1
  t2 = t2
  N = 2
  Process = {0, 1}
  Client = {t1, t2}
  Thread = {t1, t2}
  User = {ann, bob, cat}
  Password = {pw1, pw2, pw3}
  Registered <- MCRegistered
  Menu <- MCMenu
  MaxFaults = 1
  MaxRequests = 3
  Watched = {t1}
INVARIANTS
  NoFalse503
  SentToLive
  AccountKept
  CookieResolves
  LogoutEnds
PROPERTIES
  
  RequestsFinish
CHECK_DEADLOCK FALSE
