CONSTANTS
  Req = {r1, r2}
  u = u
  User = {u}
  Owner <- OneOwner
  Providers = {1, 2}
  MaxReports = 2
  MaxEvents = 1
  MaxErrors = 1
SPECIFICATION FairSpec
CHECK_DEADLOCK FALSE
INVARIANTS SentOnce UnservedIsNotMetered ServedIsMetered
PROPERTIES FinishedRowsAreFinal PendingRowsGo
