SPECIFICATION FairSpec
CONSTANTS
  ana = ana
  bia = bia
  e1 = e1
  e2 = e2
  d1 = d1
  d2 = d2
  People = {ana, bia}
  Emails = {e1, e2}
  Documents = {d1, d2}
  Forms <- FewForms
  Threads = {t1, t2}
  MaxFaults = 2
  Nobody = Nobody
INVARIANTS TypeOK NoLateConflict OrphansAreReported
PROPERTIES KeepsPromise RetrySucceeds
