CONSTANTS
  w1 = w1
  w2 = w2
  Process = {w1, w2}
  Dashboard = {w1}
  Pool = 9
  Env = 0
  MaxEvents = 2
SPECIFICATION FairSpec
INVARIANTS TypeOK SavedCredentialIsCurrent
PROPERTIES NoReplay DenialOutlivesOlderGrants LicenseIsShown
CHECK_DEADLOCK FALSE
