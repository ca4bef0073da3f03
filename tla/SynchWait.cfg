CONSTANTS
  Sleepers = {app}
  Wakers = {rx, closer}
  Nobody = Nobody
  Spurious = FALSE
SPECIFICATION WaitSpec
INVARIANTS WaitTypeOK NoLostWakeup
PROPERTIES JustifiedReturn Released
