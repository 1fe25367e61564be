SPECIFICATION FairSpec
CONSTANTS
  Urls = {home, other}
  DefaultUrl = home
  Blank = Blank
  Unset = Unset
  NullUrl = NullUrl
  Sizes = {small, large}
  DefaultSize = small
  NoSize = NoSize
  MaxOutbox = 2
  CameraFaults = {TRUE, FALSE}
INVARIANTS
  TimerDiscipline
  ReleasedCameraNeverArms
  UploadsHaveDestination
PROPERTIES
  TimerNeverCrashes
  TimerLostOnlyOffline
  KeepsShooting
  BecomesReady
