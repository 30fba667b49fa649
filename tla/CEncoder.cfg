\* The owner and two more threads; the bitrates of the test programs, in kbit/s.
CONSTANTS
  Owner = owner
  Controllers = {rtcp, capture}
  Nobody = Nobody
  Bitrates = {100, 200}
  FrameRates = {0, 15}
  DefaultFrameRate = 30
SPECIFICATION FairSpec
INVARIANTS TypeOK OneEncoder UsableFromInitToDestroy UsesLiveEncoder
PROPERTIES OneSettingAtATime MutexReleased
\* After destroy, or a fault, nothing happens any more.
CHECK_DEADLOCK FALSE
