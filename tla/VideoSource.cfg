\* Three sinks come and go while four frames are captured.
CONSTANTS
  Sinks = {encoder, preview, recorder}
  MaxCount = 3
SPECIFICATION FairSpec
INVARIANTS TypeOK NoFrameAfterRemoveSink LoopMeetsLiveMembers
PROPERTY DestructorReturns
\* The source may stay unused or be destroyed for good.
CHECK_DEADLOCK FALSE
