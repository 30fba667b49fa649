\* Both programs; the capture loop ends after three frames instead of 101.
CONSTANTS
  A = sender
  B = receiver
  NoClient = NoClient
  Candidates = {host, srflx}
  Samples = {"audio", "video"}
  MaxCount = 2
SPECIFICATION FairSpec
INVARIANTS
  TypeOK
  NoFrameToDeadReceiver
  ClosedSenderIsQuiet
  NoNullPointer
  SinkBeforeMedia
PROPERTIES
  ExitCompletes
  ReceiverReady
\* Once main() has returned, or a fault has ended the process, nothing happens.
CHECK_DEADLOCK FALSE
