\* Three candidates a side: one early, one late, one to connect with.
CONSTANTS
  A = A
  B = B
  NoClient = NoClient
  Candidates = {host, srflx, relay}
  Words = {"hi", "exit"}
SPECIFICATION FairSpec
INVARIANTS
  TypeOK
  DescriptionsMirror
  CandidatesReachPeer
  NoHandlerAsserts
  DeadPeerOnlyAfterEarlyExit
PROPERTIES
  GreetsAtMostOnce
  GreetingsShown
\* Once main() has returned, or a fault has ended the process, nothing happens.
CHECK_DEADLOCK FALSE
