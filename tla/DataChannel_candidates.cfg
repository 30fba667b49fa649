SPECIFICATION Spec
CONSTANTS
  A = A
  B = B
  NoClient = NoClient
  Candidates = {host, srflx}
  Words = {"hi", "exit"}
INVARIANT RemoteCandidatesAreForeign
CHECK_DEADLOCK FALSE
