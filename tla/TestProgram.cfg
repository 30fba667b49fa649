\* test_h264_5s_nv12.yuv: five seconds at 25 pictures a second.
CONSTANTS
  Entries = {"test0", "test1", "test2"}
  FileLengths = {0, 5, 125}
  AdjustEvery = 20
  OutputDelay = 3
SPECIFICATION Spec
INVARIANTS
  TypeOK
  OutputIsInput
  CompletedTestLeavesNothing
  RateFollowsPictures
\* The program ends after test_nvenc.
CHECK_DEADLOCK FALSE
