\* One output is enough to be left behind.
SPECIFICATION ASpec
CONSTANTS
  Outputs = {video_360p}
INVARIANTS
  StaleLeavesNothing
