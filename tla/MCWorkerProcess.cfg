\* Three outputs, in both modes; the download, FFmpeg and the uploads may hang.
SPECIFICATION WFairSpec
CONSTANTS
  Outputs = {video_360p, video_720p, thumbnail}
INVARIANTS
  NothingOutlives
  CompletedIsWhole
  ClosedLast
  BeatsWhileDraining
  CleanDrainSettles
PROPERTIES
  StaleStops
  FirstErrorStops
  StopEnds
