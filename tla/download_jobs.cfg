\* Two files, one of a known size and one without, two jobs in two processes.
SPECIFICATION FairSpec
CONSTANTS
  File = {sized, unsized}
  Unsized = {unsized}
  Jobs = 2
  MaxFaults = 1
  sized = sized
  unsized = unsized
INVARIANTS
    DownloadSound
    CompletedMeansFetched
PROPERTIES
    CompletedStays
    JobsEnd
CHECK_DEADLOCK FALSE
