SPECIFICATION RunSpec
CONSTANTS
  Clips <- MCClips
  Ranges <- MCRanges
  Caps <- MCCaps
  Delays <- MCDelays
  PerPass = 2
  Speeds <- MCSpeeds
  Buffer = 5
  SoundDelay = 1
  SeqLen = 10
  SeekLen = 4
  OverlapLen = 2
INVARIANTS ShownInOrder CompletedShowedAll SoundFitsPictures
PROPERTIES RunEnds
