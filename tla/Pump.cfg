SPECIFICATION FairSpec
CONSTANTS
  Platforms <- OboeAndWasapi
  CaptureCap = 4
  PlaybackCap = 6
  JitterCap = 2
  Slots = 2
  Conceal = 2
  Timeout = 2
  Destroy = 3
INVARIANTS
  VoiceIsPlayed
  SteadyVolume
PROPERTIES
  TransmissionCatchesUp
  SilentStreamsEnd
