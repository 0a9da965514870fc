CONSTANTS
  Channel = {tags, other}
  Tags = tags
  Depth = 2
  MaxForeign = 3
  VCBase <- VCBases
  GetVCMemory = GetVCMemory
  Answered = Answered
  Refused = Refused
  Entries = 16
  BlockSize = 2
  DeviceBlocks = 2
SPECIFICATION Spec
INVARIANTS FrameOutlivesRequest ResultIsTheAnswer MapsOneToOne SharedMemoryIsNotCached RamIsCachedOnAnswer WalksAreReady
PROPERTY MmuComesOn
