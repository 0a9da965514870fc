CONSTANTS
  Len = 24
  Attempts = 2
  WordBytes = 8
  FreeDivisor = 4
  SizeModulus = 1024
  IntModulus = 64
  Requests = {0, 1, 33}
  Payload = {5}
SPECIFICATION HeaderSpec
INVARIANTS BlocksTileTheHeap FreeListIsExact NeighboursAreMerged TakenIsLive NoFalsePanic HonestOutOfMemory
PROPERTIES Untouched ImplementsAllocator
