CONSTANTS
  Len = 20
  Attempts = 2
  WordBytes = 8
  FreeDivisor = 4
  SizeModulus = 1024
  IntModulus = 64
  Requests = {1, 17}
  Payload = {5}
  Core = {c1, c2}
  NoCore = NoCore
  MaxMallocs = 2
SPECIFICATION SmpSpec
INVARIANT OneCorePerBlock
