CONSTANTS
  critical = critical
  printf = printf
  Core = {c1, c2, c3}
  NoCore = NoCore
  Lock = {critical, printf}
  NoLock = NoLock
  Nesting <- MCNesting
  Focus = printf
SPECIFICATION HardwareSpec
PROPERTY LockProgress
