CONSTANTS
  core0 = core0
  core1 = core1
  core2 = core2
  core3 = core3
  Core <- MCCore
  Boot = core0
  NoCore = NoCore
  Null = Null
  BarrierCount = 4
  Modulus = 8
SPECIFICATION QemuSpec
INVARIANTS NoCoreFaults PrivateStacks OutputInOrder
PROPERTIES StartTogether StopTogether EverythingIsPrinted
