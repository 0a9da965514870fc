CONSTANTS
  Core = {core0, core1, core2}
  Boot = core0
  NoCore = NoCore
  MaxTexts = 2
SPECIFICATION PanicSpec
PROPERTY PanicIsPrinted
