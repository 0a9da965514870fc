CONSTANTS
  Core = {core0, core1, core2}
  Boot = core0
  NoCore = NoCore
  MaxTexts = 3
SPECIFICATION FairSpec
INVARIANTS TextsAreWhole LineEndings
PROPERTY PrintfReturns
