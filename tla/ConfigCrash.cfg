SPECIFICATION Spec
CONSTANTS
  MinMemSize = 8
  MaxMemSize = 64
  MaxCpu = 4
  UlongMax = 299
  NoNumber = NoNumber
  Crash = Crash
  MaxWord = 99
  MaxAddress = 4096
  SymbolTableBytes = 16
  MaxInstructions = 3
  Refused = Refused
  Unmeant = Unmeant
  NoProcess = NoProcess
  Files <- BaseFiles
  Lines <- SomeLines
  MaxEdits = 1
  SizeValues <- SizesTyped
  Texts <- OneText
  CommonTexts <- OneText
  TypedFiles <- BaseFiles
  Names <- OneName
  Words = {0, 99}
CHECK_DEADLOCK FALSE
INVARIANTS
  InvalidIsReported
