SPECIFICATION Spec
CONSTANTS
  a = a
  b = b
  Readers = {a}
  Writers = {a}
  BUFFERSIZE = 2
  SizeMax = 7
  MaxOpen = 1
  MaxTx = 0
  MaxRx = 2
  FifoSize = 2
  Peli = TRUE
  CopyMaySleep = FALSE
  CopyMayFail = FALSE
  QuietOpen = FALSE
  PromptIrq = TRUE
INVARIANTS ReadsReal
