SPECIFICATION FairSpec
CONSTANTS
  a = a
  b = b
  Readers = {a, b}
  Writers = {a, b}
  BUFFERSIZE = 2
  SizeMax = 7
  MaxOpen = 2
  MaxTx = 1
  MaxRx = 4
  FifoSize = 2
  Peli = FALSE
  CopyMaySleep = FALSE
  CopyMayFail = FALSE
  QuietOpen = TRUE
  PromptIrq = FALSE
PROPERTY RxServed
