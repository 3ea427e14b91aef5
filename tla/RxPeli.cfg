SPECIFICATION Spec
CONSTANTS
  a = a
  b = b
  Readers = {a}
  Writers = {b}
  BUFFERSIZE = 3
  SizeMax = 7
  MaxOpen = 1
  MaxTx = 1
  MaxRx = 6
  FifoSize = 2
  Peli = TRUE
  CopyMaySleep = TRUE
  CopyMayFail = TRUE
  QuietOpen = TRUE
  PromptIrq = FALSE
INVARIANTS TypeOK RingInv
PROPERTIES RxImplements
