SPECIFICATION Spec
CONSTANTS
  a = a
  b = b
  Readers = {a, b}
  Writers = {a, b}
  BUFFERSIZE = 2
  SizeMax = 7
  MaxOpen = 1
  MaxTx = 5
  MaxRx = 2
  FifoSize = 1
  Peli = TRUE
  CopyMaySleep = FALSE
  CopyMayFail = FALSE
  QuietOpen = TRUE
  PromptIrq = TRUE
SYMMETRY Symmetry
INVARIANTS TxSound SendsWhenReleased
