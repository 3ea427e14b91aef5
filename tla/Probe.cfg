SPECIFICATION ProbeSpec
CONSTANTS
  c1 = c1
  Cards = {c1}
  MayFail = {"kmalloc", "enable", "regions", "irq", "chrdev"}
  MaxProbes = 4
INVARIANTS HandlerSafe NoLeak BoundComplete
CHECK_DEADLOCK FALSE
