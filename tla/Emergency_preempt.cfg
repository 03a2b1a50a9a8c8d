SPECIFICATION EmSpec
CONSTANTS
  Size = 2
  HistSize = 1
  IsrErrors <- MCIsrErrors
  Codes <- MCCodes
  Inhibit = 1
  Ticks = {0, 1}
  Preempt = TRUE
INVARIANTS BusLearnsState
