CONSTANTS
  Writer = {w1}
  Loads <- MCLoads
  UART_TX_BUF_SIZE = 2
  RxFifo = 2
  Reader = {r1}
  Requests <- MCRequests
  INPUT_BUF_SIZE = 2
  WRAP = 4
SPECIFICATION FairSpec
INVARIANTS SleepsOnlyWhenEmpty
PROPERTIES ImplementsTerminal AllSent
