SPECIFICATION UartFairSpec
CONSTANTS
  RxChar = {a}
  TxChar = {x, y}
  NoChar = none
  UART_RINGBUFFER_SIZE_RX = 2
  UART_RINGBUFFER_SIZE_TX = 4
  HwSize = 2
  IeValues = {TRUE, FALSE}
PROPERTIES InputIsChannel InputIsServed OutputIsChannel WriteReturns
