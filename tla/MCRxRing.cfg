SPECIFICATION RxSpec
CONSTANTS
  UART_RX_BUF_SIZE = 4
  WORD = 8
  CHAR = 4
  CHAR_SIGNED = TRUE
PROPERTY ImplementsByteQueue
