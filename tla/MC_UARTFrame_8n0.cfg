CONSTANTS
  UART_WRAP = 9
  DataBits = 8
  Hosts <- MCTextHosts
  Reply <- MCReply
  None = None
SPECIFICATION Spec
PROPERTIES BytesArrive
