CONSTANTS
  UART_WRAP = 499
  DataBits = 8
  Hosts <- MCHosts
  Reply <- MCReply
  None = None
SPECIFICATION Spec
INVARIANTS SamplesInPlace HostHearsReply
PROPERTIES BytesArrive RepliesEnd
