CONSTANTS
  Byte = {a, b}
  Capacity = 3
  NoByte = NoByte
SPECIFICATION RBufferSpec
INVARIANTS StoppedIffFull CmpIsByteWise
PROPERTY ImplementsFifo
