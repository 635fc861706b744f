CONSTANTS
  Radix = 2
  BlockNibs = 3
  KeyNibs = 1
  IVNibs = 1
  SizeWrap = 4
  HexChar <- MCHexChar
  Xor <- MCXor
  Enc <- MCEnc
  GMul <- MCGMul
  LenBlock <- MCLenBlock
  Chars = {"K", "i", "A", "b", "D", "E", "T", "f", "R", "0"}
  Messages <- MCShort
SPECIFICATION SessionSpec
INVARIANTS TagIsStandard
CHECK_DEADLOCK FALSE
