CONSTANTS
  Radix = 2
  HexChar <- MCHexChar
  Xor <- MCXor
  Enc <- MCEnc
  Dec <- MCDec
  BlockNibs = 3
  KeyNibs = 1
  MaxBlocks = 2
  Chars = {"K", "i", "b", "D", "E", "r", "0"}
SPECIFICATION Spec
INVARIANTS SteadyMessageIsCBC ChainSurvivesModeChange
PROPERTIES ReplyAsBuilt RequestsAreAnswered
