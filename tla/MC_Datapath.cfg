CONSTANTS
  Rounds = 3
  Keys = {0, 1, 2}
  Blocks = {0, 1, 2, 3}
  Whiten <- MCWhiten
  Sub <- MCSub
  Mix <- MCMix
  Width = 128
  Taps <- MCTaps
  Factors <- MCFactors
  Hs <- MCHs
  MaxFolds = 3
  Radix = 2
  BlockNibs = 3
  KeyNibs = 1
  HexChar <- MCHexChar
  Xor <- MCXor
  Enc <- MCEnc
  Chars = {"K", "i", "b", "D", "E", "R", "0"}
  Unknown = Unknown
SPECIFICATION MCSpec
INVARIANTS ReplyOnTrack CountersAreFresh WaveFront OutputSettles LoopIsProduct UnitsAreStandard DecryptionInverts
PROPERTIES ImplementsDevice
