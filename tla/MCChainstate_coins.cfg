CONSTANTS
  Base = 8
  HashLen = 2
  KeyLen = 2
  IDLen = 2
  MaxScript = 60
  NoKey = NoKey
  xor <- MCxor
  ValidX <- MCValidX
  Chainstates <- MCChainstates
  BestBlock <- MCBestBlock
  OtherKeys <- MCOtherKeys
  Obfuscation <- AnyKey
SPECIFICATION Spec
INVARIANTS
  DeliversTheCoins
  AnswersAreTheCoins
  FormatsAgree
CHECK_DEADLOCK FALSE
