CONSTANTS
  Letters <- AllLetters
  MaxLen = 4
  Ending <- Newline
  Sources <- LongSources
SPECIFICATION FairSpec
INVARIANTS TypeOK PositionOK MaximalMunch
PROPERTIES NextLexeme NoCharTwice ReachesEof
