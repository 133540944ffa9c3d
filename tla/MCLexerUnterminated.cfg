CONSTANTS
  Letters <- LiteralLetters
  MaxLen = 2
  Ending <- Newline
  Sources <- MCSources
SPECIFICATION FairSpec
PROPERTY UnterminatedReported
