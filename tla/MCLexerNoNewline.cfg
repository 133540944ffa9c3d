CONSTANTS
  Letters <- CallLetters
  MaxLen = 2
  Ending <- ClosingBrace
  Sources <- MCSources
SPECIFICATION FairSpec
PROPERTY AlwaysEof
