CONSTANTS
  TextFiles <- FewFiles
  TextChoices <- OneChoice
  BlockSize = 2
  BinarySampleSize = 8
  BinarySampleMinimum = 3
  MaximumLineLength = 4
SPECIFICATION TextSpec
INVARIANT CompletedTextIsTheFile
CHECK_DEADLOCK FALSE
