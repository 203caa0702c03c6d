SPECIFICATION FairSpec
CONSTANTS
  Fields <- FlagNames
  Index <- FlagIndex
  Bits <- OneBit
  Word = 8
  Promoted = 32
  Values <- FlagValues
  Raws <- SomeBytes
  Names <- SomeNames
  Epochs = {0, 7}
  Ids <- SomeIds
  Others = {4, 8}
  MaxSent = 2
INVARIANTS TypeOK Understood SentReadsBack FieldsKept
PROPERTY LoginCompletes
CHECK_DEADLOCK FALSE
