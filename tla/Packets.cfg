SPECIFICATION Spec
CONSTANTS
  MaxMsg = 300
  Header = 12
  MaxLabel = 63
  MaxName = 255
  AnswerSize = 16
  Our = Our
  Unset = Unset
  Sizes = {11, 12, 77, 272, 273, 301}
  Labels = {1, 20, 61, 62, 63, 64}
  MaxLabels = 5
  OptSize = 308
  Options <- MCOptions
  MaxOptions = 3
  Prefix <- MCPrefix
INVARIANTS TypeOK AnswerFits AnswersValid OwnAddress FindsOptions AckIsAsked
CHECK_DEADLOCK FALSE
