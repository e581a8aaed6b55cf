SPECIFICATION Spec
CONSTANTS
  Vals <- SmallVals
  Cap = 3
  Array <- Zeros
  Validators = {"none", "rang", "greater", "smaller"}
  RangMin = 0
  RangMax = 1
  Resets <- AnyCall
  Moves <- AnyMove
CHECK_DEADLOCK FALSE
INVARIANTS ContentsValidated
PROPERTIES Implements
