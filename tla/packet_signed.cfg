CONSTANTS
  Arrays = {}
  Addresses = {}
  Formats <- SmallFormats
  Ulongs <- EdgeValues
  Messages = {}
  Strings = {}
INIT AlgorithmsInit
NEXT AlgorithmsNext
CHECK_DEADLOCK FALSE
INVARIANTS UnpackReverses
