CONSTANTS
  Urls <- TwoHosts
  Hosts <- Resolving
  Listening <- Services
  MaxSockets = 2
  MaxPieces = 1
  MayFail <- LastThread
  NJobs = 3
  NThreads = 3
  Rounds = 2
  Texts <- Sources
  nmembs = 5
  Elements = {e1, e2, e3}
  NoElement = NoElement
  cap = 4
  Callers = {k1, k2, k3, k4}
  MaxFds = 3
  MaxProcs = 2
  Arrays <- SmallArrays
  Addresses <- UrlParts
  Formats <- SmallFormats
  Ulongs <- EdgeValues
  Messages <- SmallMessages
  Strings <- SmallStrings
  Vals <- ThreeVals
  Cap = 4
SPECIFICATION ProgramsSpec
CHECK_DEADLOCK FALSE
INVARIANTS FetchEndsWell OneHasOwnHost CountsExactUnlessOverlapped TotalAtLeastTwo Highlighted UnionsExact ArrayHoldsList ServedWhileOpen OneSideHoldsAll SortsOrder UrlParsed PacketRoundTrip CrcAgreesAndDetects LongestRepeat
PROPERTIES ProgramsEnd ClientsAreServed ImplementsFIFO
