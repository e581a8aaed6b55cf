CONSTANTS
  Sessions <- TwoSessions
  TeamNames <- MCTeams
  UserNames <- MCUsers
  Words <- MCWords
  NMembers = 2
  Fold <- MCFold
  Teams0 <- InitTeams
  Users0 <- OnlineUsers
  Requests <- ShotRequests
  MaxRequests <- OneEach
  MayLoseDb <- NoSession
SPECIFICATION Spec
CHECK_DEADLOCK FALSE
PROPERTIES LoadedShotIsSeen
