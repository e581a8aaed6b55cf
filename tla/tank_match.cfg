CONSTANTS
  Sessions <- MatchSessions
  TeamNames <- MCTeams
  UserNames <- MCUsers
  Words <- MCWords
  NMembers = 2
  Fold <- MCFold
  Teams0 <- InitTeams
  Users0 <- OnlineUsers
  Requests <- MatchRequests
  MaxRequests <- MatchBounds
  MayLoseDb <- NobodyLosesDb
SPECIFICATION MatchSpec
CHECK_DEADLOCK FALSE
INVARIANTS RivalsMutualAtRest AcceptMeansPaired
