CONSTANTS
  Sessions <- BattleSessions
  TeamNames <- MCTeams
  UserNames <- MCUsers
  Words <- MCWords
  NMembers = 2
  Fold <- MCFold
  Teams0 <- InitTeams
  Users0 <- OnlineUsers
  Requests <- BattleRequests
  MaxRequests <- BattleBounds
  MayLoseDb <- PollerMayLoseDb
SPECIFICATION SceneSpec
CHECK_DEADLOCK FALSE
INVARIANTS WinsWithinGames ShotsReportedOnce
PROPERTIES MembersBackBeforeReopened UpdatesStayInTeam
