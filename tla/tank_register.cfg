CONSTANTS
  Sessions <- ThreeSessions
  TeamNames <- MCTeams
  UserNames <- MCUsers
  Words <- MCWords
  NMembers = 2
  Fold <- MCFold
  Teams0 <- NoRows
  Users0 <- NoRows
  Requests <- RegisterRequests
  MaxRequests <- SecondTwo
  MayLoseDb <- FirstSession
SPECIFICATION FairSpec
CHECK_DEADLOCK FALSE
INVARIANTS UsersHaveTeam TeamNamesUnique OkMeansComplete
PROPERTIES Answered
