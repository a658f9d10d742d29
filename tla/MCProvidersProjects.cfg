SPECIFICATION MCSpec
CONSTANTS
  Kinds = {"chaturbate", "stripchat", "twitch", "youtube", "bilibili"}
  s1 = s1
  s2 = s2
  Sessions = {s1, s2}
  None = None
  MaxCalls = 3
  part1 = part1
  part2 = part2
  later = later
  Channels <- TwoChannels
  PageSize = 1
  Limits <- SiteLimits
  MaxChanges = 2
  Clip = {part1, part2, later}
  StartOf <- Times
  EndOf <- Times
  SessionOf <- Stems
  Gap = 1
  Assigner = {1}
  Closing = TRUE
  MaxTime = 5
  MaxProjects = 2
INVARIANTS
  BoundsAreExact
  SessionStaysTogether
  JoinedWithinGap
PROPERTIES
  OnlyRefusalLogsOut
  OnlyAnswerLogsIn
  QuietSyncIsWhole
  RowsWereFollowed
