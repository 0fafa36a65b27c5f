\* One hunt, started by its owner or by the daily job, and two executions; one
\* playground run with two executions, two presses of Apply, a question,
\* and one reply waiting at a time.
SPECIFICATION RunsSpec
CONSTANTS
  Worker = {w1, w2}
  Nobody = nobody
  MaxRuns = 1
  MaxStalls = 1
  MaxDaily = 1
  MaxFaults = 1
  PgExecutions = 2
  PgMaxReplies = 1
  PgMaxApproves = 2
  PgMaxAsks = 1
  PgMaxFaults = 1
INVARIANTS
  ApprovalHasCandidates
  
  AnswersFollowTheirQuestion
  CleanUpSparesLiveRuns
PROPERTIES
  StopSettles
  RunsMoveOn
  QueuedRunEnds
CHECK_DEADLOCK FALSE
