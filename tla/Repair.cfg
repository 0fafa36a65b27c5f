SPECIFICATION FairSpec
CONSTANTS
  Candidate = {c1}
  Worker = {w1}
  NoWorker = NoWorker
  NoDispatch = NoDispatch
  LaneLimit = 1
  MaxDispatches = 1
  MaxAttempts = 2
  MaxRounds = 0
  MaxFaults = 1
  SubmitPaths = {"agent"}
  UserMoves = {"cancel", "flag"}
  Zombies = TRUE
  InfoFails = FALSE
INVARIANTS
  AppliedWasSent
PROPERTIES
  InterruptedIsRepaired
