SPECIFICATION FairSpec
CONSTANTS
  Candidate = {c1}
  Worker = {w1}
  NoWorker = NoWorker
  NoDispatch = NoDispatch
  LaneLimit = 1
  MaxDispatches = 1
  MaxAttempts = 2
  MaxRounds = 0
  MaxFaults = 0
  SubmitPaths = {"agent"}
  UserMoves = {"stop"}
  Zombies = FALSE
  InfoFails = FALSE
PROPERTIES
  ApplyingEnds
