SPECIFICATION Spec
CONSTANTS
  Candidate = {c1}
  Worker = {w1}
  NoWorker = NoWorker
  NoDispatch = NoDispatch
  LaneLimit = 1
  MaxDispatches = 2
  MaxAttempts = 2
  MaxRounds = 0
  MaxFaults = 0
  SubmitPaths = {"form"}
  UserMoves = {"retry"}
  Zombies = FALSE
  InfoFails = FALSE
INVARIANTS
  SubmittedOnce
