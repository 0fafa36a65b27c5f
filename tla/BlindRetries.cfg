SPECIFICATION Spec
CONSTANTS
  Candidate = {c1}
  Worker = {w1, w2}
  NoWorker = NoWorker
  NoDispatch = NoDispatch
  LaneLimit = 2
  MaxDispatches = 2
  MaxAttempts = 2
  MaxRounds = 0
  MaxFaults = 0
  SubmitPaths = {"agent"}
  UserMoves = {"retry", "flag"}
  Zombies = FALSE
  InfoFails = TRUE
SYMMETRY WorkerSymmetry
INVARIANTS
  OnlyNewestOpen
PROPERTIES
  ClaimUsesNewestDispatch
