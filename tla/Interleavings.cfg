SPECIFICATION Spec
CONSTANTS
  Candidate = {c1}
  Worker = {w1, w2}
  NoWorker = NoWorker
  NoDispatch = NoDispatch
  LaneLimit = 2
  MaxDispatches = 2
  MaxAttempts = 2
  MaxRounds = 1
  MaxFaults = 0
  SubmitPaths = {"agent", "form", "step"}
  UserMoves = {"stop", "cancel", "retry"}
  Zombies = FALSE
  InfoFails = FALSE
SYMMETRY WorkerSymmetry
INVARIANTS
  
  CancelledStaysOut
PROPERTIES
  AppliedIsFinal
  ImplementsPromise
