SPECIFICATION Spec
CONSTANTS
  Candidate = {c1}
  Worker = {w1, w2}
  NoWorker = NoWorker
  NoDispatch = NoDispatch
  LaneLimit = 1
  MaxDispatches = 2
  MaxAttempts = 2
  MaxRounds = 0
  MaxFaults = 1
  SubmitPaths = {"agent"}
  UserMoves = {"retry"}
  Zombies = FALSE
  InfoFails = FALSE
SYMMETRY WorkerSymmetry
INVARIANTS
  TypeOK
  FencedAttemptsAreConfirmed
  SubmittedOnce
  OneInFlightAttempt
PROPERTIES
  ImplementsPromise
