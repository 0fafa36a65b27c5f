SPECIFICATION Spec
CONSTANTS
  Candidate = {c1}
  Worker = {w1}
  NoWorker = NoWorker
  NoDispatch = NoDispatch
  LaneLimit = 1
  MaxDispatches = 1
  MaxAttempts = 2
  MaxRounds = 1
  MaxFaults = 0
  SubmitPaths = {"form"}
  UserMoves = {}
  Zombies = FALSE
  InfoFails = FALSE
PROPERTIES
  SecondSubmitRefused
