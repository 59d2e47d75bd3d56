CONSTANTS
  p1 = p1
  p2 = p2
  g1 = g1
  g2 = g2
  Sender <- MCTwoSenders
  Group <- MCTwoGroups
  Torn = Torn
  Capacities = {1, 2}
  MaxBatch = 2
  ArchiveModes = {TRUE, FALSE}
  PollSizes = {2}
  TornTails = "behind_frame"
  AppendWaits = FALSE
  WritesMayFail = TRUE
  MaxFails = 1
  MaxCrashes = 2
SPECIFICATION Spec
SYMMETRY MCSymmetry
CHECK_DEADLOCK FALSE
INVARIANTS
  StoreTypeOK
  
  RecoveredComplete
  NextAboveProgress
