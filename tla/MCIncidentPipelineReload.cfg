CONSTANTS
  MaxClusters = 2
  ActiveSpan = 1
  MaxGap = 3
  ImpactWindow = 18
  Events <- MCEvents
  ChangeLists <- MCChangeLists
  RoundChoices = {1, 2, 3}
  MinConfidence = 6000
  EnableRemediation = TRUE
  MaxIterations = 2
  MaxClock = 3
  MaxIngested = 3
  MaxCalls = 2
SPECIFICATION Spec
INVARIANT KnowledgeSurvives
CHECK_DEADLOCK FALSE
