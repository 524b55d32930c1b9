SPECIFICATION Spec
CONSTANTS
  LastNode = 4
  Nodes <- MCNodes
  Graph <- MCGraph
  Values = {"x", "y"}
  TrueValues = {"y"}
  ErrorProne = {}
  Faulty <- MCFaulty
  MaxSteps = 6
  RecursionLimit = 9
  MaxResumes = 1
  NoNode = 0
PROPERTIES ResumeSkipsDone
CHECK_DEADLOCK FALSE
