\* One request on each of the three paths.
SPECIFICATION Spec
CONSTANTS
  Supported = {2, 4}
  DefaultEffort = 4
  MaxBlock = 6
  Permitted = {"run"}
  Bodies <- ChatBodies
  Lines <- AnswerLines
  Refusals <- AnswerRefusals
  MaxLines = 4
INVARIANTS
  OneOutcome
  NoTextLost
  PathsAgree
  BodyAccepted
  ResultsFollowCalls
PROPERTIES
  RequestEnds
