\* A stop string of two symbols that the upstream may send in two pieces.
SPECIFICATION ConvSpec
CONSTANTS
  Starts <- MCStarts
  Ends <- MCEnds
  MaxXmlBuf = 20
  Stops <- MCLongStops
  Answers <- MCAnswers
  Replies <- MCReplies
  Registry <- MCRegistry
  ChunkSize = 3
  Turns <- MCStopTurns
INVARIANT StopEndsAnswer
