\* A conversation too long to be sent in one prompt, without tools.
SPECIFICATION ConvSpec
CONSTANTS
  Starts <- MCStarts
  Ends <- MCEnds
  MaxXmlBuf = 20
  Stops <- MCStops
  Answers <- MCAnswers
  Replies <- MCReplies
  Registry <- MCRegistry
  ChunkSize = 3
  Turns <- MCLongTurns
INVARIANT RequestIsWhole
