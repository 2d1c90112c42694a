\* Requests of all kinds, sent in every way, and answers of all kinds, cut
\* anywhere; stop strings that cannot be cut.
SPECIFICATION FairConvSpec
CONSTANTS
  Starts <- MCStarts
  Ends <- MCEnds
  MaxXmlBuf = 20
  Stops <- MCStops
  Answers <- MCAnswers
  Replies <- MCReplies
  Registry <- MCRegistry
  ChunkSize = 3
  Turns <- MCTurns
INVARIANTS
  OnlyVisibleText
  NothingLost
  CallsAreTold
  ReadingsAgree
  UsageIsReported
  EveryMessageIsTold
  ToolsAreOffered
  FilesReachUpstream
  DialectsAgree
  AnswerReadsBack
PROPERTIES
  FollowsProtocol
  AnswerEnds
