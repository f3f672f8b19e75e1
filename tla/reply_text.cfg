SPECIFICATION CSpec
CONSTANTS
  Pieces <- McPieces
  MaxPieces = 4
  Formats <- McFormats
  Histories <- McHistories
  FollowUps <- McFollowUps
  MaxAsked = 3
INVARIANTS CallsAgree ReplyAgrees NoToolText WholeCharacters GenBoundary EchoContinues
CHECK_DEADLOCK FALSE
