SPECIFICATION FairSpec
CONSTANTS
  Views = {v1, v2}
  Outputs = {o1, o2}
  NoView = NoView
  NoOutput = NoOutput
  MaxCommits = 2
  MaxMoves = 2
INVARIANTS TypeOK CallbacksInOrder DoneIsBegun ToldIsThere
PROPERTIES CallbackAnswered
CHECK_DEADLOCK FALSE
