SPECIFICATION FairSpec
CONSTANTS
  Files = {paper, copy}
  NoFile = none
  Paper = paper
  MaxEntries = 2
  MaxActs = 3
  MaxOpens = 2
  MaxFaults = 2
INVARIANT TypeOK
INVARIANT AnswersTrue
INVARIANT RestoredWhole
PROPERTY JournalKeepsUp
PROPERTY AnswersCome
CHECK_DEADLOCK FALSE
