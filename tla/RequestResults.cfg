SPECIFICATION Spec
CONSTANTS
  left = left
  right = right
  InfoOnly = InfoOnly
  w1 = w1
  w2 = w2
  Range <- MCRange
  Splits <- MCSplits
  Songs <- MCSongs
  Worker <- MCWorker
  MaxEntries = 2
  MaxFaults = 1
SYMMETRY Symmetry
INVARIANTS
  FailureExplained
  QuietMeansAnswered
PROPERTIES
  AnswerComplete
  FinishedIsFinal
CHECK_DEADLOCK FALSE
