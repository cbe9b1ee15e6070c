\* One request of any kind, two attempts of the provider.
SPECIFICATION FairSpec
CONSTANTS
  Requests = {r1}
  MaxAttempts = 2
  ResultObjects <- MCResultObjects
  Answers <- MCAnswers
CHECK_DEADLOCK FALSE
INVARIANTS
  TypeOK
  RowsMatchResults
  OneAnswersObject
  GoodAnswerIsUsed
PROPERTIES
  EveryRequestEnds
