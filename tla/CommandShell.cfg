SPECIFICATION Spec
CONSTANTS
  Transports = {"ssh", "serial"}
  Scripts <- Vendors
  AnswersTo <- Replies
  MayTimeOut = TRUE
  MaxLogs = 2
INVARIANT AnswerIsWhole
PROPERTY CommandEnds
