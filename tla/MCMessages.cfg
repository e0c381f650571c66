CONSTANTS
  Values = {1, 2}
  MaxCalls = 3
SPECIFICATION Spec
INVARIANTS ReadsBack Decodable AnswerEchoes
CHECK_DEADLOCK FALSE
