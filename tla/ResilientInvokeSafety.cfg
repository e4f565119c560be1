SPECIFICATION Spec
CONSTANTS
  Requests = {r1, r2}
  RuntimeChoices = {0, 1, 2}
  MaxAttempts = 2
  Answers = {"OK", "APP_ERROR"}
  Threshold = 2
  CoolDown = 1
  Unit = 1
  Rate = 1
  Burst = 1
SYMMETRY Symmetry
INVARIANTS
  ExecutionsBounded
  AnswerMeaning
