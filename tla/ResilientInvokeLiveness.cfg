SPECIFICATION FairSpec
CONSTANTS
  Requests = {r1, r2}
  RuntimeChoices = {2}
  MaxAttempts = 2
  Answers = {"OK"}
  Threshold = 2
  CoolDown = 1
  Unit = 1
  Rate = 1
  Burst = 1
PROPERTIES
  RequestAnswered
  BreakerRecovers
