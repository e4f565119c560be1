SPECIFICATION Spec
CONSTANTS
  Players = {p1, p2}
  Sizes = {0, 1, 2}
  MaxRooms = 2
  Attempts = 2
  HasRedis = TRUE
SYMMETRY Symmetry
INVARIANTS
  NeverOverfull
  AnswerStaysTrue
