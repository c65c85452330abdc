CONSTANTS
  MaxKey = 6
  Values <- MCValues
  ZeroValue = "zero"
  None = "none"
  Midpoint <- Average
  SquareRoot <- Sqrt
  SetElements = {"p", "q", "r", "s"}
  Indices = {0, 1, 2, 3}
  W = 2
  LimbBits = 2
  N = 3
  Moduli = {3, 29, 31, 37, 61}
  WordBits = 16
  NewtonSteps = 2
  Samples = {0, 1, 2, 3, 255, 256, 21845, 32767, 43690}
  MaxDigits = 6
  Curves <- MCCurves
  MaxScalar = 7
  Ed <- MCEd
  Base <- MCBase
  Order = 5
  leaf1 = leaf1
  leaf2 = leaf2
  leaf3 = leaf3
  leaf4 = leaf4
  Leaves <- MCLeaves
  Foreign = foreign
  MaxLength = 2
  Algorithms = {"lists"}
  SelfTransfers = TRUE
  Modulus = 5
  T = 3
  D = 3
  CAPACITY = 1
  ROUNDS_F = 4
  ROUNDS_P = 2
  ROUND_CONSTANTS <- MCRC
  MAT_INTERNAL_DIAG_M_1 <- MCDiag
  Elements = {1, 2, 3}
  MaxCalls = 5
SPECIFICATION MCSpec
INVARIANT OwnersCanEnumerate
CHECK_DEADLOCK FALSE
