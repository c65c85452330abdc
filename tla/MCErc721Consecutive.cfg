CONSTANTS
  Addresses = {alice, bob, zero}
  Ids = {0, 1, 2, 4}
  ZERO = zero
  MaxU256 = 7
  MaxU96 = 3
  FirstConsecutiveId = 1
  MaxBatchSize = 2
  MaxLastId = 2
  LateBatches = FALSE
  W = 2
  ApprovableIds = {2}
  Operators = {bob}
SPECIFICATION BatchSpec
INVARIANT BatchesAreCounted
PROPERTIES BatchTokensAreSafe BatchesImplementNft
