CONSTANTS
  Addresses = {alice, bob, vault, zero}
  ZERO = zero
  Vault = vault
  MaxU256 = 11
  DecimalsOffset = 0
  AssetSupply = 6
  Approvers = {alice}
  Spenders = {bob}
  Approvals = {0, 2, 11}
  VaultShares = 2
SPECIFICATION Spec
CONSTRAINT Bound
INVARIANTS PromisesAreKept
PROPERTIES PriceNeverFalls CallersNeverGain SharesAreSpentWithLeave
