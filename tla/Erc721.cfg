\* Three accounts, one of them a contract that rejects tokens, two ids.
CONSTANTS
  Addresses = {alice, bob, vault, zero}
  ZERO = zero
  Ids = {id1, id2}
  Rejecting = {vault}
  MaxU256 = 3
SPECIFICATION Spec
SYMMETRY Symmetry
INVARIANT BalancesCountTokens
PROPERTIES OthersTokensAreSafe ImplementsNft
