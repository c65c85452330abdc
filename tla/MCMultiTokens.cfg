CONSTANTS
  alice = alice
  bob = bob
  carol = carol
  box = box
  vault = vault
  zero = zero
  id1 = id1
  id2 = id2
  Addresses <- MCAddresses
  Ids <- MCIds
  ZERO = zero
  MaxU256 = 3
  RefusesSingles <- MCRefusesSingles
  RefusesBatches <- MCRefusesBatches
  Batches <- MCBatches
  Delegations <- MCDelegations
  Holders <- MCHolders
  TokenIds <- MCTokenIds
  MaxAmount = 3
  Approvals <- MCApprovals
  Operators <- MCDelegations
SPECIFICATION MCSpec
INVARIANTS SuppliesAreHeld
PROPERTIES ExtensionsImplement TakingNeedsLeave
SYMMETRY MCSymmetry
