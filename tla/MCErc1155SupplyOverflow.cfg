CONSTANTS
  alice = alice
  bob = bob
  carol = carol
  box = box
  vault = vault
  zero = zero
  id1 = id1
  id2 = id2
  Addresses <- MCAddresses
  Ids <- MCIds
  ZERO = zero
  MaxU256 = 4
  RefusesSingles <- MCRefusesSingles
  RefusesBatches <- MCRefusesBatches
  Batches <- MCAnyBatches
  Delegations <- MCDelegations
  Holders <- MCHolders
  TokenIds <- MCTokenIds
  MaxAmount = 3
  Approvals <- MCApprovals
  Operators <- MCDelegations
SPECIFICATION MCSpec
INVARIANTS SupplyAllIsSum
SYMMETRY MCSymmetry
