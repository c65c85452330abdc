CONSTANTS
  alice = alice
  box = box
  wrapper = wrapper
  zero = zero
  id1 = id1
  id2 = id2
  Addresses <- MCAddresses
  Ids <- MCIds
  ZERO = zero
  MaxU256 = 3
  Rejecting = {wrapper}
  WRAPPER = wrapper
  Contracts = {box}
  Reentrant = TRUE
  Lists <- MCLists
  MaxDepth = 2
SPECIFICATION WrapperSpec
SYMMETRY MCSymmetry
CONSTRAINT MCBound
INVARIANT WrappedIsHeld
PROPERTY ReleaseIsTheHolders
