CONSTANTS
  alice = alice
  box = box
  this = this
  zero = zero
  Addresses <- MCAddresses
  ZERO = zero
  MaxU256 = 3
  Willing = {box}
  CONTRACT = this
  HasCode = {box, this}
  Grants <- MCGrants
SPECIFICATION MCSpec
CONSTRAINT MCBound
INVARIANTS SafeCallsDoWhatTheySay WrapperIsBacked
PROPERTIES CapAndPauseHold
