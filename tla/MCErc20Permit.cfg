CONSTANTS
  alice = alice
  bob = bob
  zero = zero
  Addresses <- MCAddresses
  ZERO = zero
  MaxU256 = 3
  MaxTime = 1
  Signed <- MCSigned
  Withdrawn <- MCWithdrawn
SPECIFICATION PermitSpec
CONSTRAINT MCBound
INVARIANTS SupplyIsSumOfBalances AllowanceIsWhatIsLeft MessagesAreUsedOnce
PROPERTIES ImplementsLedger GrantsAreTheOwners
