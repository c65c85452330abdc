CONSTANTS
  lender = lender
  borrower = borrower
  other = other
  zero = zero
  Addresses <- MCAddresses
  Borrowers <- MCBorrowers
  Approvals <- MCApprovals
  Fees <- MCFees
  ZERO = zero
  LENDER = lender
  MaxU256 = 2
  MaxDepth = 2
SPECIFICATION FlashSpec
INVARIANTS LoansAreTheOnlyExtraSupply FundedLoanSettles
PROPERTY RepaymentIsAsQuoted
