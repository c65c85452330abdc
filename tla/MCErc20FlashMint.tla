---------------------------- MODULE MCErc20FlashMint ----------------------------
(* Two borrowers and the token itself, loans two deep; each approves the    *)
(* token, as a repayment needs, and one of them the other.                  *)
EXTENDS Erc20FlashMint

CONSTANTS lender, borrower, other, zero

MCAddresses == {lender, borrower, other, zero}
MCBorrowers == {borrower, other}
MCApprovals == {<<borrower, lender>>, <<other, lender>>, <<borrower, other>>}
MCFees      == {0, 1}
=============================================================================
