----------------------------- MODULE MCErc20Permit -----------------------------
(* Two accounts, words of two bits, two moments.  Alice has signed two      *)
(* messages for the same nonce, one of them infinite and one of them with a *)
(* deadline that passes, and one for the next.                              *)
EXTENDS Erc20Permit, TLC

CONSTANTS alice, bob, zero

MCAddresses == {alice, bob, zero}

MCSigned ==
  { [owner |-> alice, spender |-> bob, value |-> 2, nonce |-> 0, deadline |-> 0],
    [owner |-> alice, spender |-> bob, value |-> MaxU256, nonce |-> 0, deadline |-> 1],
    [owner |-> alice, spender |-> bob, value |-> 1, nonce |-> 1, deadline |-> 1] }

MCWithdrawn == {<<alice, 0>>}

(* Bound: of the accounts only alice approves herself.                      *)
MCBound == quota[bob][bob].granted = 0
=============================================================================
