---------------------------- MODULE MCErc721Wrapper ----------------------------
(* A user, a contract that is called back and may call again, the wrapper;  *)
(* two ids, and lists with two different ids and with the same id twice.    *)
EXTENDS Erc721Wrapper, TLC

CONSTANTS alice, box, wrapper, zero, id1, id2

MCAddresses == {alice, box, wrapper, zero}
MCIds       == {id1, id2}
MCLists     == {<<id1>>, <<id2>>, <<id1, id2>>, <<id2, id1>>, <<id1, id1>>, <<id2, id2>>}
MCSymmetry  == Permutations(MCIds)

(* Bounds: the underlying tokens are approved to the wrapper only, the      *)
(* wrapped ones to the contract; nobody has operators; a call made from a   *)
(* receiver has one id.                                                     *)
MCBound ==
  /\ \A id \in Ids : /\ under.token_approvals[id] \in {zero, wrapper}
                     /\ nft.token_approvals[id] \in {zero, box}
  /\ \A a, b \in Addresses :
       ~under.operator_approvals[a][b] /\ ~nft.operator_approvals[a][b]
  /\ \A i \in 2 .. Len(stack) : stack[i].ids = <<>>
=============================================================================
