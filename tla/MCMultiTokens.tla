------------------------------ MODULE MCMultiTokens ------------------------------
(* The two standards of many tokens in one contract, one at a time.         *)
(* ERC-1155: two accounts, a contract that accepts single tokens only and   *)
(* one that accepts nothing; batches of up to two lines, an id twice and    *)
(* arrays of different lengths, with values of 1, among them.  Those whose  *)
(* values add up to more than U256::MAX wrap the sum and are left out, see  *)
(* the README.                                                              *)
(* ERC-6909: three accounts and words of two bits.  Alice may let bob spend *)
(* one of the tokens and make him an operator, so that an operator may hold *)
(* an allowance too.                                                        *)
EXTENDS Erc1155Supply, TLC

CONSTANTS  \* of the ERC-6909
  Holders, TokenIds, MaxAmount, Approvals, Operators

VARIABLES standard, tokens, total_supplies

Erc6909 == INSTANCE Erc6909TokenSupply
             WITH Addresses   <- Holders,
                  Ids         <- TokenIds,
                  MaxU256     <- MaxAmount,
                  Delegations <- Operators

ASSUME Erc6909Assumption == Erc6909!SupplyAssumption

CONSTANTS alice, bob, carol, box, vault, zero, id1, id2

MCAddresses      == {alice, bob, box, vault, zero}
MCIds            == {id1, id2}
MCRefusesSingles == {vault}
MCRefusesBatches == {box, vault}
MCDelegations    == {<<alice, bob>>}
MCUpTo2(S)       == { <<>> } \cup {<<x>> : x \in S} \cup (S \X S)
MCAnyBatches     == MCUpTo2(MCIds) \X MCUpTo2(1..MaxU256)
MCBatches        == {b \in MCAnyBatches :
                       IF Len(b[1]) = Len(b[2]) THEN SumOf(b[2]) <= MaxU256
                                                ELSE \A i \in DOMAIN b[2] : b[2][i] = 1}

MCSymmetry       == Permutations(MCIds)

MCHolders        == {alice, bob, carol, zero}
MCTokenIds       == {"id1", "id2"}
MCApprovals      == {<<alice, bob, "id1">>}

erc6909Vars == <<tokens, total_supplies>>

MCInit == standard \in {"ERC-1155", "ERC-6909"} /\ Init /\ Erc6909!Init

MCNext ==
  /\ UNCHANGED standard
  /\ \/ standard = "ERC-1155" /\ Next /\ UNCHANGED erc6909Vars
     \/ standard = "ERC-6909" /\ Erc6909!Next /\ UNCHANGED vars

MCSpec == MCInit /\ [][MCNext]_<<standard, vars, erc6909Vars>>

-----------------------------------------------------------------------------
(* The supply recorded for an id, and of all ids, is what is held, although *)
(* it is written apart from the balances and lowered unchecked.             *)
SuppliesAreHeld == SupplyIsHeld /\ SupplyAllIsSum /\ Erc6909!SuppliesAreHeld

(* The internals that an extension writes again around its own `_update`    *)
(* are those of the contract extended: same authority, receivers, balances. *)
ExtensionsImplement == ImplementsErc1155 /\ Erc6909!ImplementsErc6909

(* Nobody takes what is not given, of this id and by this path.             *)
TakingNeedsLeave == OthersBalancesAreSafe /\ Erc6909!TakingNeedsLeave
=============================================================================
