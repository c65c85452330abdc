--------------------------- MODULE MCErc721Consecutive ---------------------------
(* Two accounts; the ids are one below the first consecutive one, two for   *)
(* the batches, and one above U96::MAX; words of the bit map of two bits.   *)
(* An instance, so that what is proved of `Erc721` serves here as well.     *)
EXTENDS Erc721Ledger, Sequences

CONSTANTS MaxU96, FirstConsecutiveId, MaxBatchSize, MaxLastId, LateBatches, W,
          ApprovableIds, Operators

VARIABLES erc721, sequential_ownership, sequential_burn, constructing

Batches == INSTANCE Erc721Consecutive

ASSUME BatchesAssumption == Batches!ConsecutiveAssumption

BatchSpec == Batches!Spec
-----------------------------------------------------------------------------
(* Balances count the tokens of batches and single ones alike, although no  *)
(* owner is recorded for a token of a batch before it moves.                *)
BatchesAreCounted == Batches!BalancesCountTokens

(* A token of a batch can be destroyed, and before that it changes hands,   *)
(* or is entrusted to another, only by leave of its owner.                  *)
BatchTokensAreSafe == Batches!BatchTokensAreSafe

(* Whether a token comes in a batch or alone, it behaves as one of the      *)
(* abstract ledger of non-fungible tokens.                                  *)
BatchesImplementNft == Batches!ImplementsNft
=============================================================================
