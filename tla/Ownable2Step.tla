------------------------------ MODULE Ownable2Step ------------------------------
(***************************************************************************)
(* `Ownable2Step` (contracts/src/access/ownable_two_step.rs) over          *)
(* `Ownable` (contracts/src/access/ownable.rs): the owner names a          *)
(* successor, who becomes the owner by accepting.                          *)
(***************************************************************************)
CONSTANTS
  Owners,    \* who may call, and who may be named
  ZERO,      \* Address::ZERO
  NoOne      \* history: no account of the current owner's choice

ASSUME OwnableAssumption ==
  ZERO \notin Owners /\ NoOne \notin Owners \cup {ZERO}

VARIABLES
  owner,          \* of ownable
  pending_owner,
  named           \* history: whom the current owner named last, in this term

ownableVars == <<owner, pending_owner, named>>

Addresses == Owners \cup {ZERO}

(* The constructor refuses the zero address.                                *)
OwnableInit ==
  /\ owner \in Owners
  /\ pending_owner = ZERO
  /\ named = NoOne

-----------------------------------------------------------------------------
only_owner(caller) == owner = caller

InstallKeepingPending(new_owner) ==  \* mutant: the pending owner is not cleared
  /\ owner' = new_owner
  /\ pending_owner' = pending_owner
  /\ named' = NoOne

(* `_transfer_ownership` ends a term and whatever was pending in it.        *)
Install(new_owner) ==
  /\ owner' = new_owner
  /\ pending_owner' = ZERO
  /\ named' = NoOne

(* The zero address withdraws the offer.                                    *)
TransferOwnershipOnce(caller, new_owner) ==  \* mutant: an offer stands
  /\ only_owner(caller)
  /\ pending_owner' = IF pending_owner = ZERO THEN new_owner ELSE pending_owner
  /\ named' = new_owner
  /\ UNCHANGED owner

TransferOwnership(caller, new_owner) ==
  /\ only_owner(caller)
  /\ pending_owner' = new_owner
  /\ named' = new_owner
  /\ UNCHANGED owner

AcceptOwnership(caller) ==
  /\ caller = pending_owner
  /\ Install(caller)

RenounceOwnership(caller) ==
  /\ only_owner(caller)
  /\ Install(ZERO)

OwnableNext ==
  \E caller \in Owners :
    \/ \E new_owner \in Addresses : TransferOwnership(caller, new_owner)
    \/ AcceptOwnership(caller)
    \/ RenounceOwnership(caller)

OwnableSpec == OwnableInit /\ [][OwnableNext]_ownableVars

-----------------------------------------------------------------------------
OwnableTypeOK ==
  /\ owner \in Addresses
  /\ pending_owner \in Addresses
  /\ named \in Addresses \cup {NoOne}

(* An offer is always the last word of the owner now in office: none of an  *)
(* earlier owner, and none that was replaced or withdrawn, can be accepted. *)
OffersAreCurrent ==
  /\ OwnableTypeOK
  /\ pending_owner # ZERO => named = pending_owner /\ owner # ZERO

(* A new owner was named last by the owner it replaces, and a renounced     *)
(* contract has no owner ever again, whatever was offered.                  *)
SuccessionIsInvited ==
  [][owner' # owner => owner # ZERO /\ owner' \in {ZERO, named}]_ownableVars

=============================================================================
