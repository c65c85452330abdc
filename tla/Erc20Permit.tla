------------------------------ MODULE Erc20Permit ------------------------------
(***************************************************************************)
(* An `Erc20` with `Erc20Permit`                                           *)
(* (contracts/src/token/erc20/extensions/permit.rs) and `Nonces`           *)
(* (contracts/src/utils/nonces.rs), as examples/erc20-permit composes      *)
(* them: to the calls of Erc20 comes `permit`, by which anybody grants an  *)
(* allowance that its owner has signed.                                    *)
(*                                                                         *)
(* `Signed` is everything the owners ever sign.  A signature is valid for  *)
(* the message it was made for and for no other: hashing and recovery are  *)
(* taken to be sound.                                                      *)
(***************************************************************************)
EXTENDS Erc20, Sequences

CONSTANTS
  MaxTime,  \* bound: the last block timestamp
  Signed,   \* the messages signed by their `owner`
  Withdrawn \* bound: the pairs of an owner and a nonce that the contract
            \* may use up itself

Messages == [owner : Accounts, spender : Addresses, value : U256,
             nonce : U256, deadline : 0..MaxTime]

ASSUME PermitAssumption ==
  /\ MaxTime \in Nat
  /\ Signed \subseteq Messages
  /\ Withdrawn \subseteq Accounts \X U256

VARIABLES
  nonces,   \* [owner], of Nonces
  now,      \* block::timestamp()
  accepted  \* history: the messages `permit` has accepted, in order

permitVars == <<nonces, now, accepted>>
allVars    == <<vars, permitVars>>

PermitInit == /\ Init
              /\ nonces = [a \in Addresses |-> 0]
              /\ now = 0
              /\ accepted = <<>>

-----------------------------------------------------------------------------
(* `use_nonce`; the addition is checked.                                    *)
UseNonceOnDemand(owner) ==  \* mutant: the nonce is read and not used up
  nonces[owner] < MaxU256 /\ nonces' = nonces

UseNonce(owner) ==
  /\ nonces[owner] < MaxU256
  /\ nonces' = [nonces EXCEPT ![owner] = @ + 1]

(* IErc20Permit::permit, by any caller.  The nonce that is hashed is the    *)
(* one the owner is at, not one the caller gives.                           *)
PermitUnsignedValue(owner, spender, value, deadline) ==  \* mutant: value not hashed
  /\ now <= deadline
  /\ \E message \in Signed :
       /\ [message EXCEPT !.value = value] =
            [owner |-> owner, spender |-> spender, value |-> value,
             nonce |-> nonces[owner], deadline |-> deadline]
       /\ accepted' = Append(accepted, message)
  /\ UseNonce(owner)
  /\ CanApprove(owner, spender)
  /\ token' = Approve(token, owner, spender, value)
  /\ quota' = [quota EXCEPT ![owner][spender] = [granted |-> value, spent |-> 0]]
  /\ UNCHANGED now

Permit(owner, spender, value, deadline) ==
  LET message == [owner |-> owner, spender |-> spender, value |-> value,
                  nonce |-> nonces[owner], deadline |-> deadline]
  IN  /\ now <= deadline
      /\ UseNonce(owner)
      /\ message \in Signed
      /\ CanApprove(owner, spender)
      /\ token' = Approve(token, owner, spender, value)
      /\ quota' = [quota EXCEPT ![owner][spender] =
                     [granted |-> value, spent |-> 0]]
      /\ accepted' = Append(accepted, message)
      /\ UNCHANGED now

(* `use_nonce` and `use_checked_nonce`, called by the embedding contract;   *)
(* a nonce that is not the current one is refused.                          *)
UseCheckedNonce(owner, nonce) ==
  /\ <<owner, nonce>> \in Withdrawn
  /\ UseNonce(owner)
  /\ nonce = nonces[owner]
  /\ UNCHANGED <<vars, now, accepted>>

Tick == now < MaxTime /\ now' = now + 1 /\ UNCHANGED <<vars, nonces, accepted>>

PermitNext ==
  \/ Next /\ UNCHANGED permitVars
  \/ \E owner \in Addresses :
       \/ \E nonce \in U256 : UseCheckedNonce(owner, nonce)
       \/ \E spender \in Addresses, value \in U256, deadline \in 0..MaxTime :
            Permit(owner, spender, value, deadline)
  \/ Tick

PermitSpec == PermitInit /\ [][PermitNext]_allVars

-----------------------------------------------------------------------------
PermitTypeOK ==
  /\ TypeOK
  /\ nonces \in [Addresses -> U256]
  /\ now \in 0..MaxTime
  /\ accepted \in Seq(Signed)

(* A message is accepted once at most, and of two messages signed for the   *)
(* same nonce only one: whoever holds them, in whatever order they are      *)
(* presented, and whatever becomes of the allowance in between.  The        *)
(* messages of an owner are accepted in the order of their nonces, and none *)
(* that is left behind can be accepted later.                               *)
MessagesAreUsedOnce ==
  /\ PermitTypeOK
  /\ \A i, j \in DOMAIN accepted :
       (i < j /\ accepted[i].owner = accepted[j].owner)
         => accepted[i].nonce < accepted[j].nonce
  /\ \A i \in DOMAIN accepted : accepted[i].nonce < nonces[accepted[i].owner]

(* An allowance grows by the owner's own `approve`, or to the value of a    *)
(* message that the owner signed, that was not accepted before and whose    *)
(* deadline has not passed; by nothing else, however it was spent.          *)
GrantsAreTheOwners ==
  [][ \A o, s \in Addresses :
        token'.allowances[o][s] > token.allowances[o][s] =>
          \/ /\ \E value \in U256 : ApproveCall(o, s, value)
             /\ UNCHANGED permitVars
          \/ \E m \in Signed :
               /\ m.owner = o /\ m.spender = s /\ now <= m.deadline
               /\ m.value = token'.allowances[o][s]
               /\ \A i \in DOMAIN accepted : accepted[i] # m ]_allVars
=============================================================================
