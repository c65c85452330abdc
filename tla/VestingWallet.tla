------------------------------ MODULE VestingWallet ------------------------------
(***************************************************************************)
(* `VestingWallet` (contracts/src/finance/vesting_wallet.rs): whatever is  *)
(* sent to it, ether or an ERC-20 token, is released to its owner along a  *)
(* schedule.  Anybody may send, and anybody may ask for a release.  A       *)
(* token moves what it is asked to move and takes nothing by itself.       *)
(***************************************************************************)
EXTENDS Sums

CONSTANTS
  Accounts,   \* who may own the wallet and call it
  ZERO,       \* Address::ZERO
  Wallet,     \* contract::address()
  Refusers,   \* the accounts that are contracts which refuse ether
  Tokens,     \* the ERC-20 tokens
  Ether,      \* the native currency
  Starts,     \* the values `start` may have
  Durations,  \* the values `duration` may have
  MaxU256,    \* U256::MAX
  MaxTime,    \* bound: the last block timestamp
  MaxPaid     \* bound: what the wallet is ever sent, of each asset

VestingAssumption ==
  /\ ZERO \notin Accounts \cup {Wallet} /\ Wallet \notin Accounts
  /\ IsFiniteSet(Accounts) /\ Refusers \subseteq Accounts
  /\ Ether \notin Tokens
  /\ Starts \subseteq Nat /\ Durations \subseteq Nat
  /\ MaxU256 \in Nat /\ MaxTime \in Nat /\ MaxPaid \in 0..MaxU256

VARIABLES
  owner,           \* of ownable
  start, duration,
  released,        \* [asset]: released, and erc20_released
  balance,         \* [asset]: of the wallet, in the chain or in the token
  timestamp,       \* of the block
  paid_in,         \* history: [asset], what the wallet was sent
  received         \* history: [account][asset], what the wallet paid it

vars == <<owner, start, duration, released, balance, timestamp, paid_in, received>>

Assets == Tokens \cup {Ether}
Payees == Accounts \cup {ZERO, Wallet}

Init ==
  /\ owner \in Accounts
  /\ start \in Starts /\ duration \in Durations
  /\ released = [c \in Assets |-> 0]
  /\ balance = [c \in Assets |-> 0]
  /\ timestamp = 0
  /\ paid_in = [c \in Assets |-> 0]
  /\ received = [a \in Payees |-> [c \in Assets |-> 0]]

-----------------------------------------------------------------------------
(* `vesting_schedule`.  `start` and `duration` are 64 bits wide, so their   *)
(* sum cannot overflow; the product can, and then the call panics.          *)
CanVest(total) ==
  start <= timestamp /\ timestamp < start + duration =>
    total * (timestamp - start) <= MaxU256

Vested(total) ==
  IF timestamp < start THEN 0
  ELSE IF timestamp >= start + duration THEN total
  ELSE (total * (timestamp - start)) \div duration

Allocation(c) == balance[c] + released[c]

(* `vested_amount_eth` and `vested_amount_erc20` return                     *)
CanCompute(c) == Allocation(c) <= MaxU256 /\ CanVest(Allocation(c))

(* `releasable_eth` and `releasable_erc20`: the subtraction wraps.          *)
ReleasableAgain(c) ==  \* mutant: what was released is not subtracted
  Vested(Allocation(c))

Releasable(c) == (Vested(Allocation(c)) - released[c]) % (MaxU256 + 1)

(* A transfer of the asset to the owner, by the chain or by the token: the  *)
(* zero address takes ether but no tokens, and the wallet cannot be called  *)
(* while it runs.                                                           *)
CanReceive(a, c) == IF c = Ether THEN a \notin Refusers \cup {Wallet} ELSE a # ZERO

CanRelease(c) ==
  /\ CanCompute(c)
  /\ released[c] + Releasable(c) <= MaxU256
  /\ CanReceive(owner, c)
  /\ Releasable(c) <= balance[c]

(* `release_eth` and `release_erc20`                                        *)
Release(c) ==
  LET amount == Releasable(c) IN
  /\ CanRelease(c)
  /\ released' = [released EXCEPT ![c] = @ + amount]
  /\ balance' = IF owner = Wallet
                  THEN balance ELSE [balance EXCEPT ![c] = @ - amount]
  /\ received' = [received EXCEPT ![owner][c] = @ + amount]
  /\ UNCHANGED <<owner, start, duration, timestamp, paid_in>>

(* `receive`, or a transfer of a token to the wallet                        *)
Receive(c, amount) ==
  /\ paid_in[c] + amount <= MaxPaid
  /\ paid_in' = [paid_in EXCEPT ![c] = @ + amount]
  /\ balance' = [balance EXCEPT ![c] = @ + amount]
  /\ UNCHANGED <<owner, start, duration, released, timestamp, received>>

(* `transfer_ownership` and `renounce_ownership` of `Ownable`               *)
TransferOwnership(caller, new_owner) ==
  /\ owner = caller
  /\ new_owner # ZERO
  /\ owner' = new_owner
  /\ UNCHANGED <<start, duration, released, balance, timestamp, paid_in, received>>

RenounceOwnership(caller) ==
  /\ owner = caller
  /\ owner' = ZERO
  /\ UNCHANGED <<start, duration, released, balance, timestamp, paid_in, received>>

(* The next block                                                           *)
Tick ==
  /\ timestamp < MaxTime
  /\ timestamp' = timestamp + 1
  /\ UNCHANGED <<owner, start, duration, released, balance, paid_in, received>>

Next ==
  \/ \E c \in Assets : Release(c) \/ \E amount \in 1..MaxPaid : Receive(c, amount)
  \/ \E caller \in Accounts :
       \/ \E new_owner \in Payees : TransferOwnership(caller, new_owner)
       \/ RenounceOwnership(caller)
  \/ Tick

Spec == Init /\ [][Next]_vars

-----------------------------------------------------------------------------
TypeOK ==
  /\ owner \in Payees
  /\ start \in Starts /\ duration \in Durations
  /\ released \in [Assets -> Nat] /\ balance \in [Assets -> Nat]
  /\ paid_in \in [Assets -> Nat] /\ timestamp \in Nat
  /\ received \in [Payees -> [Assets -> Nat]]

(* However the payments, the releases and the owners follow one another,    *)
(* never more has been released of an asset than its schedule, applied to   *)
(* all that ever was in the wallet, has vested by now; so `releasable` is   *)
(* never the wrap-around of a negative number.                              *)
ScheduleIsKept ==
  /\ TypeOK
  /\ \A c \in Assets :
       /\ timestamp < start => released[c] = 0
       /\ start <= timestamp /\ timestamp < start + duration =>
            released[c] * duration <= Allocation(c) * (timestamp - start)

(* What was sent to the wallet is there or was paid to somebody, and what   *)
(* counts as released was paid.                                             *)
EverythingIsAccounted ==
  \A c \in Assets :
    LET paid == SumOf([a \in Payees |-> received[a][c]])
    IN  /\ released[c] = paid
        /\ balance[c] + paid - received[Wallet][c] = paid_in[c]

(* Once the schedule has ended, an owner that can be paid is paid all there *)
(* is, whatever could not be computed before and whatever was released.     *)
MaturedIsReleasable ==
  \A c \in Assets :
    /\ timestamp >= start + duration
    /\ CanReceive(owner, c) /\ owner # Wallet /\ received[Wallet][c] = 0
    => CanRelease(c) /\ Releasable(c) = balance[c]

(* What the wallet owes at any time: its schedule, its accounts, and all of *)
(* it at the end.                                                           *)
VestingIsKept == ScheduleIsKept /\ EverythingIsAccounted /\ MaturedIsReleasable
=============================================================================
