------------------------------ MODULE Erc20Example ------------------------------
(***************************************************************************)
(* `Erc20`, `Capped` and `Pausable` (contracts/src/token/erc20/extensions/ *)
(* capped.rs, contracts/src/utils/pausable.rs) composed by hand, as        *)
(* examples/erc20 does: the components know nothing of each other, so each *)
(* public call has to ask for what the others promise.                     *)
(***************************************************************************)
EXTENDS Erc20Ledger

VARIABLES
  capped,  \* the storage of the Erc20
  cap,     \* of capped
  paused   \* of pausable

exampleVars == <<capped, cap, paused>>

(* The constructor of `Capped` refuses zero.                                *)
ExampleInit ==
  /\ capped = EmptyToken
  /\ cap \in U256 \ {0}
  /\ paused = FALSE

-----------------------------------------------------------------------------
MintUncapped(account, value) ==  \* mutant: the cap is not asked for
  /\ ~paused
  /\ CanMint(capped, account, value)
  /\ capped' = Update(capped, ZERO, account, value)
  /\ UNCHANGED <<cap, paused>>

Mint(account, value) ==
  /\ ~paused
  /\ capped.total_supply + value <= cap
  /\ CanMint(capped, account, value)
  /\ capped' = Update(capped, ZERO, account, value)
  /\ UNCHANGED <<cap, paused>>

Pause   == ~paused /\ paused' = TRUE /\ UNCHANGED <<capped, cap>>
Unpause == paused /\ paused' = FALSE /\ UNCHANGED <<capped, cap>>

Transfer(caller, to, value) ==
  /\ ~paused
  /\ CanTransfer(capped, caller, to, value)
  /\ capped' = Update(capped, caller, to, value)
  /\ UNCHANGED <<cap, paused>>

(* `approve` is not stopped by a pause.                                     *)
ApproveCall(caller, spender, value) ==
  /\ CanApprove(caller, spender)
  /\ capped' = Approve(capped, caller, spender, value)
  /\ UNCHANGED <<cap, paused>>

TransferFrom(caller, from, to, value) ==
  /\ ~paused
  /\ CanSpend(capped, from, caller, value)
  /\ LET paid == Spend(capped, from, caller, value)
     IN  /\ CanTransfer(paid, from, to, value)
         /\ capped' = Update(paid, from, to, value)
  /\ UNCHANGED <<cap, paused>>

Burn(caller, value) ==
  /\ ~paused
  /\ CanBurn(capped, caller, value)
  /\ capped' = Update(capped, caller, ZERO, value)
  /\ UNCHANGED <<cap, paused>>

BurnFrom(caller, account, value) ==
  /\ ~paused
  /\ CanSpend(capped, account, caller, value)
  /\ LET paid == Spend(capped, account, caller, value)
     IN  /\ CanBurn(paid, account, value)
         /\ capped' = Update(paid, account, ZERO, value)
  /\ UNCHANGED <<cap, paused>>

ExampleNext ==
  \/ Pause \/ Unpause
  \/ \E value \in U256, caller \in Accounts :
       \/ Burn(caller, value)
       \/ \E a \in Addresses :
            \/ Mint(a, value)
            \/ Transfer(caller, a, value)
            \/ ApproveCall(caller, a, value)
            \/ BurnFrom(caller, a, value)
            \/ \E to \in Addresses : TransferFrom(caller, a, to, value)

ExampleSpec == ExampleInit /\ [][ExampleNext]_exampleVars

-----------------------------------------------------------------------------
CappedTypeOK == capped \in Tokens /\ cap \in U256 /\ paused \in BOOLEAN

(* What is in circulation is within the cap, counted by the balances and    *)
(* not only by the supply that `mint` compares with it.                     *)
CapIsKept == CappedTypeOK /\ SumOf(capped.balances) <= cap

(* The cap holds after every call; and while the token is paused nothing    *)
(* moves, in or out of anybody's account, on any path, and no allowance is  *)
(* used up: an owner can only grant it anew.                                *)
CapAndPauseHold ==
  [][ /\ CapIsKept'
      /\ paused /\ paused' =>
           /\ capped'.balances = capped.balances
           /\ \A o, s \in Accounts :
                capped'.allowances[o][s] # capped.allowances[o][s] =>
                  \E value \in U256 : ApproveCall(o, s, value) ]_exampleVars
=============================================================================
