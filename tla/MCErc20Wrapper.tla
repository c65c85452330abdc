----------------------------- MODULE MCErc20Wrapper -----------------------------
(* Three contracts, of which a behaviour runs one: a SafeErc20 over every   *)
(* kind of token, a wrapper over the kinds that differ for it, and the      *)
(* capped and pausable token.  A user, a contract that answers callbacks,   *)
(* and the contract itself.                                                 *)
EXTENDS Erc20Wrapper, Erc20Example, TLC

CONSTANTS alice, box, this, zero

MCAddresses == {alice, box, this, zero}

(* Bounds: who approves whom, and the underlying tokens of the wrapper.     *)
MCGrants      == {<<alice, this>>, <<this, alice>>, <<this, box>>, <<this, zero>>}
MCUnderlyings == {"Erc20", "NoReturn", "ReturnFalse", "NoCode"}

VARIABLE which

Idle == capped = EmptyToken /\ cap = 0 /\ paused = FALSE

MCInit ==
  \/ which = "safe" /\ WrapperInit /\ Idle
  \/ which = "wrapper" /\ WrapperInit /\ Idle /\ mock \in MCUnderlyings
  \/ which = "example" /\ WrapperInit /\ ExampleInit /\ mock = "NoCode"

MCNext ==
  /\ UNCHANGED which
  /\ \/ which = "safe" /\ SafeNext /\ UNCHANGED <<wrapped, exampleVars>>
     \/ which = "wrapper" /\ WrapperNext /\ UNCHANGED exampleVars
     \/ which = "example" /\ ExampleNext /\ UNCHANGED wrapperVars

MCSpec == MCInit /\ [][MCNext]_<<wrapperVars, which, exampleVars>>

(* Bound: as many approvals of the capped token as of the wrapped one.      *)
MCBound ==
  \A a, b \in Addresses : capped.allowances[a][b] # 0 => <<a, b>> = <<alice, this>>
=============================================================================
