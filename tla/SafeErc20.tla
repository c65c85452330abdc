------------------------------- MODULE SafeErc20 -------------------------------
(***************************************************************************)
(* `SafeErc20` (contracts/src/token/erc20/utils/safe_erc20.rs), in a       *)
(* contract that exposes it as examples/safe-erc20 does: calls of a token  *)
(* that may answer as it likes, or be no contract at all.  A result says   *)
(* whether the Rust function returned Ok, and the storage of the token     *)
(* then; when it did not, the call is undone unless it was a `try_` one.   *)
(***************************************************************************)
EXTENDS Erc20Ledger

CONSTANTS
  Willing,   \* the accounts that answer ERC-1363's callbacks as they should
  CONTRACT,  \* contract::address()
  HasCode,   \* the accounts that are contracts
  Grants     \* bound: the pairs of an owner and a spender it may approve

ASSUME WillingAssumption == Willing \subseteq Accounts
ASSUME ContractAssumption == CONTRACT \in Accounts /\ CONTRACT \in HasCode

-----------------------------------------------------------------------------
(* ERC-20 contracts written by others, as a caller sees them: some answer   *)
(* `true`, some nothing, some `false`, some revert.  The kinds are the      *)
(* mocks the tests deploy (examples/safe-erc20/tests/mock), Solidity        *)
(* contracts over an ordinary ERC-20, whose storage is that of              *)
(* Erc20Ledger; and an address without code.                                *)
(*                                                                          *)
(* plain:  what `transfer`, `transferFrom` and `approve` answer             *)
(* called: what the ERC-1363 functions answer; "reverts" if there are none  *)
(* resets: the functions that refuse to replace an allowance but by zero,   *)
(*         as USDT does                                                     *)
(* A function that answers "false" does nothing.                            *)
Mocks ==
  [ Erc20          |-> [plain |-> "true",    called |-> "reverts", resets |-> {}],
    NoReturn       |-> [plain |-> "nothing", called |-> "reverts", resets |-> {}],
    ReturnFalse    |-> [plain |-> "false",   called |-> "reverts", resets |-> {}],
    ForceApprove   |-> [plain |-> "true",    called |-> "reverts", resets |-> {"approve"}],
    Erc1363        |-> [plain |-> "true",    called |-> "true",    resets |-> {}],
    Erc1363NoReturn    |-> [plain |-> "true", called |-> "nothing", resets |-> {}],
    Erc1363ReturnFalse |-> [plain |-> "true", called |-> "false",   resets |-> {}],
    Erc1363ReturnFalseOnErc20 |->
      [plain |-> "false", called |-> "reverts", resets |-> {}],
    Erc1363ForceApprove |->
      [plain |-> "true", called |-> "true", resets |-> {"approveAndCall"}],
    NoCode         |-> [plain |-> "nothing", called |-> "nothing", resets |-> {}] ]

MockNames == DOMAIN Mocks

(* What a low-level call that should lead from t to `after` brings back.  A *)
(* call of an address without code succeeds, and does nothing.              *)
Reply(mock, answer, can, t, after) ==
  IF mock = "NoCode" \/ answer = "false"
    THEN [data |-> answer, token |-> t]
  ELSE IF can /\ answer # "reverts"
    THEN [data |-> answer, token |-> after]
    ELSE [data |-> "reverts", token |-> t]

(* `msg.sender` is the first argument of each.                              *)
transfer(mock, t, caller, to, value) ==
  Reply(mock, Mocks[mock].plain, CanTransfer(t, caller, to, value),
        t, Update(t, caller, to, value))

transferFrom(mock, t, caller, from, to, value) ==
  LET paid == Spend(t, from, caller, value)
  IN  Reply(mock, Mocks[mock].plain,
            CanSpend(t, from, caller, value) /\ CanTransfer(paid, from, to, value),
            t, Update(paid, from, to, value))

MayReplace(mock, function, t, owner, spender, value) ==
  function \in Mocks[mock].resets => value = 0 \/ t.allowances[owner][spender] = 0

approve(mock, t, caller, spender, value) ==
  Reply(mock, Mocks[mock].plain,
        /\ CanApprove(caller, spender)
        /\ MayReplace(mock, "approve", t, caller, spender, value),
        t, Approve(t, caller, spender, value))

(* ERC-1363: as above, and then the other side must answer its callback.    *)
transferAndCall(mock, t, caller, to, value) ==
  Reply(mock, Mocks[mock].called,
        CanTransfer(t, caller, to, value) /\ to \in Willing,
        t, Update(t, caller, to, value))

transferFromAndCall(mock, t, caller, from, to, value) ==
  LET paid == Spend(t, from, caller, value)
  IN  Reply(mock, Mocks[mock].called,
            /\ CanSpend(t, from, caller, value)
            /\ CanTransfer(paid, from, to, value)
            /\ to \in Willing,
            t, Update(paid, from, to, value))

approveAndCall(mock, t, caller, spender, value) ==
  Reply(mock, Mocks[mock].called,
        /\ CanApprove(caller, spender)
        /\ MayReplace(mock, "approveAndCall", t, caller, spender, value)
        /\ spender \in Willing,
        t, Approve(t, caller, spender, value))

-----------------------------------------------------------------------------
VARIABLES
  mock,    \* which token it is
  foreign  \* the token's storage

safeVars == <<mock, foreign>>

SafeInit == mock \in MockNames /\ foreign = EmptyToken

-----------------------------------------------------------------------------
(* `call_optional_return`                                                   *)
CallOptionalReturnOfAnyone(reply) ==  \* mutant: has_code is not asked for
  [ok |-> reply.data \in {"nothing", "true"}, token |-> reply.token]

CallOptionalReturn(reply) ==
  [ ok    |-> mock # "NoCode" /\ reply.data \in {"nothing", "true"},
    token |-> reply.token ]

(* The typed interface of the *_relaxed functions wants the word `true`.    *)
CallErc1363(reply) ==
  [ok |-> mock # "NoCode" /\ reply.data = "true", token |-> reply.token]

Failure(t) == [ok |-> FALSE, token |-> t]

SafeTransfer(t, to, value) ==
  CallOptionalReturn(transfer(mock, t, CONTRACT, to, value))

SafeTransferFrom(t, from, to, value) ==
  CallOptionalReturn(transferFrom(mock, t, CONTRACT, from, to, value))

SafeApprove(t, spender, value) ==
  CallOptionalReturn(approve(mock, t, CONTRACT, spender, value))

(* `force_approve`: the allowance is taken back first when it must be.      *)
ForceApprove(t, spender, value) ==
  LET first == SafeApprove(t, spender, value)
      reset == SafeApprove(first.token, spender, 0)
  IN  IF first.ok THEN first
      ELSE IF reset.ok THEN SafeApprove(reset.token, spender, value)
      ELSE Failure(t)

(* `allowance` fails without code; a sum beyond U256::MAX panics.           *)
SafeIncreaseAllowance(t, spender, value) ==
  LET current == t.allowances[CONTRACT][spender]
  IN  IF mock # "NoCode" /\ current + value <= MaxU256
        THEN ForceApprove(t, spender, current + value)
        ELSE Failure(t)

SafeDecreaseAllowance(t, spender, requested_decrease) ==
  LET current == t.allowances[CONTRACT][spender]
  IN  IF mock # "NoCode" /\ requested_decrease <= current
        THEN ForceApprove(t, spender, current - requested_decrease)
        ELSE Failure(t)

TransferAndCallRelaxed(t, to, value) ==
  IF to \in HasCode
    THEN CallErc1363(transferAndCall(mock, t, CONTRACT, to, value))
    ELSE SafeTransfer(t, to, value)

TransferFromAndCallRelaxed(t, from, to, value) ==
  IF to \in HasCode
    THEN CallErc1363(transferFromAndCall(mock, t, CONTRACT, from, to, value))
    ELSE SafeTransferFrom(t, from, to, value)

ApproveAndCallRelaxed(t, spender, value) ==
  IF spender \in HasCode
    THEN CallErc1363(approveAndCall(mock, t, CONTRACT, spender, value))
    ELSE ForceApprove(t, spender, value)

-----------------------------------------------------------------------------
(* A call that fails is undone; a `try_` one returns false and stands.      *)
Commit(result) == result.ok /\ foreign' = result.token /\ UNCHANGED mock
Try(result)    == foreign' = result.token /\ UNCHANGED mock

(* The functions of the contract, with any arguments                        *)
TransferCall(to, value) ==
  \/ Commit(SafeTransfer(foreign, to, value))
  \/ Try(SafeTransfer(foreign, to, value))
  \/ Commit(TransferAndCallRelaxed(foreign, to, value))

TransferFromCall(from, to, value) ==
  \/ Commit(SafeTransferFrom(foreign, from, to, value))
  \/ Try(SafeTransferFrom(foreign, from, to, value))
  \/ Commit(TransferFromAndCallRelaxed(foreign, from, to, value))

AllowanceCall(spender, value) ==
  \/ Commit(ForceApprove(foreign, spender, value))
  \/ Commit(SafeIncreaseAllowance(foreign, spender, value))
  \/ Commit(SafeDecreaseAllowance(foreign, spender, value))
  \/ Commit(ApproveAndCallRelaxed(foreign, spender, value))

(* What the others do with the token: the mocks' `mint`, for anybody, and   *)
(* their own transfers and approvals.                                       *)
ForeignMint(account, value) ==
  /\ mock # "NoCode" /\ CanMint(foreign, account, value)
  /\ foreign' = Update(foreign, ZERO, account, value)
  /\ UNCHANGED mock

ForeignCall(caller, account, value) ==
  \/ foreign' = transfer(mock, foreign, caller, account, value).token
  \/ /\ <<caller, account>> \in Grants
     /\ foreign' = approve(mock, foreign, caller, account, value).token
  \/ \E to \in Accounts :
       foreign' = transferFrom(mock, foreign, caller, account, to, value).token

ForeignNext ==
  \E account \in Accounts, value \in U256 :
    \/ ForeignMint(account, value)
    \/ \E caller \in Accounts \ {CONTRACT} :
         ForeignCall(caller, account, value) /\ UNCHANGED mock

SafeNext ==
  \/ ForeignNext
  \/ \E value \in U256, a \in Addresses :
       \/ TransferCall(a, value)
       \/ <<CONTRACT, a>> \in Grants /\ AllowanceCall(a, value)
       \/ \E to \in Addresses : TransferFromCall(a, to, value)

SafeSpec == SafeInit /\ [][SafeNext]_safeVars

-----------------------------------------------------------------------------
SafeTypeOK == mock \in MockNames /\ foreign \in Tokens

(* Exactly `value` went from one account to the other, of all the balances. *)
Went(t, after, from, to, value) ==
  /\ \A a \in Addresses :
       after.balances[a] = t.balances[a] + (IF a = to THEN value ELSE 0)
                                         - (IF a = from THEN value ELSE 0)
  /\ after.total_supply = t.total_supply

Granted(t, after, spender, value) ==
  after = [t EXCEPT !.allowances[CONTRACT][spender] = value]

(* Whatever kind of token it is, a safe call that returns Ok did what it    *)
(* says, in full: no silent success on an address without code or a token   *)
(* that answers `false`, no half-done change of an allowance.  A transfer   *)
(* that does not has moved nothing, so that the false of a `try_` call can  *)
(* be relied on.  And force_approve does succeed with every token that can  *)
(* approve at all, also with one that wants the old allowance taken back.   *)
SafeCallsDoWhatTheySay ==
  /\ SafeTypeOK
  /\ \A a \in Addresses, value \in U256 :
       LET t      == foreign
           now    == t.allowances[CONTRACT][a]
           forced == ForceApprove(t, a, value)
           more   == SafeIncreaseAllowance(t, a, value)
           less   == SafeDecreaseAllowance(t, a, value)
           called == ApproveAndCallRelaxed(t, a, value)
           sent   == SafeTransfer(t, a, value)
           given  == TransferAndCallRelaxed(t, a, value)
       IN
       /\ sent.ok => Went(t, sent.token, CONTRACT, a, value)
       /\ given.ok => Went(t, given.token, CONTRACT, a, value)
       /\ ~sent.ok => sent.token = t
       /\ \A from \in Accounts :
            LET fetched == SafeTransferFrom(t, from, a, value)
                pulled  == TransferFromAndCallRelaxed(t, from, a, value)
            IN  /\ fetched.ok => Went(t, fetched.token, from, a, value)
                /\ pulled.ok => Went(t, pulled.token, from, a, value)
                /\ ~fetched.ok => fetched.token = t
       /\ forced.ok => Granted(t, forced.token, a, value)
       /\ more.ok => Granted(t, more.token, a, now + value)
       /\ less.ok => Granted(t, less.token, a, now - value)
       /\ called.ok => Granted(t, called.token, a, value)
       /\ a # ZERO /\ mock # "NoCode" /\ Mocks[mock].plain # "false" => forced.ok
=============================================================================
