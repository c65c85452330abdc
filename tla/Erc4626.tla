--------------------------------- MODULE Erc4626 ---------------------------------
(***************************************************************************)
(* A tokenised vault (contracts/src/token/erc20/extensions/erc4626.rs)     *)
(* composed with the `Erc20` of its shares, as examples/erc4626 does.  The *)
(* asset is another contract: an ERC-20 that moves what it is asked to     *)
(* move, or fails.  Anybody can also send assets to the vault.             *)
(***************************************************************************)
EXTENDS Erc20Ledger

CONSTANTS
  Vault,           \* contract::address()
  DecimalsOffset,  \* decimals_offset
  AssetSupply,     \* bound: the units of the asset in the hands of everybody
  Approvers, Spenders, Approvals,  \* bound: who approves whom, and how much
  VaultShares      \* bound: how many of its own shares the vault holds

ASSUME VaultAssumption == Vault \in Accounts
ASSUME OffsetAssumption == /\ DecimalsOffset \in Nat
                           /\ 10 ^ DecimalsOffset \in Nat \ {0}
ASSUME AssetSupplyAssumption == AssetSupply \in U256

VARIABLES
  token,  \* the storage of the Erc20 of the shares
  assets, \* [account]: balance_of, of the asset's contract
  sender  \* history: msg::sender() of the last call

vars == <<token, assets, sender>>

Users == Accounts \ {Vault}

Init == /\ token = EmptyToken
        /\ assets \in [Accounts -> 0 .. AssetSupply]
        /\ assets[Vault] = 0
        /\ SumOf(assets) = AssetSupply
        /\ sender \in Users

-----------------------------------------------------------------------------
(* `Math::mul_div`: the product has 512 bits, the result must fit in 256.   *)
MulDiv(x, y, denominator, rounding) ==
  (x * y + (IF rounding = "Ceil" THEN denominator - 1 ELSE 0)) \div denominator

TotalAssets   == assets[Vault]
VirtualShares == token.total_supply + 10 ^ DecimalsOffset
VirtualAssets == TotalAssets + 1

(* The two sums every conversion makes, and the range of its result.        *)
CanConvert(result) ==
  /\ VirtualShares <= MaxU256
  /\ VirtualAssets <= MaxU256
  /\ result <= MaxU256

ConvertToShares(amount, rounding) ==
  MulDiv(amount, VirtualShares, VirtualAssets, rounding)

ConvertToAssets(shares, rounding) ==
  MulDiv(shares, VirtualAssets, VirtualShares, rounding)

PreviewDeposit(amount) == ConvertToShares(amount, "Floor")

PreviewMintFloor(shares) == ConvertToAssets(shares, "Floor")  \* mutant: favours the caller

PreviewMint(shares) == ConvertToAssets(shares, "Ceil")

PreviewWithdraw(amount) == ConvertToShares(amount, "Ceil")

PreviewRedeemCeil(shares) == ConvertToAssets(shares, "Ceil")  \* mutant: favours the caller

PreviewRedeem(shares) == ConvertToAssets(shares, "Floor")

MaxWithdrawCeil(owner) ==  \* mutant: rounds up
  ConvertToAssets(token.balances[owner], "Ceil")

MaxWithdraw(owner) == ConvertToAssets(token.balances[owner], "Floor")

MaxRedeem(owner) == token.balances[owner]

(* The asset's contract                                                     *)
MoveAssets(from, to, amount) ==
  /\ amount <= assets[from]
  /\ to # ZERO
  /\ assets' = [[assets EXCEPT ![from] = @ - amount] EXCEPT ![to] = @ + amount]

-----------------------------------------------------------------------------
(* `_deposit`: the assets come first, then the shares are minted.           *)
EnterWith(caller, receiver, amount, shares) ==
  /\ MoveAssets(caller, Vault, amount)
  /\ CanMint(token, receiver, shares)
  /\ token' = Update(token, ZERO, receiver, shares)

Deposit(caller, receiver, amount) ==
  LET shares == PreviewDeposit(amount)
  IN  CanConvert(shares) /\ EnterWith(caller, receiver, amount, shares)

MintShares(caller, receiver, shares) ==
  LET amount == PreviewMint(shares)
  IN  CanConvert(amount) /\ EnterWith(caller, receiver, amount, shares)

(* `_withdraw`: the shares are burned before the assets leave.              *)
LeaveInAssets(caller, receiver, owner, amount, shares) ==  \* mutant: assets are spent
  /\ caller # owner => CanSpend(token, owner, caller, amount)
  /\ LET paid == IF caller = owner
                   THEN token ELSE Spend(token, owner, caller, amount)
     IN  /\ CanBurn(paid, owner, shares)
         /\ token' = Update(paid, owner, ZERO, shares)
  /\ MoveAssets(Vault, receiver, amount)

LeaveWith(caller, receiver, owner, amount, shares) ==
  /\ caller # owner => CanSpend(token, owner, caller, shares)
  /\ LET paid == IF caller = owner
                   THEN token ELSE Spend(token, owner, caller, shares)
     IN  /\ CanBurn(paid, owner, shares)
         /\ token' = Update(paid, owner, ZERO, shares)
  /\ MoveAssets(Vault, receiver, amount)

Withdraw(caller, receiver, owner, amount) ==
  LET shares == PreviewWithdraw(amount)
  IN  /\ CanConvert(MaxWithdraw(owner))
      /\ amount <= MaxWithdraw(owner)
      /\ CanConvert(shares)
      /\ LeaveWith(caller, receiver, owner, amount, shares)

Redeem(caller, receiver, owner, shares) ==
  LET amount == PreviewRedeem(shares)
  IN  /\ shares <= MaxRedeem(owner)
      /\ CanConvert(amount)
      /\ LeaveWith(caller, receiver, owner, amount, shares)

(* IErc20 of the shares                                                     *)
TransferShares(caller, to, shares) ==
  /\ CanTransfer(token, caller, to, shares)
  /\ token' = Update(token, caller, to, shares)
  /\ UNCHANGED assets

TransferSharesFrom(caller, from, to, shares) ==
  /\ CanSpend(token, from, caller, shares)
  /\ LET paid == Spend(token, from, caller, shares)
     IN  /\ CanTransfer(paid, from, to, shares)
         /\ token' = Update(paid, from, to, shares)
  /\ UNCHANGED assets

ApproveShares(caller, spender, shares) ==
  /\ CanApprove(caller, spender)
  /\ token' = Approve(token, caller, spender, shares)
  /\ UNCHANGED assets

(* A transfer of the asset, to the vault or not                             *)
Pay(from, to, amount) == MoveAssets(from, to, amount) /\ UNCHANGED token

VaultCall(caller) ==
  \E value \in U256, receiver, owner \in Accounts :
    \/ Deposit(caller, receiver, value)
    \/ MintShares(caller, receiver, value)
    \/ Withdraw(caller, receiver, owner, value)
    \/ Redeem(caller, receiver, owner, value)

Call(caller) ==
  \/ VaultCall(caller)
  \/ \E value \in U256, a \in Accounts :
       \/ TransferShares(caller, a, value)
       \/ ApproveShares(caller, a, value)
       \/ \E to \in Accounts : TransferSharesFrom(caller, a, to, value)
       \/ Pay(caller, a, value)

Next == \E caller \in Users : Call(caller) /\ sender' = caller

Spec == Init /\ [][Next]_vars

-----------------------------------------------------------------------------
TypeOK ==
  /\ token \in Tokens
  /\ assets \in [Accounts -> U256]
  /\ sender \in Users

(* The vault can always pay: what `max_withdraw` and `max_redeem` promise   *)
(* an account costs it no more shares than it has, and redeeming every      *)
(* share there is takes no more than the assets there are.                  *)
PromisesAreKept ==
  /\ TypeOK
  /\ \A a \in Accounts : PreviewWithdraw(MaxWithdraw(a)) <= MaxRedeem(a)
  /\ SumOf([a \in Accounts |-> PreviewRedeem(token.balances[a])]) <= TotalAssets

(* No call makes a share worth less to those who keep theirs: every rounding *)
(* is in favour of the vault.                                               *)
PriceNeverFalls ==
  [][ VirtualAssets' * VirtualShares >= VirtualAssets * VirtualShares' ]_vars

(* What an account has in hand and could redeem does not grow by its own    *)
(* calls on the vault for itself, in any order.                             *)
Worth(a) == assets[a] + PreviewRedeem(token.balances[a])

OwnCall(caller) ==
  \E value \in U256 :
    \/ Deposit(caller, caller, value)
    \/ MintShares(caller, caller, value)
    \/ Withdraw(caller, caller, caller, value)
    \/ Redeem(caller, caller, caller, value)

(* No call of an account on the vault for itself makes it richer: each      *)
(* rounds against the caller.                                               *)
CallersNeverGain ==
  [][ \A a \in Users : OwnCall(a) => Worth(a)' <= Worth(a) ]_vars

(* An account's shares are spent by itself or within what it approved.      *)
(* And what is spent is used up, share by share and not asset by asset,     *)
(* unless it was granted without a limit.                                   *)
SharesAreSpentWithLeave ==
  [][ \A a \in Users :
        LET spent == token.balances[a] - token'.balances[a]
            leave == token.allowances[a][sender']
        IN  spent > 0 =>
              \/ sender' = a
              \/ /\ spent <= leave
                 /\ token'.allowances[a][sender'] =
                      IF leave = MaxU256 THEN leave ELSE leave - spent ]_vars

-----------------------------------------------------------------------------
(* The state constraint of the run: for instance one user approves another, *)
(* of a few amounts, and the vault holds a few of its own shares.           *)
Bound ==
  /\ \A a, b \in Addresses :
       token.allowances[a][b]
         \in IF a \in Approvers /\ b \in Spenders THEN Approvals ELSE {0}
  /\ token.balances[Vault] <= VaultShares
=============================================================================
