--------------------------- MODULE Erc20CustodyProofs ---------------------------
(***************************************************************************)
(* The contracts that take one token and issue another against it, for any *)
(* accounts and any word size: the ERC-4626 vault, with any offset, the    *)
(* wrapper, over any of the foreign tokens, and the SafeErc20 it calls     *)
(* them with; and the token that issues within a cap.                      *)
(***************************************************************************)
EXTENDS Erc4626, Erc20Wrapper, Erc20Example

-----------------------------------------------------------------------------
(* The vault.  The price of a share never falls, and what a caller gets for *)
(* its shares it paid for: rounding is against the caller, on every path.   *)
(* What is needed of the shares is that their ledger is sound, so that a    *)
(* burn takes exactly the burned shares from the supply.                    *)

(* The unit of the virtual shares, opaque to the provers.                   *)
Unit == 10 ^ DecimalsOffset

(* A power of ten is a positive number.                                     *)
LEMMA UnitType == Unit \in Nat \ {0}
BY OffsetAssumption DEF Unit

(* Rounding down and up, as inequalities between products.                  *)
LEMMA FloorBound ==
  ASSUME NEW x \in Nat, NEW y \in Nat, NEW d \in Nat \ {0}
  PROVE  /\ MulDiv(x, y, d, "Floor") \in Nat
         /\ MulDiv(x, y, d, "Floor") * d <= x * y
<1> DEFINE n == x * y
<1>1. n \in Nat
  OBVIOUS
<1>2. MulDiv(x, y, d, "Floor") = n \div d
  BY <1>1 DEF MulDiv
<1> HIDE DEF n
<1>3. (n \div d) \in Nat /\ (n \div d) * d <= n
  BY <1>1
<1> QED
  BY <1>2, <1>3 DEF n

(* The same, rounded up.                                                    *)
LEMMA CeilBound ==
  ASSUME NEW x \in Nat, NEW y \in Nat, NEW d \in Nat \ {0}
  PROVE  /\ MulDiv(x, y, d, "Ceil") \in Nat
         /\ MulDiv(x, y, d, "Ceil") * d >= x * y
<1> DEFINE n == x * y
           m == n + (d - 1)
<1>1. n \in Nat /\ m \in Nat
  OBVIOUS
<1>2. MulDiv(x, y, d, "Ceil") = m \div d
  BY <1>1 DEF MulDiv
<1> HIDE DEF n
<1>3. (m \div d) \in Nat /\ (m \div d) * d > m - d
  <2> HIDE DEF m
  <2> QED
    BY <1>1
<1>4. (m \div d) * d >= n
  <2>1. ((m \div d) * d) \in Int
    BY <1>3
  <2> DEFINE k == (m \div d) * d
  <2>2. k \in Int /\ k > m - d
    BY <1>3, <2>1
  <2> HIDE DEF k
  <2>3. k >= n
    BY <1>1, <2>2
  <2> QED
    BY <2>3 DEF k
<1> QED
  BY <1>2, <1>3, <1>4 DEF n

(* A quotient rounded down is the largest number within the bound, and one  *)
(* rounded up the smallest.                                                 *)
LEMMA FloorIsLargest ==
  ASSUME NEW x \in Nat, NEW y \in Nat, NEW d \in Nat \ {0}, NEW p \in Int, p * d <= x * y
  PROVE  p <= MulDiv(x, y, d, "Floor")
<1> DEFINE n == x * y
           k == n \div d
<1>1. n \in Nat /\ MulDiv(x, y, d, "Floor") = k
  BY DEF MulDiv
<1> HIDE DEF n
<1>2. k \in Nat /\ n < k * d + d
  BY <1>1
<1> HIDE DEF k
<1>3. ASSUME p >= k + 1 PROVE FALSE
  <2> DEFINE e == p - (k + 1)
  <2>1. e \in Nat /\ p = k + 1 + e
    BY <1>2, <1>3
  <2> HIDE DEF e
  <2>2. p * d = k * d + d + e * d /\ e * d \in Nat /\ k * d \in Nat
    BY <1>2, <2>1
  <2> QED
    BY <1>1, <1>2, <2>2 DEF n
<1> QED
  BY <1>1, <1>2, <1>3

(* The other bound of a quotient rounded up.                                *)
LEMMA CeilIsLeast ==
  ASSUME NEW x \in Nat, NEW y \in Nat, NEW d \in Nat \ {0}, NEW p \in Nat, x * y <= p * d
  PROVE  MulDiv(x, y, d, "Ceil") <= p
<1> DEFINE n == x * y
           m == n + (d - 1)
           k == m \div d
<1>1. n \in Nat /\ m \in Nat /\ MulDiv(x, y, d, "Ceil") = k
  BY DEF MulDiv
<1>2. m < p * d + d
  <2> DEFINE z == p * d
  <2>1. z \in Nat /\ n <= z
    OBVIOUS
  <2> HIDE DEF z, n
  <2>2. m < z + d
    BY <1>1, <2>1
  <2> QED
    BY <2>2 DEF z
<1> HIDE DEF m
<1>3. k \in Nat /\ k * d <= m
  BY <1>1
<1> HIDE DEF k
<1>4. ASSUME k >= p + 1 PROVE FALSE
  <2> DEFINE e == k - (p + 1)
  <2>1. e \in Nat /\ k = p + 1 + e
    BY <1>3, <1>4
  <2> HIDE DEF e
  <2>2. k * d = p * d + d + e * d /\ e * d \in Nat /\ p * d \in Nat
    BY <1>3, <2>1
  <2> QED
    BY <1>1, <1>2, <1>3, <2>2
<1> QED
  BY <1>1, <1>3, <1>4

(* The heart of CallersNeverGain: an account with b of the S shares of V    *)
(* assets that pays x for s more, or is paid -x for -s of them, at a price  *)
(* that favours the vault, cannot redeem more than it paid on top of what   *)
(* it could.                                                                *)
LEMMA NoGain ==
  ASSUME NEW V \in Nat, NEW S \in Nat \ {0}, NEW b \in Nat, b <= S,
         NEW x \in Int, NEW s \in Int, S + s > 0, s * V <= x * S,
         NEW q \in Int, q * (S + s) <= (b + s) * (V + x)
  PROVE  (q - x) * S <= b * V
<1> DEFINE p == q - x
           D == S + s
<1>1. p \in Int /\ D \in Nat \ {0}
  OBVIOUS
<1>2. p * D <= b * V + b * x + s * V - x * S
  <2>1. p * D = q * D - x * D /\ x * D = x * S + x * s
    OBVIOUS
  <2>2. (b + s) * (V + x) = b * V + b * x + s * V + x * s
    OBVIOUS
  <2>3. /\ b * V \in Int /\ b * x \in Int /\ s * V \in Int /\ x * s \in Int
        /\ x * S \in Int /\ x * D \in Int /\ q * D \in Int
    OBVIOUS
  <2> QED
    BY <2>1, <2>2, <2>3
<1>3. (S - b) * (x * S - s * V) \in Nat
  <2>1. S - b \in Nat /\ x * S - s * V \in Nat
    <3>1. s * V \in Int /\ x * S \in Int
      OBVIOUS
    <3> QED
      BY <3>1
  <2> QED
    BY <2>1
<1>4. S * (b * V + b * x + s * V - x * S) + (S - b) * (x * S - s * V) = (b * V) * D
  OBVIOUS
<1>5. S * (p * D) <= S * (b * V + b * x + s * V - x * S)
  <2> DEFINE u == p * D
             v == b * V + b * x + s * V - x * S
  <2>1. u \in Int /\ v \in Int
    BY <1>1
  <2> HIDE DEF u, v
  <2>2. ASSUME u <= v PROVE S * u <= S * v
    <3>1. v - u \in Nat /\ S * v = S * u + S * (v - u)
      BY <2>1, <2>2
    <3> QED
      BY <2>1, <3>1
  <2> QED
    BY <1>2, <2>2 DEF u, v
<1>6. (p * S) * D <= (b * V) * D
  <2>1. (p * S) * D = S * (p * D)
    BY <1>1
  <2> DEFINE u == S * (p * D)
             v == S * (b * V + b * x + s * V - x * S)
             w == (S - b) * (x * S - s * V)
             z == (b * V) * D
  <2>2. u \in Int /\ v \in Int /\ w \in Nat /\ z \in Int /\ v + w = z /\ u <= v
    BY <1>1, <1>3, <1>4, <1>5
  <2> HIDE DEF u, v, w, z
  <2>3. u <= z
    BY <2>2
  <2> QED
    BY <2>1, <2>3 DEF u, z
<1> HIDE DEF p, D
<1>7. p * S <= b * V
  <2> DEFINE y == p * S
             z == b * V
  <2>1. y \in Int /\ z \in Int /\ y * D <= z * D
    BY <1>1, <1>6
  <2> HIDE DEF y, z
  <2>2. ASSUME y > z PROVE FALSE
    <3>1. y - z \in Nat \ {0} /\ y * D = z * D + (y - z) * D
      BY <1>1, <2>1, <2>2
    <3>2. (y - z) * D \in Nat \ {0} /\ z * D \in Int
      BY <1>1, <2>1, <3>1
    <3> QED
      BY <2>1, <3>1, <3>2
  <2> QED
    BY <2>1, <2>2 DEF y, z
<1> QED
  BY <1>7 DEF p

(* What comes in pays for the shares it makes; the shares that go pay for   *)
(* what leaves.                                                             *)
LEMMA EnterPays ==
  ASSUME NEW d \in Nat, NEW m \in Nat, NEW a \in Nat, NEW s \in Nat, d * s <= a * m
  PROVE  (d + a) * m >= d * (m + s)
<1>1. (d + a) * m = d * m + a * m /\ d * (m + s) = d * m + d * s
  OBVIOUS
<1> QED
  BY <1>1

(* And when shares leave.                                                   *)
LEMMA LeavePays ==
  ASSUME NEW d \in Nat, NEW m \in Nat, NEW a \in Nat, NEW s \in Nat, d * s >= a * m
  PROVE  (d - a) * m >= d * (m - s)
<1>1. (d - a) * m = d * m - a * m /\ d * (m - s) = d * m - d * s
  OBVIOUS
<1> QED
  BY <1>1

-----------------------------------------------------------------------------
(* The invariant: a sound ledger of the shares, and natural balances of the *)
(* asset.                                                                   *)
Good == Sound(token) /\ assets \in [Accounts -> Nat]

(* The invariant gives the quantities of the price their types.             *)
LEMMA GoodTypes ==
  ASSUME Good
  PROVE  /\ token.total_supply \in Nat /\ token.balances \in [Addresses -> U256]
         /\ VirtualShares = token.total_supply + Unit
         /\ VirtualShares \in Nat \ {0}
         /\ VirtualAssets = assets[Vault] + 1
         /\ VirtualAssets \in Nat \ {0}
<1>1. Unit \in Nat \ {0} /\ Vault \in Accounts /\ MaxU256 \in Nat
  BY UnitType, VaultAssumption, MaxU256Assumption
<1>2. token.total_supply \in Nat /\ token.balances \in [Addresses -> U256]
  BY <1>1 DEF Good, Sound, Tokens, U256
<1>3. VirtualShares = token.total_supply + Unit
  BY DEF VirtualShares, Unit
<1>4. assets[Vault] \in Nat /\ VirtualAssets = assets[Vault] + 1
  BY <1>1 DEF Good, VirtualAssets, TotalAssets
<1> QED
  BY <1>1, <1>2, <1>3, <1>4

(* A movement of the asset moves just that.                                 *)
LEMMA MoveIsExact ==
  ASSUME Good, NEW from \in Accounts, NEW to \in Accounts, NEW amount \in Nat,
         MoveAssets(from, to, amount)
  PROVE  /\ assets' \in [Accounts -> Nat]
         /\ from = to => assets' = assets
         /\ from # to => /\ assets'[from] = assets[from] - amount
                         /\ assets'[to] = assets[to] + amount
         /\ \A a \in Accounts \ {from, to} : assets'[a] = assets[a]
<1> DEFINE f == [assets EXCEPT ![from] = @ - amount]
<1>1. assets \in [Accounts -> Nat]
  BY DEF Good
<1>2. amount <= assets[from] /\ assets' = [f EXCEPT ![to] = @ + amount]
  BY DEF MoveAssets
<1>3. /\ f \in [Accounts -> Nat]
      /\ f[from] = assets[from] - amount
      /\ \A a \in Accounts \ {from} : f[a] = assets[a]
  BY <1>1, <1>2
<1> HIDE DEF f
<1>4. /\ assets' \in [Accounts -> Nat]
      /\ assets'[to] = f[to] + amount
      /\ \A a \in Accounts \ {to} : assets'[a] = f[a]
  BY <1>2, <1>3
<1>5. ASSUME from = to PROVE assets' = assets
  <2>1. \A a \in Accounts : assets'[a] = assets[a]
    BY <1>1, <1>3, <1>4, <1>5
  <2> QED
    BY <1>1, <1>4, <2>1
<1> QED
  BY <1>1, <1>3, <1>4, <1>5

-----------------------------------------------------------------------------
Fair == VirtualAssets' * VirtualShares >= VirtualAssets * VirtualShares'

(* The virtual amounts of the next state, from those of this one.           *)
LEMMA NextPrice ==
  ASSUME Good, Good'
  PROVE  /\ VirtualShares' = VirtualShares + token'.total_supply - token.total_supply
         /\ VirtualAssets' = VirtualAssets + assets'[Vault] - assets[Vault]
<1>1. /\ VirtualShares' = token'.total_supply + Unit
      /\ VirtualAssets' = assets'[Vault] + 1
  BY DEF VirtualShares, VirtualAssets, TotalAssets, Unit
<1>2. token'.total_supply \in Nat /\ token.total_supply \in Nat
  BY MaxU256Assumption DEF Good, Sound, Tokens, U256
<1>3. assets'[Vault] \in Nat /\ assets[Vault] \in Nat
  BY VaultAssumption DEF Good
<1>4. /\ VirtualShares = token.total_supply + Unit
      /\ VirtualAssets = assets[Vault] + 1 /\ Unit \in Nat
  BY GoodTypes, UnitType
<1> QED
  BY <1>1, <1>2, <1>3, <1>4

(* `_deposit`, for shares the amount pays for                               *)
LEMMA EnterIsFair ==
  ASSUME Good, NEW caller \in Users, NEW receiver \in Accounts,
         NEW amount \in Nat, NEW shares \in U256,
         EnterWith(caller, receiver, amount, shares),
         VirtualAssets * shares <= amount * VirtualShares
  PROVE  Good' /\ Fair
<1>1. /\ receiver \in Addresses /\ receiver # ZERO /\ ZERO \in Addresses
      /\ caller \in Accounts /\ caller # Vault /\ Vault \in Accounts
      /\ shares \in Nat
  BY AddressesAssumption, VaultAssumption, MaxU256Assumption
  DEF Users, Accounts, U256
<1>2. CanUpdate(token, ZERO, receiver, shares) /\ token' = Update(token, ZERO, receiver, shares)
  BY DEF EnterWith, CanMint
<1>3. Sound(token') /\ token'.total_supply = token.total_supply + shares
  <2>1. Sound(token)
    BY DEF Good
  <2>2. /\ Sound(Update(token, ZERO, receiver, shares))
        /\ Update(token, ZERO, receiver, shares).total_supply
             = token.total_supply + (IF ZERO = ZERO THEN shares ELSE 0)
                                  - (IF receiver = ZERO THEN shares ELSE 0)
    BY <1>1, <1>2, <2>1, UpdateIsExact
  <2> QED
    BY <1>1, <1>2, <2>2, GoodTypes
<1>4. /\ assets' \in [Accounts -> Nat]
      /\ assets'[Vault] = assets[Vault] + amount
  BY <1>1, MoveIsExact DEF EnterWith
<1>5. Good'
  BY <1>3, <1>4 DEF Good
<1>6. /\ VirtualShares' = VirtualShares + shares
      /\ VirtualAssets' = VirtualAssets + amount
  BY <1>1, <1>3, <1>4, <1>5, NextPrice, GoodTypes, VaultAssumption DEF Good
<1>7. (VirtualAssets + amount) * VirtualShares >= VirtualAssets * (VirtualShares + shares)
  BY <1>1, GoodTypes, EnterPays
<1> QED
  BY <1>5, <1>6, <1>7 DEF Fair

(* `_withdraw`, for an amount the shares pay for                            *)
LEMMA LeaveIsFair ==
  ASSUME Good, NEW caller \in Users, NEW receiver \in Accounts, NEW owner \in Accounts,
         NEW amount \in Nat, NEW shares \in U256,
         LeaveWith(caller, receiver, owner, amount, shares),
         VirtualAssets * shares >= amount * VirtualShares
  PROVE  Good' /\ Fair
<1> DEFINE paid == IF caller = owner THEN token ELSE Spend(token, owner, caller, shares)
<1>1. /\ owner \in Addresses /\ owner # ZERO /\ ZERO \in Addresses
      /\ caller \in Addresses /\ Vault \in Accounts /\ shares \in Nat
  BY AddressesAssumption, VaultAssumption, MaxU256Assumption
  DEF Users, Accounts, U256
<1>2. Sound(paid) /\ paid.total_supply = token.total_supply
  BY <1>1, SpendIsSound DEF Good, LeaveWith
<1>3. CanUpdate(paid, owner, ZERO, shares) /\ token' = Update(paid, owner, ZERO, shares)
  BY DEF LeaveWith, CanBurn
<1> HIDE DEF paid
<1>4. Sound(token') /\ token'.total_supply = token.total_supply - shares
  <2>1. /\ Sound(Update(paid, owner, ZERO, shares))
        /\ Update(paid, owner, ZERO, shares).total_supply
             = paid.total_supply + (IF owner = ZERO THEN shares ELSE 0)
                                 - (IF ZERO = ZERO THEN shares ELSE 0)
    BY <1>1, <1>2, <1>3, UpdateIsExact
  <2> QED
    BY <1>1, <1>2, <1>3, <2>1, GoodTypes
<1>5. /\ assets' \in [Accounts -> Nat]
      /\ assets'[Vault] = IF receiver = Vault THEN assets[Vault] ELSE assets[Vault] - amount
  BY <1>1, MoveIsExact DEF LeaveWith
<1>6. Good'
  BY <1>4, <1>5 DEF Good
<1>7. /\ VirtualShares' = VirtualShares - shares
      /\ VirtualAssets' = IF receiver = Vault THEN VirtualAssets ELSE VirtualAssets - amount
  BY <1>1, <1>4, <1>5, <1>6, NextPrice, GoodTypes, VaultAssumption DEF Good
<1>8. (VirtualAssets - amount) * VirtualShares >= VirtualAssets * (VirtualShares - shares)
  BY <1>1, GoodTypes, LeavePays
<1>9. VirtualAssets * VirtualShares >= VirtualAssets * (VirtualShares - shares)
  <2>1. VirtualAssets * (VirtualShares - shares)
          = VirtualAssets * VirtualShares - VirtualAssets * shares
    BY <1>1, GoodTypes
  <2>2. VirtualAssets * shares \in Nat /\ VirtualAssets * VirtualShares \in Nat
    BY <1>1, GoodTypes
  <2> QED
    BY <2>1, <2>2
<1> QED
  BY <1>6, <1>7, <1>8, <1>9 DEF Fair

-----------------------------------------------------------------------------
(* What a call does to the vault, and the rounding it does it with.         *)
Entering(caller, receiver, amount, shares) ==
  /\ amount \in Nat /\ shares \in U256
  /\ EnterWith(caller, receiver, amount, shares)
  /\ VirtualAssets * shares <= amount * VirtualShares

Leaving(caller, receiver, owner, amount, shares) ==
  /\ amount \in Nat /\ shares \in U256
  /\ LeaveWith(caller, receiver, owner, amount, shares)
  /\ VirtualAssets * shares >= amount * VirtualShares

(* A deposit mints shares rounded down.                                     *)
LEMMA DepositEnters ==
  ASSUME Good, NEW caller \in Users, NEW receiver \in Accounts, NEW amount \in U256,
         Deposit(caller, receiver, amount)
  PROVE  \E shares \in U256 : Entering(caller, receiver, amount, shares)
<1> DEFINE shares == PreviewDeposit(amount)
<1>1. amount \in Nat /\ MaxU256 \in Nat
  BY MaxU256Assumption DEF U256
<1>2. shares \in Nat /\ shares * VirtualAssets <= amount * VirtualShares
  BY <1>1, GoodTypes, FloorBound DEF PreviewDeposit, ConvertToShares
<1>3. shares <= MaxU256 /\ EnterWith(caller, receiver, amount, shares)
  BY DEF Deposit, CanConvert
<1> HIDE DEF shares
<1>4. shares \in U256
  BY <1>1, <1>2, <1>3 DEF U256
<1>5. VirtualAssets * shares <= amount * VirtualShares
  BY <1>2, GoodTypes
<1> QED
  BY <1>1, <1>3, <1>4, <1>5 DEF Entering

(* A mint takes assets rounded up.                                          *)
LEMMA MintEnters ==
  ASSUME Good, NEW caller \in Users, NEW receiver \in Accounts, NEW shares \in U256,
         MintShares(caller, receiver, shares)
  PROVE  \E amount \in Nat : Entering(caller, receiver, amount, shares)
<1> DEFINE amount == PreviewMint(shares)
<1>1. shares \in Nat
  BY MaxU256Assumption DEF U256
<1>2. amount \in Nat /\ amount * VirtualShares >= shares * VirtualAssets
  BY <1>1, GoodTypes, CeilBound DEF PreviewMint, ConvertToAssets
<1>3. EnterWith(caller, receiver, amount, shares)
  BY DEF MintShares
<1> HIDE DEF amount
<1>4. VirtualAssets * shares <= amount * VirtualShares
  BY <1>1, <1>2, GoodTypes
<1> QED
  BY <1>2, <1>3, <1>4 DEF Entering

(* A withdrawal burns shares rounded up.                                    *)
LEMMA WithdrawLeaves ==
  ASSUME Good, NEW caller \in Users, NEW receiver \in Accounts, NEW owner \in Accounts,
         NEW amount \in U256, Withdraw(caller, receiver, owner, amount)
  PROVE  \E shares \in U256 : Leaving(caller, receiver, owner, amount, shares)
<1> DEFINE shares == PreviewWithdraw(amount)
<1>1. amount \in Nat /\ MaxU256 \in Nat
  BY MaxU256Assumption DEF U256
<1>2. shares \in Nat /\ shares * VirtualAssets >= amount * VirtualShares
  BY <1>1, GoodTypes, CeilBound DEF PreviewWithdraw, ConvertToShares
<1>3. shares <= MaxU256 /\ LeaveWith(caller, receiver, owner, amount, shares)
  BY DEF Withdraw, CanConvert
<1> HIDE DEF shares
<1>4. shares \in U256
  BY <1>1, <1>2, <1>3 DEF U256
<1>5. VirtualAssets * shares >= amount * VirtualShares
  BY <1>2, GoodTypes
<1> QED
  BY <1>1, <1>3, <1>4, <1>5 DEF Leaving

(* A redemption pays assets rounded down.                                   *)
LEMMA RedeemLeaves ==
  ASSUME Good, NEW caller \in Users, NEW receiver \in Accounts, NEW owner \in Accounts,
         NEW shares \in U256, Redeem(caller, receiver, owner, shares)
  PROVE  \E amount \in Nat : Leaving(caller, receiver, owner, amount, shares)
<1> DEFINE amount == PreviewRedeem(shares)
<1>1. shares \in Nat
  BY MaxU256Assumption DEF U256
<1>2. amount \in Nat /\ amount * VirtualShares <= shares * VirtualAssets
  BY <1>1, GoodTypes, FloorBound DEF PreviewRedeem, ConvertToAssets
<1>3. LeaveWith(caller, receiver, owner, amount, shares)
  BY DEF Redeem
<1> HIDE DEF amount
<1>4. VirtualAssets * shares >= amount * VirtualShares
  BY <1>1, <1>2, GoodTypes
<1> QED
  BY <1>2, <1>3, <1>4 DEF Leaving

(* So a call on the vault enters or leaves.                                 *)
LEMMA CallsEnterOrLeave ==
  ASSUME Good, NEW caller \in Users, VaultCall(caller)
  PROVE  \E receiver, owner \in Accounts, amount \in Nat, shares \in U256 :
           \/ Entering(caller, receiver, amount, shares)
           \/ Leaving(caller, receiver, owner, amount, shares)
<1>1. U256 \subseteq Nat
  BY MaxU256Assumption DEF U256
<1>2. PICK value \in U256, receiver \in Accounts, owner \in Accounts :
        \/ Deposit(caller, receiver, value)
        \/ MintShares(caller, receiver, value)
        \/ Withdraw(caller, receiver, owner, value)
        \/ Redeem(caller, receiver, owner, value)
  BY DEF VaultCall
<1> QED
  BY <1>1, <1>2, DepositEnters, MintEnters, WithdrawLeaves, RedeemLeaves

(* A step that leaves the supply and takes nothing from the vault           *)
LEMMA OthersAreFair ==
  ASSUME Good, Good', token'.total_supply = token.total_supply,
         assets'[Vault] >= assets[Vault]
  PROVE  Fair
<1>1. /\ assets'[Vault] \in Nat /\ assets[Vault] \in Nat
      /\ token.total_supply \in Nat /\ token'.total_supply \in Nat
  BY VaultAssumption, MaxU256Assumption DEF Good, Sound, Tokens, U256
<1>2. VirtualShares' = VirtualShares /\ VirtualAssets' >= VirtualAssets
  BY <1>1, NextPrice, GoodTypes
<1>3. VirtualShares \in Nat /\ VirtualAssets \in Nat /\ VirtualAssets' \in Nat
  BY <1>1, NextPrice, GoodTypes
<1> DEFINE gain == VirtualAssets' - VirtualAssets
<1>4. gain \in Nat /\ VirtualAssets' = VirtualAssets + gain
  <2>1. \A a, b \in Nat : b >= a => b - a \in Nat /\ b = a + (b - a)
    OBVIOUS
  <2> QED
    BY <1>2, <1>3, <2>1
<1> HIDE DEF gain
<1>5. (VirtualAssets + gain) * VirtualShares
        = VirtualAssets * VirtualShares + gain * VirtualShares
  BY <1>3, <1>4
<1>6. gain * VirtualShares \in Nat /\ VirtualAssets * VirtualShares \in Nat
  BY <1>3, <1>4
<1> QED
  BY <1>2, <1>4, <1>5, <1>6 DEF Fair

(* So every step keeps the invariant and the price.                         *)
LEMMA StepsAreFair ==
  ASSUME Good, [Next]_vars
  PROVE  Good' /\ Fair
<1>1. ASSUME NEW caller \in Users, VaultCall(caller)
      PROVE  Good' /\ Fair
  BY <1>1, CallsEnterOrLeave, EnterIsFair, LeaveIsFair DEF Entering, Leaving
<1>2. ASSUME NEW caller \in Users, NEW to \in Accounts, NEW value \in U256,
             TransferShares(caller, to, value)
      PROVE  Good' /\ Fair
  <2>1. /\ caller \in Addresses /\ caller # ZERO /\ to \in Addresses /\ to # ZERO
        /\ value \in Nat
    BY MaxU256Assumption DEF Users, Accounts, U256
  <2>2. Sound(token) /\ CanUpdate(token, caller, to, value) /\ assets' = assets
        /\ token' = Update(token, caller, to, value)
    BY <1>2 DEF Good, TransferShares, CanTransfer
  <2>3. /\ Sound(Update(token, caller, to, value))
        /\ Update(token, caller, to, value).total_supply
             = token.total_supply + (IF caller = ZERO THEN value ELSE 0)
                                  - (IF to = ZERO THEN value ELSE 0)
    BY <2>1, <2>2, UpdateIsExact
  <2>4. Good' /\ token'.total_supply = token.total_supply
    BY <2>1, <2>2, <2>3, GoodTypes DEF Good
  <2>5. assets'[Vault] >= assets[Vault]
    BY <2>2, VaultAssumption DEF Good
  <2> QED
    BY <2>4, <2>5, OthersAreFair
<1>3. ASSUME NEW caller \in Users, NEW spender \in Accounts, NEW value \in U256,
             ApproveShares(caller, spender, value)
      PROVE  Good' /\ Fair
  <2>1. caller \in Addresses /\ spender \in Addresses
    BY DEF Users, Accounts
  <2>2. Sound(token) /\ assets' = assets /\ token' = Approve(token, caller, spender, value)
    BY <1>3 DEF Good, ApproveShares
  <2>3. Good' /\ token'.total_supply = token.total_supply
    BY <2>1, <2>2, ApproveIsSound DEF Good
  <2>4. assets'[Vault] >= assets[Vault]
    BY <2>2, VaultAssumption DEF Good
  <2> QED
    BY <2>3, <2>4, OthersAreFair
<1>4. ASSUME NEW caller \in Users, NEW to \in Accounts, NEW value \in U256,
             Pay(caller, to, value)
      PROVE  Good' /\ Fair
  <2>1. caller \in Accounts /\ caller # Vault /\ value \in Nat /\ Vault \in Accounts
    BY MaxU256Assumption, VaultAssumption DEF Users, U256
  <2>2. MoveAssets(caller, to, value) /\ token' = token
    BY <1>4 DEF Pay
  <2>3. assets' \in [Accounts -> Nat] /\ assets'[Vault] >= assets[Vault]
    <3>1. assets[Vault] \in Nat
      BY <2>1 DEF Good
    <3> QED
      BY <2>1, <2>2, <3>1, MoveIsExact
  <2>4. Good'
    BY <2>2, <2>3 DEF Good
  <2> QED
    BY <2>2, <2>3, <2>4, OthersAreFair
<1>5. ASSUME UNCHANGED vars
      PROVE  Good' /\ Fair
  <2>1. token' = token /\ assets' = assets
    BY <1>5 DEF vars
  <2>2. Good'
    BY <2>1 DEF Good
  <2>3. assets'[Vault] >= assets[Vault]
    BY <2>1, VaultAssumption DEF Good
  <2> QED
    BY <2>1, <2>2, <2>3, OthersAreFair
<1>6. ASSUME NEW caller \in Users, NEW from \in Accounts, NEW to \in Accounts,
             NEW value \in U256, TransferSharesFrom(caller, from, to, value)
      PROVE  Good' /\ Fair
  <2> DEFINE paid == Spend(token, from, caller, value)
  <2>1. /\ caller \in Addresses /\ from \in Addresses /\ from # ZERO
        /\ to \in Addresses /\ to # ZERO /\ value \in Nat
    BY MaxU256Assumption DEF Users, Accounts, U256
  <2>2. Sound(paid) /\ paid.total_supply = token.total_supply
    BY <1>6, <2>1, SpendIsSound DEF Good, TransferSharesFrom
  <2>3. /\ CanUpdate(paid, from, to, value) /\ assets' = assets
        /\ token' = Update(paid, from, to, value)
    BY <1>6 DEF TransferSharesFrom, CanTransfer
  <2> HIDE DEF paid
  <2>4. /\ Sound(Update(paid, from, to, value))
        /\ Update(paid, from, to, value).total_supply
             = paid.total_supply + (IF from = ZERO THEN value ELSE 0)
                                 - (IF to = ZERO THEN value ELSE 0)
    BY <2>1, <2>2, <2>3, UpdateIsExact
  <2>5. Good' /\ token'.total_supply = token.total_supply
    BY <2>1, <2>2, <2>3, <2>4, GoodTypes DEF Good
  <2>6. assets'[Vault] >= assets[Vault]
    BY <2>3, VaultAssumption DEF Good
  <2> QED
    BY <2>5, <2>6, OthersAreFair
<1> QED
  BY <1>1, <1>2, <1>3, <1>4, <1>5, <1>6 DEF Next, Call

(* The empty vault satisfies the invariant.                                 *)
LEMMA InitIsGood ==
  ASSUME Init
  PROVE  Good
<1>1. Sound(EmptyToken)
  BY EmptyIsSound
<1>2. AssetSupply \in Nat
  BY AssetSupplyAssumption, MaxU256Assumption DEF U256
<1>3. assets \in [Accounts -> Nat]
  BY <1>2 DEF Init
<1> QED
  BY <1>1, <1>3 DEF Init, Good

(* Whatever is deposited, minted, withdrawn, redeemed or given, and however *)
(* the conversions round, a share is never worth less than before.          *)
THEOREM Price == Spec => PriceNeverFalls
<1>1. Init => Good
  BY InitIsGood
<1>2. Good /\ [Next]_vars => Good'
  BY StepsAreFair
<1>3. Good /\ [Next]_vars => [Fair]_vars
  BY StepsAreFair
<1>4. Good /\ [Next]_vars =>
        [VirtualAssets' * VirtualShares >= VirtualAssets * VirtualShares']_vars
  BY <1>3 DEF Fair
<1> QED
  BY <1>1, <1>2, <1>4, PTL DEF Spec, PriceNeverFalls

-----------------------------------------------------------------------------
(* The invariant that the other properties need: nothing of the asset is    *)
(* created or lost, so that its balances are words.                         *)
PromisesStand ==
  /\ Good
  /\ assets \in [Accounts -> 0..AssetSupply] /\ SumOf(assets) = AssetSupply
  /\ sender \in Users

(* The asset moves, or nothing of it changes.                               *)
LEMMA StepsMoveAssets ==
  ASSUME Good, NEW caller \in Users, Call(caller)
  PROVE  \/ assets' = assets
         \/ \E from, to \in Accounts, amount \in Nat : MoveAssets(from, to, amount)
<1>1. U256 \subseteq Nat /\ Vault \in Accounts /\ caller \in Accounts
  BY MaxU256Assumption, VaultAssumption DEF U256, Users
<1>2. CASE VaultCall(caller)
  BY <1>1, <1>2, CallsEnterOrLeave DEF Entering, Leaving, EnterWith, LeaveWith
<1>3. ASSUME NEW value \in U256, NEW a \in Accounts,
             \/ TransferShares(caller, a, value)
             \/ ApproveShares(caller, a, value)
             \/ \E to \in Accounts : TransferSharesFrom(caller, a, to, value)
      PROVE  assets' = assets
  BY <1>3 DEF TransferShares, ApproveShares, TransferSharesFrom
<1>4. ASSUME NEW value \in U256, NEW a \in Accounts, Pay(caller, a, value)
      PROVE  MoveAssets(caller, a, value)
  BY <1>4 DEF Pay
<1> QED
  BY <1>1, <1>2, <1>3, <1>4 DEF Call

(* A movement of the asset keeps its sum.                                   *)
LEMMA MovesConserve ==
  ASSUME PromisesStand, NEW from \in Accounts, NEW to \in Accounts, NEW amount \in Nat,
         MoveAssets(from, to, amount)
  PROVE  assets' \in [Accounts -> 0..AssetSupply] /\ SumOf(assets') = AssetSupply
<1> DEFINE S == Accounts
           f == assets
           g == assets'
<1>1. /\ IsFiniteSet(S) /\ AssetSupply \in Nat
      /\ f \in [S -> 0..AssetSupply] /\ SumOf(f) = AssetSupply
  BY FS_RemoveElement, AddressesAssumption, AssetSupplyAssumption, MaxU256Assumption
     DEF Accounts, U256, PromisesStand
<1>2. amount \in 0..f[from] /\ SumOf(f) <= AssetSupply /\ from \in S /\ to \in S
  BY <1>1 DEF MoveAssets
<1>3. /\ g \in [S -> Int]
      /\ from = to => g = f
      /\ from # to => g[from] = f[from] - amount /\ g[to] = f[to] + amount
      /\ \A a \in S \ {from, to} : g[a] = f[a]
  BY <1>1, MoveIsExact DEF PromisesStand
<1> HIDE DEF S, f, g
<1>4. g \in [S -> 0..AssetSupply] /\ SumOf(g) = SumOf(f)
  BY <1>1, <1>2, <1>3, SumOfMove
<1> QED
  BY <1>1, <1>4 DEF S, f, g

(* Every step keeps the invariant.                                          *)
LEMMA StepsKeep ==
  ASSUME PromisesStand, [Next]_vars
  PROVE  PromisesStand'
<1>1. Good'
  BY StepsAreFair DEF PromisesStand
<1>2. CASE UNCHANGED vars
  BY <1>1, <1>2 DEF vars, PromisesStand
<1>3. ASSUME NEW caller \in Users, Call(caller), sender' = caller
      PROVE  PromisesStand'
  BY <1>1, <1>3, StepsMoveAssets, MovesConserve DEF PromisesStand
<1> QED
  BY <1>2, <1>3 DEF Next

(* The empty vault satisfies it.                                            *)
LEMMA InitIsKept ==
  ASSUME Init
  PROVE  PromisesStand
BY InitIsGood DEF Init, PromisesStand

(* What is kept is well typed.                                              *)
LEMMA KeptIsTyped ==
  ASSUME PromisesStand
  PROVE  TypeOK
<1>1. AssetSupply \in Nat /\ AssetSupply <= MaxU256 /\ MaxU256 \in Nat
  BY AssetSupplyAssumption, MaxU256Assumption DEF U256
<1>2. assets \in [Accounts -> U256]
  BY <1>1 DEF PromisesStand, U256
<1> QED
  BY <1>2 DEF PromisesStand, Good, Sound, TypeOK

-----------------------------------------------------------------------------
(* Nobody holds more than there is.                                         *)
LEMMA HoldingsAreBounded ==
  ASSUME Good, NEW a \in Addresses
  PROVE  token.balances[a] \in Nat /\ token.balances[a] <= VirtualShares - 1
<1>1. Unit \in Nat \ {0} /\ MaxU256 \in Nat
  BY UnitType, MaxU256Assumption
<1>2. token.balances \in [Addresses -> 0..MaxU256] /\ SumOf(token.balances) = token.total_supply
  BY DEF Good, Sound, Tokens, U256
<1>3. token.balances[a] <= token.total_supply
  BY <1>2, SumOfWordsBounds
<1> QED
  BY <1>1, <1>2, <1>3, GoodTypes

(* The assets that the shares of everybody are worth, rounded down for each *)
(* holder, are at most those of the vault: one virtual asset and the        *)
(* virtual shares are nobody's.                                             *)
LEMMA VaultCanPay ==
  ASSUME Good
  PROVE  SumOf([a \in Accounts |-> PreviewRedeem(token.balances[a])]) <= TotalAssets
<1> DEFINE f == [a \in Accounts |-> PreviewRedeem(token.balances[a])]
           g == [a \in Accounts |-> token.balances[a]]
           M == VirtualShares + VirtualAssets
<1>1. /\ IsFiniteSet(Accounts) /\ Accounts = Addresses \ {ZERO} /\ ZERO \in Addresses
      /\ IsFiniteSet(Addresses) /\ MaxU256 \in Nat
  BY FS_RemoveElement, AddressesAssumption, MaxU256Assumption DEF Accounts
<1>2. VirtualShares \in Nat \ {0} /\ VirtualAssets \in Nat \ {0} /\ M \in Nat
  BY GoodTypes
<1>3. ASSUME NEW a \in Accounts
      PROVE  /\ PreviewRedeem(token.balances[a]) \in 0..M
             /\ PreviewRedeem(token.balances[a]) * VirtualShares
                  <= token.balances[a] * VirtualAssets
             /\ token.balances[a] \in 0..M
  <2> DEFINE b == token.balances[a]
             p == PreviewRedeem(b)
  <2>1. b \in Nat /\ b <= VirtualShares - 1
    BY <1>1, HoldingsAreBounded
  <2>2. p \in Nat /\ p * VirtualShares <= b * VirtualAssets
    BY <1>2, <2>1, FloorBound DEF PreviewRedeem, ConvertToAssets
  <2>3. ASSUME p >= VirtualAssets PROVE FALSE
    <3> DEFINE e == p - VirtualAssets
               h == VirtualShares - 1 - b
    <3> HIDE DEF b, p
    <3>1. e \in Nat /\ p = VirtualAssets + e /\ h \in Nat /\ VirtualShares = b + 1 + h
      BY <1>2, <2>1, <2>2, <2>3
    <3> HIDE DEF e, h
    <3>2. p * VirtualShares = b * VirtualAssets + VirtualAssets + h * VirtualAssets
                               + e * VirtualShares
      BY <1>2, <2>1, <3>1
    <3>3. /\ h * VirtualAssets \in Nat /\ e * VirtualShares \in Nat
          /\ b * VirtualAssets \in Nat
      BY <1>2, <2>1, <3>1
    <3> QED
      BY <1>2, <2>2, <3>2, <3>3
  <2> HIDE DEF b, p
  <2>4. p \in 0..M /\ b \in 0..M
    BY <1>2, <2>1, <2>2, <2>3
  <2> QED
    BY <2>2, <2>4 DEF b, p
<1>4. SumOf(f) * VirtualShares <= SumOf(g) * VirtualAssets
  <2>1. f \in [Accounts -> 0..M] /\ g \in [Accounts -> 0..M]
    BY <1>3
  <2>2. \A a \in Accounts : f[a] * VirtualShares <= g[a] * VirtualAssets
    BY <1>3
  <2> HIDE DEF f, g, M
  <2> QED
    BY <1>1, <1>2, <2>1, <2>2, SumOfScaled
<1>5. SumOf(g) = token.total_supply
  <2>1. /\ token.balances \in [Addresses -> 0..MaxU256]
        /\ token.balances[ZERO] = 0 /\ SumOf(token.balances) = token.total_supply
    BY DEF Good, Sound, Tokens, U256
  <2>2. g = Without(token.balances, ZERO)
    BY <1>1, <2>1 DEF Without
  <2> DEFINE h == token.balances
  <2>3. h \in [Addresses -> 0..MaxU256]
    BY <2>1
  <2> HIDE DEF g, h
  <2>4. SumOf(h) = SumOf(Without(h, ZERO)) + h[ZERO] /\ SumOf(Without(h, ZERO)) \in Nat
    BY <1>1, <2>3, SumOfExtended
  <2> QED
    BY <2>1, <2>2, <2>4 DEF h
<1>6. SumOf(f) \in Nat
  <2>1. f \in [Accounts -> 0..M]
    BY <1>3
  <2> HIDE DEF f, M
  <2> QED
    BY <1>1, <1>2, <2>1, SumOfType
<1> HIDE DEF f, g
<1>7. SumOf(f) < VirtualAssets
  <2> DEFINE n == SumOf(f)
             s == token.total_supply
             e == n - VirtualAssets
  <2>1. n * VirtualShares <= s * VirtualAssets /\ n \in Nat /\ s \in Nat
        /\ Unit \in Nat \ {0} /\ VirtualShares = s + Unit
    BY <1>4, <1>5, <1>6, GoodTypes, UnitType
  <2> HIDE DEF n, s
  <2>2. ASSUME e \in Nat PROVE FALSE
    <3>1. n = VirtualAssets + e
      BY <1>2, <2>1, <2>2
    <3> HIDE DEF e
    <3>2. n * VirtualShares = s * VirtualAssets + Unit * VirtualAssets + e * VirtualShares
      BY <1>2, <2>1, <2>2, <3>1
    <3>3. /\ s * VirtualAssets \in Nat /\ Unit * VirtualAssets \in Nat \ {0}
          /\ e * VirtualShares \in Nat
      BY <1>2, <2>1, <2>2
    <3> QED
      BY <2>1, <3>2, <3>3
  <2> QED
    BY <1>2, <2>1, <2>2 DEF n
<1>8. TotalAssets = VirtualAssets - 1
  BY GoodTypes, VaultAssumption DEF TotalAssets, Good
<1>9. SumOf(f) <= TotalAssets
  BY <1>2, <1>6, <1>7, <1>8
<1> QED
  BY <1>9 DEF f

(* What `max_withdraw` promises an account costs it at most its shares.     *)
LEMMA WithdrawalsAreFunded ==
  ASSUME Good, NEW a \in Accounts
  PROVE  PreviewWithdraw(MaxWithdraw(a)) <= MaxRedeem(a)
<1> DEFINE b == token.balances[a]
           p == ConvertToAssets(b, "Floor")
<1>1. b \in Nat
  BY HoldingsAreBounded DEF Accounts
<1>2. p \in Nat /\ p * VirtualShares <= b * VirtualAssets
  BY <1>1, GoodTypes, FloorBound DEF ConvertToAssets
<1> HIDE DEF p
<1>3. ConvertToShares(p, "Ceil") <= b
  BY <1>1, <1>2, GoodTypes, CeilIsLeast DEF ConvertToShares
<1> QED
  BY <1>3 DEF p, PreviewWithdraw, MaxWithdraw, MaxRedeem

(* The vault keeps its promises, for any number of holders, whoever enters, *)
(* leaves, gives away or is paid.                                           *)
THEOREM Promises == Spec => []PromisesAreKept
<1>1. Init => PromisesStand
  BY InitIsKept
<1>2. PromisesStand /\ [Next]_vars => PromisesStand'
  BY StepsKeep
<1>3. PromisesStand => PromisesAreKept
  BY KeptIsTyped, WithdrawalsAreFunded, VaultCanPay DEF PromisesStand, PromisesAreKept
<1> QED
  BY <1>1, <1>2, <1>3, PTL DEF Spec

-----------------------------------------------------------------------------
(* What a movement of shares takes from an account.                         *)
LEMMA UpdateTakes ==
  ASSUME NEW t, Sound(t), NEW from \in Addresses, NEW to \in Addresses,
         NEW value \in U256, CanUpdate(t, from, to, value),
         NEW a \in Accounts
  PROVE  t.balances[a] - Update(t, from, to, value).balances[a] > 0
           => a = from /\ t.balances[a] - Update(t, from, to, value).balances[a] = value
<1>1. Update(t, from, to, value).balances = Moved(t.balances, from, to, value)
  BY UpdateIsExact
<1>2. a \in Addresses /\ a # ZERO /\ t.balances[a] \in Nat /\ value \in Nat
  BY MaxU256Assumption DEF Accounts, U256, Sound, Tokens
<1>3. Update(t, from, to, value).balances[a]
        = t.balances[a] - (IF a = from THEN value ELSE 0) + (IF a = to THEN value ELSE 0)
  BY <1>1, <1>2 DEF Moved
<1> HIDE DEF Moved
<1> QED
  BY <1>2, <1>3

(* The shares a step takes from an account; the allowance of its caller,    *)
(* when that covers them and is lowered by them.                            *)
Spent(a) == token.balances[a] - token'.balances[a]

UsesUp(a, caller) ==
  LET leave == token.allowances[a][caller]
  IN  /\ Spent(a) <= leave
      /\ token'.allowances[a][caller] =
           IF leave = MaxU256 THEN leave ELSE leave - Spent(a)

WithLeave(caller) ==
  \A a \in Users : Spent(a) > 0 => caller = a \/ UsesUp(a, caller)

(* What `_spend_allowance` leaves of an allowance.                          *)
LEMMA SpendIsExact ==
  ASSUME NEW t, Sound(t), NEW o \in Addresses, NEW s \in Addresses, NEW value
  PROVE  Spend(t, o, s, value).allowances[o][s]
           = IF t.allowances[o][s] = MaxU256
               THEN t.allowances[o][s] ELSE t.allowances[o][s] - value
BY DEF Spend, Approve, Sound, Tokens

(* An allowance that is spent covers the shares, and is lowered by them.    *)
LEMMA SpendersHaveLeave ==
  ASSUME Good, NEW caller \in Users, NEW owner \in Accounts, NEW to \in Addresses,
         NEW shares \in U256, NEW paid,
         \/ caller = owner /\ paid = token
         \/ /\ CanSpend(token, owner, caller, shares)
            /\ paid = Spend(token, owner, caller, shares),
         CanUpdate(paid, owner, to, shares), token' = Update(paid, owner, to, shares)
  PROVE  WithLeave(caller)
<1>1. /\ owner \in Addresses /\ caller \in Addresses /\ Users \subseteq Accounts
      /\ shares \in Nat /\ shares <= MaxU256
  BY MaxU256Assumption DEF Users, Accounts, U256
<1>2. Sound(paid) /\ paid.balances = token.balances
  BY <1>1, SpendIsSound DEF Good
<1>3. ASSUME NEW a \in Users, Spent(a) > 0
      PROVE  a = owner /\ Spent(a) = shares
  BY <1>1, <1>2, <1>3, UpdateTakes DEF Spent
<1>4. caller = owner \/ shares <= token.allowances[owner][caller]
  BY <1>1 DEF CanSpend
<1>5. caller # owner => token'.allowances[owner][caller] =
        IF token.allowances[owner][caller] = MaxU256
          THEN token.allowances[owner][caller]
          ELSE token.allowances[owner][caller] - shares
  <2>1. token'.allowances = paid.allowances
    BY <1>1, <1>2, UpdateIsExact
  <2> QED
    BY <1>1, <2>1, SpendIsExact DEF Good
<1>6. caller = owner \/ UsesUp(owner, caller) \/ Spent(owner) # shares
  BY <1>4, <1>5 DEF UsesUp
<1> QED
  BY <1>3, <1>6 DEF WithLeave

(* A mint of shares takes none.                                             *)
LEMMA MintersTakeNone ==
  ASSUME Good, NEW caller \in Users, NEW receiver \in Accounts, NEW shares \in U256,
         CanMint(token, receiver, shares), token' = Update(token, ZERO, receiver, shares)
  PROVE  WithLeave(caller)
<1>1. /\ ZERO \in Addresses /\ receiver \in Addresses
      /\ Users \subseteq Accounts /\ ZERO \notin Users
  BY AddressesAssumption DEF Accounts, Users
<1>2. \A a \in Users : ~(Spent(a) > 0)
  BY <1>1, UpdateTakes DEF Spent, CanMint, Good
<1> QED
  BY <1>2 DEF WithLeave

(* Every call has the leave it needs.                                       *)
LEMMA CallsHaveLeave ==
  ASSUME Good, NEW caller \in Users, Call(caller)
  PROVE  WithLeave(caller)
<1>1. /\ caller \in Accounts /\ Accounts \subseteq Addresses /\ ZERO \in Addresses
      /\ Users \subseteq Accounts
  BY AddressesAssumption DEF Users, Accounts
<1>2. CASE VaultCall(caller)
  <2>1. PICK receiver \in Accounts, owner \in Accounts, amount \in Nat, shares \in U256 :
          \/ Entering(caller, receiver, amount, shares)
          \/ Leaving(caller, receiver, owner, amount, shares)
    BY <1>2, CallsEnterOrLeave
  <2>2. CASE Entering(caller, receiver, amount, shares)
    BY <2>2, MintersTakeNone DEF Entering, EnterWith
  <2>3. CASE Leaving(caller, receiver, owner, amount, shares)
    <3> DEFINE paid == IF caller = owner THEN token ELSE Spend(token, owner, caller, shares)
    <3>1. /\ caller # owner => CanSpend(token, owner, caller, shares)
          /\ CanUpdate(paid, owner, ZERO, shares) /\ token' = Update(paid, owner, ZERO, shares)
      BY <2>3 DEF Leaving, LeaveWith, CanBurn
    <3>2. \/ caller = owner /\ paid = token
          \/ /\ CanSpend(token, owner, caller, shares)
             /\ paid = Spend(token, owner, caller, shares)
      BY <3>1
    <3> HIDE DEF paid
    <3> QED
      BY <1>1, <3>1, <3>2, SpendersHaveLeave
  <2> QED
    BY <2>1, <2>2, <2>3
<1>3. ASSUME NEW value \in U256, NEW to \in Accounts, TransferShares(caller, to, value)
      PROVE  WithLeave(caller)
  <2>1. CanUpdate(token, caller, to, value) /\ token' = Update(token, caller, to, value)
    BY <1>3 DEF TransferShares, CanTransfer
  <2> QED
    BY <1>1, <2>1, SpendersHaveLeave
<1>4. ASSUME NEW value \in U256, NEW from \in Accounts, NEW to \in Accounts,
             TransferSharesFrom(caller, from, to, value)
      PROVE  WithLeave(caller)
  <2> DEFINE paid == Spend(token, from, caller, value)
  <2>1. /\ CanSpend(token, from, caller, value)
        /\ CanUpdate(paid, from, to, value) /\ token' = Update(paid, from, to, value)
    BY <1>4 DEF TransferSharesFrom, CanTransfer
  <2> HIDE DEF paid
  <2>2. \/ caller = from /\ paid = token
        \/ /\ CanSpend(token, from, caller, value)
           /\ paid = Spend(token, from, caller, value)
    BY <2>1 DEF paid
  <2> QED
    BY <1>1, <2>1, <2>2, SpendersHaveLeave
<1>5. ASSUME token'.balances = token.balances
      PROVE  WithLeave(caller)
  <2>1. \A a \in Users : token.balances[a] \in Int
    BY <1>1, MaxU256Assumption DEF Good, Sound, Tokens, Accounts, U256
  <2> QED
    BY <1>5, <2>1 DEF WithLeave, Spent
<1>6. ASSUME NEW value \in U256, NEW a \in Accounts,
             ApproveShares(caller, a, value) \/ Pay(caller, a, value)
      PROVE  token'.balances = token.balances
  BY <1>1, <1>6, ApproveIsSound DEF ApproveShares, Pay, Good
<1> QED
  BY <1>2, <1>3, <1>4, <1>5, <1>6 DEF Call

(* Shares leave an account with its own call, or within an allowance it     *)
(* gave and that they use up, by all the six ways that there are.           *)
THEOREM Leave == Spec => SharesAreSpentWithLeave
<1>1. Init => Good
  BY InitIsGood
<1>2. Good /\ [Next]_vars => Good'
  BY StepsAreFair
<1> DEFINE P == \A a \in Users :
                  LET spent == token.balances[a] - token'.balances[a]
                      leave == token.allowances[a][sender']
                  IN  spent > 0 =>
                        \/ sender' = a
                        \/ /\ spent <= leave
                           /\ token'.allowances[a][sender'] =
                                IF leave = MaxU256 THEN leave ELSE leave - spent
<1>3. Good /\ [Next]_vars => [P]_vars
  <2>1. ASSUME Good, NEW caller \in Users, Call(caller), sender' = caller
        PROVE  P
    BY <2>1, CallsHaveLeave DEF WithLeave, UsesUp, Spent
  <2> QED
    BY <2>1 DEF Next
<1> QED
  BY <1>1, <1>2, <1>3, PTL DEF Spec, SharesAreSpentWithLeave

-----------------------------------------------------------------------------
(* An account that pays x assets for s shares, or is paid -x for -s of      *)
(* them, at a price that favours the vault, is worth no more than before.   *)
LEMMA FairTradesDoNotGain ==
  ASSUME Good, Good', NEW a \in Users, NEW x \in Int, NEW s \in Int,
         s * VirtualAssets <= x * VirtualShares,
         VirtualShares' = VirtualShares + s, VirtualAssets' = VirtualAssets + x,
         token'.balances[a] = token.balances[a] + s, assets'[a] = assets[a] - x
  PROVE  Worth(a)' <= Worth(a)
<1> DEFINE b == token.balances[a]
           c == token'.balances[a]
           S == VirtualShares
           V == VirtualAssets
           q == MulDiv(c, VirtualAssets', VirtualShares', "Floor")
           r == MulDiv(b, V, S, "Floor")
<1>1. a \in Addresses /\ a \in Accounts
  BY DEF Users, Accounts
<1>2. /\ b \in Nat /\ b <= S /\ S \in Nat \ {0} /\ V \in Nat \ {0}
  BY <1>1, HoldingsAreBounded, GoodTypes
<1>3. c \in Nat /\ VirtualShares' \in Nat \ {0} /\ VirtualAssets' \in Nat \ {0}
  <2>1. VirtualShares' = token'.total_supply + Unit /\ VirtualAssets' = assets'[Vault] + 1
    BY DEF VirtualShares, VirtualAssets, TotalAssets, Unit
  <2>2. token'.total_supply \in Nat /\ assets'[Vault] \in Nat /\ c \in Nat
    BY <1>1, MaxU256Assumption, VaultAssumption DEF Good, Sound, Tokens, U256
  <2> QED
    BY <2>1, <2>2, UnitType
<1>4. /\ Worth(a) = assets[a] + r /\ Worth(a)' = assets'[a] + q
      /\ assets[a] \in Nat
  BY <1>1 DEF Worth, PreviewRedeem, ConvertToAssets, Good
<1>5. q \in Nat /\ q * VirtualShares' <= c * VirtualAssets'
  BY <1>3, FloorBound
<1>6. r \in Nat
  BY <1>2, FloorBound
<1> HIDE DEF q, r
<1>7. q * (S + s) <= (b + s) * (V + x) /\ S + s > 0 /\ s * V <= x * S
  BY <1>3, <1>5
<1> HIDE DEF b, S, V
<1>8. (q - x) * S <= b * V
  <2>1. \A k \in Int, y \in Int, u \in Int :
          S + u > 0 /\ u * V <= y * S /\ k * (S + u) <= (b + u) * (V + y)
            => (k - y) * S <= b * V
    BY <1>2, NoGain
  <2> QED
    BY <2>1, <1>5, <1>7
<1>9. q - x <= r
  BY <1>2, <1>5, <1>8, FloorIsLargest DEF r
<1> QED
  BY <1>4, <1>5, <1>6, <1>9

(* A call on the vault for oneself is such a trade.                         *)
LEMMA OwnCallsDoNotGain ==
  ASSUME Good, NEW a \in Users, OwnCall(a)
  PROVE  Worth(a)' <= Worth(a)
<1>1. /\ a \in Accounts /\ a \in Addresses /\ a # ZERO /\ a # Vault
      /\ ZERO \in Addresses /\ Vault \in Accounts /\ U256 \subseteq Nat
  BY AddressesAssumption, VaultAssumption, MaxU256Assumption DEF Users, Accounts, U256
<1>2. \/ \E amount \in Nat, shares \in U256 : Entering(a, a, amount, shares)
      \/ \E amount \in Nat, shares \in U256 : Leaving(a, a, a, amount, shares)
  BY <1>1, DepositEnters, MintEnters, WithdrawLeaves, RedeemLeaves DEF OwnCall
<1>3. ASSUME NEW amount \in Nat, NEW shares \in U256, Entering(a, a, amount, shares)
      PROVE  Worth(a)' <= Worth(a)
  <2>1. /\ MoveAssets(a, Vault, amount) /\ CanUpdate(token, ZERO, a, shares)
        /\ token' = Update(token, ZERO, a, shares)
        /\ VirtualAssets * shares <= amount * VirtualShares /\ shares \in Nat
    BY <1>1, <1>3 DEF Entering, EnterWith, CanMint
  <2>2. Good'
    BY <1>1, <1>3, EnterIsFair DEF Entering
  <2>3. /\ assets'[a] = assets[a] - amount /\ assets'[Vault] = assets[Vault] + amount
        /\ assets[Vault] \in Nat
    BY <1>1, <2>1, MoveIsExact DEF Good
  <2>4. /\ token'.balances[a] = token.balances[a] + shares
        /\ token'.total_supply = token.total_supply + shares
    <3>1. /\ token'.balances = Moved(token.balances, ZERO, a, shares)
          /\ token'.total_supply = token.total_supply + shares - 0
      BY <1>1, <2>1, UpdateIsExact DEF Good
    <3>2. token.balances[a] \in Nat /\ token.total_supply \in Nat
      BY <1>1, HoldingsAreBounded, GoodTypes
    <3> QED
      BY <1>1, <2>1, <3>1, <3>2 DEF Moved
  <2>5. VirtualShares' = VirtualShares + shares /\ VirtualAssets' = VirtualAssets + amount
    BY <2>1, <2>2, <2>3, <2>4, NextPrice, GoodTypes
  <2>6. shares * VirtualAssets <= amount * VirtualShares
    BY <2>1, GoodTypes
  <2> QED
    BY <2>1, <2>2, <2>3, <2>4, <2>5, <2>6, FairTradesDoNotGain
<1>4. ASSUME NEW amount \in Nat, NEW shares \in U256, Leaving(a, a, a, amount, shares)
      PROVE  Worth(a)' <= Worth(a)
  <2>1. /\ MoveAssets(Vault, a, amount) /\ CanUpdate(token, a, ZERO, shares)
        /\ token' = Update(token, a, ZERO, shares)
        /\ VirtualAssets * shares >= amount * VirtualShares /\ shares \in Nat
    BY <1>1, <1>4 DEF Leaving, LeaveWith, CanBurn
  <2>2. Good'
    BY <1>1, <1>4, LeaveIsFair DEF Leaving
  <2> DEFINE x == -amount
             s == -shares
  <2>3. /\ assets'[a] = assets[a] + amount /\ assets'[Vault] = assets[Vault] - amount
        /\ assets[Vault] \in Nat /\ assets[a] \in Nat
    BY <1>1, <2>1, MoveIsExact DEF Good
  <2>4. /\ token'.balances[a] = token.balances[a] - shares
        /\ token'.total_supply = token.total_supply - shares
        /\ token.balances[a] \in Nat /\ token.total_supply \in Nat
    <3>1. /\ token'.balances = Moved(token.balances, a, ZERO, shares)
          /\ token'.total_supply = token.total_supply + 0 - shares
      BY <1>1, <2>1, UpdateIsExact DEF Good
    <3>2. token.balances[a] \in Nat /\ token.total_supply \in Nat
      BY <1>1, HoldingsAreBounded, GoodTypes
    <3> QED
      BY <1>1, <2>1, <3>1, <3>2 DEF Moved
  <2>5. VirtualShares' = VirtualShares + s /\ VirtualAssets' = VirtualAssets + x
    BY <2>1, <2>2, <2>3, <2>4, NextPrice, GoodTypes
  <2>6. s * VirtualAssets <= x * VirtualShares
    <3>1. /\ s * VirtualAssets = - (VirtualAssets * shares)
          /\ x * VirtualShares = - (amount * VirtualShares)
          /\ VirtualAssets * shares \in Nat /\ amount * VirtualShares \in Nat
      BY <2>1, GoodTypes
    <3> QED
      BY <2>1, <3>1
  <2>7. /\ token'.balances[a] = token.balances[a] + s /\ assets'[a] = assets[a] - x
        /\ x \in Int /\ s \in Int
    BY <2>1, <2>3, <2>4
  <2> HIDE DEF x, s
  <2> QED
    BY <2>2, <2>5, <2>6, <2>7, FairTradesDoNotGain
<1> QED
  BY <1>2, <1>3, <1>4

(* Nobody gains by calls on the vault for itself, in any order and however  *)
(* the price stands.                                                        *)
THEOREM Rounding == Spec => CallersNeverGain
<1>1. Init => Good
  BY InitIsGood
<1>2. Good /\ [Next]_vars => Good'
  BY StepsAreFair
<1>3. Good => \A a \in Users : OwnCall(a) => Worth(a)' <= Worth(a)
  BY OwnCallsDoNotGain
<1> QED
  BY <1>1, <1>2, <1>3, PTL DEF Spec, CallersNeverGain

-----------------------------------------------------------------------------
(* The wrapper.  Every wrapped token is covered by an underlying one.  The  *)
(* invariant says what the code relies on without saying it: the ledger of  *)
(* the other contract is as sound as the own one, and the wrapper never     *)
(* approves anybody, so that nobody else can move what it holds.            *)
USE DEF U256, Accounts

(* Nothing can be taken from the wrapper's balance by the others.           *)
Unapproved(t) == \A s \in Addresses : t.allowances[CONTRACT][s] = 0

Inv == /\ mock \in MockNames
       /\ Sound(wrapped) /\ Sound(foreign) /\ Unapproved(foreign)
       /\ wrapped.total_supply <= foreign.balances[CONTRACT]

(* How a call of the others may change the foreign token.                   *)
Kept(t, after) == /\ Sound(after) /\ Unapproved(after)
                  /\ after.balances[CONTRACT] >= t.balances[CONTRACT]

(* What the assumptions say of the constants.                               *)
LEMMA ConstantTypes ==
  /\ ZERO \in Addresses /\ CONTRACT \in Addresses /\ CONTRACT # ZERO
  /\ MaxU256 \in Nat \ {0}
BY AddressesAssumption, ContractAssumption, MaxU256Assumption

(* The fields of a sound storage, and their types.                          *)
LEMMA SoundTypes ==
  ASSUME NEW t, Sound(t)
  PROVE  /\ t.total_supply \in U256 /\ t.balances \in [Addresses -> U256]
         /\ t.allowances \in [Addresses -> [Addresses -> U256]]
         /\ SumOf(t.balances) = t.total_supply
BY DEF Sound, Tokens

(* A storage is kept by not being touched.                                  *)
LEMMA SameIsKept ==
  ASSUME NEW t, Sound(t), Unapproved(t)
  PROVE  Kept(t, t)
<1>1. t.balances[CONTRACT] \in Nat
  BY SoundTypes, ConstantTypes
<1> QED
  BY <1>1 DEF Kept

(* A movement from anybody else, or of nothing, keeps it.                   *)
LEMMA UpdateKeeps ==
  ASSUME NEW t, Sound(t), Unapproved(t),
         NEW from \in Addresses, NEW to \in Addresses, NEW value \in U256,
         CanUpdate(t, from, to, value), from = CONTRACT => value = 0
  PROVE  Kept(t, Update(t, from, to, value))
<1> DEFINE u == Update(t, from, to, value)
<1>1. /\ Sound(u) /\ u.allowances = t.allowances
      /\ u.balances = Moved(t.balances, from, to, value)
  BY UpdateIsExact
<1> HIDE DEF u
<1>2. t.balances[CONTRACT] \in Nat /\ value \in Nat
  BY SoundTypes, ConstantTypes
<1>3. u.balances[CONTRACT] = t.balances[CONTRACT]
                               - (IF CONTRACT = from THEN value ELSE 0)
                               + (IF CONTRACT = to THEN value ELSE 0)
  BY <1>1, ConstantTypes DEF Moved
<1>4. u.balances[CONTRACT] >= t.balances[CONTRACT]
  BY <1>2, <1>3
<1> QED
  BY <1>1, <1>4 DEF Kept, Unapproved, u

(* So does a movement paid for with an allowance: of the wrapper's tokens   *)
(* that is a movement of nothing.                                           *)
LEMMA PaidUpdateKeeps ==
  ASSUME NEW t, Sound(t), Unapproved(t), NEW caller \in Addresses,
         NEW from \in Addresses, NEW to \in Addresses, NEW value \in U256,
         CanSpend(t, from, caller, value),
         CanUpdate(Spend(t, from, caller, value), from, to, value)
  PROVE  Kept(t, Update(Spend(t, from, caller, value), from, to, value))
<1> DEFINE paid == Spend(t, from, caller, value)
<1>1. /\ Sound(paid) /\ paid.balances = t.balances
      /\ \A p, q \in Addresses : paid.allowances[p][q] <= t.allowances[p][q]
  BY SpendIsSound
<1>2. CanUpdate(paid, from, to, value)
  OBVIOUS
<1> HIDE DEF paid
<1>3. Unapproved(paid)
  <2>1. ASSUME NEW s \in Addresses PROVE paid.allowances[CONTRACT][s] = 0
    <3>1. paid.allowances[CONTRACT][s] \in Nat
      BY <1>1, SoundTypes, ConstantTypes
    <3>2. paid.allowances[CONTRACT][s] <= 0
      BY <1>1, ConstantTypes DEF Unapproved
    <3> QED
      BY <3>1, <3>2
  <2> QED
    BY <2>1 DEF Unapproved
<1>4. from = CONTRACT => value = 0
  BY ConstantTypes DEF CanSpend, Unapproved
<1>5. Kept(paid, Update(paid, from, to, value))
  BY <1>1, <1>2, <1>3, <1>4, UpdateKeeps
<1> QED
  BY <1>1, <1>5 DEF Kept, paid

(* And an approval by another account.                                      *)
LEMMA ApproveKeeps ==
  ASSUME NEW t, Sound(t), Unapproved(t), NEW owner \in Addresses \ {CONTRACT},
         NEW spender \in Addresses, NEW value \in U256
  PROVE  Kept(t, Approve(t, owner, spender, value))
<1>1. /\ Sound(Approve(t, owner, spender, value))
      /\ Approve(t, owner, spender, value).balances = t.balances
      /\ Approve(t, owner, spender, value).allowances[CONTRACT] = t.allowances[CONTRACT]
  BY ApproveIsSound, ConstantTypes
<1>2. t.balances[CONTRACT] \in Nat
  BY SoundTypes, ConstantTypes
<1> QED
  BY <1>1, <1>2 DEF Kept, Unapproved

-----------------------------------------------------------------------------
(* What the others do with the underlying token takes nothing from the      *)
(* wrapper.                                                                 *)
LEMMA ForeignNextKeeps ==
  ASSUME Inv, ForeignNext
  PROVE  Kept(foreign, foreign') /\ mock' = mock
<1>1. PICK account \in Accounts, value \in U256 :
        \/ ForeignMint(account, value)
        \/ \E caller \in Accounts \ {CONTRACT} :
             ForeignCall(caller, account, value) /\ UNCHANGED mock
  BY DEF ForeignNext
<1>2. Sound(foreign) /\ Unapproved(foreign)
  BY DEF Inv
<1>3. CASE ForeignMint(account, value)
  <2>1. Kept(foreign, Update(foreign, ZERO, account, value))
    BY <1>2, <1>3, UpdateKeeps, ConstantTypes DEF ForeignMint, CanMint
  <2> QED
    BY <1>3, <2>1 DEF ForeignMint
<1>4. ASSUME NEW caller \in Accounts \ {CONTRACT},
             ForeignCall(caller, account, value), UNCHANGED mock
      PROVE  Kept(foreign, foreign') /\ mock' = mock
  <2>0. Kept(foreign, foreign)
    BY <1>2, SameIsKept
  <2>1. CASE foreign' = transfer(mock, foreign, caller, account, value).token
    <3>1. \/ foreign' = foreign
          \/ /\ CanTransfer(foreign, caller, account, value)
             /\ foreign' = Update(foreign, caller, account, value)
      BY <2>1 DEF transfer, Reply
    <3>2. CASE foreign' = foreign
      BY <1>4, <2>0, <3>2
    <3>3. CASE /\ CanTransfer(foreign, caller, account, value)
               /\ foreign' = Update(foreign, caller, account, value)
      <4>1. Kept(foreign, Update(foreign, caller, account, value))
        BY <1>2, <3>3, UpdateKeeps DEF CanTransfer
      <4> QED
        BY <1>4, <3>3, <4>1
    <3> QED
      BY <3>1, <3>2, <3>3
  <2>2. CASE foreign' = approve(mock, foreign, caller, account, value).token
    <3>1. \/ foreign' = foreign
          \/ foreign' = Approve(foreign, caller, account, value)
      BY <2>2 DEF approve, Reply
    <3>2. Kept(foreign, Approve(foreign, caller, account, value))
      BY <1>2, ApproveKeeps
    <3> QED
      BY <1>4, <2>0, <3>1, <3>2
  <2>3. ASSUME NEW to \in Accounts,
               foreign' = transferFrom(mock, foreign, caller, account, to, value).token
        PROVE  Kept(foreign, foreign')
    <3> DEFINE paid == Spend(foreign, account, caller, value)
    <3>1. \/ foreign' = foreign
          \/ /\ CanSpend(foreign, account, caller, value)
             /\ CanTransfer(paid, account, to, value)
             /\ foreign' = Update(paid, account, to, value)
      BY <2>3 DEF transferFrom, Reply
    <3>2. CASE /\ CanSpend(foreign, account, caller, value)
               /\ CanTransfer(paid, account, to, value)
               /\ foreign' = Update(paid, account, to, value)
      <4>1. Kept(foreign, Update(paid, account, to, value))
        BY <1>2, <3>2, PaidUpdateKeeps DEF CanTransfer
      <4> QED
        BY <3>2, <4>1
    <3> HIDE DEF paid
    <3> QED
      BY <2>0, <3>1, <3>2
  <2> QED
    BY <1>4, <2>1, <2>2, <2>3 DEF ForeignCall
<1> QED
  BY <1>1, <1>3, <1>4 DEF ForeignMint

(* A safe call that returns Ok did what it was asked to.                    *)
LEMMA TransfersAreReal ==
  ASSUME NEW to \in Addresses, NEW value \in U256,
         SafeTransfer(foreign, to, value).ok
  PROVE  /\ CanTransfer(foreign, CONTRACT, to, value)
         /\ SafeTransfer(foreign, to, value).token
              = Update(foreign, CONTRACT, to, value)
BY DEF SafeTransfer, CallOptionalReturn, transfer, Reply

(* And so did a safe call of transferFrom.                                  *)
LEMMA FetchesAreReal ==
  ASSUME NEW from \in Addresses, NEW to \in Addresses, NEW value \in U256,
         SafeTransferFrom(foreign, from, to, value).ok
  PROVE  LET paid == Spend(foreign, from, CONTRACT, value)
         IN  /\ CanSpend(foreign, from, CONTRACT, value)
             /\ CanTransfer(paid, from, to, value)
             /\ SafeTransferFrom(foreign, from, to, value).token
                  = Update(paid, from, to, value)
BY DEF SafeTransferFrom, CallOptionalReturn, transferFrom, Reply

(* A deposit mints what it fetched.                                         *)
LEMMA DepositIsBacked ==
  ASSUME Inv, NEW caller \in Accounts \ {CONTRACT}, NEW account \in Addresses,
         NEW value \in U256, DepositFor(caller, account, value)
  PROVE  Inv'
<1> DEFINE paid == Spend(foreign, caller, CONTRACT, value)
<1>1. /\ CanSpend(foreign, caller, CONTRACT, value)
      /\ CanTransfer(paid, caller, CONTRACT, value)
      /\ foreign' = Update(paid, caller, CONTRACT, value) /\ mock' = mock
  BY FetchesAreReal, ConstantTypes DEF DepositFor, Commit
<1>2. Kept(foreign, foreign')
  BY <1>1, PaidUpdateKeeps, ConstantTypes DEF Inv, CanTransfer
<1>3. /\ Sound(paid) /\ paid.balances = foreign.balances
      /\ CanUpdate(paid, caller, CONTRACT, value)
  BY <1>1, SpendIsSound, ConstantTypes DEF Inv, CanTransfer
<1> HIDE DEF paid
<1>4. foreign'.balances = Moved(foreign.balances, caller, CONTRACT, value)
  BY <1>1, <1>3, UpdateIsExact, ConstantTypes
<1>5. foreign.balances[CONTRACT] \in Nat /\ value \in Nat
  BY SoundTypes, ConstantTypes DEF Inv
<1>6. foreign'.balances[CONTRACT] = foreign.balances[CONTRACT] + value
  BY <1>4, <1>5, ConstantTypes DEF Moved
<1>7. /\ account # ZERO /\ CanUpdate(wrapped, ZERO, account, value)
      /\ wrapped' = Update(wrapped, ZERO, account, value)
  BY DEF DepositFor, CanMint
<1>8. Sound(wrapped') /\ wrapped'.total_supply = wrapped.total_supply + value
  <2>1. /\ Sound(Update(wrapped, ZERO, account, value))
        /\ Update(wrapped, ZERO, account, value).total_supply
             = wrapped.total_supply + (IF ZERO = ZERO THEN value ELSE 0)
                                  - (IF account = ZERO THEN value ELSE 0)
    BY <1>7, UpdateIsExact, ConstantTypes DEF Inv
  <2>2. wrapped.total_supply \in Nat
    BY SoundTypes, ConstantTypes DEF Inv
  <2> QED
    BY <1>5, <1>7, <2>1, <2>2
<1>9. wrapped'.total_supply <= foreign'.balances[CONTRACT]
  <2>1. wrapped.total_supply \in Nat
    BY SoundTypes, ConstantTypes DEF Inv
  <2> QED
    BY <1>5, <1>6, <1>8, <2>1 DEF Inv
<1> QED
  BY <1>1, <1>2, <1>8, <1>9 DEF Inv, Kept

(* A withdrawal burns what it sends.                                        *)
LEMMA WithdrawIsBacked ==
  ASSUME Inv, NEW caller \in Accounts \ {CONTRACT}, NEW account \in Addresses,
         NEW value \in U256, WithdrawTo(caller, account, value)
  PROVE  Inv'
<1>1. /\ account # CONTRACT /\ account # ZERO
      /\ CanUpdate(foreign, CONTRACT, account, value)
      /\ foreign' = Update(foreign, CONTRACT, account, value) /\ mock' = mock
  BY TransfersAreReal DEF WithdrawTo, Commit, CanTransfer
<1>2. /\ Sound(foreign') /\ foreign'.allowances = foreign.allowances
      /\ foreign'.balances = Moved(foreign.balances, CONTRACT, account, value)
  BY <1>1, UpdateIsExact, ConstantTypes DEF Inv
<1>3. foreign.balances[CONTRACT] \in Nat /\ wrapped.total_supply \in Nat /\ value \in Nat
  BY SoundTypes, ConstantTypes DEF Inv
<1>4. foreign'.balances[CONTRACT] = foreign.balances[CONTRACT] - value
  BY <1>1, <1>2, <1>3, ConstantTypes DEF Moved
<1>5. CanUpdate(wrapped, caller, ZERO, value) /\ wrapped' = Update(wrapped, caller, ZERO, value)
  BY DEF WithdrawTo, CanBurn
<1>6. Sound(wrapped') /\ wrapped'.total_supply = wrapped.total_supply - value
  <2>1. /\ Sound(Update(wrapped, caller, ZERO, value))
        /\ Update(wrapped, caller, ZERO, value).total_supply
             = wrapped.total_supply + (IF caller = ZERO THEN value ELSE 0)
                                  - (IF ZERO = ZERO THEN value ELSE 0)
    BY <1>5, UpdateIsExact, ConstantTypes DEF Inv
  <2> QED
    BY <1>3, <1>5, <2>1
<1>7. wrapped'.total_supply <= foreign'.balances[CONTRACT]
  BY <1>3, <1>4, <1>6 DEF Inv
<1> QED
  BY <1>1, <1>2, <1>6, <1>7 DEF Inv, Unapproved

(* `_recover` mints no more than what is not yet wrapped.                   *)
LEMMA RecoverIsBacked ==
  ASSUME Inv, NEW account \in Addresses, Recover(account)
  PROVE  Inv'
<1> DEFINE value == foreign.balances[CONTRACT] - wrapped.total_supply
<1>1. foreign.balances[CONTRACT] \in U256 /\ wrapped.total_supply \in U256
  BY SoundTypes, ConstantTypes DEF Inv
<1>2. value \in U256 /\ foreign' = foreign /\ mock' = mock
  BY <1>1, ConstantTypes DEF Recover, safeVars
<1>3. CASE value = 0
  BY <1>2, <1>3 DEF Recover, Inv, Unapproved
<1>4. CASE value > 0
  <2>1. /\ account # ZERO /\ CanUpdate(wrapped, ZERO, account, value)
        /\ wrapped' = Update(wrapped, ZERO, account, value)
    BY <1>4 DEF Recover, CanMint
  <2> HIDE DEF value
  <2>2. /\ Sound(Update(wrapped, ZERO, account, value))
        /\ Update(wrapped, ZERO, account, value).total_supply
             = wrapped.total_supply + (IF ZERO = ZERO THEN value ELSE 0)
                                  - (IF account = ZERO THEN value ELSE 0)
    BY <1>2, <2>1, UpdateIsExact, ConstantTypes DEF Inv
  <2>3. Sound(wrapped') /\ wrapped'.total_supply = wrapped.total_supply + value
    BY <1>1, <1>2, <2>1, <2>2, ConstantTypes
  <2>4. wrapped'.total_supply <= foreign.balances[CONTRACT]
    BY <1>1, <2>3, ConstantTypes DEF value
  <2> QED
    BY <1>2, <2>3, <2>4 DEF Inv, Unapproved
<1> QED
  BY <1>2, <1>3, <1>4, ConstantTypes

(* The wrapped tokens move without their supply changing.                   *)
LEMMA WrappedMovesAreBacked ==
  ASSUME Inv, UNCHANGED safeVars, NEW caller \in Accounts \ {CONTRACT},
         NEW a \in Addresses, NEW value \in U256,
         \/ WrappedTransfer(caller, a, value)
         \/ WrappedApprove(caller, a, value)
         \/ \E to \in Addresses : WrappedTransferFrom(caller, a, to, value)
  PROVE  Inv'
<1>1. Sound(wrapped) /\ wrapped.total_supply \in Nat /\ value \in Nat
  BY SoundTypes, ConstantTypes DEF Inv
<1>2. ASSUME NEW t, Sound(t), t.total_supply = wrapped.total_supply,
             NEW from \in Addresses, NEW to \in Addresses,
             CanTransfer(t, from, to, value), wrapped' = Update(t, from, to, value)
      PROVE  Sound(wrapped') /\ wrapped'.total_supply = wrapped.total_supply
  <2>1. CanUpdate(t, from, to, value) /\ from # ZERO /\ to # ZERO
    BY <1>2 DEF CanTransfer
  <2>2. /\ Sound(Update(t, from, to, value))
        /\ Update(t, from, to, value).total_supply
             = t.total_supply + (IF from = ZERO THEN value ELSE 0)
                              - (IF to = ZERO THEN value ELSE 0)
    BY <1>2, <2>1, UpdateIsExact
  <2> QED
    BY <1>1, <1>2, <2>1, <2>2
<1>3. Sound(wrapped') /\ wrapped'.total_supply = wrapped.total_supply
  <2>1. CASE WrappedTransfer(caller, a, value)
    BY <1>1, <1>2, <2>1 DEF WrappedTransfer
  <2>2. CASE WrappedApprove(caller, a, value)
    BY <1>1, <2>2, ApproveIsSound DEF WrappedApprove
  <2>3. ASSUME NEW to \in Addresses, WrappedTransferFrom(caller, a, to, value)
        PROVE  Sound(wrapped') /\ wrapped'.total_supply = wrapped.total_supply
    <3> DEFINE paid == Spend(wrapped, a, caller, value)
    <3>1. Sound(paid) /\ paid.total_supply = wrapped.total_supply
      BY <1>1, <2>3, SpendIsSound DEF WrappedTransferFrom
    <3>2. CanTransfer(paid, a, to, value) /\ wrapped' = Update(paid, a, to, value)
      BY <2>3 DEF WrappedTransferFrom
    <3> HIDE DEF paid
    <3> QED
      BY <1>2, <3>1, <3>2
  <2> QED
    BY <2>1, <2>2, <2>3
<1> QED
  BY <1>3 DEF Inv, safeVars, Unapproved

-----------------------------------------------------------------------------
(* Two empty ledgers back each other.                                       *)
LEMMA InitIsBacked == WrapperInit => Inv
<1> SUFFICES ASSUME WrapperInit PROVE Inv
  OBVIOUS
<1>1. Sound(EmptyToken) /\ mock \in MockNames /\ foreign = EmptyToken /\ wrapped = EmptyToken
  BY EmptyIsSound DEF WrapperInit, SafeInit
<1>2. /\ Unapproved(EmptyToken)
      /\ EmptyToken.total_supply <= EmptyToken.balances[CONTRACT]
  BY ConstantTypes DEF EmptyToken, Unapproved
<1> QED
  BY <1>1, <1>2 DEF Inv

(* Every step keeps the invariant, action by action.                        *)
LEMMA StepIsBacked == Inv /\ [WrapperNext]_wrapperVars => Inv'
<1> SUFFICES ASSUME Inv, [WrapperNext]_wrapperVars PROVE Inv'
  OBVIOUS
<1>1. CASE ForeignNext /\ UNCHANGED wrapped
  <2>1. Kept(foreign, foreign') /\ mock' = mock /\ wrapped' = wrapped
    BY <1>1, ForeignNextKeeps
  <2>2. /\ wrapped.total_supply \in Nat /\ foreign.balances[CONTRACT] \in Nat
        /\ foreign'.balances[CONTRACT] \in Nat
    BY <2>1, SoundTypes, ConstantTypes DEF Inv, Kept
  <2>3. wrapped.total_supply <= foreign'.balances[CONTRACT]
    BY <2>1, <2>2 DEF Inv, Kept
  <2> QED
    BY <2>1, <2>3 DEF Inv, Kept
<1>2. ASSUME NEW a \in Addresses, Recover(a) PROVE Inv'
  BY <1>2, RecoverIsBacked
<1>3. ASSUME NEW caller \in Accounts \ {CONTRACT}, NEW a \in Addresses,
             NEW value \in U256,
             \/ DepositFor(caller, a, value)
             \/ WithdrawTo(caller, a, value)
             \/ WrappedTransfer(caller, a, value)
             \/ WrappedApprove(caller, a, value)
             \/ \E to \in Addresses : WrappedTransferFrom(caller, a, to, value)
      PROVE  Inv'
  <2>1. CASE DepositFor(caller, a, value)
    BY <2>1, DepositIsBacked
  <2>2. CASE WithdrawTo(caller, a, value)
    BY <2>2, WithdrawIsBacked
  <2>3. CASE \/ WrappedTransfer(caller, a, value)
             \/ WrappedApprove(caller, a, value)
             \/ \E to \in Addresses : WrappedTransferFrom(caller, a, to, value)
    <3>1. UNCHANGED safeVars
      BY <2>3 DEF WrappedTransfer, WrappedApprove, WrappedTransferFrom
    <3> QED
      BY <2>3, <3>1, WrappedMovesAreBacked
  <2> QED
    BY <1>3, <2>1, <2>2, <2>3
<1>4. CASE UNCHANGED wrapperVars
  BY <1>4 DEF wrapperVars, Inv, Unapproved
<1> QED
  BY <1>1, <1>2, <1>3, <1>4 DEF WrapperNext

(* The invariant that the run checks on a small instance.                   *)
THEOREM WrappedTokensAreBacked == WrapperSpec => []WrapperIsBacked
<1>1. Inv => WrapperIsBacked
  BY DEF Inv, Sound, WrapperIsBacked, WrapperTypeOK, SafeTypeOK
<1> QED
  BY <1>1, InitIsBacked, StepIsBacked, PTL DEF WrapperSpec

(* What a transfer of a foreign token answers, when it does not revert      *)
LEMMA AnswersAreKnown ==
  ASSUME NEW name \in MockNames
  PROVE  Mocks[name].plain \in {"true", "nothing", "false"}
BY DEF Mocks, MockNames

(* Nobody is locked in: every holder's whole balance can be withdrawn.      *)
THEOREM EverybodyCanLeave == WrapperSpec => []HoldersCanLeave
<1>1. Inv => HoldersCanLeave
  <2> SUFFICES ASSUME Inv, NEW a \in Accounts \ {CONTRACT},
                      NEW to \in Accounts \ {CONTRACT},
                      mock # "NoCode", Mocks[mock].plain # "false"
               PROVE  SafeTransfer(foreign, to, wrapped.balances[a]).ok
    BY DEF HoldersCanLeave
  <2> DEFINE value == wrapped.balances[a]
  <2>1. value <= wrapped.total_supply /\ value \in Nat /\ wrapped.total_supply \in Nat
    <3>1. value <= SumOf(wrapped.balances)
      BY SoundTypes, SumOfWordsBounds DEF Inv
    <3> QED
      BY <3>1, SoundTypes, ConstantTypes DEF Inv
  <2>2. foreign.balances[CONTRACT] \in Nat
    BY SoundTypes, ConstantTypes DEF Inv
  <2> HIDE DEF value
  <2>3. CanTransfer(foreign, CONTRACT, to, value)
    BY <2>1, <2>2, ConstantTypes DEF Inv, CanTransfer, CanUpdate
  <2>4. Mocks[mock].plain \in {"true", "nothing"}
    BY AnswersAreKnown DEF Inv
  <2>5. SafeTransfer(foreign, to, value).ok
    BY <2>3, <2>4 DEF SafeTransfer, CallOptionalReturn, transfer, Reply
  <2> QED
    BY <2>5 DEF value
<1> QED
  BY <1>1, InitIsBacked, StepIsBacked, PTL DEF WrapperSpec

-----------------------------------------------------------------------------
(* The safe calls themselves, in any contract.  All they need is a sound    *)
(* ledger behind the token.                                                 *)
SafeInv == mock \in MockNames /\ Sound(foreign)

(* A low-level call that brought back a success was made, and one that      *)
(* changed the token brought back what that function answers.               *)
LEMMA RepliesAreReal ==
  ASSUME NEW answer, NEW can \in BOOLEAN, NEW t, NEW after,
         NEW reply, reply = Reply(mock, answer, can, t, after)
  PROVE  /\ reply.token = t \/ (can /\ reply.token = after)
         /\ mock # "NoCode" /\ reply.data \in {"nothing", "true"}
              => can /\ reply.token = after
         /\ reply.token # t
              => mock # "NoCode" /\ reply.data = answer /\ answer \notin {"false", "reverts"}
         /\ mock # "NoCode" /\ can /\ answer \in {"nothing", "true"}
              => reply.data = answer /\ reply.token = after
BY DEF Reply

(* A transfer moves exactly what it says, and leaves the ledger sound.      *)
LEMMA TransfersGo ==
  ASSUME NEW t, Sound(t), NEW from \in Addresses, NEW to \in Addresses,
         NEW value \in U256, CanTransfer(t, from, to, value)
  PROVE  Sound(Update(t, from, to, value)) /\ Went(t, Update(t, from, to, value), from, to, value)
<1> DEFINE u == Update(t, from, to, value)
<1>1. from # ZERO /\ to # ZERO /\ CanUpdate(t, from, to, value)
  BY DEF CanTransfer
<1>2. /\ Sound(u) /\ u.balances = Moved(t.balances, from, to, value)
      /\ u.total_supply = t.total_supply + 0 - 0
  BY <1>1, UpdateIsExact
<1> HIDE DEF u
<1>3. /\ t.total_supply \in Nat /\ value \in Nat /\ t.balances[ZERO] = 0
      /\ \A a \in Addresses : t.balances[a] \in Nat
  BY ConstantTypes DEF Sound, Tokens
<1>4. \A a \in Addresses : u.balances[a] = t.balances[a] + (IF a = to THEN value ELSE 0)
                                                         - (IF a = from THEN value ELSE 0)
  BY <1>1, <1>2, <1>3 DEF Moved
<1> QED
  BY <1>2, <1>3, <1>4 DEF Went, u

(* So does one paid for with an allowance.                                  *)
LEMMA PaidTransfersGo ==
  ASSUME NEW t, Sound(t), NEW caller \in Addresses, NEW from \in Addresses,
         NEW to \in Addresses, NEW value \in U256, CanSpend(t, from, caller, value),
         CanTransfer(Spend(t, from, caller, value), from, to, value)
  PROVE  /\ Sound(Update(Spend(t, from, caller, value), from, to, value))
         /\ Went(t, Update(Spend(t, from, caller, value), from, to, value), from, to, value)
<1> DEFINE paid == Spend(t, from, caller, value)
<1>1. Sound(paid) /\ paid.balances = t.balances /\ paid.total_supply = t.total_supply
  BY SpendIsSound
<1>2. CanTransfer(paid, from, to, value)
  OBVIOUS
<1> HIDE DEF paid
<1>3. /\ Sound(Update(paid, from, to, value))
      /\ Went(paid, Update(paid, from, to, value), from, to, value)
  BY <1>1, <1>2, TransfersGo
<1> QED
  BY <1>1, <1>3 DEF Went, paid

(* The two transfers of SafeErc20 and the two with a callback: what they    *)
(* say when they succeed, and that they leave the ledger sound.             *)
LEMMA SentIsReal ==
  ASSUME SafeInv, NEW to \in Addresses, NEW value \in U256,
         NEW sent, sent = SafeTransfer(foreign, to, value)
  PROVE  /\ Sound(sent.token)
         /\ sent.ok => Went(foreign, sent.token, CONTRACT, to, value)
         /\ ~sent.ok => sent.token = foreign
<1> DEFINE can == CanTransfer(foreign, CONTRACT, to, value)
           after == Update(foreign, CONTRACT, to, value)
           reply == transfer(mock, foreign, CONTRACT, to, value)
<1>1. can => Sound(after) /\ Went(foreign, after, CONTRACT, to, value)
  BY TransfersGo, ConstantTypes DEF SafeInv
<1>2. reply = Reply(mock, Mocks[mock].plain, can, foreign, after)
  BY DEF transfer
<1>3. /\ sent.token = reply.token
      /\ sent.ok <=> mock # "NoCode" /\ reply.data \in {"nothing", "true"}
  BY DEF SafeTransfer, CallOptionalReturn
<1>4. Mocks[mock].plain \in {"true", "nothing", "false"}
  BY AnswersAreKnown DEF SafeInv
<1>5. can \in BOOLEAN
  BY DEF CanTransfer
<1> HIDE DEF can, after, reply
<1>6. /\ reply.token = foreign \/ (can /\ reply.token = after)
      /\ sent.ok => can /\ reply.token = after
      /\ reply.token # foreign => sent.ok
  BY <1>2, <1>3, <1>4, <1>5, RepliesAreReal
<1> QED
  BY <1>1, <1>3, <1>6 DEF SafeInv

(* `safe_transfer_from`                                                     *)
LEMMA FetchedIsReal ==
  ASSUME SafeInv, NEW from \in Addresses, NEW to \in Addresses, NEW value \in U256,
         NEW fetched, fetched = SafeTransferFrom(foreign, from, to, value)
  PROVE  /\ Sound(fetched.token)
         /\ fetched.ok => Went(foreign, fetched.token, from, to, value)
         /\ ~fetched.ok => fetched.token = foreign
<1> DEFINE paid == Spend(foreign, from, CONTRACT, value)
           can == CanSpend(foreign, from, CONTRACT, value) /\ CanTransfer(paid, from, to, value)
           after == Update(paid, from, to, value)
           reply == transferFrom(mock, foreign, CONTRACT, from, to, value)
<1>1. can => Sound(after) /\ Went(foreign, after, from, to, value)
  BY PaidTransfersGo, ConstantTypes DEF SafeInv
<1>2. reply = Reply(mock, Mocks[mock].plain, can, foreign, after)
  BY DEF transferFrom
<1>3. /\ fetched.token = reply.token
      /\ fetched.ok <=> mock # "NoCode" /\ reply.data \in {"nothing", "true"}
  BY DEF SafeTransferFrom, CallOptionalReturn
<1>4. Mocks[mock].plain \in {"true", "nothing", "false"}
  BY AnswersAreKnown DEF SafeInv
<1>5. can \in BOOLEAN
  OBVIOUS
<1> HIDE DEF can, after, reply
<1>6. /\ reply.token = foreign \/ (can /\ reply.token = after)
      /\ fetched.ok => can /\ reply.token = after
      /\ reply.token # foreign => fetched.ok
  BY <1>2, <1>3, <1>4, <1>5, RepliesAreReal
<1> QED
  BY <1>1, <1>3, <1>6 DEF SafeInv

(* `transfer_and_call_relaxed`                                              *)
LEMMA GivenIsReal ==
  ASSUME SafeInv, NEW to \in Addresses, NEW value \in U256,
         NEW given, given = TransferAndCallRelaxed(foreign, to, value), given.ok
  PROVE  Sound(given.token) /\ Went(foreign, given.token, CONTRACT, to, value)
<1>1. CASE to \notin HasCode
  BY <1>1, SentIsReal DEF TransferAndCallRelaxed
<1>2. CASE to \in HasCode
  <2> DEFINE can == CanTransfer(foreign, CONTRACT, to, value) /\ to \in Willing
             after == Update(foreign, CONTRACT, to, value)
             reply == transferAndCall(mock, foreign, CONTRACT, to, value)
  <2>1. can => Sound(after) /\ Went(foreign, after, CONTRACT, to, value)
    BY TransfersGo, ConstantTypes DEF SafeInv
  <2>2. reply = Reply(mock, Mocks[mock].called, can, foreign, after)
    BY DEF transferAndCall
  <2>3. mock # "NoCode" /\ reply.data = "true" /\ given.token = reply.token
    BY <1>2 DEF TransferAndCallRelaxed, CallErc1363
  <2>4. can \in BOOLEAN
    OBVIOUS
  <2> HIDE DEF can, after, reply
  <2> QED
    BY <2>1, <2>2, <2>3, <2>4, RepliesAreReal
<1> QED
  BY <1>1, <1>2

(* `transfer_from_and_call_relaxed`                                         *)
LEMMA PulledIsReal ==
  ASSUME SafeInv, NEW from \in Addresses, NEW to \in Addresses, NEW value \in U256,
         NEW pulled, pulled = TransferFromAndCallRelaxed(foreign, from, to, value), pulled.ok
  PROVE  Sound(pulled.token) /\ Went(foreign, pulled.token, from, to, value)
<1>1. CASE to \notin HasCode
  BY <1>1, FetchedIsReal DEF TransferFromAndCallRelaxed
<1>2. CASE to \in HasCode
  <2> DEFINE paid == Spend(foreign, from, CONTRACT, value)
             can == /\ CanSpend(foreign, from, CONTRACT, value)
                    /\ CanTransfer(paid, from, to, value)
                    /\ to \in Willing
             after == Update(paid, from, to, value)
             reply == transferFromAndCall(mock, foreign, CONTRACT, from, to, value)
  <2>1. can => Sound(after) /\ Went(foreign, after, from, to, value)
    BY PaidTransfersGo, ConstantTypes DEF SafeInv
  <2>2. reply = Reply(mock, Mocks[mock].called, can, foreign, after)
    BY DEF transferFromAndCall
  <2>3. mock # "NoCode" /\ reply.data = "true" /\ pulled.token = reply.token
    BY <1>2 DEF TransferFromAndCallRelaxed, CallErc1363
  <2>4. can \in BOOLEAN
    OBVIOUS
  <2> HIDE DEF can, after, reply
  <2> QED
    BY <2>1, <2>2, <2>3, <2>4, RepliesAreReal
<1> QED
  BY <1>1, <1>2

-----------------------------------------------------------------------------
(* An approval that succeeded was made, one that failed changed nothing,    *)
(* and a token that can approve does so when the old allowance is zero or   *)
(* the new one is.                                                          *)
LEMMA ApprovedIsReal ==
  ASSUME SafeInv, NEW t, NEW spender \in Addresses, NEW value \in U256,
         NEW approved, approved = SafeApprove(t, spender, value)
  PROVE  /\ approved.ok => approved.token = Approve(t, CONTRACT, spender, value)
         /\ ~approved.ok => approved.token = t
         /\ /\ spender # ZERO /\ mock # "NoCode" /\ Mocks[mock].plain # "false"
            /\ value = 0 \/ t.allowances[CONTRACT][spender] = 0
            => approved.ok
<1> DEFINE can == /\ CanApprove(CONTRACT, spender)
                  /\ MayReplace(mock, "approve", t, CONTRACT, spender, value)
           after == Approve(t, CONTRACT, spender, value)
           reply == approve(mock, t, CONTRACT, spender, value)
<1>1. reply = Reply(mock, Mocks[mock].plain, can, t, after)
  BY DEF approve
<1>2. /\ approved.token = reply.token
      /\ approved.ok <=> mock # "NoCode" /\ reply.data \in {"nothing", "true"}
  BY DEF SafeApprove, CallOptionalReturn
<1>3. Mocks[mock].plain \in {"true", "nothing", "false"}
  BY AnswersAreKnown DEF SafeInv
<1>4. can \in BOOLEAN
  OBVIOUS
<1>5. spender # ZERO /\ (value = 0 \/ t.allowances[CONTRACT][spender] = 0) => can
  BY ConstantTypes DEF CanApprove, MayReplace
<1> HIDE DEF can, after, reply
<1>6. /\ approved.ok => reply.token = after
      /\ reply.token # t => approved.ok
      /\ mock # "NoCode" /\ can /\ Mocks[mock].plain # "false" => approved.ok
  BY <1>1, <1>2, <1>3, <1>4, RepliesAreReal
<1> QED
  BY <1>2, <1>5, <1>6 DEF after

(* Of two approvals of the same spender the last one counts.                *)
LEMMA LastApprovalCounts ==
  ASSUME NEW t, Sound(t), NEW spender \in Addresses, NEW v \in U256, NEW w \in U256
  PROVE  /\ Approve(Approve(t, CONTRACT, spender, v), CONTRACT, spender, w)
              = Approve(t, CONTRACT, spender, w)
         /\ Approve(t, CONTRACT, spender, v).allowances[CONTRACT][spender] = v
<1>1. /\ t \in [ balances : [Addresses -> U256],
                 allowances : [Addresses -> [Addresses -> U256]], total_supply : U256 ]
      /\ CONTRACT \in Addresses
  BY ConstantTypes DEF Sound, Tokens
<1> DEFINE Al(x) == [t.allowances EXCEPT ![CONTRACT][spender] = x]
<1>2. /\ Al(v) \in [Addresses -> [Addresses -> U256]]
      /\ Al(v)[CONTRACT][spender] = v
      /\ [Al(v) EXCEPT ![CONTRACT][spender] = w] = Al(w)
  BY <1>1
<1>3. Approve(t, CONTRACT, spender, v) = [t EXCEPT !.allowances = Al(v)]
  BY <1>1 DEF Approve
<1>4. Approve(t, CONTRACT, spender, w) = [t EXCEPT !.allowances = Al(w)]
  BY <1>1 DEF Approve
<1>5. [t EXCEPT !.allowances = Al(v)].allowances = Al(v)
  BY <1>1
<1> HIDE DEF Al
<1>6. Approve([t EXCEPT !.allowances = Al(v)], CONTRACT, spender, w)
        = [t EXCEPT !.allowances = [Al(v) EXCEPT ![CONTRACT][spender] = w]]
  BY <1>1, <1>5 DEF Approve
<1> QED
  BY <1>2, <1>3, <1>4, <1>5, <1>6

(* `force_approve` sets the allowance, whole, whenever it can be set at all. *)
LEMMA ForcedIsReal ==
  ASSUME SafeInv, NEW spender \in Addresses, NEW value \in U256,
         NEW forced, forced = ForceApprove(foreign, spender, value)
  PROVE  /\ forced.ok => forced.token = Approve(foreign, CONTRACT, spender, value)
         /\ spender # ZERO /\ mock # "NoCode" /\ Mocks[mock].plain # "false" => forced.ok
<1> DEFINE t == foreign
           first == SafeApprove(t, spender, value)
           reset == SafeApprove(first.token, spender, 0)
           last == SafeApprove(reset.token, spender, value)
<1>1. 0 \in U256 /\ Sound(t)
  BY ConstantTypes DEF SafeInv
<1>2. forced = IF first.ok THEN first ELSE IF reset.ok THEN last ELSE [ok |-> FALSE, token |-> t]
  BY DEF ForceApprove, Failure
<1>3. /\ first.ok => first.token = Approve(t, CONTRACT, spender, value)
      /\ ~first.ok => first.token = t
  BY ApprovedIsReal
<1>4. /\ reset.ok => reset.token = Approve(first.token, CONTRACT, spender, 0)
      /\ spender # ZERO /\ mock # "NoCode" /\ Mocks[mock].plain # "false" => reset.ok
  BY <1>1, ApprovedIsReal
<1>5. /\ last.ok => last.token = Approve(reset.token, CONTRACT, spender, value)
      /\ /\ spender # ZERO /\ mock # "NoCode" /\ Mocks[mock].plain # "false"
         /\ reset.token.allowances[CONTRACT][spender] = 0
         => last.ok
  BY ApprovedIsReal
<1> HIDE DEF first, reset, last, t
<1>6. /\ Approve(Approve(t, CONTRACT, spender, 0), CONTRACT, spender, value)
           = Approve(t, CONTRACT, spender, value)
      /\ Approve(t, CONTRACT, spender, 0).allowances[CONTRACT][spender] = 0
  BY <1>1, LastApprovalCounts
<1>7. CASE first.ok
  BY <1>2, <1>3, <1>7 DEF t
<1>8. CASE ~first.ok /\ reset.ok
  BY <1>2, <1>3, <1>4, <1>5, <1>6, <1>8 DEF t
<1>9. CASE ~first.ok /\ ~reset.ok
  BY <1>2, <1>4, <1>9 DEF t
<1> QED
  BY <1>7, <1>8, <1>9

(* The allowance calls that return Ok set the allowance they say, whole.    *)
LEMMA GrantsAreReal ==
  ASSUME SafeInv, NEW a \in Addresses, NEW value \in U256
  PROVE  LET now    == foreign.allowances[CONTRACT][a]
             forced == ForceApprove(foreign, a, value)
             more   == SafeIncreaseAllowance(foreign, a, value)
             less   == SafeDecreaseAllowance(foreign, a, value)
             called == ApproveAndCallRelaxed(foreign, a, value)
         IN  /\ forced.ok => forced.token = Approve(foreign, CONTRACT, a, value)
             /\ more.ok => /\ now + value \in U256
                           /\ more.token = Approve(foreign, CONTRACT, a, now + value)
             /\ less.ok => /\ now - value \in U256
                           /\ less.token = Approve(foreign, CONTRACT, a, now - value)
             /\ called.ok => called.token = Approve(foreign, CONTRACT, a, value)
<1> DEFINE now    == foreign.allowances[CONTRACT][a]
           forced == ForceApprove(foreign, a, value)
           more   == SafeIncreaseAllowance(foreign, a, value)
           less   == SafeDecreaseAllowance(foreign, a, value)
           called == ApproveAndCallRelaxed(foreign, a, value)
<1>1. now \in Nat /\ value \in Nat /\ value <= MaxU256 /\ now <= MaxU256 /\ MaxU256 \in Nat
  BY ConstantTypes DEF SafeInv, Sound, Tokens
<1>2. forced.ok => forced.token = Approve(foreign, CONTRACT, a, value)
  BY ForcedIsReal
<1>3. ASSUME more.ok
      PROVE  now + value \in U256 /\ more.token = Approve(foreign, CONTRACT, a, now + value)
  <2>1. /\ now + value <= MaxU256 /\ more = ForceApprove(foreign, a, now + value)
    BY <1>3 DEF SafeIncreaseAllowance, Failure
  <2>2. now + value \in U256
    BY <1>1, <2>1
  <2> HIDE DEF now, more
  <2> QED
    BY <1>3, <2>1, <2>2, ForcedIsReal
<1>4. ASSUME less.ok
      PROVE  now - value \in U256 /\ less.token = Approve(foreign, CONTRACT, a, now - value)
  <2>1. /\ value <= now /\ less = ForceApprove(foreign, a, now - value)
    BY <1>4 DEF SafeDecreaseAllowance, Failure
  <2>2. now - value \in U256
    BY <1>1, <2>1
  <2> HIDE DEF now, less
  <2> QED
    BY <1>4, <2>1, <2>2, ForcedIsReal
<1>5. ASSUME called.ok
      PROVE  called.token = Approve(foreign, CONTRACT, a, value)
  <2>1. CASE a \notin HasCode
    BY <1>2, <1>5, <2>1 DEF ApproveAndCallRelaxed
  <2>2. CASE a \in HasCode
    <3> DEFINE can == /\ CanApprove(CONTRACT, a)
                      /\ MayReplace(mock, "approveAndCall", foreign, CONTRACT, a, value)
                      /\ a \in Willing
               after == Approve(foreign, CONTRACT, a, value)
               reply == approveAndCall(mock, foreign, CONTRACT, a, value)
    <3>1. reply = Reply(mock, Mocks[mock].called, can, foreign, after)
      BY DEF approveAndCall
    <3>2. mock # "NoCode" /\ reply.data = "true" /\ called.token = reply.token
      BY <1>5, <2>2 DEF ApproveAndCallRelaxed, CallErc1363
    <3>3. can \in BOOLEAN
      OBVIOUS
    <3> HIDE DEF can, after, reply
    <3>4. reply.token = after
      BY <3>1, <3>2, <3>3, RepliesAreReal
    <3> QED
      BY <3>2, <3>4 DEF after
  <2> QED
    BY <2>1, <2>2
<1> QED
  BY <1>2, <1>3, <1>4, <1>5

(* So over a sound ledger every safe call does what it says.                *)
LEMMA SoundLedgersAnswer == SafeInv => SafeCallsDoWhatTheySay
<1> SUFFICES ASSUME SafeInv PROVE SafeCallsDoWhatTheySay
  OBVIOUS
<1>1. SafeTypeOK /\ CONTRACT \in Addresses
  BY ConstantTypes DEF SafeInv, SafeTypeOK, Sound
<1>2. ASSUME NEW a \in Addresses, NEW value \in U256
      PROVE  LET t      == foreign
                 now    == t.allowances[CONTRACT][a]
                 forced == ForceApprove(t, a, value)
                 more   == SafeIncreaseAllowance(t, a, value)
                 less   == SafeDecreaseAllowance(t, a, value)
                 called == ApproveAndCallRelaxed(t, a, value)
                 sent   == SafeTransfer(t, a, value)
                 given  == TransferAndCallRelaxed(t, a, value)
             IN
             /\ sent.ok => Went(t, sent.token, CONTRACT, a, value)
             /\ given.ok => Went(t, given.token, CONTRACT, a, value)
             /\ ~sent.ok => sent.token = t
             /\ \A from \in Accounts :
                  LET fetched == SafeTransferFrom(t, from, a, value)
                      pulled  == TransferFromAndCallRelaxed(t, from, a, value)
                  IN  /\ fetched.ok => Went(t, fetched.token, from, a, value)
                      /\ pulled.ok => Went(t, pulled.token, from, a, value)
                      /\ ~fetched.ok => fetched.token = t
             /\ forced.ok => Granted(t, forced.token, a, value)
             /\ more.ok => Granted(t, more.token, a, now + value)
             /\ less.ok => Granted(t, less.token, a, now - value)
             /\ called.ok => Granted(t, called.token, a, value)
             /\ a # ZERO /\ mock # "NoCode" /\ Mocks[mock].plain # "false" => forced.ok
  <2>1. LET sent  == SafeTransfer(foreign, a, value)
            given == TransferAndCallRelaxed(foreign, a, value)
        IN  /\ sent.ok => Went(foreign, sent.token, CONTRACT, a, value)
            /\ given.ok => Went(foreign, given.token, CONTRACT, a, value)
            /\ ~sent.ok => sent.token = foreign
    BY SentIsReal, GivenIsReal
  <2>2. ASSUME NEW from \in Accounts
        PROVE  LET fetched == SafeTransferFrom(foreign, from, a, value)
                   pulled  == TransferFromAndCallRelaxed(foreign, from, a, value)
               IN  /\ fetched.ok => Went(foreign, fetched.token, from, a, value)
                   /\ pulled.ok => Went(foreign, pulled.token, from, a, value)
                   /\ ~fetched.ok => fetched.token = foreign
    <3>1. from \in Addresses
      OBVIOUS
    <3> QED
      BY <3>1, FetchedIsReal, PulledIsReal
  <2>3. LET now    == foreign.allowances[CONTRACT][a]
            forced == ForceApprove(foreign, a, value)
            more   == SafeIncreaseAllowance(foreign, a, value)
            less   == SafeDecreaseAllowance(foreign, a, value)
            called == ApproveAndCallRelaxed(foreign, a, value)
        IN  /\ forced.ok => Granted(foreign, forced.token, a, value)
            /\ more.ok => Granted(foreign, more.token, a, now + value)
            /\ less.ok => Granted(foreign, less.token, a, now - value)
            /\ called.ok => Granted(foreign, called.token, a, value)
    BY GrantsAreReal DEF Granted, Approve
  <2>4. a # ZERO /\ mock # "NoCode" /\ Mocks[mock].plain # "false"
          => ForceApprove(foreign, a, value).ok
    BY ForcedIsReal
  <2> QED
    BY <2>1, <2>2, <2>3, <2>4, Zenon
<1> QED
  BY <1>1, <1>2, Zenon DEF SafeCallsDoWhatTheySay

-----------------------------------------------------------------------------
(* What others do with a token leaves its ledger sound.                     *)
LEMMA ForeignNextIsSound ==
  ASSUME SafeInv, ForeignNext
  PROVE  SafeInv'
<1>1. PICK account \in Accounts, value \in U256 :
        \/ ForeignMint(account, value)
        \/ \E caller \in Accounts \ {CONTRACT} :
             ForeignCall(caller, account, value) /\ UNCHANGED mock
  BY DEF ForeignNext
<1>2. Sound(foreign) /\ mock \in MockNames /\ account \in Addresses /\ ZERO \in Addresses
  BY ConstantTypes DEF SafeInv
<1>3. CASE ForeignMint(account, value)
  <2>1. CanUpdate(foreign, ZERO, account, value) /\ mock' = mock
        /\ foreign' = Update(foreign, ZERO, account, value)
    BY <1>3 DEF ForeignMint, CanMint
  <2> QED
    BY <1>2, <2>1, UpdateIsExact DEF SafeInv
<1>4. ASSUME NEW caller \in Accounts \ {CONTRACT},
             ForeignCall(caller, account, value), UNCHANGED mock
      PROVE  SafeInv'
  <2>1. CASE foreign' = transfer(mock, foreign, caller, account, value).token
    <3>1. \/ foreign' = foreign
          \/ /\ CanTransfer(foreign, caller, account, value)
             /\ foreign' = Update(foreign, caller, account, value)
      BY <2>1 DEF transfer, Reply
    <3>2. CanTransfer(foreign, caller, account, value)
            => Sound(Update(foreign, caller, account, value))
      BY <1>2, TransfersGo
    <3> QED
      BY <1>2, <1>4, <3>1, <3>2 DEF SafeInv
  <2>2. CASE foreign' = approve(mock, foreign, caller, account, value).token
    <3>1. \/ foreign' = foreign
          \/ foreign' = Approve(foreign, caller, account, value)
      BY <2>2 DEF approve, Reply
    <3>2. Sound(Approve(foreign, caller, account, value))
      BY <1>2, ApproveIsSound
    <3> QED
      BY <1>2, <1>4, <3>1, <3>2 DEF SafeInv
  <2>3. ASSUME NEW to \in Accounts,
               foreign' = transferFrom(mock, foreign, caller, account, to, value).token
        PROVE  SafeInv'
    <3> DEFINE paid == Spend(foreign, account, caller, value)
               after == Update(paid, account, to, value)
    <3>1. \/ foreign' = foreign
          \/ /\ CanSpend(foreign, account, caller, value)
             /\ CanTransfer(paid, account, to, value)
             /\ foreign' = after
      BY <2>3 DEF transferFrom, Reply
    <3>2. /\ CanSpend(foreign, account, caller, value)
          /\ CanTransfer(paid, account, to, value)
          => Sound(after)
      BY <1>2, PaidTransfersGo
    <3> HIDE DEF paid, after
    <3> QED
      BY <1>2, <1>4, <3>1, <3>2 DEF SafeInv
  <2> QED
    BY <1>4, <2>1, <2>2, <2>3 DEF ForeignCall
<1> QED
  BY <1>1, <1>3, <1>4

(* And what the contract does with it.                                      *)
LEMMA SafeNextIsSound == SafeInv /\ [SafeNext]_safeVars => SafeInv'
<1> SUFFICES ASSUME SafeInv, [SafeNext]_safeVars PROVE SafeInv'
  OBVIOUS
<1>1. CASE ForeignNext
  BY <1>1, ForeignNextIsSound
<1>2. ASSUME NEW value \in U256, NEW a \in Addresses, TransferCall(a, value)
      PROVE  SafeInv'
  <2>1. /\ Sound(SafeTransfer(foreign, a, value).token)
        /\ TransferAndCallRelaxed(foreign, a, value).ok
             => Sound(TransferAndCallRelaxed(foreign, a, value).token)
    BY SentIsReal, GivenIsReal
  <2> QED
    BY <1>2, <2>1 DEF TransferCall, Commit, Try, SafeInv
<1>3. ASSUME NEW value \in U256, NEW a \in Addresses, NEW to \in Addresses,
             TransferFromCall(a, to, value)
      PROVE  SafeInv'
  <2>1. /\ Sound(SafeTransferFrom(foreign, a, to, value).token)
        /\ TransferFromAndCallRelaxed(foreign, a, to, value).ok
             => Sound(TransferFromAndCallRelaxed(foreign, a, to, value).token)
    BY FetchedIsReal, PulledIsReal
  <2> QED
    BY <1>3, <2>1 DEF TransferFromCall, Commit, Try, SafeInv
<1>4. ASSUME NEW value \in U256, NEW a \in Addresses, AllowanceCall(a, value)
      PROVE  SafeInv'
  <2>1. PICK granted : /\ granted \in U256 /\ mock' = mock
                       /\ foreign' = Approve(foreign, CONTRACT, a, granted)
    BY <1>4, GrantsAreReal DEF AllowanceCall, Commit
  <2>2. Sound(Approve(foreign, CONTRACT, a, granted))
    BY <2>1, ApproveIsSound, ConstantTypes DEF SafeInv
  <2> QED
    BY <2>1, <2>2 DEF SafeInv
<1>5. CASE UNCHANGED safeVars
  BY <1>5 DEF safeVars, SafeInv
<1> QED
  BY <1>1, <1>2, <1>3, <1>4, <1>5 DEF SafeNext

(* A safe call that returns Ok did what it says, with every kind of token,  *)
(* for any accounts and any word size, and whatever happened before.        *)
THEOREM SafeCallsAreReal == SafeSpec => []SafeCallsDoWhatTheySay
<1>1. SafeInit => SafeInv
  BY EmptyIsSound DEF SafeInit, SafeInv
<1> QED
  BY <1>1, SafeNextIsSound, SoundLedgersAnswer, PTL DEF SafeSpec

(* So do those of the wrapper.                                              *)
THEOREM WrapperCallsAreReal == WrapperSpec => []SafeCallsDoWhatTheySay
<1>1. Inv => SafeInv
  BY DEF Inv, SafeInv
<1> QED
  BY <1>1, InitIsBacked, StepIsBacked, SoundLedgersAnswer, PTL DEF WrapperSpec

-----------------------------------------------------------------------------
(* The capped and pausable token.  `mint` compares the supply with the cap, *)
(* and the supply is what the balances add up to: so they are within it.    *)
WithinCap == /\ Sound(capped) /\ capped.total_supply <= cap
             /\ cap \in U256 /\ paused \in BOOLEAN

(* What is within the cap is what the property promises.                    *)
LEMMA WithinCapIsKept == WithinCap => CapIsKept
BY DEF WithinCap, Sound, CapIsKept, CappedTypeOK

(* A movement of a sound storage stays within the cap, when a mint does.    *)
LEMMA UpdateStaysWithin ==
  ASSUME NEW t, Sound(t), NEW c \in U256, t.total_supply <= c,
         NEW from \in Addresses, NEW to \in Addresses, NEW value \in U256,
         CanUpdate(t, from, to, value),
         from = ZERO => t.total_supply + value <= c
  PROVE  Sound(Update(t, from, to, value))
         /\ Update(t, from, to, value).total_supply <= c
<1> DEFINE u == Update(t, from, to, value)
<1>1. /\ Sound(u)
      /\ u.total_supply = t.total_supply + (IF from = ZERO THEN value ELSE 0)
                                         - (IF to = ZERO THEN value ELSE 0)
  BY UpdateIsExact
<1>2. t.total_supply \in Nat /\ value \in Nat /\ c \in Nat
  BY SoundTypes, ConstantTypes
<1> HIDE DEF u
<1>3. u.total_supply <= c
  BY <1>1, <1>2
<1> QED
  BY <1>1, <1>3 DEF u

(* An allowance used and a movement paid with it, likewise.                 *)
LEMMA PaidStaysWithin ==
  ASSUME NEW t, Sound(t), NEW c \in U256, t.total_supply <= c,
         NEW from \in Accounts, NEW to \in Addresses, NEW value \in U256,
         NEW spender \in Accounts, CanSpend(t, from, spender, value),
         CanUpdate(Spend(t, from, spender, value), from, to, value)
  PROVE  Sound(Update(Spend(t, from, spender, value), from, to, value))
         /\ Update(Spend(t, from, spender, value), from, to, value).total_supply <= c
<1> DEFINE paid == Spend(t, from, spender, value)
<1>1. Sound(paid) /\ paid.total_supply = t.total_supply
  BY SpendIsSound
<1> HIDE DEF paid
<1>2. Sound(Update(paid, from, to, value))
      /\ Update(paid, from, to, value).total_supply <= c
  BY <1>1, UpdateStaysWithin DEF paid
<1> QED
  BY <1>2 DEF paid

(* Every call keeps it.                                                     *)
LEMMA CallsStayWithin ==
  ASSUME WithinCap, ExampleNext
  PROVE  WithinCap'
<1>1. Sound(capped) /\ capped.total_supply <= cap /\ cap \in U256 /\ paused \in BOOLEAN
  BY DEF WithinCap
<1>2. CASE Pause \/ Unpause
  BY <1>1, <1>2 DEF Pause, Unpause, WithinCap
<1>3. ASSUME NEW value \in U256, NEW caller \in Accounts, Burn(caller, value)
      PROVE  WithinCap'
  BY <1>1, <1>3, UpdateStaysWithin, ConstantTypes DEF Burn, CanBurn, WithinCap
<1>4. ASSUME NEW value \in U256, NEW a \in Addresses, Mint(a, value)
      PROVE  WithinCap'
  BY <1>1, <1>4, UpdateStaysWithin, ConstantTypes DEF Mint, CanMint, WithinCap
<1>5. ASSUME NEW value \in U256, NEW caller \in Accounts, NEW a \in Addresses,
             Transfer(caller, a, value)
      PROVE  WithinCap'
  BY <1>1, <1>5, UpdateStaysWithin DEF Transfer, CanTransfer, WithinCap
<1>6. ASSUME NEW value \in U256, NEW caller \in Accounts, NEW a \in Addresses,
             ApproveCall(caller, a, value)
      PROVE  WithinCap'
  BY <1>1, <1>6, ApproveIsSound DEF ApproveCall, WithinCap
<1>7. ASSUME NEW value \in U256, NEW caller \in Accounts, NEW a \in Addresses,
             BurnFrom(caller, a, value)
      PROVE  WithinCap'
  BY <1>1, <1>7, PaidStaysWithin, ConstantTypes DEF BurnFrom, CanBurn, WithinCap
<1>8. ASSUME NEW value \in U256, NEW caller \in Accounts, NEW a \in Addresses,
             NEW to \in Addresses, TransferFrom(caller, a, to, value)
      PROVE  WithinCap'
  BY <1>1, <1>8, PaidStaysWithin DEF TransferFrom, CanTransfer, WithinCap
<1> QED
  BY <1>2, <1>3, <1>4, <1>5, <1>6, <1>7, <1>8 DEF ExampleNext

(* However a token is minted, moved and burned, what is in circulation is   *)
(* within its cap; and while it is paused, no balance changes and nobody's  *)
(* allowance but by the owner's own approval.                               *)
THEOREM CapAndPause == ExampleSpec => CapAndPauseHold
<1>1. ExampleInit => WithinCap
  <2>1. EmptyToken.total_supply = 0
    BY DEF EmptyToken
  <2>2. \A c \in U256 : 0 <= c
    BY ConstantTypes
  <2> QED
    BY <2>1, <2>2, EmptyIsSound DEF ExampleInit, WithinCap
<1>2. WithinCap /\ [ExampleNext]_exampleVars => WithinCap'
  BY CallsStayWithin DEF exampleVars, WithinCap
<1>3. ASSUME WithinCap, ExampleNext, paused, paused'
      PROVE  /\ capped'.balances = capped.balances
             /\ \A o, s \in Accounts :
                  capped'.allowances[o][s] # capped.allowances[o][s] =>
                    \E value \in U256 : ApproveCall(o, s, value)
  <2>1. PICK value \in U256, caller \in Accounts, a \in Addresses :
          ApproveCall(caller, a, value)
    BY <1>3 DEF ExampleNext, Pause, Unpause, Burn, Mint, Transfer, BurnFrom,
                TransferFrom
  <2>2. /\ capped \in Tokens /\ Sound(capped) /\ a \in Accounts
        /\ capped' = Approve(capped, caller, a, value)
    BY <1>3, <2>1 DEF ApproveCall, CanApprove, WithinCap, Sound
  <2>3. capped'.balances = capped.balances
    BY <2>2, ApproveIsSound
  <2>4. \A o, s \in Addresses :
          capped'.allowances[o][s] # capped.allowances[o][s] => o = caller /\ s = a
    BY <2>2 DEF Approve, Tokens
  <2> QED
    BY <2>1, <2>3, <2>4
<1>4. WithinCap /\ WithinCap' /\ [ExampleNext]_exampleVars =>
        [ /\ CapIsKept'
          /\ paused /\ paused' =>
               /\ capped'.balances = capped.balances
               /\ \A o, s \in Accounts :
                    capped'.allowances[o][s] # capped.allowances[o][s] =>
                      \E value \in U256 : ApproveCall(o, s, value) ]_exampleVars
  <2>1. WithinCap' => CapIsKept'
    BY WithinCapIsKept, PTL
  <2> QED
    BY <1>3, <2>1
<1> QED
  BY <1>1, <1>2, <1>4, PTL DEF ExampleSpec, CapAndPauseHold
=============================================================================
