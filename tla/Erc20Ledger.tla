------------------------------ MODULE Erc20Ledger ------------------------------
(***************************************************************************)
(* The storage of an `Erc20` (contracts/src/token/erc20/mod.rs) as a value *)
(* and its state-changing internals as operators on that value: for each   *)
(* internal function `f` of the source, `CanF` holds of the arguments for  *)
(* which the call returns `Ok` without panicking, and `F` is the storage   *)
(* it leaves.  A call that returns `Err` or panics makes the transaction   *)
(* revert, so it has no effect to describe.                                *)
(***************************************************************************)
EXTENDS Sums

CONSTANTS
  Addresses,  \* every address, the zero address included
  ZERO,       \* Address::ZERO
  MaxU256     \* U256::MAX; words are 0..MaxU256 and wrap modulo MaxU256 + 1

ASSUME AddressesAssumption == ZERO \in Addresses /\ IsFiniteSet(Addresses)
ASSUME MaxU256Assumption   == MaxU256 \in Nat \ {0}

U256     == 0..MaxU256
Accounts == Addresses \ {ZERO}

(* ruint's `+` and `-` on a `U256`, and the *_assign_unchecked storage      *)
(* helpers built on them, wrap around.                                      *)
Wrap(x) == x % (MaxU256 + 1)

Tokens == [ balances     : [Addresses -> U256],
            allowances   : [Addresses -> [Addresses -> U256]],
            total_supply : U256 ]

EmptyToken == [ balances     |-> [a \in Addresses |-> 0],
                allowances   |-> [o \in Addresses |-> [s \in Addresses |-> 0]],
                total_supply |-> 0 ]

-----------------------------------------------------------------------------
(* `_update`: a mint when `from` is zero, a burn when `to` is zero.  The    *)
(* mint is checked against overflow, a debit against the balance; the       *)
(* credit of `to` and the burn's debit of the supply are unchecked.         *)
CanUpdateUnchecked(t, from, to, value) ==  \* mutant: no overflow check
  from # ZERO => value <= t.balances[from]

CanUpdate(t, from, to, value) ==
  IF from = ZERO
    THEN t.total_supply + value <= MaxU256
    ELSE value <= t.balances[from]

UpdateStaleCredit(t, from, to, value) ==   \* mutant: `to` read before the debit
  LET minted == IF from = ZERO THEN t.total_supply + value ELSE t.total_supply
  IN  [ t EXCEPT !.total_supply = IF to = ZERO THEN Wrap(minted - value)
                                               ELSE minted,
                 !.balances = [a \in Addresses |->
                    IF a = to /\ a # ZERO THEN Wrap(@[a] + value)
                    ELSE IF a = from /\ a # ZERO THEN @[a] - value ELSE @[a]] ]

Update(t, from, to, value) ==
  LET minted  == IF from = ZERO THEN t.total_supply + value ELSE t.total_supply
      debited == IF from = ZERO
                   THEN t.balances
                   ELSE [t.balances EXCEPT ![from] = @ - value]
  IN  [ t EXCEPT !.total_supply = IF to = ZERO THEN Wrap(minted - value)
                                               ELSE minted,
                 !.balances = IF to = ZERO
                                THEN debited
                                ELSE [debited EXCEPT ![to] = Wrap(@ + value)] ]

(* `_transfer`, `_mint` and `_burn` refuse the zero address and update.     *)
CanTransfer(t, from, to, value) ==
  from # ZERO /\ to # ZERO /\ CanUpdate(t, from, to, value)

CanMint(t, account, value) ==
  account # ZERO /\ CanUpdate(t, ZERO, account, value)

CanBurn(t, account, value) ==
  account # ZERO /\ CanUpdate(t, account, ZERO, value)

(* `_approve` refuses the zero address on either side.                      *)
CanApprove(owner, spender) == owner # ZERO /\ spender # ZERO

Approve(t, owner, spender, value) ==
  [t EXCEPT !.allowances[owner][spender] = value]

(* `_spend_allowance`: an allowance of U256::MAX is never decreased (and    *)
(* then `_approve` is not called, nor its zero-address tests).              *)
CanSpend(t, owner, spender, value) ==
  \/ t.allowances[owner][spender] = MaxU256
  \/ /\ value <= t.allowances[owner][spender]
     /\ CanApprove(owner, spender)

SpendInfinite(t, owner, spender, value) ==  \* mutant: U256::MAX is a number
  Approve(t, owner, spender, t.allowances[owner][spender] - value)

Spend(t, owner, spender, value) ==
  IF t.allowances[owner][spender] = MaxU256
    THEN t
    ELSE Approve(t, owner, spender, t.allowances[owner][spender] - value)

-----------------------------------------------------------------------------
(* What these operators preserve.  In a storage whose balances add up to    *)
(* the supply no word of `_update` wraps, so that its unchecked arithmetic  *)
(* is exact; and exact arithmetic keeps the sum.                            *)

(* SumOfChange on the balances.                                             *)
LEMMA SumOfWords ==
  ASSUME NEW f \in [Addresses -> 0..MaxU256],
         NEW g \in [Addresses -> 0..MaxU256], NEW x \in Addresses,
         \A y \in Addresses \ {x} : g[y] = f[y]
  PROVE  SumOf(g) = SumOf(f) - f[x] + g[x]
<1>1. IsFiniteSet(Addresses) /\ MaxU256 \in Nat
  BY AddressesAssumption, MaxU256Assumption
<1> QED
  BY <1>1, SumOfChange

(* SumOfBounds on the balances.                                             *)
LEMMA SumOfWordsBounds ==
  ASSUME NEW f \in [Addresses -> 0..MaxU256], NEW x \in Addresses
  PROVE  f[x] <= SumOf(f) /\ SumOf(f) \in Nat
<1>1. IsFiniteSet(Addresses) /\ MaxU256 \in Nat
  BY AddressesAssumption, MaxU256Assumption
<1>2. f[x] <= SumOf(f)
  BY <1>1, SumOfBounds
<1>3. SumOf(f) \in Nat
  BY <1>1, SumOfType
<1> QED
  BY <1>2, <1>3

USE DEF U256, Accounts

(* Subtracting and adding within a word do not wrap.                        *)
LEMMA WrapIsExact ==
  ASSUME NEW n \in U256
  PROVE  Wrap(n) = n
BY MaxU256Assumption DEF Wrap

Sound(t) == /\ t \in Tokens
            /\ SumOf(t.balances) = t.total_supply
            /\ t.balances[ZERO] = 0

(* Nothing was minted, and nobody holds anything.                           *)
LEMMA EmptyIsSound == Sound(EmptyToken)
<1>1. /\ EmptyToken.balances = [a \in Addresses |-> 0]
      /\ EmptyToken.total_supply = 0 /\ EmptyToken \in Tokens
      /\ ZERO \in Addresses
  BY AddressesAssumption, MaxU256Assumption DEF EmptyToken, Tokens, U256
<1> QED
  BY <1>1, SumOfZero DEF Sound

(* The balances that exact arithmetic gives for a movement.                 *)
Moved(b, from, to, value) ==
  [a \in Addresses |-> IF a = ZERO THEN 0
                       ELSE b[a] - (IF a = from THEN value ELSE 0)
                                 + (IF a = to THEN value ELSE 0)]

(* What `_update` leaves: the storage is sound, allowances are untouched,   *)
(* and each field is what exact arithmetic gives.                           *)
LEMMA UpdateIsExact ==
  ASSUME NEW t, Sound(t), NEW from \in Addresses, NEW to \in Addresses,
         NEW value \in U256, CanUpdate(t, from, to, value)
  PROVE  /\ Sound(Update(t, from, to, value))
         /\ Update(t, from, to, value).allowances = t.allowances
         /\ Update(t, from, to, value).total_supply
              = t.total_supply + (IF from = ZERO THEN value ELSE 0)
                               - (IF to = ZERO THEN value ELSE 0)
         /\ Update(t, from, to, value).balances
              = Moved(t.balances, from, to, value)
<1> DEFINE b == t.balances
           d == IF from = ZERO THEN b ELSE [b EXCEPT ![from] = @ - value]
           c == IF to = ZERO THEN d ELSE [d EXCEPT ![to] = Wrap(@ + value)]
           minted == IF from = ZERO THEN t.total_supply + value
                                    ELSE t.total_supply
           left == IF to = ZERO THEN Wrap(minted - value) ELSE minted
           u == Update(t, from, to, value)
<1>1. /\ b \in [Addresses -> U256] /\ t.total_supply \in U256
      /\ t.allowances \in [Addresses -> [Addresses -> U256]]
      /\ SumOf(b) = t.total_supply /\ b[ZERO] = 0
      /\ IsFiniteSet(Addresses) /\ ZERO \in Addresses /\ MaxU256 \in Nat
  BY AddressesAssumption, MaxU256Assumption DEF Sound, Tokens
<1>2. u = [t EXCEPT !.total_supply = left, !.balances = c]
  BY DEF Update
<1>3. /\ u.balances = c /\ u.total_supply = left
      /\ u.allowances = t.allowances
  BY <1>1, <1>2, Sound(t) DEF Sound, Tokens
<1>4. /\ d \in [Addresses -> U256] /\ d[ZERO] = 0 /\ minted \in U256
      /\ SumOf(d) = minted - value
      /\ \A a \in Addresses :
           d[a] = IF a = from /\ a # ZERO THEN b[a] - value ELSE b[a]
  <2>1. CASE from = ZERO
    BY <1>1, <2>1 DEF CanUpdate
  <2>2. CASE from # ZERO
    <3>1. value <= b[from] /\ b[from] - value \in U256
      BY <1>1, <2>2 DEF CanUpdate
    <3>2. d = [b EXCEPT ![from] = b[from] - value] /\ minted = t.total_supply
      BY <2>2
    <3> HIDE DEF b, d, minted
    <3>3. SumOf(d) = SumOf(b) - b[from] + (b[from] - value)
      <4>1. d \in [Addresses -> U256] /\ d[from] = b[from] - value
            /\ \A y \in Addresses \ {from} : d[y] = b[y]
        BY <1>1, <3>1, <3>2
      <4>2. SumOf(d) = SumOf(b) - b[from] + d[from]
        BY <1>1, <4>1, SumOfWords
      <4> QED
        BY <4>1, <4>2
    <3>4. b[from] \in Nat /\ SumOf(d) = minted - value
      BY <1>1, <3>2, <3>3
    <3> QED
      BY <1>1, <2>2, <3>1, <3>2, <3>4
  <2> QED
    BY <2>1, <2>2
<1>6. /\ minted = t.total_supply + (IF from = ZERO THEN value ELSE 0)
      /\ to = ZERO => c = d /\ left = Wrap(minted - value)
      /\ to # ZERO => c = [d EXCEPT ![to] = Wrap(d[to] + value)] /\ left = minted
  BY <1>1
<1>7. u \in [balances : {c}, allowances : {t.allowances}, total_supply : {left}]
  BY <1>1, <1>2, Sound(t) DEF Sound, Tokens
<1> HIDE DEF b, c, d, u, minted, left
<1>5. minted - value \in U256
  <2>1. SumOf(d) \in Nat
    BY <1>1, <1>4, SumOfWordsBounds
  <2> QED
    BY <1>1, <1>4, <2>1
<1>8. CASE to = ZERO
  <2>1. left = minted - value
    BY <1>5, <1>6, <1>8, WrapIsExact
  <2>2. \A a \in Addresses :
          c[a] = IF a = ZERO THEN 0
                 ELSE b[a] - (IF a = from THEN value ELSE 0)
                           + (IF a = to THEN value ELSE 0)
    BY <1>1, <1>4, <1>6, <1>8
  <2>3. c \in [Addresses -> U256] /\ SumOf(c) = left /\ left \in U256
    BY <1>4, <1>5, <1>6, <1>8, <2>1
  <2> QED
    BY <1>1, <1>3, <1>4, <1>6, <1>7, <1>8, <2>1, <2>2, <2>3
       DEF Sound, Tokens, b, u, Moved
<1>9. CASE to # ZERO
  <2>1. d[to] <= SumOf(d) /\ d[to] \in Nat
    <3>1. d[to] <= SumOf(d)
      BY <1>4, SumOfWordsBounds
    <3> QED
      BY <1>1, <1>4, <3>1
  <2>2. d[to] + value \in U256
    BY <1>1, <1>4, <1>5, <2>1
  <2>3. c = [d EXCEPT ![to] = d[to] + value] /\ left = minted
    BY <1>6, <1>9, <2>2, WrapIsExact
  <2>4. SumOf(c) = SumOf(d) - d[to] + (d[to] + value)
    <3>1. c \in [Addresses -> U256] /\ c[to] = d[to] + value
          /\ \A y \in Addresses \ {to} : c[y] = d[y]
      BY <1>4, <2>2, <2>3
    <3>2. SumOf(c) = SumOf(d) - d[to] + c[to]
      BY <1>4, <3>1, SumOfWords
    <3> QED
      BY <3>1, <3>2
  <2>5. SumOf(c) = left
    BY <1>4, <1>5, <2>1, <2>3, <2>4
  <2>6. \A a \in Addresses :
          c[a] = IF a = ZERO THEN 0
                 ELSE b[a] - (IF a = from THEN value ELSE 0)
                           + (IF a = to THEN value ELSE 0)
    BY <1>1, <1>4, <1>9, <2>3
  <2>7. c \in [Addresses -> U256] /\ left \in U256
    BY <1>4, <2>2, <2>3
  <2>8. /\ u.balances = [a \in Addresses |->
              IF a = ZERO THEN 0
              ELSE b[a] - (IF a = from THEN value ELSE 0)
                        + (IF a = to THEN value ELSE 0)]
        /\ u.total_supply = t.total_supply
                               + (IF from = ZERO THEN value ELSE 0)
                               - (IF to = ZERO THEN value ELSE 0)
    <3>1. to # ZERO /\ left = t.total_supply + (IF from = ZERO THEN value ELSE 0)
      BY <1>6, <1>9, <2>3
    <3>2. DOMAIN c = Addresses /\ c = [a \in Addresses |-> c[a]]
      BY <2>7
    <3> QED
      BY <1>1, <1>3, <2>6, <3>1, <3>2
  <2>9. Sound(u)
    BY <1>1, <1>3, <1>7, <2>5, <2>6, <2>7 DEF Sound, Tokens
  <2> QED
    BY <1>3, <2>8, <2>9 DEF b, u, Moved
<1> QED
  BY <1>8, <1>9

(* An allowance spent leaves the ledger sound, the balances and the supply  *)
(* as they were, and no allowance larger than it was.                       *)
LEMMA SpendIsSound ==
  ASSUME NEW t, Sound(t), NEW o \in Addresses, NEW s \in Addresses,
         NEW value \in U256, CanSpend(t, o, s, value)
  PROVE  /\ Sound(Spend(t, o, s, value))
         /\ Spend(t, o, s, value).total_supply = t.total_supply
         /\ Spend(t, o, s, value).balances = t.balances
         /\ \A p, q \in Addresses :
              Spend(t, o, s, value).allowances[p][q] <= t.allowances[p][q]
<1>0. \A p, q \in Addresses : t.allowances[p][q] \in Nat
  BY MaxU256Assumption DEF Sound, Tokens
<1>1. CASE t.allowances[o][s] = MaxU256
  BY <1>0, <1>1 DEF Spend
<1>2. CASE t.allowances[o][s] # MaxU256
  <2> DEFINE rest == t.allowances[o][s] - value
             al == [t.allowances EXCEPT ![o][s] = rest]
  <2>1. t \in Tokens /\ t.allowances[o][s] \in U256 /\ value <= t.allowances[o][s]
    BY <1>2 DEF CanSpend, Sound, Tokens
  <2>2. rest \in U256 /\ rest <= t.allowances[o][s]
    BY <2>1, MaxU256Assumption DEF U256
  <2>3. Spend(t, o, s, value) = [t EXCEPT !.allowances = al]
    BY <1>2, <2>1 DEF Spend, Approve, Tokens
  <2> HIDE DEF rest
  <2>4. /\ al \in [Addresses -> [Addresses -> U256]]
        /\ \A p, q \in Addresses : al[p][q] <= t.allowances[p][q]
    BY <1>0, <2>1, <2>2 DEF Tokens
  <2> HIDE DEF al
  <2>5. /\ [t EXCEPT !.allowances = al] \in Tokens
        /\ [t EXCEPT !.allowances = al].balances = t.balances
        /\ [t EXCEPT !.allowances = al].total_supply = t.total_supply
        /\ [t EXCEPT !.allowances = al].allowances = al
    BY <2>1, <2>4 DEF Tokens
  <2> QED
    BY <2>3, <2>4, <2>5 DEF Sound
<1> QED
  BY <1>1, <1>2

(* Approvals leave it sound as well, and touch the owner's allowances only. *)
LEMMA ApproveIsSound ==
  ASSUME NEW t, Sound(t), NEW o \in Addresses, NEW s \in Addresses,
         NEW value \in U256
  PROVE  /\ Sound(Approve(t, o, s, value))
         /\ Approve(t, o, s, value).total_supply = t.total_supply
         /\ Approve(t, o, s, value).balances = t.balances
         /\ \A p \in Addresses \ {o} :
              Approve(t, o, s, value).allowances[p] = t.allowances[p]
<1> DEFINE al == [t.allowances EXCEPT ![o][s] = value]
<1>1. t \in Tokens /\ Approve(t, o, s, value) = [t EXCEPT !.allowances = al]
  BY DEF Approve, Sound, Tokens
<1>2. /\ al \in [Addresses -> [Addresses -> U256]]
      /\ \A p \in Addresses \ {o} : al[p] = t.allowances[p]
  BY <1>1 DEF Tokens
<1> HIDE DEF al
<1>3. /\ [t EXCEPT !.allowances = al] \in Tokens
      /\ [t EXCEPT !.allowances = al].balances = t.balances
      /\ [t EXCEPT !.allowances = al].total_supply = t.total_supply
      /\ [t EXCEPT !.allowances = al].allowances = al
  BY <1>1, <1>2 DEF Tokens
<1> QED
  BY <1>1, <1>2, <1>3 DEF Sound
=============================================================================
