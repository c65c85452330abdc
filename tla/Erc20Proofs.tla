------------------------------ MODULE Erc20Proofs ------------------------------
(***************************************************************************)
(* The invariants of Erc20 and its refinement of FungibleLedger, for any   *)
(* finite set of addresses and any word size.  SupplyIsSumOfBalances is    *)
(* what makes the unchecked arithmetic of `_update` exact, so it is part   *)
(* of the inductive invariant.                                             *)
(*                                                                         *)
(* Then the flash loans, of any size, nested to any depth, with any fees   *)
(* set at any moment: the supply is what was issued and what is on loan, a *)
(* funded loan can be repaid, and repaying costs what was quoted.          *)
(***************************************************************************)
EXTENDS Erc20Permit, Erc20FlashMint, SequenceTheorems

USE DEF U256, Accounts

(* The approvals: what the history says is what the storage holds.          *)
Quotas == [Addresses -> [Addresses -> [granted : U256, spent : Nat]]]

Metered(al, q) ==
  /\ q \in Quotas
  /\ \A a \in Addresses : al[ZERO][a] = 0 /\ al[a][ZERO] = 0
  /\ \A o, s \in Addresses :
       /\ q[o][s].spent <= q[o][s].granted
       /\ al[o][s] = q[o][s].granted - q[o][s].spent
       /\ q[o][s].granted = MaxU256 => q[o][s].spent = 0

(* The inductive invariant, in the two halves the actions touch separately. *)
IInv == Sound(token) /\ Metered(token.allowances, quota)

(* The invariant contains the properties.                                   *)
LEMMA IInvImplies ==
  ASSUME IInv
  PROVE  /\ TypeOK /\ SupplyIsSumOfBalances /\ ZeroAddressIsInert
         /\ AllowanceIsWhatIsLeft
BY DEF IInv, Sound, Metered, Quotas, TypeOK, SupplyIsSumOfBalances,
       ZeroAddressIsInert, AllowanceIsWhatIsLeft

(* `_approve` between two accounts starts a new quota.                      *)
LEMMA ApproveIsMetered ==
  ASSUME IInv, NEW o \in Addresses, NEW s \in Addresses, NEW value \in U256,
         CanApprove(o, s)
  PROVE  LET u == Approve(token, o, s, value) IN
         /\ Sound(u)
         /\ u.balances = token.balances /\ u.total_supply = token.total_supply
         /\ Metered(u.allowances, [quota EXCEPT ![o][s] =
                                     [granted |-> value, spent |-> 0]])
<1> DEFINE u == Approve(token, o, s, value)
           al == token.allowances
           q == [quota EXCEPT ![o][s] = [granted |-> value, spent |-> 0]]
<1>1. /\ token \in Tokens /\ al \in [Addresses -> [Addresses -> U256]]
      /\ quota \in Quotas /\ o # ZERO /\ s # ZERO /\ ZERO \in Addresses
  BY AddressesAssumption DEF IInv, Sound, Metered, Tokens, CanApprove
<1>2. /\ u \in Tokens /\ u.balances = token.balances
      /\ u.total_supply = token.total_supply
      /\ u.allowances = [al EXCEPT ![o][s] = value]
  BY <1>1 DEF Approve, Tokens
<1>3. q \in Quotas
  BY <1>1, MaxU256Assumption DEF Quotas
<1>4. \A a, b \in Addresses :
        /\ u.allowances[a][b] = IF a = o /\ b = s THEN value ELSE al[a][b]
        /\ q[a][b] = IF a = o /\ b = s THEN [granted |-> value, spent |-> 0]
                                       ELSE quota[a][b]
  BY <1>1, <1>2 DEF Quotas
<1> HIDE DEF u, q
<1>5. Metered(u.allowances, q)
  <2>1. \A a \in Addresses : u.allowances[ZERO][a] = 0 /\ u.allowances[a][ZERO] = 0
    BY <1>1, <1>4 DEF IInv, Metered
  <2>2. \A a, b \in Addresses :
          /\ q[a][b].spent <= q[a][b].granted
          /\ u.allowances[a][b] = q[a][b].granted - q[a][b].spent
          /\ q[a][b].granted = MaxU256 => q[a][b].spent = 0
    <3> TAKE a, b \in Addresses
    <3>1. CASE a = o /\ b = s
      BY <1>4, <3>1, MaxU256Assumption
    <3>2. CASE ~(a = o /\ b = s)
      BY <1>4, <3>2 DEF IInv, Metered
    <3> QED
      BY <3>1, <3>2
  <2> QED
    BY <1>3, <2>1, <2>2 DEF Metered
<1>6. Sound(u)
  BY <1>2 DEF IInv, Sound
<1> QED
  BY <1>2, <1>5, <1>6 DEF u, q

(* `_spend_allowance` takes from what is left, or leaves an infinite one.   *)
LEMMA SpendIsMetered ==
  ASSUME IInv, NEW o \in Addresses, NEW s \in Addresses, NEW value \in U256,
         CanSpend(token, o, s, value)
  PROVE  LET u == Spend(token, o, s, value) IN
         /\ Sound(u)
         /\ u.balances = token.balances /\ u.total_supply = token.total_supply
         /\ Metered(u.allowances, Meter(o, s, value))
<1> DEFINE u == Spend(token, o, s, value)
           al == token.allowances
           q == Meter(o, s, value)
<1>1. CASE al[o][s] = MaxU256
  BY <1>1 DEF Spend, Meter, IInv
<1>2. CASE al[o][s] # MaxU256
  <2>1. /\ token \in Tokens /\ al \in [Addresses -> [Addresses -> U256]]
        /\ quota \in Quotas /\ o # ZERO /\ s # ZERO /\ ZERO \in Addresses
        /\ value <= al[o][s]
    BY <1>2, AddressesAssumption
       DEF IInv, Sound, Metered, Tokens, CanSpend, CanApprove
  <2>2. /\ u.balances = token.balances
        /\ u.total_supply = token.total_supply
        /\ u.allowances = [al EXCEPT ![o][s] = al[o][s] - value]
        /\ u \in [balances : {token.balances}, allowances : {u.allowances},
                  total_supply : {token.total_supply}]
    BY <1>2, <2>1 DEF Spend, Approve, Tokens
  <2>3. al[o][s] - value \in U256
    BY <2>1, MaxU256Assumption
  <2>4. u \in Tokens
    BY <2>1, <2>2, <2>3 DEF Tokens
  <2>5. /\ quota[o][s] \in [granted : U256, spent : Nat]
        /\ q = [quota EXCEPT ![o][s].spent = quota[o][s].spent + value]
    BY <1>2, <2>1 DEF Meter, Quotas
  <2>6. q \in Quotas
    <3> DEFINE r == [quota[o][s] EXCEPT !.spent = quota[o][s].spent + value]
    <3>1. r \in [granted : U256, spent : Nat]
      <4>1. quota[o][s].spent + value \in Nat
        BY <2>5, MaxU256Assumption
      <4> QED
        BY <2>5, <4>1
    <3>2. q = [quota EXCEPT ![o] = [quota[o] EXCEPT ![s] = r]]
      BY <2>5
    <3> HIDE DEF r, q
    <3>3. [quota[o] EXCEPT ![s] = r] \in [Addresses -> [granted : U256, spent : Nat]]
      BY <2>1, <3>1 DEF Quotas
    <3> QED
      BY <2>1, <3>2, <3>3 DEF Quotas
  <2>7. \A a, b \in Addresses :
          /\ u.allowances[a][b] =
               IF a = o /\ b = s THEN al[a][b] - value ELSE al[a][b]
          /\ q[a][b].granted = quota[a][b].granted
          /\ q[a][b].spent =
               IF a = o /\ b = s THEN quota[a][b].spent + value
                                 ELSE quota[a][b].spent
    BY <2>1, <2>2, <2>5 DEF Quotas
  <2>8. /\ \A a, b \in Addresses : /\ quota[a][b].granted \in U256
                                   /\ quota[a][b].spent \in Nat
                                   /\ al[a][b] \in U256
        /\ \A a, b \in Addresses :
              /\ quota[a][b].spent <= quota[a][b].granted
              /\ al[a][b] = quota[a][b].granted - quota[a][b].spent
              /\ quota[a][b].granted = MaxU256 => quota[a][b].spent = 0
    BY <2>1 DEF IInv, Metered, Quotas
  <2> HIDE DEF u, q, al
  <2>9. \A a, b \in Addresses :
          /\ q[a][b].spent <= q[a][b].granted
          /\ u.allowances[a][b] = q[a][b].granted - q[a][b].spent
          /\ q[a][b].granted = MaxU256 => q[a][b].spent = 0
    <3> TAKE a, b \in Addresses
    <3>1. CASE a = o /\ b = s
      BY <1>2, <2>1, <2>7, <2>8, <3>1, MaxU256Assumption
    <3>2. CASE ~(a = o /\ b = s)
      BY <2>7, <2>8, <3>2
    <3> QED
      BY <3>1, <3>2
  <2>10. \A a \in Addresses : u.allowances[ZERO][a] = 0 /\ u.allowances[a][ZERO] = 0
    BY <2>1, <2>7 DEF IInv, Metered, al
  <2>11. Metered(u.allowances, q)
    BY <2>6, <2>9, <2>10 DEF Metered
  <2>12. Sound(u)
    BY <2>2, <2>4 DEF IInv, Sound
  <2> QED
    BY <2>2, <2>11, <2>12 DEF u, q
<1> QED
  BY <1>1, <1>2

-----------------------------------------------------------------------------
(* A call that changes the balances alone: the approvals stay metered.      *)
LEMMA UpdateKeepsIInv ==
  ASSUME IInv, NEW from \in Addresses, NEW to \in Addresses,
         NEW value \in U256, CanUpdate(token, from, to, value),
         token' = Update(token, from, to, value), UNCHANGED quota
  PROVE  IInv'
<1>1. Sound(token)
  BY DEF IInv
<1>2. /\ Sound(Update(token, from, to, value))
      /\ Update(token, from, to, value).allowances = token.allowances
  BY <1>1, UpdateIsExact
<1> QED
  BY <1>2 DEF IInv, Sound, Metered

(* A call that spends an allowance and then updates the balances.           *)
LEMMA SpendAndUpdateKeepsIInv ==
  ASSUME IInv, NEW o \in Addresses, NEW s \in Addresses, NEW to \in Addresses,
         NEW value \in U256, CanSpend(token, o, s, value),
         CanUpdate(Spend(token, o, s, value), o, to, value),
         token' = Update(Spend(token, o, s, value), o, to, value),
         quota' = Meter(o, s, value)
  PROVE  IInv'
<1> DEFINE paid == Spend(token, o, s, value)
           u    == Update(paid, o, to, value)
<1>1. Sound(paid) /\ Metered(paid.allowances, Meter(o, s, value))
  BY SpendIsMetered
<1>2. Sound(u) /\ u.allowances = paid.allowances
  <2> HIDE DEF paid
  <2>1. CanUpdate(paid, o, to, value)
    BY DEF paid
  <2> QED
    BY <1>1, <2>1, UpdateIsExact
<1>3. token' = u
  OBVIOUS
<1> HIDE DEF paid, u
<1> QED
  BY <1>1, <1>2, <1>3 DEF IInv, Sound, Metered

(* An empty token, nothing granted.                                         *)
LEMMA InitEstablishesIInv == Init => IInv
<1> SUFFICES ASSUME Init PROVE IInv
  OBVIOUS
<1>1. /\ token = EmptyToken /\ token.balances = [a \in Addresses |-> 0]
      /\ token.total_supply = 0 /\ token \in Tokens /\ ZERO \in Addresses
  BY AddressesAssumption, MaxU256Assumption DEF Init, EmptyToken, Tokens
<1>2. Sound(token)
  BY <1>1, EmptyIsSound
<1>3. Metered(token.allowances, quota)
  BY <1>1, MaxU256Assumption DEF Init, EmptyToken, Metered, Quotas
<1> QED
  BY <1>2, <1>3 DEF IInv

(* Every step keeps the invariant, action by action.                        *)
LEMMA NextKeepsIInv == IInv /\ [Next]_vars => IInv'
<1> SUFFICES ASSUME IInv, [Next]_vars PROVE IInv'
  OBVIOUS
<1>0. ZERO \in Addresses
  BY AddressesAssumption
<1>1. ASSUME NEW value \in U256, NEW caller \in Accounts, NEW a \in Addresses,
             Transfer(caller, a, value)
      PROVE  IInv'
  BY <1>1, UpdateKeepsIInv DEF Transfer, CanTransfer
<1>2. ASSUME NEW value \in U256, NEW caller \in Accounts, NEW a \in Addresses,
             ApproveCall(caller, a, value)
      PROVE  IInv'
  <2>1. /\ Sound(Approve(token, caller, a, value))
        /\ Metered(Approve(token, caller, a, value).allowances, quota')
    BY <1>2, ApproveIsMetered DEF ApproveCall
  <2> QED
    BY <1>2, <2>1 DEF ApproveCall, IInv, Sound, Metered
<1>3. ASSUME NEW value \in U256, NEW caller \in Accounts, NEW a \in Addresses,
             BurnFrom(caller, a, value)
      PROVE  IInv'
  BY <1>0, <1>3, SpendAndUpdateKeepsIInv DEF BurnFrom, CanBurn
<1>4. ASSUME NEW value \in U256, NEW caller \in Accounts, NEW a \in Addresses,
             NEW to \in Addresses, TransferFrom(caller, a, to, value)
      PROVE  IInv'
  BY <1>4, SpendAndUpdateKeepsIInv DEF TransferFrom, CanTransfer
<1>5. ASSUME NEW value \in U256, NEW a \in Addresses, Burn(a, value)
      PROVE  IInv'
  BY <1>0, <1>5, UpdateKeepsIInv DEF Burn, CanBurn
<1>6. ASSUME NEW value \in U256, NEW a \in Addresses, Mint(a, value)
      PROVE  IInv'
  BY <1>0, <1>6, UpdateKeepsIInv DEF Mint, CanMint
<1>7. ASSUME NEW value \in U256, NEW a \in Addresses, NEW b \in Addresses,
             UpdateCall(a, b, value)
      PROVE  IInv'
  BY <1>7, UpdateKeepsIInv DEF UpdateCall
<1>8. ASSUME NEW value \in U256, NEW a \in Addresses, NEW b \in Addresses,
             SpendCall(a, b, value)
      PROVE  IInv'
  <2>1. /\ Sound(Spend(token, a, b, value))
        /\ Metered(Spend(token, a, b, value).allowances, quota')
    BY <1>8, SpendIsMetered DEF SpendCall
  <2> QED
    BY <1>8, <2>1 DEF SpendCall, IInv, Sound, Metered
<1>9. CASE UNCHANGED vars
  BY <1>9 DEF vars, IInv, Sound, Metered
<1> QED
  BY <1>1, <1>2, <1>3, <1>4, <1>5, <1>6, <1>7, <1>8, <1>9 DEF Next

(* So it always holds.                                                      *)
LEMMA SpecImpliesIInv == Spec => []IInv
BY InitEstablishesIInv, NextKeepsIInv, PTL DEF Spec

(* The storage of the token stays in its types: no unchecked operation of   *)
(* `_update` and no subtraction of `_spend_allowance` leaves 0..MaxU256.    *)
THEOREM Typed == Spec => []TypeOK
BY SpecImpliesIInv, IInvImplies, PTL

(* Conservation: over every sequence of calls the balances add up to the    *)
(* total supply of contracts/src/token/erc20/mod.rs.                        *)
THEOREM Conservation == Spec => []SupplyIsSumOfBalances
BY SpecImpliesIInv, IInvImplies, PTL

(* The zero address never holds, grants or is granted anything.             *)
THEOREM ZeroIsInert == Spec => []ZeroAddressIsInert
BY SpecImpliesIInv, IInvImplies, PTL

(* An allowance is what was granted less what was spent since.              *)
THEOREM AllowancesAreMetered == Spec => []AllowanceIsWhatIsLeft
BY SpecImpliesIInv, IInvImplies, PTL

-----------------------------------------------------------------------------
(* The refinement.  A step that updates a storage with the balances of the  *)
(* token is the abstract step its arguments say: zero to an account issues, *)
(* an account to zero retires, an account to another moves.                 *)
LEMMA UpdateIsLedgerStep ==
  ASSUME NEW t, Sound(t), t.balances = token.balances,
         t.total_supply = token.total_supply,
         NEW from \in Addresses, NEW to \in Addresses, NEW value \in U256,
         CanUpdate(t, from, to, value), token' = Update(t, from, to, value)
  PROVE  [Ledger!LedgerNext]_(Ledger!ledgerVars)
<1> DEFINE b == token.balances
           h == [a \in Accounts |-> b[a]]
           s == token.total_supply
<1>1. /\ b \in [Addresses -> U256] /\ s \in U256 /\ ZERO \in Addresses
      /\ MaxU256 \in Nat /\ b[ZERO] = 0
  BY AddressesAssumption, MaxU256Assumption DEF Sound, Tokens
<1>2. /\ token'.balances = Moved(b, from, to, value)
      /\ s' = s + (IF from = ZERO THEN value ELSE 0)
                - (IF to = ZERO THEN value ELSE 0)
  BY UpdateIsExact
<1>3. h' = [a \in Accounts |-> b[a] - (IF a = from THEN value ELSE 0)
                                    + (IF a = to THEN value ELSE 0)]
  BY <1>2 DEF Moved
<1>4. /\ from = ZERO => s + value <= MaxU256
      /\ from # ZERO => value <= b[from]
  BY DEF CanUpdate
<1>5. h \in [Accounts -> U256] /\ \A a \in Accounts : h[a] = b[a]
  BY <1>1
<1>6. h' = [a \in Accounts |-> h[a] - (IF a = from THEN value ELSE 0)
                                    + (IF a = to THEN value ELSE 0)]
  BY <1>3, <1>5
<1> HIDE DEF b, h, s
<1>7. CASE from = to
  <2>1. h' = h /\ s' = s
    BY <1>1, <1>2, <1>5, <1>6, <1>7
  <2> QED
    BY <2>1 DEF Ledger!ledgerVars, h, s, b
<1>8. CASE from = ZERO /\ to # ZERO
  <2>1. h' = [h EXCEPT ![to] = h[to] + value] /\ s' = s + value
    <3> DEFINE g == [h EXCEPT ![to] = h[to] + value]
    <3>1. \A a \in Accounts : h'[a] = g[a]
      BY <1>1, <1>5, <1>6, <1>8
    <3>2. /\ h' = [a \in Accounts |-> h'[a]]
          /\ g = [a \in Accounts |-> g[a]]
      BY <1>5, <1>6
    <3> HIDE DEF g
    <3>3. h' = g
      BY <3>1, <3>2
    <3> QED
      BY <1>1, <1>2, <1>8, <3>3 DEF g
  <2>2. Ledger!Issue(to, value)
    BY <1>4, <1>8, <2>1 DEF Ledger!Issue, h, s, b
  <2> QED
    BY <1>8, <2>2 DEF Ledger!LedgerNext
<1>9. CASE from # ZERO /\ to = ZERO
  <2>1. h' = [h EXCEPT ![from] = h[from] - value] /\ s' = s - value
    <3> DEFINE g == [h EXCEPT ![from] = h[from] - value]
    <3>1. \A a \in Accounts : h'[a] = g[a]
      BY <1>1, <1>5, <1>6, <1>9
    <3>2. /\ h' = [a \in Accounts |-> h'[a]]
          /\ g = [a \in Accounts |-> g[a]]
      BY <1>5, <1>6
    <3> HIDE DEF g
    <3>3. h' = g
      BY <3>1, <3>2
    <3> QED
      BY <1>1, <1>2, <1>9, <3>3 DEF g
  <2>2. value <= h[from]
    BY <1>4, <1>5, <1>9
  <2>3. Ledger!Retire(from, value)
    BY <2>1, <2>2 DEF Ledger!Retire, h, s, b
  <2> QED
    BY <1>9, <2>3 DEF Ledger!LedgerNext
<1>10. CASE from # ZERO /\ to # ZERO /\ from # to
  <2>1. /\ h' = [h EXCEPT ![from] = h[from] - value, ![to] = h[to] + value]
        /\ s' = s
    <3> DEFINE g == [h EXCEPT ![from] = h[from] - value,
                           ![to] = h[to] + value]
    <3>1. \A a \in Accounts : h'[a] = g[a]
      BY <1>1, <1>5, <1>6, <1>10
    <3>2. /\ h' = [a \in Accounts |-> h'[a]]
          /\ g = [a \in Accounts |-> g[a]]
      BY <1>5, <1>6
    <3> HIDE DEF g
    <3>3. h' = g
      BY <3>1, <3>2
    <3> QED
      BY <1>1, <1>2, <1>10, <3>3 DEF g
  <2>2. value <= h[from]
    BY <1>4, <1>5, <1>10
  <2>3. Ledger!Move(from, to, value)
    BY <2>1, <2>2 DEF Ledger!Move, h, s, b
  <2> QED
    BY <1>10, <2>3 DEF Ledger!LedgerNext
<1> QED
  BY <1>7, <1>8, <1>9, <1>10

(* A step that leaves the balances and the supply alone is a stutter.       *)
LEMMA ApprovalIsStutter ==
  ASSUME token'.balances = token.balances,
         token'.total_supply = token.total_supply
  PROVE  [Ledger!LedgerNext]_(Ledger!ledgerVars)
BY DEF Ledger!ledgerVars

(* Every step of Erc20 is a step of the ledger, or none.                    *)
LEMMA NextIsLedgerStep ==
  IInv /\ [Next]_vars => [Ledger!LedgerNext]_(Ledger!ledgerVars)
<1> SUFFICES ASSUME IInv, [Next]_vars
             PROVE  [Ledger!LedgerNext]_(Ledger!ledgerVars)
  OBVIOUS
<1>0. ZERO \in Addresses /\ Sound(token)
  BY AddressesAssumption DEF IInv
<1> DEFINE Goal == [Ledger!LedgerNext]_(Ledger!ledgerVars)
<1>1. ASSUME NEW from \in Addresses, NEW to \in Addresses, NEW value \in U256,
             CanUpdate(token, from, to, value),
             token' = Update(token, from, to, value)
      PROVE  Goal
  BY <1>0, <1>1, UpdateIsLedgerStep
<1>2. ASSUME NEW o \in Addresses, NEW s \in Addresses, NEW to \in Addresses,
             NEW value \in U256, CanSpend(token, o, s, value),
             CanUpdate(Spend(token, o, s, value), o, to, value),
             token' = Update(Spend(token, o, s, value), o, to, value)
      PROVE  Goal
  <2> DEFINE paid == Spend(token, o, s, value)
  <2>1. /\ Sound(paid) /\ paid.balances = token.balances
        /\ paid.total_supply = token.total_supply
    BY <1>2, SpendIsMetered
  <2> HIDE DEF paid
  <2>2. CanUpdate(paid, o, to, value) /\ token' = Update(paid, o, to, value)
    BY <1>2 DEF paid
  <2> QED
    BY <2>1, <2>2, UpdateIsLedgerStep
<1> HIDE DEF Goal
<1>3. ASSUME NEW value \in U256, NEW caller \in Accounts, NEW a \in Addresses,
             NEW to \in Addresses,
             \/ Transfer(caller, a, value) \/ BurnFrom(caller, a, value)
             \/ TransferFrom(caller, a, to, value)
      PROVE  Goal
  BY <1>0, <1>1, <1>2, <1>3
     DEF Transfer, CanTransfer, BurnFrom, CanBurn, TransferFrom
<1>4. ASSUME NEW value \in U256, NEW a \in Addresses, NEW c \in Addresses,
             \/ Burn(a, value) \/ Mint(a, value) \/ UpdateCall(a, c, value)
      PROVE  Goal
  BY <1>0, <1>1, <1>4 DEF Burn, CanBurn, Mint, CanMint, UpdateCall
<1>5. ASSUME NEW value \in U256, NEW caller \in Accounts, NEW a \in Addresses,
             ApproveCall(caller, a, value)
      PROVE  Goal
  <2>1. /\ token'.balances = token.balances
        /\ token'.total_supply = token.total_supply
    BY <1>5, ApproveIsMetered DEF ApproveCall
  <2> QED
    BY <2>1, ApprovalIsStutter DEF Goal
<1>6. ASSUME NEW value \in U256, NEW a \in Addresses, NEW c \in Addresses,
             SpendCall(a, c, value)
      PROVE  Goal
  <2>1. /\ token'.balances = token.balances
        /\ token'.total_supply = token.total_supply
    BY <1>6, SpendIsMetered DEF SpendCall
  <2> QED
    BY <2>1, ApprovalIsStutter DEF Goal
<1>7. CASE UNCHANGED vars
  BY <1>7, ApprovalIsStutter DEF vars, Goal
<1> QED
  BY <1>0, <1>3, <1>4, <1>5, <1>6, <1>7 DEF Next, Goal

(* The empty storage is the empty ledger.                                   *)
LEMMA InitIsLedgerInit == Init => Ledger!LedgerInit
BY DEF Init, EmptyToken, Ledger!LedgerInit

(* `Erc20` implements a ledger that only issues, moves and retires units in *)
(* exact arithmetic, whatever public calls and internals are interleaved.   *)
THEOREM Refinement == Spec => ImplementsLedger
<1>1. Init => Ledger!LedgerInit
  BY InitIsLedgerInit
<1>2. IInv /\ [Next]_vars => [Ledger!LedgerNext]_(Ledger!ledgerVars)
  BY NextIsLedgerStep
<1> QED
  BY <1>1, <1>2, SpecImpliesIInv, PTL DEF Spec, ImplementsLedger, Ledger!LedgerSpec

-----------------------------------------------------------------------------
(***************************************************************************)
(* An `Erc20` with permits keeps what the `Erc20` keeps, accepts a signed  *)
(* message once, and grants no allowance but by its owner's call or        *)
(* message: for any accounts, any word size and any set of messages.       *)
(***************************************************************************)
(* The history of the permits: nonces only grow, and each accepted message  *)
(* has used up its own.                                                     *)
Ordered(acc, n) ==
  /\ \A i, j \in DOMAIN acc :
       (i < j /\ acc[i].owner = acc[j].owner) => acc[i].nonce < acc[j].nonce
  /\ \A i \in DOMAIN acc : acc[i].nonce < n[acc[i].owner]

PermitHistory ==
  /\ nonces \in [Addresses -> U256]
  /\ now \in 0..MaxTime
  /\ accepted \in Seq(Signed)
  /\ Ordered(accepted, nonces)

PInv == IInv /\ PermitHistory

(* The invariant with permits contains the property.                        *)
LEMMA PInvImplies == PInv => MessagesAreUsedOnce
BY IInvImplies DEF PInv, PermitHistory, Ordered, MessagesAreUsedOnce, PermitTypeOK

(* The type of what was signed.                                             *)
LEMMA SignedMessages ==
  ASSUME NEW m \in Signed
  PROVE  /\ m.owner \in Accounts /\ m.owner \in Addresses
         /\ m.spender \in Addresses
         /\ m.value \in U256 /\ m.nonce \in U256 /\ m.deadline \in 0..MaxTime
<1>1. m \in Messages
  BY PermitAssumption
<1>2. /\ m.owner \in Accounts /\ m.spender \in Addresses
      /\ m.value \in U256 /\ m.nonce \in U256 /\ m.deadline \in 0..MaxTime
  BY <1>1 DEF Messages
<1> QED
  BY <1>2

(* At first no message was accepted and every nonce is zero.                *)
LEMMA PermitInitEstablishesPInv == PermitInit => PInv
<1> SUFFICES ASSUME PermitInit PROVE PInv
  OBVIOUS
<1>1. IInv
  BY InitEstablishesIInv DEF PermitInit
<1>2. nonces \in [Addresses -> U256]
  BY MaxU256Assumption DEF PermitInit
<1>3. now \in 0..MaxTime
  BY PermitAssumption DEF PermitInit
<1>4. accepted = <<>> /\ accepted \in Seq(Signed) /\ DOMAIN accepted = {}
  BY DEF PermitInit
<1>5. Ordered(accepted, nonces)
  BY <1>4 DEF Ordered
<1> QED
  BY <1>1, <1>2, <1>3, <1>4, <1>5 DEF PInv, PermitHistory

(* A nonce that is used up leaves the history in order, ...                 *)
LEMMA UseNonceKeepsOrder ==
  ASSUME PermitHistory, NEW owner \in Addresses, UseNonce(owner)
  PROVE  /\ nonces' \in [Addresses -> U256]
         /\ nonces[owner] < nonces'[owner]
         /\ Ordered(accepted, nonces')
<1>1. nonces \in [Addresses -> U256] /\ accepted \in Seq(Signed)
  BY DEF PermitHistory
<1>2. nonces[owner] \in U256 /\ nonces[owner] + 1 \in U256
  BY <1>1, MaxU256Assumption DEF UseNonce
<1>3. nonces' \in [Addresses -> U256]
  BY <1>1, <1>2 DEF UseNonce
<1>4. \A a \in Addresses : nonces[a] \in U256 /\ nonces'[a] \in U256
                           /\ nonces[a] <= nonces'[a]
  BY <1>1, <1>2, <1>3, MaxU256Assumption DEF UseNonce
<1>5. nonces[owner] < nonces'[owner]
  BY <1>1, <1>2, MaxU256Assumption DEF UseNonce
<1>6. \A i \in DOMAIN accepted : accepted[i] \in Signed
  BY <1>1
<1>7. ASSUME NEW i \in DOMAIN accepted
      PROVE  accepted[i].nonce < nonces'[accepted[i].owner]
  <2>1. accepted[i].owner \in Addresses /\ accepted[i].nonce \in U256
    BY <1>6, SignedMessages
  <2>2. accepted[i].nonce < nonces[accepted[i].owner]
    BY DEF PermitHistory, Ordered
  <2> QED
    BY <1>4, <2>1, <2>2, MaxU256Assumption
<1>8. Ordered(accepted, nonces')
  BY <1>7 DEF PermitHistory, Ordered
<1> QED
  BY <1>3, <1>5, <1>8

(* ... also when the message that used it is added.                         *)
LEMMA AcceptKeepsOrder ==
  ASSUME PermitHistory, NEW m \in Signed, m.nonce = nonces[m.owner],
         UseNonce(m.owner)
  PROVE  /\ nonces' \in [Addresses -> U256]
         /\ Append(accepted, m) \in Seq(Signed)
         /\ Ordered(Append(accepted, m), nonces')
<1> DEFINE acc == Append(accepted, m)
           n == Len(accepted)
<1>1. m.owner \in Addresses
  BY SignedMessages
<1>2. /\ nonces' \in [Addresses -> U256]
      /\ nonces[m.owner] < nonces'[m.owner]
      /\ Ordered(accepted, nonces')
  BY <1>1, UseNonceKeepsOrder
<1>3. accepted \in Seq(Signed)
  BY DEF PermitHistory
<1>4. /\ n \in Nat /\ DOMAIN accepted = 1..n /\ DOMAIN acc = 1 .. n+1
      /\ acc \in Seq(Signed)
      /\ \A i \in 1..n : acc[i] = accepted[i]
      /\ acc[n+1] = m
  BY <1>3
<1>5. \A i \in 1..n : accepted[i].owner = m.owner => accepted[i].nonce < m.nonce
  BY <1>4 DEF PermitHistory, Ordered
<1>6. \A i, j \in 1..n : (i < j /\ accepted[i].owner = accepted[j].owner)
                            => accepted[i].nonce < accepted[j].nonce
  BY <1>4 DEF PermitHistory, Ordered
<1>7. \A i \in 1..n : accepted[i].nonce < nonces'[accepted[i].owner]
  BY <1>2, <1>4 DEF Ordered
<1> HIDE DEF acc, n
<1>8. \A i \in 1 .. n+1 : i \in 1..n \/ i = n+1
  BY <1>4
<1>9. ASSUME NEW i \in 1 .. n+1, NEW j \in 1 .. n+1, i < j,
             acc[i].owner = acc[j].owner
      PROVE  acc[i].nonce < acc[j].nonce
  <2>1. i \in 1..n
    BY <1>4, <1>9
  <2>2. CASE j = n+1
    BY <1>4, <1>5, <1>9, <2>1, <2>2
  <2>3. CASE j \in 1..n
    BY <1>4, <1>6, <1>9, <2>1, <2>3
  <2> QED
    BY <1>8, <2>2, <2>3
<1>10. ASSUME NEW i \in 1 .. n+1
       PROVE  acc[i].nonce < nonces'[acc[i].owner]
  <2>1. CASE i \in 1..n
    BY <1>4, <1>7, <2>1
  <2>2. CASE i = n+1
    BY <1>2, <1>4, <2>2
  <2> QED
    BY <1>8, <2>1, <2>2
<1>11. Ordered(acc, nonces')
  BY <1>4, <1>9, <1>10 DEF Ordered
<1> QED
  BY <1>2, <1>4, <1>11 DEF acc

-----------------------------------------------------------------------------
(* `permit` grants like `approve`, and uses up the message it accepts.      *)
LEMMA PermitKeepsPInv ==
  ASSUME PInv, NEW owner \in Addresses, NEW spender \in Addresses,
         NEW value \in U256, NEW deadline \in 0..MaxTime,
         Permit(owner, spender, value, deadline)
  PROVE  /\ PInv'
         /\ token'.balances = token.balances
         /\ token'.total_supply = token.total_supply
<1> DEFINE m == [owner |-> owner, spender |-> spender, value |-> value,
                 nonce |-> nonces[owner], deadline |-> deadline]
<1>1. /\ IInv /\ PermitHistory
      /\ m \in Signed /\ m.owner = owner /\ m.nonce = nonces[owner]
      /\ UseNonce(owner) /\ CanApprove(owner, spender)
      /\ token' = Approve(token, owner, spender, value)
      /\ quota' = [quota EXCEPT ![owner][spender] =
                     [granted |-> value, spent |-> 0]]
      /\ accepted' = Append(accepted, m)
      /\ now' = now
  BY DEF Permit, PInv
<1> HIDE DEF m
<1>2. /\ Sound(token') /\ Metered(token'.allowances, quota')
      /\ token'.balances = token.balances
      /\ token'.total_supply = token.total_supply
  BY <1>1, ApproveIsMetered
<1>3. /\ nonces' \in [Addresses -> U256] /\ accepted' \in Seq(Signed)
      /\ Ordered(accepted', nonces')
  BY <1>1, AcceptKeepsOrder
<1>4. IInv'
  BY <1>2 DEF IInv, Sound, Metered
<1>5. PermitHistory'
  BY <1>1, <1>3 DEF PermitHistory, Ordered
<1> QED
  BY <1>2, <1>4, <1>5 DEF PInv

(* Every step, permits among them, keeps the invariant.                     *)
LEMMA PermitNextKeepsPInv == PInv /\ [PermitNext]_allVars => PInv'
<1> SUFFICES ASSUME PInv, [PermitNext]_allVars PROVE PInv'
  OBVIOUS
<1>1. IInv /\ PermitHistory
  BY DEF PInv
<1>2. CASE Next /\ UNCHANGED permitVars
  <2>1. IInv'
    BY <1>1, <1>2, NextKeepsIInv
  <2>2. PermitHistory'
    BY <1>1, <1>2 DEF PermitHistory, Ordered, permitVars
  <2> QED
    BY <2>1, <2>2 DEF PInv
<1>3. ASSUME NEW owner \in Addresses, NEW nonce \in U256,
             UseCheckedNonce(owner, nonce)
      PROVE  PInv'
  <2>1. UseNonce(owner) /\ UNCHANGED <<vars, now, accepted>>
    BY <1>3 DEF UseCheckedNonce
  <2>2. nonces' \in [Addresses -> U256] /\ Ordered(accepted, nonces')
    BY <1>1, <2>1, UseNonceKeepsOrder
  <2>3. IInv'
    BY <1>1, <2>1 DEF vars, IInv, Sound, Metered
  <2>4. PermitHistory'
    BY <1>1, <2>1, <2>2 DEF PermitHistory, Ordered
  <2> QED
    BY <2>3, <2>4 DEF PInv
<1>4. ASSUME NEW owner \in Addresses, NEW spender \in Addresses,
             NEW value \in U256, NEW deadline \in 0..MaxTime,
             Permit(owner, spender, value, deadline)
      PROVE  PInv'
  BY <1>4, PermitKeepsPInv
<1>5. CASE Tick
  <2>1. now' \in 0..MaxTime
    BY <1>1, <1>5, PermitAssumption DEF Tick, PermitHistory
  <2>2. IInv'
    BY <1>1, <1>5 DEF Tick, vars, IInv, Sound, Metered
  <2>3. PermitHistory'
    BY <1>1, <1>5, <2>1 DEF Tick, PermitHistory, Ordered
  <2> QED
    BY <2>2, <2>3 DEF PInv
<1>6. CASE UNCHANGED allVars
  <2>1. UNCHANGED vars /\ UNCHANGED permitVars
    BY <1>6 DEF allVars
  <2> QED
    BY <1>1, <2>1
       DEF vars, permitVars, PInv, IInv, Sound, Metered, PermitHistory, Ordered
<1> QED
  BY <1>2, <1>3, <1>4, <1>5, <1>6 DEF PermitNext

(* So it always holds.                                                      *)
LEMMA PermitSpecImpliesPInv == PermitSpec => []PInv
BY PermitInitEstablishesPInv, PermitNextKeepsPInv, PTL DEF PermitSpec

(* Whoever holds the signed messages and whatever the order they are        *)
(* presented in, `permit` of contracts/src/token/erc20/extensions/permit.rs *)
(* accepts each once, in the order of its owner's nonces.                   *)
THEOREM Replay == PermitSpec => []MessagesAreUsedOnce
BY PermitSpecImpliesPInv, PInvImplies, PTL

(* With permits the Erc20 keeps what it keeps without: the supply is        *)
(* conserved, the zero address inert, and an allowance is what was last     *)
(* granted, by a call or by a message, less what was spent since.           *)
THEOREM PermitsKeepErc20 ==
  PermitSpec => []( /\ SupplyIsSumOfBalances
                    /\ ZeroAddressIsInert
                    /\ AllowanceIsWhatIsLeft )
<1>1. PInv => SupplyIsSumOfBalances /\ ZeroAddressIsInert /\ AllowanceIsWhatIsLeft
  BY IInvImplies DEF PInv
<1> QED
  BY <1>1, PermitSpecImpliesPInv, PTL

-----------------------------------------------------------------------------
(* A step with a permit is a step of the ledger, as those of Erc20 are.     *)
THEOREM PermitRefinement == PermitSpec => ImplementsLedger
<1>1. PermitInit => Ledger!LedgerInit
  BY InitIsLedgerInit DEF PermitInit
<1>2. PInv /\ [PermitNext]_allVars => [Ledger!LedgerNext]_(Ledger!ledgerVars)
  <2> SUFFICES ASSUME PInv, [PermitNext]_allVars
               PROVE  [Ledger!LedgerNext]_(Ledger!ledgerVars)
    OBVIOUS
  <2>1. CASE Next \/ UNCHANGED vars
    BY <2>1, NextIsLedgerStep DEF PInv
  <2>2. ASSUME NEW owner \in Addresses, NEW spender \in Addresses,
               NEW value \in U256, NEW deadline \in 0..MaxTime,
               Permit(owner, spender, value, deadline)
        PROVE  [Ledger!LedgerNext]_(Ledger!ledgerVars)
    <3>1. /\ token'.balances = token.balances
          /\ token'.total_supply = token.total_supply
      BY <2>2, PermitKeepsPInv
    <3> QED
      BY <3>1, ApprovalIsStutter
  <2>3. Tick => UNCHANGED vars
    BY DEF Tick
  <2>4. \A owner, nonce : UseCheckedNonce(owner, nonce) => UNCHANGED vars
    BY DEF UseCheckedNonce
  <2>5. UNCHANGED allVars => UNCHANGED vars
    BY DEF allVars
  <2> HIDE DEF Ledger!ledgerVars
  <2> QED
    BY <2>1, <2>2, <2>3, <2>4, <2>5 DEF PermitNext
<1> QED
  BY <1>1, <1>2, PermitSpecImpliesPInv, PTL
     DEF PermitSpec, ImplementsLedger, Ledger!LedgerSpec

-----------------------------------------------------------------------------
(* Who raises an allowance.  `_spend_allowance` never does, ...             *)
LEMMA SpendRaisesNothing ==
  ASSUME IInv, NEW o \in Addresses, NEW s \in Addresses, NEW value \in U256,
         CanSpend(token, o, s, value), NEW a \in Addresses, NEW b \in Addresses
  PROVE  ~(Spend(token, o, s, value).allowances[a][b] > token.allowances[a][b])
<1> DEFINE al == token.allowances
           u  == Spend(token, o, s, value)
<1>1. /\ token \in Tokens /\ al \in [Addresses -> [Addresses -> U256]]
      /\ al[o][s] \in U256 /\ al[a][b] \in U256
  BY DEF IInv, Sound, Tokens
<1>2. CASE al[o][s] = MaxU256
  <2>1. u = token
    BY <1>2 DEF Spend
  <2> QED
    BY <1>1, <2>1, MaxU256Assumption
<1>3. CASE al[o][s] # MaxU256
  <2>1. /\ u.allowances = [al EXCEPT ![o][s] = al[o][s] - value]
        /\ value <= al[o][s]
    BY <1>1, <1>3 DEF Spend, Approve, Tokens, CanSpend
  <2>2. u.allowances[a][b] = IF a = o /\ b = s THEN al[o][s] - value ELSE al[a][b]
    BY <1>1, <2>1
  <2> HIDE DEF al, u
  <2>3. ~(u.allowances[a][b] > al[a][b])
    BY <1>1, <2>1, <2>2, MaxU256Assumption
  <2> QED
    BY <2>3 DEF al, u
<1> QED
  BY <1>2, <1>3

(* ... an approval raises the one it names and no other, ...                *)
LEMMA ApproveRaisesItsOwn ==
  ASSUME IInv, NEW o \in Addresses, NEW s \in Addresses, NEW value \in U256,
         NEW a \in Addresses, NEW b \in Addresses,
         Approve(token, o, s, value).allowances[a][b] > token.allowances[a][b]
  PROVE  a = o /\ b = s /\ Approve(token, o, s, value).allowances[a][b] = value
<1> DEFINE al == token.allowances
           u  == Approve(token, o, s, value)
<1>1. /\ token \in Tokens /\ al \in [Addresses -> [Addresses -> U256]]
      /\ al[a][b] \in U256
  BY DEF IInv, Sound, Tokens
<1>2. u.allowances = [al EXCEPT ![o][s] = value]
  BY <1>1 DEF Approve, Tokens
<1>3. u.allowances[a][b] = IF a = o /\ b = s THEN value ELSE al[a][b]
  BY <1>1, <1>2
<1> QED
  BY <1>1, <1>3, MaxU256Assumption

(* ... and so of all the calls of Erc20 only `approve` raises one.          *)
LEMMA OnlyApproveRaises ==
  ASSUME IInv, Next, NEW o \in Addresses, NEW s \in Addresses,
         token'.allowances[o][s] > token.allowances[o][s]
  PROVE  \E value \in U256 : ApproveCall(o, s, value)
<1>0. /\ Sound(token) /\ ZERO \in Addresses
      /\ token.allowances[o][s] \in U256
      /\ ~(token.allowances[o][s] > token.allowances[o][s])
  BY AddressesAssumption, MaxU256Assumption DEF IInv, Sound, Tokens
<1>1. ASSUME NEW from \in Addresses, NEW to \in Addresses, NEW value \in U256,
             CanUpdate(token, from, to, value),
             token' = Update(token, from, to, value)
      PROVE  FALSE
  BY <1>0, <1>1, UpdateIsExact
<1>2. ASSUME NEW a \in Addresses, NEW b \in Addresses, NEW to \in Addresses,
             NEW value \in U256, CanSpend(token, a, b, value),
             CanUpdate(Spend(token, a, b, value), a, to, value),
             token' = Update(Spend(token, a, b, value), a, to, value)
      PROVE  FALSE
  <2> DEFINE paid == Spend(token, a, b, value)
  <2>1. Sound(paid) /\ ~(paid.allowances[o][s] > token.allowances[o][s])
    BY <1>2, SpendIsMetered, SpendRaisesNothing
  <2> HIDE DEF paid
  <2>2. CanUpdate(paid, a, to, value) /\ token' = Update(paid, a, to, value)
    BY <1>2 DEF paid
  <2>3. token'.allowances = paid.allowances
    BY <2>1, <2>2, UpdateIsExact
  <2> QED
    BY <2>1, <2>3
<1>3. ASSUME NEW value \in U256, NEW caller \in Accounts, NEW a \in Addresses,
             NEW to \in Addresses,
             \/ Transfer(caller, a, value) \/ BurnFrom(caller, a, value)
             \/ TransferFrom(caller, a, to, value)
      PROVE  FALSE
  BY <1>0, <1>1, <1>2, <1>3
     DEF Transfer, CanTransfer, BurnFrom, CanBurn, TransferFrom
<1>4. ASSUME NEW value \in U256, NEW a \in Addresses, NEW c \in Addresses,
             \/ Burn(a, value) \/ Mint(a, value) \/ UpdateCall(a, c, value)
      PROVE  FALSE
  BY <1>0, <1>1, <1>4 DEF Burn, CanBurn, Mint, CanMint, UpdateCall
<1>5. ASSUME NEW value \in U256, NEW a \in Addresses, NEW c \in Addresses,
             SpendCall(a, c, value)
      PROVE  FALSE
  BY <1>5, SpendRaisesNothing DEF SpendCall
<1>6. ASSUME NEW value \in U256, NEW caller \in Accounts, NEW a \in Addresses,
             ApproveCall(caller, a, value)
      PROVE  ApproveCall(o, s, value)
  <2>1. Approve(token, caller, a, value).allowances[o][s] > token.allowances[o][s]
    BY <1>6 DEF ApproveCall
  <2>2. o = caller /\ s = a
    BY <2>1, ApproveRaisesItsOwn
  <2> QED
    BY <1>6, <2>2
<1> QED
  BY <1>0, <1>3, <1>4, <1>5, <1>6 DEF Next

(* An allowance grows by its owner's `approve` or by a message its owner    *)
(* signed that `permit` has not accepted before, within its deadline.       *)
THEOREM Grants == PermitSpec => GrantsAreTheOwners
<1> DEFINE Granted(o, s) ==
      \/ /\ \E value \in U256 : ApproveCall(o, s, value)
         /\ UNCHANGED permitVars
      \/ \E m \in Signed :
           /\ m.owner = o /\ m.spender = s /\ now <= m.deadline
           /\ m.value = token'.allowances[o][s]
           /\ \A i \in DOMAIN accepted : accepted[i] # m
    Granting == \A o, s \in Addresses :
                  token'.allowances[o][s] > token.allowances[o][s] => Granted(o, s)
<1>1. PInv /\ [PermitNext]_allVars => [Granting]_allVars
  <2> SUFFICES ASSUME PInv, PermitNext,
                      NEW o \in Addresses, NEW s \in Addresses,
                      token'.allowances[o][s] > token.allowances[o][s]
               PROVE  Granted(o, s)
    OBVIOUS
  <2>1. /\ IInv /\ PermitHistory
        /\ ~(token.allowances[o][s] > token.allowances[o][s])
    BY MaxU256Assumption DEF PInv, IInv, Sound, Tokens
  <2>2. CASE Next /\ UNCHANGED permitVars
    BY <2>1, <2>2, OnlyApproveRaises
  <2>3. ASSUME NEW owner \in Addresses, NEW spender \in Addresses,
               NEW value \in U256, NEW deadline \in 0..MaxTime,
               Permit(owner, spender, value, deadline)
        PROVE  Granted(o, s)
    <3> DEFINE m == [owner |-> owner, spender |-> spender, value |-> value,
                     nonce |-> nonces[owner], deadline |-> deadline]
    <3>1. /\ m \in Signed /\ now <= m.deadline
          /\ m.owner = owner /\ m.spender = spender /\ m.value = value
          /\ m.nonce = nonces[owner]
          /\ token' = Approve(token, owner, spender, value)
      BY <2>3 DEF Permit
    <3>2. o = owner /\ s = spender /\ token'.allowances[o][s] = value
      BY <2>1, <3>1, ApproveRaisesItsOwn
    <3> HIDE DEF m
    <3>3. ASSUME NEW i \in DOMAIN accepted
          PROVE  accepted[i] # m
      <4>1. accepted[i].nonce < nonces[accepted[i].owner]
        BY <2>1 DEF PermitHistory, Ordered
      <4>2. nonces[owner] \in U256
        BY <2>1 DEF PermitHistory
      <4> QED
        BY <3>1, <4>1, <4>2, MaxU256Assumption
    <3> QED
      BY <3>1, <3>2, <3>3
  <2>4. CASE Tick
    BY <2>1, <2>4 DEF Tick, vars
  <2>5. ASSUME NEW owner, NEW nonce, UseCheckedNonce(owner, nonce)
        PROVE  Granted(o, s)
    BY <2>1, <2>5 DEF UseCheckedNonce, vars
  <2> QED
    BY <2>2, <2>3, <2>4, <2>5 DEF PermitNext
<1> QED
  BY <1>1, PermitSpecImpliesPInv, PTL DEF PermitSpec, GrantsAreTheOwners
-----------------------------------------------------------------------------
(* Flash loans, over a token of their own: `erc20`.                         *)

(* What is assumed of the constants, in the form the proofs cite.          *)
LEMMA LoanConstants ==
  /\ ZERO \in Addresses /\ MaxU256 \in Nat \ {0}
  /\ LENDER \in Accounts /\ Borrowers \subseteq Accounts \ {LENDER} /\ Fees \subseteq U256
BY AddressesAssumption, MaxU256Assumption, LenderAssumption, BoundsAssumption

(* The numbers of a sound ledger.                                          *)
LEMMA SoundTypes ==
  ASSUME NEW t, Sound(t)
  PROVE  t.total_supply \in Nat /\ \A a \in Addresses : t.balances[a] \in Nat
BY LoanConstants DEF Sound, Tokens

-----------------------------------------------------------------------------
(* What the loans of a stack add up to, one loan more or less.              *)
Owed(s) == SumOf([i \in 1..Len(s) |-> s[i].value])

(* A stack with one loan more owes the value of that loan more.            *)
LEMMA OwedOfOneMore ==
  ASSUME NEW s \in Seq(Frames), NEW t \in Seq(Frames), Len(t) = Len(s) + 1,
         \A i \in 1..Len(s) : t[i] = s[i]
  PROVE  Owed(t) = Owed(s) + t[Len(t)].value /\ Owed(s) \in Nat
<1> DEFINE n == Len(s)
           f == [i \in 1..n |-> s[i].value]
           g == [i \in 1..Len(t) |-> t[i].value]
<1>1. n \in Nat /\ Len(t) \in Nat /\ MaxU256 \in Nat /\ IsFiniteSet(1..Len(t))
  BY LoanConstants, FS_Interval
<1>2. f \in [1..n -> 0..MaxU256] /\ g \in [1..Len(t) -> 0..MaxU256]
  <2>1. /\ \A i \in 1..Len(s) : s[i] \in Frames
        /\ \A i \in 1..Len(t) : t[i] \in Frames
    OBVIOUS
  <2> QED
    BY <2>1 DEF Frames
<1>3. 1..n = (1..Len(t)) \ {Len(t)} /\ Len(t) \in 1..Len(t)
  BY <1>1
<1>4. \A y \in 1..n : g[y] = f[y]
  BY <1>3
<1>5. SumOf(g) = SumOf(f) + g[Len(t)] /\ SumOf(f) \in Nat
  <2> DEFINE T == 1..Len(t)
             x == Len(t)
  <2>1. IsFiniteSet(T) /\ x \in T /\ g \in [T -> 0..MaxU256]
    BY <1>1, <1>2, <1>3
  <2>2. f = Without(g, x)
    BY <1>3, <1>4 DEF Without
  <2> HIDE DEF T, x, f, g
  <2>3. SumOf(g) = SumOf(Without(g, x)) + g[x] /\ SumOf(Without(g, x)) \in Nat
    BY <1>1, <2>1, SumOfExtended
  <2> QED
    BY <2>2, <2>3 DEF x
<1> QED
  BY <1>3, <1>5 DEF Owed

(* The stack that `flash_loan` pushes to.                                  *)
LEMMA OwedOfAppend ==
  ASSUME NEW s \in Seq(Frames), NEW f \in Frames
  PROVE  Owed(Append(s, f)) = Owed(s) + f.value /\ Owed(s) \in Nat
<1>1. /\ Append(s, f) \in Seq(Frames) /\ Len(Append(s, f)) = Len(s) + 1
      /\ \A i \in 1..Len(s) : Append(s, f)[i] = s[i]
      /\ Append(s, f)[Len(s) + 1] = f
  OBVIOUS
<1> QED
  BY <1>1, OwedOfOneMore

(* The stack that a repayment pops from.                                   *)
LEMMA OwedWithoutLast ==
  ASSUME NEW s \in Seq(Frames), s # <<>>
  PROVE  /\ SubSeq(s, 1, Len(s) - 1) \in Seq(Frames) /\ s[Len(s)] \in Frames
         /\ Owed(s) = Owed(SubSeq(s, 1, Len(s) - 1)) + s[Len(s)].value
         /\ Owed(SubSeq(s, 1, Len(s) - 1)) \in Nat
<1> DEFINE t == SubSeq(s, 1, Len(s) - 1)
<1>1. Len(s) \in Nat /\ Len(s) >= 1 /\ s[Len(s)] \in Frames
  OBVIOUS
<1>2. /\ t \in Seq(Frames) /\ Len(t) = Len(s) - 1
      /\ \A i \in 1..Len(t) : s[i] = t[i]
  <2>1. /\ 1 \in Int /\ Len(s) - 1 \in Int
        /\ \A i \in 1 .. Len(s) - 1 : s[i] \in Frames
    BY <1>1
  <2>2. /\ t \in Seq(Frames)
        /\ Len(t) = IF 1 <= Len(s) - 1 THEN (Len(s) - 1) - 1 + 1 ELSE 0
        /\ \A i \in 1 .. (Len(s) - 1) - 1 + 1 : t[i] = s[1 + i - 1]
    BY <2>1, SubSeqProperties
  <2> HIDE DEF t
  <2>3. Len(t) = Len(s) - 1
    <3>1. Len(t) = IF 1 <= Len(s) - 1 THEN (Len(s) - 1) - 1 + 1 ELSE 0
      BY <2>2
    <3>2. \A k \in Nat : k >= 1 => (IF 1 <= k - 1 THEN (k - 1) - 1 + 1 ELSE 0) = k - 1
      OBVIOUS
    <3>3. Len(s) \in Nat /\ Len(s) >= 1
      BY <1>1
    <3>4. (IF 1 <= Len(s) - 1 THEN (Len(s) - 1) - 1 + 1 ELSE 0) = Len(s) - 1
      BY <3>2, <3>3
    <3> QED
      BY <3>1, <3>4
  <2>4. ASSUME NEW i \in 1..Len(t)
        PROVE  s[i] = t[i]
    <3>1. i \in 1 .. (Len(s) - 1) - 1 + 1 /\ 1 + i - 1 = i
      BY <1>1, <2>3
    <3> QED
      BY <2>2, <3>1
  <2> QED
    BY <2>2, <2>3, <2>4
<1> HIDE DEF t
<1>3. Len(s) = Len(t) + 1
  BY <1>1, <1>2
<1>4. Owed(s) = Owed(t) + s[Len(s)].value /\ Owed(t) \in Nat
  BY <1>2, <1>3, OwedOfOneMore
<1> QED
  BY <1>1, <1>2, <1>4 DEF t

-----------------------------------------------------------------------------
(* A repayment that goes through: the storage is sound, the supply falls by *)
(* what is burnt, and balances and allowances change as quoted.             *)
LEMMA SpendTouchesOne ==
  ASSUME NEW t, Sound(t), NEW o \in Addresses, NEW s \in Addresses, NEW value,
         NEW p \in Addresses, NEW q \in Addresses, <<p, q>> # <<o, s>>
  PROVE  Spend(t, o, s, value).allowances[p][q] = t.allowances[p][q]
BY DEF Spend, Approve, Sound, Tokens

Quoted(f, a) ==
  erc20.balances[a] + (IF a = flash_fee_receiver_address THEN f.fee ELSE 0)
                    - (IF a = f.receiver THEN f.value + f.fee ELSE 0)

(* The repayment of a frame, which spends the allowance, burns and pays    *)
(* the fee in three calls, does to the ledger what its fields say.         *)
LEMMA SettledIsExact ==
  ASSUME Sound(erc20), flash_fee_receiver_address \in Addresses,
         NEW f \in Frames, CanSettle(f)
  PROVE  /\ Sound(Settled(f))
         /\ Settled(f).total_supply = erc20.total_supply - Burnt(f)
         /\ \A a \in Accounts : Settled(f).balances[a] = Quoted(f, a)
         /\ \A p, q \in Addresses : <<p, q>> # <<f.receiver, LENDER>> =>
              Settled(f).allowances[p][q] = erc20.allowances[p][q]
<1> DEFINE r      == f.receiver
           rec    == flash_fee_receiver_address
           paid   == Paid(f)
           repaid == Update(paid, r, ZERO, Burnt(f))
<1>1. /\ r \in Accounts /\ r \in Addresses /\ r # ZERO /\ LENDER \in Addresses
      /\ ZERO \in Addresses /\ f.value \in U256 /\ f.fee \in U256
      /\ Fee(f) = f.fee /\ Allowance(f) = f.value + f.fee /\ MaxU256 \in Nat
  BY LoanConstants DEF Frames, Fee, Allowance
<1>2. Allowance(f) \in U256 /\ Burnt(f) \in U256
  BY <1>1 DEF CanSettle, Burnt
<1>3. /\ Sound(paid) /\ paid.total_supply = erc20.total_supply
      /\ paid.balances = erc20.balances
  BY <1>1, <1>2, SpendIsSound DEF CanSettle, Paid
<1>4. \A p, q \in Addresses : <<p, q>> # <<r, LENDER>> =>
        paid.allowances[p][q] = erc20.allowances[p][q]
  BY <1>1, SpendTouchesOne DEF Paid
<1>5. /\ Sound(repaid) /\ repaid.allowances = paid.allowances
      /\ repaid.total_supply = erc20.total_supply - Burnt(f)
      /\ repaid.balances = Moved(erc20.balances, r, ZERO, Burnt(f))
  <2>1. CanUpdate(paid, r, ZERO, Burnt(f))
    BY DEF CanSettle, CanBurn
  <2>2. /\ Sound(repaid) /\ repaid.allowances = paid.allowances
        /\ repaid.total_supply = paid.total_supply + (IF r = ZERO THEN Burnt(f) ELSE 0)
                                   - (IF ZERO = ZERO THEN Burnt(f) ELSE 0)
        /\ repaid.balances = Moved(paid.balances, r, ZERO, Burnt(f))
    BY <1>1, <1>2, <1>3, <2>1, UpdateIsExact
  <2>3. erc20.total_supply \in Nat
    BY <1>1 DEF Sound, Tokens
  <2> HIDE DEF repaid, paid, r
  <2> QED
    BY <1>1, <1>2, <1>3, <2>2, <2>3
<1>6. \A a \in Addresses : erc20.balances[a] \in Nat
  BY <1>1 DEF Sound, Tokens
<1>7. ASSUME NEW a \in Accounts
      PROVE  repaid.balances[a] = erc20.balances[a] - (IF a = r THEN Burnt(f) ELSE 0)
  BY <1>1, <1>2, <1>5, <1>6 DEF Moved
<1>8. CASE FeeIsBurnt(f)
  <2>1. Settled(f) = repaid /\ Burnt(f) = f.value + f.fee
    BY <1>1, <1>8 DEF Settled, Burnt
  <2>2. f.fee = 0 \/ rec = ZERO
    BY <1>1, <1>8 DEF FeeIsBurnt
  <2> HIDE DEF repaid, paid
  <2>3. ASSUME NEW a \in Accounts
        PROVE  Settled(f).balances[a] = Quoted(f, a)
    <3>1. (IF a = rec THEN f.fee ELSE 0) = 0
      BY <2>2
    <3> QED
      BY <1>1, <1>6, <1>7, <2>1, <3>1 DEF Quoted
  <2> QED
    BY <1>4, <1>5, <2>1, <2>3
<1>9. CASE ~FeeIsBurnt(f)
  <2>1. /\ Settled(f) = Update(repaid, r, rec, f.fee) /\ Burnt(f) = f.value
        /\ CanUpdate(repaid, r, rec, f.fee) /\ rec # ZERO
    BY <1>1, <1>9 DEF Settled, Burnt, CanSettle, CanTransfer
  <2> HIDE DEF repaid, paid
  <2>2. /\ Sound(Settled(f)) /\ Settled(f).allowances = repaid.allowances
        /\ Settled(f).total_supply = repaid.total_supply + (IF r = ZERO THEN f.fee ELSE 0)
                                       - (IF rec = ZERO THEN f.fee ELSE 0)
        /\ Settled(f).balances = Moved(repaid.balances, r, rec, f.fee)
    BY <1>1, <1>5, <2>1, UpdateIsExact
  <2>3. repaid.total_supply \in Nat
    BY <1>1, <1>5 DEF Sound, Tokens
  <2>4. Settled(f).total_supply = erc20.total_supply - Burnt(f)
    BY <1>1, <1>5, <2>1, <2>2, <2>3
  <2>5. ASSUME NEW a \in Accounts
        PROVE  Settled(f).balances[a] = Quoted(f, a)
    <3>1. Settled(f).balances[a] = repaid.balances[a] - (IF a = r THEN f.fee ELSE 0)
                                                      + (IF a = rec THEN f.fee ELSE 0)
      BY <2>2 DEF Moved
    <3> QED
      BY <1>1, <1>6, <1>7, <2>1, <3>1 DEF Quoted
  <2> QED
    BY <1>4, <1>5, <2>2, <2>4, <2>5
<1> QED
  BY <1>8, <1>9

-----------------------------------------------------------------------------
(* The invariant: a sound ledger whose supply is what was issued and what   *)
(* is on loan.  Soundness is what makes the arithmetic of every call exact. *)
LoanInv ==
  /\ Sound(erc20)
  /\ flash_fee_value \in U256
  /\ flash_fee_receiver_address \in Addresses
  /\ stack \in Seq(Frames)
  /\ issued \in Int
  /\ erc20.total_supply = issued + Owed(stack)

(* Nothing is issued and nothing is on loan in a new token.                *)
LEMMA LoansStart ==
  ASSUME FlashInit
  PROVE  LoanInv
<1>1. Owed(<<>>) = 0
  <2>1. [i \in 1..Len(<<>>) |-> <<>>[i].value] = [i \in {} |-> 0]
    BY 1..0 = {}
  <2> QED
    BY <2>1, SumOfZero DEF Owed
<1>2. Sound(erc20) /\ erc20.total_supply = 0
  BY EmptyIsSound DEF FlashInit, EmptyToken
<1> QED
  BY <1>1, <1>2, LoanConstants DEF FlashInit, LoanInv

(* What a call does that neither lends nor issues.                          *)
Moves == Sound(erc20') /\ erc20'.total_supply = erc20.total_supply

(* Calls that neither lend nor issue keep the invariant.                   *)
LEMMA MovesKeep ==
  ASSUME LoanInv, Moves, UNCHANGED <<config, stack, issued>>
  PROVE  LoanInv'
BY DEF LoanInv, Moves, config

(* The public calls of ERC-20, made by anybody in the middle of any loan,  *)
(* are of that kind.                                                       *)
LEMMA CallsMove ==
  ASSUME LoanInv, NEW caller \in Callers, CallsOf(caller)
  PROVE  Moves /\ UNCHANGED <<config, stack, issued>>
<1>1. /\ caller \in Accounts /\ ZERO \in Addresses
      /\ Sound(erc20) /\ erc20.total_supply \in Nat
  BY LoanConstants, SoundTypes DEF Callers, LoanInv
<1>2. ASSUME NEW t, Sound(t), NEW from \in Addresses, NEW to \in Addresses, NEW value \in U256,
             CanTransfer(t, from, to, value)
      PROVE  Sound(Update(t, from, to, value))
             /\ Update(t, from, to, value).total_supply = t.total_supply
  <2>1. from # ZERO /\ to # ZERO /\ CanUpdate(t, from, to, value) /\ t.total_supply \in Nat
    BY <1>2, LoanConstants DEF CanTransfer, Sound, Tokens
  <2>2. /\ Sound(Update(t, from, to, value))
        /\ Update(t, from, to, value).total_supply
              = t.total_supply + (IF from = ZERO THEN value ELSE 0)
                               - (IF to = ZERO THEN value ELSE 0)
    BY <1>2, <2>1, UpdateIsExact
  <2> QED
    BY <2>1, <2>2
<1>3. PICK value \in U256, a \in Addresses :
        \/ TransferCall(caller, a, value)
        \/ ApprovalCall(caller, a, value)
        \/ \E to \in Addresses : TransferFromCall(caller, a, to, value)
  BY DEF CallsOf
<1>4. CASE TransferCall(caller, a, value)
  BY <1>1, <1>2, <1>4 DEF TransferCall, Moves
<1>5. CASE ApprovalCall(caller, a, value)
  BY <1>1, <1>5, ApproveIsSound DEF ApprovalCall, Moves
<1>6. CASE \E to \in Addresses : TransferFromCall(caller, a, to, value)
  <2>1. PICK to \in Addresses : TransferFromCall(caller, a, to, value)
    BY <1>6
  <2> DEFINE paid == Spend(erc20, a, caller, value)
  <2>2. /\ CanSpend(erc20, a, caller, value) /\ CanTransfer(paid, a, to, value)
        /\ erc20' = Update(paid, a, to, value)
        /\ UNCHANGED <<config, stack, issued>>
    BY <2>1 DEF TransferFromCall
  <2>3. Sound(paid) /\ paid.total_supply = erc20.total_supply
    BY <1>1, <2>2, SpendIsSound
  <2> HIDE DEF paid
  <2> QED
    BY <1>2, <2>2, <2>3 DEF Moves
<1> QED
  BY <1>3, <1>4, <1>5, <1>6

(* A loan mints what it adds to the stack.                                 *)
LEMMA LoanKeeps ==
  ASSUME LoanInv, NEW receiver \in Borrowers, NEW value \in U256, FlashLoan(receiver, value)
  PROVE  LoanInv'
<1> DEFINE frame == [receiver |-> receiver, value |-> value, fee |-> flash_fee_value]
<1>1. /\ receiver \in Addresses /\ receiver # ZERO /\ ZERO \in Addresses
      /\ Sound(erc20) /\ erc20.total_supply \in Nat /\ value \in Nat
  BY LoanConstants, SoundTypes DEF LoanInv
<1>2. /\ CanUpdate(erc20, ZERO, receiver, value)
      /\ erc20' = Update(erc20, ZERO, receiver, value)
      /\ stack' = Append(stack, frame) /\ UNCHANGED <<config, issued>>
  BY DEF FlashLoan, CanMint
<1>3. Sound(erc20') /\ erc20'.total_supply = erc20.total_supply + value
  <2>1. /\ Sound(erc20')
        /\ erc20'.total_supply = erc20.total_supply + (IF ZERO = ZERO THEN value ELSE 0)
                                   - (IF receiver = ZERO THEN value ELSE 0)
    BY <1>1, <1>2, UpdateIsExact
  <2> QED
    BY <1>1, <2>1
<1>4. frame \in Frames /\ frame.value = value
  BY DEF LoanInv, Frames
<1> HIDE DEF frame
<1>5. /\ stack' \in Seq(Frames)
      /\ Owed(stack') = Owed(stack) + value /\ Owed(stack) \in Nat
  BY <1>2, <1>4, OwedOfAppend DEF LoanInv
<1> QED
  BY <1>1, <1>2, <1>3, <1>5 DEF LoanInv, config

(* A repayment burns what it takes off the stack, and a burnt fee          *)
(* besides, which was issued.                                              *)
LEMMA RepayKeeps ==
  ASSUME LoanInv, Repay
  PROVE  LoanInv'
<1> DEFINE f == stack[Len(stack)]
           s == SubSeq(stack, 1, Len(stack) - 1)
<1>1. /\ f \in Frames /\ s \in Seq(Frames)
      /\ Owed(stack) = Owed(s) + f.value /\ Owed(s) \in Nat
  BY OwedWithoutLast DEF LoanInv, Repay
<1>2. /\ CanSettle(f) /\ erc20' = Settled(f) /\ stack' = s /\ UNCHANGED config
      /\ issued' = IF FeeIsBurnt(f) THEN issued - Fee(f) ELSE issued
  BY DEF Repay
<1> HIDE DEF f, s
<1>3. Sound(erc20') /\ erc20'.total_supply = erc20.total_supply - Burnt(f)
  BY <1>1, <1>2, SettledIsExact DEF LoanInv
<1>4. /\ f.value \in Nat /\ f.fee \in Nat /\ Fee(f) = f.fee
      /\ Burnt(f) = IF FeeIsBurnt(f) THEN f.value + f.fee ELSE f.value
  BY <1>1, LoanConstants DEF Frames, Fee, Burnt, Allowance
<1>5. issued' \in Int /\ erc20'.total_supply = issued' + Owed(s)
  <2>1. /\ erc20.total_supply = issued + (Owed(s) + f.value)
        /\ issued \in Int /\ Owed(s) \in Nat
    BY <1>1 DEF LoanInv
  <2>2. CASE FeeIsBurnt(f)
    <3>1. issued' = issued - f.fee
      BY <1>2, <1>4, <2>2
    <3>2. erc20'.total_supply = erc20.total_supply - (f.value + f.fee)
      BY <1>3, <1>4, <2>2
    <3> QED
      BY <3>1, <3>2, <2>1, <1>4
  <2>3. CASE ~FeeIsBurnt(f)
    <3>1. issued' = issued
      BY <1>2, <2>3
    <3>2. erc20'.total_supply = erc20.total_supply - f.value
      BY <1>3, <1>4, <2>3
    <3> QED
      BY <3>1, <3>2, <2>1, <1>4
  <2> QED
    BY <2>2, <2>3
<1> QED
  BY <1>1, <1>2, <1>3, <1>5 DEF LoanInv, config

(* The owner's mint is issued supply.                                      *)
LEMMA MintKeeps ==
  ASSUME LoanInv, NEW to \in Addresses, NEW value \in U256, MintIssued(to, value)
  PROVE  LoanInv'
<1>1. /\ ZERO \in Addresses /\ to # ZERO /\ CanUpdate(erc20, ZERO, to, value)
      /\ Sound(erc20) /\ erc20.total_supply \in Nat /\ value \in Nat
  BY LoanConstants, SoundTypes DEF LoanInv, MintIssued, CanMint
<1>2. Sound(erc20') /\ erc20'.total_supply = erc20.total_supply + value
  <2>1. /\ Sound(erc20')
        /\ erc20'.total_supply = erc20.total_supply + (IF ZERO = ZERO THEN value ELSE 0)
                                   - (IF to = ZERO THEN value ELSE 0)
    BY <1>1, UpdateIsExact DEF MintIssued
  <2> QED
    BY <1>1, <2>1
<1>3. Owed(stack) \in Int
  <2>1. [i \in 1..Len(stack) |-> stack[i].value] \in [1..Len(stack) -> 0..MaxU256]
    <3>1. \A i \in 1..Len(stack) : stack[i] \in Frames
      BY DEF LoanInv
    <3> QED
      BY <3>1 DEF Frames
  <2> DEFINE S == 1..Len(stack)
             g == [i \in S |-> stack[i].value]
  <2>2. IsFiniteSet(S) /\ MaxU256 \in Nat
    BY LoanConstants, FS_Interval DEF LoanInv
  <2>3. g \in [S -> 0..MaxU256] /\ Owed(stack) = SumOf(g)
    BY <2>1 DEF Owed
  <2> HIDE DEF S, g
  <2> QED
    BY <2>2, <2>3, SumOfType
<1> QED
  BY <1>1, <1>2, <1>3 DEF LoanInv, MintIssued, config

(* Every step keeps the invariant.                                         *)
LEMMA LoanStep ==
  ASSUME LoanInv, [FlashNext]_flashVars
  PROVE  LoanInv'
<1>1. CASE \E caller \in Callers : CallsOf(caller)
  BY <1>1, CallsMove, MovesKeep
<1>2. CASE \E value \in U256, receiver \in Borrowers : FlashLoan(receiver, value)
  BY <1>2, LoanKeeps
<1>3. CASE \E value \in U256, a \in Addresses : MintIssued(a, value)
  BY <1>3, MintKeeps
<1>4. CASE \E value \in U256 : value \in Fees /\ SetFlashFee(value)
  BY <1>4 DEF SetFlashFee, LoanInv
<1>5. CASE \E a \in Addresses : SetFlashFeeReceiver(a)
  BY <1>5 DEF SetFlashFeeReceiver, LoanInv
<1>6. CASE Repay
  BY <1>6, RepayKeeps
<1>7. CASE UNCHANGED flashVars
  BY <1>7 DEF flashVars, LoanInv
<1> QED
  BY <1>1, <1>2, <1>3, <1>4, <1>5, <1>6, <1>7 DEF FlashNext

(* So the supply is what was issued and what is on loan at any moment of   *)
(* any nest of loans.                                                      *)
LEMMA LoanInvariance == FlashSpec => []LoanInv
<1> QED
  BY LoansStart, LoanStep, PTL DEF FlashSpec

-----------------------------------------------------------------------------
(* Whatever is borrowed, moved, borrowed again and paid back in between,    *)
(* the supply is what was issued and what is on loan, so that nothing of a  *)
(* loan is left once it is closed.                                          *)
THEOREM Recovery == FlashSpec => []LoansAreTheOnlyExtraSupply
<1>1. LoanInv => LoansAreTheOnlyExtraSupply
  BY DEF LoanInv, Sound, FlashTypeOK, LoansAreTheOnlyExtraSupply, Outstanding, Owed
<1> QED
  BY <1>1, LoanInvariance, PTL

(* A receiver that holds what it owes, and has approved the token for it,   *)
(* can pay it back, whoever receives the fee.                               *)
THEOREM Solvency == FlashSpec => []FundedLoanSettles
<1>1. ASSUME LoanInv, stack # <<>>, NEW f, f = stack[Len(stack)],
             f.value + f.fee <= erc20.balances[f.receiver],
             f.value + f.fee <= erc20.allowances[f.receiver][LENDER]
      PROVE  CanSettle(f)
  <2> DEFINE r      == f.receiver
             rec    == flash_fee_receiver_address
             paid   == Paid(f)
             repaid == Update(paid, r, ZERO, Burnt(f))
  <2>1. f \in Frames /\ rec \in Addresses
    BY <1>1, OwedWithoutLast DEF LoanInv
  <2>2. /\ r \in Addresses /\ r # ZERO /\ LENDER \in Addresses /\ LENDER # ZERO
        /\ ZERO \in Addresses /\ f.value \in Nat /\ f.fee \in Nat /\ MaxU256 \in Nat
        /\ Fee(f) = f.fee /\ Allowance(f) = f.value + f.fee
    BY <2>1, LoanConstants DEF Frames, Fee, Allowance
  <2>3. Sound(erc20) /\ erc20.balances[r] \in U256
    BY <1>1, <2>2 DEF LoanInv, Sound, Tokens
  <2>4. /\ Allowance(f) \in U256 /\ Burnt(f) \in U256 /\ Burnt(f) <= erc20.balances[r]
        /\ Burnt(f) = IF FeeIsBurnt(f) THEN f.value + f.fee ELSE f.value
    BY <1>1, <2>2, <2>3 DEF Burnt
  <2>5. CanSpend(erc20, r, LENDER, Allowance(f))
    BY <1>1, <2>2 DEF CanSpend, CanApprove
  <2>6. Sound(paid) /\ paid.balances = erc20.balances
    BY <2>2, <2>3, <2>4, <2>5, SpendIsSound DEF Paid
  <2>7. CanUpdate(paid, r, ZERO, Burnt(f))
    BY <2>2, <2>4, <2>6 DEF CanUpdate
  <2>8. ASSUME ~FeeIsBurnt(f)
        PROVE  CanTransfer(repaid, r, rec, Fee(f))
    <3>1. repaid.balances = Moved(erc20.balances, r, ZERO, Burnt(f))
      BY <2>2, <2>4, <2>6, <2>7, UpdateIsExact
    <3>2. rec # ZERO
      BY <2>8 DEF FeeIsBurnt
    <3> HIDE DEF repaid
    <3>3. repaid.balances[r] = erc20.balances[r] - f.value
      BY <2>2, <2>3, <2>4, <2>8, <3>1 DEF Moved
    <3> QED
      BY <1>1, <2>2, <2>3, <3>2, <3>3 DEF CanTransfer, CanUpdate
  <2> QED
    BY <2>2, <2>4, <2>5, <2>7, <2>8 DEF CanSettle, CanBurn
<1>2. LoanInv => FundedLoanSettles
  BY <1>1 DEF FundedLoanSettles
<1> QED
  BY <1>2, LoanInvariance, PTL

(* A repayment moves the amount and the fee the receiver was told, and      *)
(* touches nobody else's balance or allowance.                              *)
THEOREM Quotation == FlashSpec => RepaymentIsAsQuoted
<1>1. ASSUME LoanInv, Repay
      PROVE  LET f == stack[Len(stack)] IN
               \A a \in Accounts :
                 /\ erc20'.balances[a] - erc20.balances[a] =
                      (IF a = flash_fee_receiver_address THEN f.fee ELSE 0)
                      - (IF a = f.receiver THEN f.value + f.fee ELSE 0)
                 /\ \A s \in Accounts :
                      erc20'.allowances[a][s] # erc20.allowances[a][s]
                        => <<a, s>> = <<f.receiver, LENDER>>
  <2> DEFINE f == stack[Len(stack)]
  <2>1. f \in Frames /\ CanSettle(f) /\ erc20' = Settled(f)
    BY <1>1, OwedWithoutLast DEF LoanInv, Repay
  <2>2. f.value \in Nat /\ f.fee \in Nat
    BY <2>1, LoanConstants DEF Frames
  <2> HIDE DEF f
  <2>3. /\ \A a \in Accounts : erc20'.balances[a] = Quoted(f, a)
        /\ \A p, q \in Addresses : <<p, q>> # <<f.receiver, LENDER>> =>
             erc20'.allowances[p][q] = erc20.allowances[p][q]
    BY <1>1, <2>1, SettledIsExact DEF LoanInv
  <2>4. ASSUME NEW a \in Accounts
        PROVE  erc20'.balances[a] - erc20.balances[a] =
                 (IF a = flash_fee_receiver_address THEN f.fee ELSE 0)
                 - (IF a = f.receiver THEN f.value + f.fee ELSE 0)
    <3>1. erc20.balances[a] \in Nat
      BY <1>1, LoanConstants DEF LoanInv, Sound, Tokens
    <3> QED
      BY <2>2, <2>3, <3>1 DEF Quoted
  <2> QED
    BY <2>3, <2>4 DEF f
<1> QED
  BY <1>1, LoanInvariance, PTL DEF FlashSpec, RepaymentIsAsQuoted
=============================================================================
