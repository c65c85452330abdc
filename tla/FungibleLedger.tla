----------------------------- MODULE FungibleLedger -----------------------------
(***************************************************************************)
(* What a fungible token promises, whatever standard it follows: units are *)
(* issued, moved and retired, in exact arithmetic, and a unit is never     *)
(* created or lost on the way.  `Erc20` is shown to implement it.          *)
(***************************************************************************)
EXTENDS Naturals

CONSTANTS Holders,  \* who may hold units
          Limit     \* the most units there may ever be, a natural number

VARIABLES holdings, \* how many units each holder has
          issued    \* how many units there are

ledgerVars == <<holdings, issued>>

LedgerInit == /\ holdings = [h \in Holders |-> 0]
              /\ issued = 0

Issue(to, n) ==
  /\ issued + n <= Limit
  /\ issued' = issued + n
  /\ holdings' = [holdings EXCEPT ![to] = @ + n]

Retire(from, n) ==
  /\ n <= holdings[from]
  /\ issued' = issued - n
  /\ holdings' = [holdings EXCEPT ![from] = @ - n]

Move(from, to, n) ==
  /\ n <= holdings[from]
  /\ holdings' = [holdings EXCEPT ![from] = holdings[from] - n,
                                  ![to]   = holdings[to] + n]
  /\ UNCHANGED issued

LedgerNext ==
  \E n \in 0..Limit :
    \/ \E h \in Holders : Issue(h, n) \/ Retire(h, n)
    \/ \E h, k \in Holders : h # k /\ Move(h, k, n)

LedgerSpec == LedgerInit /\ [][LedgerNext]_ledgerVars
=============================================================================
