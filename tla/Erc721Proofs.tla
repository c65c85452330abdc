------------------------------ MODULE Erc721Proofs ------------------------------
(***************************************************************************)
(* An Erc721 of any accounts and any ids: balances count tokens, no token  *)
(* moves without leave, none comes out of nowhere by a public call, and    *)
(* the whole implements the abstract ledger of non-fungible tokens.        *)
(***************************************************************************)
EXTENDS Erc721Wrapper, MCErc721Consecutive, SequenceTheorems, FiniteSetTheorems, TLAPS

USE DEF U256, Accounts

(* What is assumed of the constants, in the form the proofs cite.          *)
LEMMA ConstantTypes ==
  ZERO \in Addresses /\ MaxU256 \in Nat /\ IsFiniteSet(Ids) /\ Cardinality(Ids) <= MaxU256
BY AddressesAssumption, IdsAssumption, MaxU256Assumption

Owned(n, a) == {id \in Ids : n.owners[id] = a}

(* The invariant that is inductive: balances count tokens, nobody is        *)
(* approved for a token that does not exist, and nobody operates for the    *)
(* zero address, which stands for the owner of such a token.                *)
Counted(n) == \A a \in Accounts : n.balances[a] = Cardinality(Owned(n, a))

Unentrusted(n) ==
  /\ \A id \in Ids : n.owners[id] = ZERO => n.token_approvals[id] = ZERO
  /\ \A a \in Addresses : ~n.operator_approvals[ZERO][a]

Inv == nft \in Storages /\ Counted(nft) /\ Unentrusted(nft)

-----------------------------------------------------------------------------
(* Nobody owns more tokens than there are words for.                        *)
LEMMA OwnedIsSmall ==
  ASSUME NEW T \in SUBSET Ids
  PROVE  IsFiniteSet(T) /\ Cardinality(T) \in U256
<1>1. IsFiniteSet(T) /\ Cardinality(T) <= Cardinality(Ids)
  BY ConstantTypes, FS_Subset
<1>2. Cardinality(T) \in Nat /\ Cardinality(Ids) \in Nat
  BY <1>1, ConstantTypes, FS_CardinalityType
<1> QED
  BY <1>1, <1>2, ConstantTypes

(* So the unchecked arithmetic on balances does not wrap.                   *)
LEMMA WrapIsExact ==
  ASSUME NEW n \in U256
  PROVE  Wrap(n) = n
BY ConstantTypes DEF Wrap

(* The storage that `_update` leaves, field by field.                       *)
Debited(n, from) ==
  IF from = ZERO THEN n.balances ELSE [n.balances EXCEPT ![from] = Wrap(@ - 1)]

Credited(b, to) == IF to = ZERO THEN b ELSE [b EXCEPT ![to] = Wrap(@ + 1)]

UpdatedApprovals(n, from, id) ==
  IF from = ZERO THEN n.token_approvals ELSE [n.token_approvals EXCEPT ![id] = ZERO]

(* So `Update` is its four fields, each written once.                      *)
LEMMA UpdateFields ==
  ASSUME NEW n \in Storages, NEW from \in Addresses, NEW to \in Addresses, NEW id \in Ids,
         NEW u, u = Update(n, from, to, id)
  PROVE  /\ u.owners = [n.owners EXCEPT ![id] = to]
         /\ u.token_approvals = UpdatedApprovals(n, from, id)
         /\ u.operator_approvals = n.operator_approvals
         /\ u.balances = Credited(Debited(n, from), to)
         /\ u \in [ owners : {u.owners}, balances : {u.balances},
                    token_approvals : {u.token_approvals},
                    operator_approvals : {u.operator_approvals} ]
<1> DEFINE ow == [n.owners EXCEPT ![id] = to]
           ta == UpdatedApprovals(n, from, id)
           ba == Credited(Debited(n, from), to)
<1>1. /\ n.owners \in [Ids -> Addresses] /\ n.token_approvals \in [Ids -> Addresses]
      /\ n \in [ owners : {n.owners}, balances : {n.balances},
                 token_approvals : {n.token_approvals},
                 operator_approvals : {n.operator_approvals} ]
  BY DEF Storages
<1>2. ta = [n.token_approvals EXCEPT ![id] = IF from = ZERO THEN @ ELSE ZERO]
  BY <1>1 DEF UpdatedApprovals
<1>3. u = [n EXCEPT !.owners = ow, !.token_approvals = ta, !.balances = ba]
  BY <1>1, <1>2 DEF Update, Credited, Debited
<1> HIDE DEF ow, ta, ba
<1>4. /\ u \in [ owners : {ow}, balances : {ba}, token_approvals : {ta},
                 operator_approvals : {n.operator_approvals} ]
  BY <1>1, <1>3
<1>5. /\ u.owners = ow /\ u.balances = ba /\ u.token_approvals = ta
      /\ u.operator_approvals = n.operator_approvals
  BY <1>4
<1> QED
  BY <1>4, <1>5 DEF ow, ta, ba

(* What an account owns besides one token.                                  *)
Rest(n, a, id) == Owned(n, a) \ {id}

(* `_update` of a token away from its owner keeps the invariant: the debit  *)
(* is of a balance that counts the token, and the credit of one that has    *)
(* room for it, also when both are the same.                                *)
LEMMA UpdateKeeps ==
  ASSUME NEW n \in Storages, Counted(n), Unentrusted(n),
         NEW from, NEW to \in Addresses, NEW id \in Ids, from = n.owners[id],
         NEW u, u = Update(n, from, to, id)
  PROVE  u \in Storages /\ Counted(u) /\ Unentrusted(u)
<1> DEFINE d == Debited(n, from)
           c == Credited(d, to)
<1>1. /\ from \in Addresses /\ ZERO \in Addresses
      /\ n.owners \in [Ids -> Addresses] /\ n.balances \in [Addresses -> U256]
      /\ n.token_approvals \in [Ids -> Addresses]
      /\ n.operator_approvals \in [Addresses -> [Addresses -> BOOLEAN]]
  BY ConstantTypes DEF Storages
<1>2. /\ u.owners = [n.owners EXCEPT ![id] = to] /\ u.balances = c
      /\ u.token_approvals = UpdatedApprovals(n, from, id)
      /\ u.operator_approvals = n.operator_approvals
      /\ u \in [ owners : {u.owners}, balances : {u.balances},
                 token_approvals : {u.token_approvals},
                 operator_approvals : {u.operator_approvals} ]
  <2>1. from \in Addresses
    BY <1>1
  <2> QED
    BY <2>1, UpdateFields
<1>3. ASSUME NEW a \in Accounts
      PROVE  /\ IsFiniteSet(Rest(n, a, id)) /\ Cardinality(Rest(n, a, id)) \in U256
             /\ a = from => Cardinality(Rest(n, a, id)) = n.balances[a] - 1
             /\ a # from => Cardinality(Rest(n, a, id)) = n.balances[a]
             /\ Cardinality(Rest(n, a, id) \cup {id}) = Cardinality(Rest(n, a, id)) + 1
             /\ Cardinality(Rest(n, a, id) \cup {id}) \in U256
  <2>1. /\ Owned(n, a) \in SUBSET Ids /\ Rest(n, a, id) \in SUBSET Ids
        /\ Rest(n, a, id) \cup {id} \in SUBSET Ids
    BY DEF Owned, Rest
  <2>2. /\ IsFiniteSet(Owned(n, a)) /\ Cardinality(Owned(n, a)) \in U256
        /\ IsFiniteSet(Rest(n, a, id)) /\ Cardinality(Rest(n, a, id)) \in U256
        /\ Cardinality(Rest(n, a, id) \cup {id}) \in U256
    BY <2>1, OwnedIsSmall
  <2>3. id \in Owned(n, a) <=> a = from
    BY DEF Owned
  <2>4. Cardinality(Rest(n, a, id)) = IF id \in Owned(n, a) THEN Cardinality(Owned(n, a)) - 1
                                                     ELSE Cardinality(Owned(n, a))
    BY <2>2, FS_RemoveElement DEF Rest
  <2>5. Cardinality(Rest(n, a, id) \cup {id}) = Cardinality(Rest(n, a, id)) + 1
    <3>1. id \notin Rest(n, a, id)
      BY DEF Rest
    <3> QED
      BY <2>2, <3>1, FS_AddElement
  <2>6. n.balances[a] = Cardinality(Owned(n, a))
    BY DEF Counted
  <2> QED
    BY <2>2, <2>3, <2>4, <2>5, <2>6, ConstantTypes
<1>4. /\ d \in [Addresses -> U256] /\ d[ZERO] = n.balances[ZERO]
      /\ \A a \in Accounts : d[a] = Cardinality(Rest(n, a, id))
  <2>1. CASE from = ZERO
    <3>1. d = n.balances
      BY <2>1 DEF Debited
    <3>2. ASSUME NEW a \in Accounts
          PROVE  n.balances[a] = Cardinality(Rest(n, a, id))
      <4>1. a # from
        BY <2>1
      <4> QED
        BY <1>3, <4>1
    <3> HIDE DEF d
    <3> QED
      BY <1>1, <3>1, <3>2
  <2>2. CASE from # ZERO
    <3>1. from \in Accounts
      BY <1>1, <2>2
    <3>2. d = [n.balances EXCEPT ![from] = Wrap(n.balances[from] - 1)]
      BY <2>2 DEF Debited
    <3> HIDE DEF d
    <3>3. Wrap(n.balances[from] - 1) = Cardinality(Rest(n, from, id))
      BY <1>3, <3>1, WrapIsExact
    <3>4. ASSUME NEW a \in Accounts \ {from}
          PROVE  n.balances[a] = Cardinality(Rest(n, a, id))
      <4>1. a \in Accounts /\ a # from
        OBVIOUS
      <4> QED
        BY <1>3, <4>1
    <3> QED
      BY <1>1, <1>3, <2>2, <3>1, <3>2, <3>3, <3>4
  <2> QED
    BY <2>1, <2>2
<1>5. /\ c \in [Addresses -> U256]
      /\ \A a \in Accounts :
           c[a] = Cardinality(IF a = to THEN Rest(n, a, id) \cup {id} ELSE Rest(n, a, id))
  <2>1. CASE to = ZERO
    <3>1. c = d
      BY <2>1 DEF Credited
    <3> HIDE DEF c, d
    <3> QED
      BY <1>4, <2>1, <3>1
  <2>2. CASE to # ZERO
    <3>1. c = [d EXCEPT ![to] = Wrap(d[to] + 1)] /\ to \in Accounts
      BY <2>2 DEF Credited
    <3> HIDE DEF c, d
    <3>2. Wrap(d[to] + 1) = Cardinality(Rest(n, to, id) \cup {id})
      BY <1>3, <1>4, <3>1, WrapIsExact
    <3>3. Wrap(d[to] + 1) \in U256
      BY <1>3, <3>1, <3>2
    <3> QED
      BY <1>4, <3>1, <3>2, <3>3
  <2> QED
    BY <2>1, <2>2
<1>6. \A a \in Accounts : Owned(u, a) = IF a = to THEN Rest(n, a, id) \cup {id} ELSE Rest(n, a, id)
  <2>1. \A i \in Ids : u.owners[i] = IF i = id THEN to ELSE n.owners[i]
    BY <1>1, <1>2
  <2> QED
    BY <2>1 DEF Owned, Rest
<1>7. Counted(u)
  <2> HIDE DEF c
  <2> QED
    BY <1>2, <1>5, <1>6 DEF Counted
<1>8. u \in Storages
  <2>1. /\ u.owners \in [Ids -> Addresses] /\ u.token_approvals \in [Ids -> Addresses]
    BY <1>1, <1>2 DEF UpdatedApprovals
  <2> HIDE DEF c
  <2> QED
    BY <1>1, <1>2, <1>5, <2>1 DEF Storages
<1>9. Unentrusted(u)
  <2> HIDE DEF c
  <2> QED
    BY <1>1, <1>2 DEF Unentrusted, UpdatedApprovals
<1> QED
  BY <1>7, <1>8, <1>9

-----------------------------------------------------------------------------
(* Approvals are given for tokens that exist, and by accounts, so that they *)
(* keep the invariant too.                                                  *)
LEMMA ApproveKeeps ==
  ASSUME NEW n \in Storages, Counted(n), Unentrusted(n),
         NEW to \in Addresses, NEW id \in Ids, n.owners[id] # ZERO,
         NEW u, u = Approve(n, to, id)
  PROVE  u \in Storages /\ Counted(u) /\ Unentrusted(u)
<1>1. /\ u.owners = n.owners /\ u.balances = n.balances
      /\ u.operator_approvals = n.operator_approvals
      /\ u.token_approvals = [n.token_approvals EXCEPT ![id] = to]
      /\ u \in Storages
  BY DEF Approve, Storages
<1>2. n.token_approvals \in [Ids -> Addresses]
  BY DEF Storages
<1> QED
  BY <1>1, <1>2 DEF Counted, Owned, Unentrusted

(* Owners name their operators, and the zero address, which calls          *)
(* nothing, names none.                                                    *)
LEMMA SetApprovalForAllKeeps ==
  ASSUME NEW n \in Storages, Counted(n), Unentrusted(n),
         NEW o \in Accounts, NEW s \in Addresses, NEW b \in BOOLEAN,
         NEW u, u = SetApprovalForAll(n, o, s, b)
  PROVE  u \in Storages /\ Counted(u) /\ Unentrusted(u)
<1> DEFINE oa == [n.operator_approvals EXCEPT ![o] = [@ EXCEPT ![s] = b]]
<1>1. n.operator_approvals \in [Addresses -> [Addresses -> BOOLEAN]]
  BY DEF Storages
<1>2. oa \in [Addresses -> [Addresses -> BOOLEAN]] /\ oa[ZERO] = n.operator_approvals[ZERO]
  BY <1>1, ConstantTypes
<1>3. u = [n EXCEPT !.operator_approvals = oa]
  BY DEF SetApprovalForAll
<1> HIDE DEF oa
<1>4. /\ u.owners = n.owners /\ u.balances = n.balances
      /\ u.operator_approvals = oa /\ u.token_approvals = n.token_approvals
      /\ u \in Storages
  BY <1>2, <1>3 DEF Storages
<1> QED
  BY <1>2, <1>4 DEF Counted, Owned, Unentrusted

(* Every step is an update of a token away from its owner, an approval of a *)
(* token that exists, or a change of the operators of an account.           *)
Updates(n, u)  == \E to \in Addresses, id \in Ids : u = Update(n, n.owners[id], to, id)
Approves(n, u) == \E to \in Addresses, id \in Ids :
                    n.owners[id] # ZERO /\ u = Approve(n, to, id)
Operates(n, u) == \E o \in Accounts, s \in Addresses, b \in BOOLEAN :
                    u = SetApprovalForAll(n, o, s, b)

(* Every handler of the core, public or internal, is one of the three.     *)
LEMMA Steps ==
  ASSUME Next
  PROVE  Updates(nft, nft') \/ Approves(nft, nft') \/ Operates(nft, nft')
<1>1. ASSUME NEW caller \in Accounts, PublicCall(caller)
      PROVE  Updates(nft, nft') \/ Approves(nft, nft') \/ Operates(nft, nft')
  <2>1. CASE \E id \in Ids : BurnCall(caller, id)
    BY <2>1, ConstantTypes DEF BurnCall, OwnerOf, Updates
  <2>2. CASE \E id \in Ids, to \in Addresses : ApproveCall(caller, to, id)
    BY <2>2 DEF ApproveCall, CanApprove, OwnerOf, Approves
  <2>3. CASE \E id \in Ids, to \in Addresses, from \in Addresses : TransferFrom(caller, from, to, id)
    BY <2>3 DEF TransferFrom, OwnerOf, Updates
  <2>4. CASE \E operator \in Addresses, approved \in BOOLEAN :
               SetApprovalForAllCall(caller, operator, approved)
    BY <2>4 DEF SetApprovalForAllCall, Operates
  <2> QED
    BY <1>1, <2>1, <2>2, <2>3, <2>4 DEF PublicCall, SafeTransferFrom
<1>2. ASSUME Internal
      PROVE  Updates(nft, nft') \/ Approves(nft, nft')
  <2>1. CASE \E id \in Ids : Burn(id)
    BY <2>1, ConstantTypes DEF Burn, OwnerOf, Updates
  <2>2. CASE \E id \in Ids, to \in Addresses : Mint(to, id)
    BY <2>2 DEF Mint, OwnerOf, Updates
  <2>3. CASE \E id \in Ids, to \in Addresses, a \in Addresses : Transfer(a, to, id)
    BY <2>3 DEF Transfer, OwnerOf, Updates
  <2>4. CASE \E id \in Ids, to \in Addresses, a \in Addresses : UpdateCall(to, id, a)
    BY <2>4 DEF UpdateCall, OwnerOf, Updates
  <2>5. CASE \E id \in Ids, to \in Addresses, a \in Addresses : ApproveFor(to, id, a)
    BY <2>5 DEF ApproveFor, CanApprove, OwnerOf, Approves
  <2> QED
    BY <1>2, <2>1, <2>2, <2>3, <2>4, <2>5 DEF Internal, SafeMint, SafeTransfer
<1> QED
  BY <1>1, <1>2 DEF Next

(* Every step keeps the invariant.                                         *)
LEMMA Preserved ==
  ASSUME Inv, [Next]_nft
  PROVE  Inv'
<1>1. CASE Updates(nft, nft')
  <2>1. PICK to \in Addresses, id \in Ids : nft' = Update(nft, nft.owners[id], to, id)
    BY <1>1 DEF Updates
  <2> QED
    BY <2>1, UpdateKeeps DEF Inv
<1>2. CASE Approves(nft, nft')
  <2>1. PICK to \in Addresses, id \in Ids : nft.owners[id] # ZERO /\ nft' = Approve(nft, to, id)
    BY <1>2 DEF Approves
  <2> QED
    BY <2>1, ApproveKeeps DEF Inv
<1>3. CASE Operates(nft, nft')
  <2>1. PICK o \in Accounts, s \in Addresses, b \in BOOLEAN : nft' = SetApprovalForAll(nft, o, s, b)
    BY <1>3 DEF Operates
  <2> QED
    BY <2>1, SetApprovalForAllKeeps DEF Inv
<1>4. CASE nft' = nft
  BY <1>4 DEF Inv
<1> QED
  BY <1>1, <1>2, <1>3, <1>4, Steps

(* It holds of the storage of a new contract, where nobody owns anything.  *)
LEMMA Initially ==
  ASSUME Init
  PROVE  Inv
<1>1. nft = EmptyStorage /\ ZERO \in Addresses /\ 0 \in U256
  BY ConstantTypes DEF Init
<1>2. nft \in Storages
  BY <1>1 DEF EmptyStorage, Storages
<1>3. ASSUME NEW a \in Accounts
      PROVE  nft.balances[a] = Cardinality(Owned(nft, a))
  <2>1. Owned(nft, a) = {}
    BY <1>1 DEF EmptyStorage, Owned
  <2> QED
    BY <1>1, <2>1, FS_EmptySet DEF EmptyStorage
<1>4. Unentrusted(nft)
  BY <1>1 DEF EmptyStorage, Unentrusted
<1> QED
  BY <1>2, <1>3, <1>4 DEF Inv, Counted

(* So balances count tokens, and nobody is entrusted with what does not    *)
(* exist, in every state of the contract.                                  *)
THEOREM Invariance == Spec => []Inv
<1> QED
  BY Initially, Preserved, PTL DEF Spec

(* Nobody's balance differs from the number of tokens it owns: the two are  *)
(* written by `_update`, one of them in unchecked arithmetic.               *)
THEOREM Balances == Spec => []BalancesCountTokens
<1>1. Inv => BalancesCountTokens
  BY DEF Inv, Counted, Owned, BalancesCountTokens, TypeOK, OwnerOf
<1> QED
  BY <1>1, Invariance, PTL

(* Nobody has authority over a token that does not exist, so that           *)
(* `transfer_from` and `burn`, which never test existence, create none.     *)
NobodysTokensAreUntouchable ==
  \A id \in Ids, caller \in Accounts : OwnerOf(id) = ZERO => ~MayTouch(caller, id)

(* In every state, `_is_authorized` answers no for a token without an      *)
(* owner.                                                                  *)
THEOREM Untouchable == Spec => []NobodysTokensAreUntouchable
<1>1. Inv => NobodysTokensAreUntouchable
  BY DEF Inv, Unentrusted, NobodysTokensAreUntouchable, MayTouch, OwnerOf
<1> QED
  BY <1>1, Invariance, PTL

-----------------------------------------------------------------------------
(* An update touches one token, and an approval likewise.                   *)
LEMMA UpdateIsLocal ==
  ASSUME NEW n \in Storages, NEW from \in Addresses, NEW to \in Addresses, NEW id \in Ids,
         NEW i \in Ids, i # id, NEW u, u = Update(n, from, to, id)
  PROVE  u.owners[i] = n.owners[i] /\ u.token_approvals[i] = n.token_approvals[i]
<1>1. n.owners \in [Ids -> Addresses] /\ n.token_approvals \in [Ids -> Addresses]
  BY DEF Storages
<1>2. /\ u.owners = [n.owners EXCEPT ![id] = to]
      /\ u.token_approvals = UpdatedApprovals(n, from, id)
  BY UpdateFields
<1>3. UpdatedApprovals(n, from, id)[i] = n.token_approvals[i]
  BY <1>1 DEF UpdatedApprovals
<1> QED
  BY <1>1, <1>2, <1>3

(* `_approve` writes the approval of one token and no owner.               *)
LEMMA ApproveFields ==
  ASSUME NEW n \in Storages, NEW to \in Addresses, NEW id \in Ids,
         NEW u, u = Approve(n, to, id)
  PROVE  /\ u.owners = n.owners
         /\ u.token_approvals = [n.token_approvals EXCEPT ![id] = to]
BY DEF Approve, Storages

(* `_set_approval_for_all` writes neither owners nor approvals.            *)
LEMMA OperateFields ==
  ASSUME NEW n \in Storages, NEW o, NEW s, NEW b, NEW u, u = SetApprovalForAll(n, o, s, b)
  PROVE  u.owners = n.owners /\ u.token_approvals = n.token_approvals
BY DEF SetApprovalForAll, Storages

(* What authorizes a call for a token is an authority over that token.      *)
LEMMA AuthorityIsLocal ==
  ASSUME Inv, NEW caller \in Accounts, PublicCall(caller), NEW id \in Ids,
         ~MayTouch(caller, id)
  PROVE  nft'.owners[id] = nft.owners[id] /\ nft'.token_approvals[id] = nft.token_approvals[id]
<1>1. nft \in Storages /\ nft.owners \in [Ids -> Addresses]
      /\ nft.token_approvals \in [Ids -> Addresses]
  BY DEF Inv, Storages
<1>2. ASSUME NEW i \in Ids, NEW to \in Addresses, MayUpdate(nft, OwnerOf(i), i, caller),
             nft' = Update(nft, OwnerOf(i), to, i)
      PROVE  nft'.owners[id] = nft.owners[id] /\ nft'.token_approvals[id] = nft.token_approvals[id]
  <2>1. MayTouch(caller, i)
    BY <1>2 DEF MayUpdate, IsAuthorized, MayTouch, OwnerOf
  <2>2. i # id /\ OwnerOf(i) \in Addresses
    BY <1>1, <2>1 DEF OwnerOf
  <2> QED
    BY <1>1, <1>2, <2>2, UpdateIsLocal
<1>3. CASE \E i \in Ids : BurnCall(caller, i)
  BY <1>2, <1>3, ConstantTypes DEF BurnCall
<1>4. CASE \E i \in Ids, to \in Addresses, from \in Addresses : TransferFrom(caller, from, to, i)
  BY <1>2, <1>4 DEF TransferFrom
<1>5. CASE \E i \in Ids, to \in Addresses : ApproveCall(caller, to, i)
  <2>1. PICK i \in Ids, to \in Addresses :
             CanApprove(nft, OwnerOf(i), i, caller) /\ nft' = Approve(nft, to, i)
    BY <1>5 DEF ApproveCall
  <2>2. MayTouch(caller, i)
    BY <2>1 DEF CanApprove, MayTouch, OwnerOf
  <2>3. i # id
    BY <2>2
  <2>4. /\ nft'.owners = nft.owners
        /\ nft'.token_approvals = [nft.token_approvals EXCEPT ![i] = to]
    BY <1>1, <2>1, ApproveFields
  <2> QED
    BY <1>1, <2>3, <2>4
<1>6. CASE \E operator \in Addresses, approved \in BOOLEAN :
             SetApprovalForAllCall(caller, operator, approved)
  BY <1>1, <1>6, OperateFields DEF SetApprovalForAllCall
<1> QED
  BY <1>3, <1>4, <1>5, <1>6 DEF PublicCall, SafeTransferFrom

(* A token changes hands, or is entrusted to another, by no public call but *)
(* of its owner, of the account approved for it or of an operator of its    *)
(* owner.                                                                   *)
THEOREM Authority == Spec => OthersTokensAreSafe
<1>1. ASSUME Inv, [Next]_nft
      PROVE  [ \A id \in Ids, caller \in Accounts :
                 ( /\ <<nft.owners[id], nft.token_approvals[id]>>'
                         # <<nft.owners[id], nft.token_approvals[id]>>
                   /\ ~MayTouch(caller, id) ) => ~PublicCall(caller) ]_nft
  BY <1>1, AuthorityIsLocal
<1> QED
  BY <1>1, Invariance, PTL DEF Spec, OthersTokensAreSafe

-----------------------------------------------------------------------------
(* A new contract is a ledger in which no token exists.                    *)
LEMMA NftInitially ==
  ASSUME Init
  PROVE  Nft!NftInit
BY DEF Init, EmptyStorage, Nft!NftInit

(* An update is a creation, a gift, or, from nobody to nobody, nothing; the *)
(* other steps entrust one token or leave both records as they are.         *)
LEMMA NftStep ==
  ASSUME Inv, [Next]_nft
  PROVE  [Nft!NftNext]_(Nft!nftVars)
<1>1. /\ nft \in Storages /\ Unentrusted(nft) /\ ZERO \in Addresses
      /\ nft.owners \in [Ids -> Addresses] /\ nft.token_approvals \in [Ids -> Addresses]
  BY ConstantTypes DEF Inv, Storages
<1>2. CASE Updates(nft, nft')
  <2>1. PICK to \in Addresses, id \in Ids : nft' = Update(nft, nft.owners[id], to, id)
    BY <1>2 DEF Updates
  <2>2. nft.owners[id] \in Addresses
    BY <1>1
  <2>3. /\ nft'.owners = [nft.owners EXCEPT ![id] = to]
        /\ nft'.token_approvals = UpdatedApprovals(nft, nft.owners[id], id)
    BY <1>1, <2>1, <2>2, UpdateFields
  <2>4. CASE nft.owners[id] # ZERO
    <3>1. Nft!Give(id, to)
      BY <2>3, <2>4 DEF Nft!Give, UpdatedApprovals
    <3> QED
      BY <3>1 DEF Nft!NftNext
  <2>5. CASE nft.owners[id] = ZERO /\ to # ZERO
    <3>1. nft'.owners = [i \in Ids |-> IF i \in {id} THEN to ELSE nft.owners[i]]
      BY <1>1, <2>3
    <3>2. Nft!Create({id}, to)
      BY <2>3, <2>5, <3>1 DEF Nft!Create, UpdatedApprovals
    <3> QED
      BY <2>5, <3>2 DEF Nft!NftNext
  <2>6. CASE nft.owners[id] = ZERO /\ to = ZERO
    BY <1>1, <2>3, <2>6 DEF UpdatedApprovals, Nft!nftVars
  <2> QED
    BY <2>4, <2>5, <2>6
<1>3. CASE Approves(nft, nft')
  <2>1. PICK to \in Addresses, id \in Ids : nft.owners[id] # ZERO /\ nft' = Approve(nft, to, id)
    BY <1>3 DEF Approves
  <2>2. Nft!Entrust(id, to)
    BY <1>1, <2>1, ApproveFields DEF Nft!Entrust
  <2> QED
    BY <2>2 DEF Nft!NftNext
<1>4. CASE Operates(nft, nft')
  BY <1>1, <1>4, OperateFields DEF Operates, Nft!nftVars
<1>5. CASE nft' = nft
  BY <1>5 DEF Nft!nftVars
<1> QED
  BY <1>2, <1>3, <1>4, <1>5, Steps

(* The owners and the approvals behave as those of the abstract ledger: an  *)
(* approval ends with the ownership it was given under.                     *)
THEOREM NftRefinement == Spec => ImplementsNft
<1> QED
  BY NftInitially, NftStep, Invariance, PTL DEF Spec, ImplementsNft, Nft!NftSpec

-----------------------------------------------------------------------------
(* The wrapper.  Both tokens are sound, a wrapped token stands for an       *)
(* underlying one that the wrapper holds, and the wrapper entrusts what it  *)
(* holds to nobody.                                                         *)
Good(n) == n \in Storages /\ Counted(n) /\ Unentrusted(n)

Closed(u) ==
  /\ \A id \in Ids : u.owners[id] = WRAPPER => u.token_approvals[id] = ZERO
  /\ \A a \in Addresses : ~u.operator_approvals[WRAPPER][a]

Backs(u, n) == \A id \in Ids : n.owners[id] # ZERO => u.owners[id] = WRAPPER

Pair(n, u) == Good(n) /\ Good(u) /\ Closed(u) /\ Backs(u, n)

(* A call that fails restores what a frame remembers, so that is as sound.  *)
WInv ==
  /\ Pair(nft, under)
  /\ stack \in Seq(Frames)
  /\ \A i \in 1..Len(stack) : Pair(stack[i].before.nft, stack[i].before.under)

(* What is assumed of the constants of the wrapper.                         *)
LEMMA WrapperConstants ==
  /\ WRAPPER \in Accounts /\ WRAPPER \in Rejecting /\ ZERO \in Addresses
  /\ Users \subseteq Accounts /\ WRAPPER \notin Users /\ ZERO \notin Users
  /\ Contracts \subseteq Users
  /\ Lists \subseteq Seq(Ids) \ {<<>>}
BY WrapperAssumption, RejectingAssumption, ConstantTypes DEF Users

(* The underlying token is an Erc721 as the wrapped one is.                 *)
LEMMA UnderIsErc721 ==
  /\ Under!Storages = Storages /\ Under!EmptyStorage = EmptyStorage
  /\ \A n, from, to, id : Under!Update(n, from, to, id) = Update(n, from, to, id)
  /\ \A n, to, id : Under!Approve(n, to, id) = Approve(n, to, id)
  /\ \A n, o, s, b : Under!SetApprovalForAll(n, o, s, b) = SetApprovalForAll(n, o, s, b)
  /\ \A n, o, s, id : Under!MayUpdate(n, o, id, s) <=> MayUpdate(n, o, id, s)
  /\ \A n, o, s, id : Under!CanApprove(n, o, id, s) <=> CanApprove(n, o, id, s)
<1>1. Under!Storages = Storages /\ Under!EmptyStorage = EmptyStorage
  BY DEF Under!Storages, Under!EmptyStorage, Storages, EmptyStorage, Under!U256
<1>2. \A n, from, to, id : Under!Update(n, from, to, id) = Update(n, from, to, id)
  BY DEF Under!Update, Update, Under!Wrap, Wrap
<1>3. \A n, to, id : Under!Approve(n, to, id) = Approve(n, to, id)
  BY DEF Under!Approve, Approve
<1>4. \A n, o, s, b : Under!SetApprovalForAll(n, o, s, b) = SetApprovalForAll(n, o, s, b)
  BY DEF Under!SetApprovalForAll, SetApprovalForAll
<1>5. \A n, o, s, id : Under!MayUpdate(n, o, id, s) <=> MayUpdate(n, o, id, s)
  BY DEF Under!MayUpdate, MayUpdate, Under!IsAuthorized, IsAuthorized
<1>6. \A n, o, s, id : Under!CanApprove(n, o, id, s) <=> CanApprove(n, o, id, s)
  BY DEF Under!CanApprove, CanApprove
<1> QED
  BY <1>1, <1>2, <1>3, <1>4, <1>5, <1>6

(* An update gives one token away, and nobody is approved for it then.      *)
Given(n, u, to, id) ==
  /\ Good(u)
  /\ u.owners = [n.owners EXCEPT ![id] = to]
  /\ u.token_approvals[id] = ZERO
  /\ \A i \in Ids \ {id} : u.token_approvals[i] = n.token_approvals[i]
  /\ u.operator_approvals = n.operator_approvals

(* `_update` of a token away from its owner does that.                      *)
LEMMA UpdateGives ==
  ASSUME NEW n, Good(n), NEW to \in Addresses, NEW id \in Ids,
         NEW from, from = n.owners[id], NEW u, u = Update(n, from, to, id)
  PROVE  Given(n, u, to, id)
<1>1. /\ n \in Storages /\ from \in Addresses /\ n.token_approvals \in [Ids -> Addresses]
  BY DEF Good, Storages
<1>2. Good(u)
  BY <1>1, UpdateKeeps DEF Good
<1>3. /\ u.owners = [n.owners EXCEPT ![id] = to]
      /\ u.token_approvals = UpdatedApprovals(n, from, id)
      /\ u.operator_approvals = n.operator_approvals
  <2>1. n \in Storages /\ from \in Addresses
    BY <1>1
  <2> QED
    BY <2>1, UpdateFields
<1>4. from = ZERO => n.token_approvals[id] = ZERO
  BY DEF Good, Unentrusted
<1> QED
  BY <1>1, <1>2, <1>3, <1>4 DEF Given, UpdatedApprovals

(* What the wrapper is given it entrusts to nobody, and what it gives away  *)
(* is no longer its own.                                                    *)
LEMMA GivingCloses ==
  ASSUME NEW n, NEW u, NEW to \in Addresses, NEW id \in Ids,
         Good(n), Closed(n), Given(n, u, to, id)
  PROVE  Closed(u) /\ u.owners[id] = to /\ \A i \in Ids \ {id} : u.owners[i] = n.owners[i]
<1>1. n.owners \in [Ids -> Addresses]
  BY DEF Good, Storages
<1>2. u.owners[id] = to /\ \A i \in Ids \ {id} : u.owners[i] = n.owners[i]
  BY <1>1 DEF Given
<1> QED
  BY <1>2 DEF Given, Closed

(* A call of another on the underlying token takes nothing from the wrapper *)
(* and makes the wrapper entrust nothing.                                   *)
LEMMA OthersTakeNothing ==
  ASSUME Good(under), Closed(under), NEW caller \in Users, UnderCall(caller)
  PROVE  /\ Good(under') /\ Closed(under') /\ nft' = nft /\ stack' = stack
         /\ \A i \in Ids : under.owners[i] = WRAPPER => under'.owners[i] = WRAPPER
<1>1. nft' = nft /\ stack' = stack
  BY DEF UnderCall
<1>2. ASSUME NEW id \in Ids, NEW to \in Addresses,
             MayUpdate(under, under.owners[id], id, caller),
             under' = Update(under, under.owners[id], to, id)
      PROVE  /\ Good(under') /\ Closed(under')
             /\ \A i \in Ids : under.owners[i] = WRAPPER => under'.owners[i] = WRAPPER
  <2>1. under.owners[id] # WRAPPER
    BY <1>2, WrapperConstants DEF MayUpdate, IsAuthorized, Closed
  <2>2. Given(under, under', to, id)
    BY <1>2, UpdateGives
  <2>3. /\ Closed(under') /\ \A i \in Ids \ {id} : under'.owners[i] = under.owners[i]
    BY <2>2, GivingCloses
  <2> QED
    BY <2>1, <2>2, <2>3 DEF Given
<1>3. ASSUME NEW id \in Ids, NEW to \in Addresses, Under!ApproveCall(caller, to, id)
      PROVE  /\ Good(under') /\ Closed(under')
             /\ \A i \in Ids : under.owners[i] = WRAPPER => under'.owners[i] = WRAPPER
  <2>1. CanApprove(under, under.owners[id], id, caller) /\ under' = Approve(under, to, id)
    BY <1>3, UnderIsErc721 DEF Under!ApproveCall, Under!OwnerOf
  <2>2. under.owners[id] # WRAPPER /\ under.owners[id] # ZERO
    BY <2>1, WrapperConstants DEF CanApprove, Closed
  <2>3. Good(under')
    BY <2>1, <2>2, ApproveKeeps DEF Good
  <2>4. /\ under'.owners = under.owners
        /\ under'.token_approvals = [under.token_approvals EXCEPT ![id] = to]
        /\ under'.operator_approvals = under.operator_approvals
    BY <2>1, ApproveFields DEF Good, Approve, Storages
  <2>5. under.token_approvals \in [Ids -> Addresses]
    BY DEF Good, Storages
  <2> QED
    BY <2>2, <2>3, <2>4, <2>5 DEF Closed
<1>4. ASSUME NEW o \in Addresses, NEW b \in BOOLEAN, Under!SetApprovalForAllCall(caller, o, b)
      PROVE  /\ Good(under') /\ Closed(under')
             /\ \A i \in Ids : under.owners[i] = WRAPPER => under'.owners[i] = WRAPPER
  <2>1. under' = SetApprovalForAll(under, caller, o, b) /\ caller \in Accounts
    BY <1>4, UnderIsErc721, WrapperConstants DEF Under!SetApprovalForAllCall
  <2>2. Good(under')
    BY <2>1, SetApprovalForAllKeeps DEF Good
  <2>3. under'.owners = under.owners /\ under'.token_approvals = under.token_approvals
    BY <2>1, OperateFields DEF Good
  <2>4. /\ under \in Storages
        /\ under.operator_approvals \in [Addresses -> [Addresses -> BOOLEAN]]
    BY DEF Good, Storages
  <2>5. under'.operator_approvals = [under.operator_approvals EXCEPT ![caller][o] = b]
    BY <2>1, <2>4 DEF SetApprovalForAll, Storages
  <2>6. under'.operator_approvals[WRAPPER] = under.operator_approvals[WRAPPER]
    BY <2>4, <2>5, WrapperConstants
  <2> QED
    BY <2>2, <2>3, <2>6 DEF Closed
<1>5. CASE \E id \in Ids : Under!BurnCall(caller, id)
  <2>1. PICK id \in Ids : Under!BurnCall(caller, id)
    BY <1>5
  <2>2. /\ MayUpdate(under, under.owners[id], id, caller)
        /\ under' = Update(under, under.owners[id], ZERO, id)
    BY <2>1, UnderIsErc721 DEF Under!BurnCall, Under!OwnerOf
  <2> QED
    BY <1>1, <1>2, <2>2, ConstantTypes
<1>6. CASE \E id \in Ids, to, from \in Addresses : Under!TransferFrom(caller, from, to, id)
  <2>1. PICK id \in Ids, to, from \in Addresses : Under!TransferFrom(caller, from, to, id)
    BY <1>6
  <2>2. /\ MayUpdate(under, under.owners[id], id, caller)
        /\ under' = Update(under, under.owners[id], to, id)
    BY <2>1, UnderIsErc721 DEF Under!TransferFrom, Under!OwnerOf
  <2> QED
    BY <1>1, <1>2, <2>2
<1> QED
  BY <1>1, <1>3, <1>4, <1>5, <1>6 DEF UnderCall, Under!SafeTransferFrom

(* A public call of the wrapped token wraps nothing: nobody has authority   *)
(* over a token that does not exist.                                        *)
LEMMA CallsWrapNothing ==
  ASSUME Good(nft), NEW caller \in Accounts, PublicCall(caller)
  PROVE  Good(nft') /\ \A i \in Ids : nft'.owners[i] # ZERO => nft.owners[i] # ZERO
<1>1. Inv /\ Next
  BY DEF Good, Inv, Next
<1>2. Inv'
  BY <1>1, Preserved
<1>3. ASSUME NEW i \in Ids, nft.owners[i] = ZERO
      PROVE  nft'.owners[i] = ZERO
  <2>1. ~MayTouch(caller, i)
    BY <1>3, ConstantTypes DEF MayTouch, OwnerOf, Good, Unentrusted
  <2> QED
    BY <1>1, <1>3, <2>1, AuthorityIsLocal
<1> QED
  BY <1>2, <1>3 DEF Inv, Good

(* A token is wrapped when the wrapper holds what it stands for.            *)
LEMMA WrappingBacks ==
  ASSUME Good(nft), NEW u, Backs(u, nft), NEW to \in Addresses, NEW id \in Ids,
         u.owners[id] = WRAPPER, Mint(to, id)
  PROVE  Good(nft') /\ Backs(u, nft')
<1>1. nft.owners[id] = ZERO /\ nft' = Update(nft, nft.owners[id], to, id)
  BY DEF Mint, OwnerOf
<1>2. Given(nft, nft', to, id) /\ nft.owners \in [Ids -> Addresses]
  BY <1>1, UpdateGives DEF Good, Storages
<1> QED
  BY <1>2 DEF Given, Backs

(* What comes to the wrapper leaves what it holds there.                    *)
LEMMA BringingBacks ==
  ASSUME Pair(nft, under), NEW caller, NEW from \in Addresses, NEW id \in Ids,
         Under!TransferFrom(caller, from, WRAPPER, id)
  PROVE  /\ Good(under') /\ Closed(under') /\ Backs(under', nft)
         /\ under'.owners[id] = WRAPPER
         /\ \A i \in Ids : under.owners[i] = WRAPPER => under'.owners[i] = WRAPPER
<1>1. under' = Update(under, under.owners[id], WRAPPER, id) /\ WRAPPER \in Addresses
  BY UnderIsErc721, WrapperConstants DEF Under!TransferFrom, Under!OwnerOf
<1>2. Given(under, under', WRAPPER, id)
  BY <1>1, UpdateGives DEF Pair
<1>3. /\ Closed(under') /\ under'.owners[id] = WRAPPER
      /\ \A i \in Ids \ {id} : under'.owners[i] = under.owners[i]
  BY <1>1, <1>2, GivingCloses DEF Pair
<1> QED
  BY <1>2, <1>3 DEF Given, Backs, Pair

(* What leaves the wrapper leaves for a wrapped token of somebody who       *)
(* allows it.                                                               *)
Released(sender) ==
  \A i \in Ids :
    under.owners[i] = WRAPPER /\ under'.owners[i] # WRAPPER =>
      /\ OwnerOf(i) # ZERO /\ nft'.owners[i] = ZERO
      /\ IsAuthorized(nft, OwnerOf(i), sender, i)

(* One id of a deposit takes nothing out.                                   *)
LEMMA DepositKeeps ==
  ASSUME Pair(nft, under), NEW sender \in Users, NEW account \in Addresses,
         NEW id \in Ids, DepositOne(sender, account, id)
  PROVE  Pair(nft', under') /\ Released(sender) /\ account # ZERO
<1>1. /\ Good(under') /\ Closed(under') /\ Backs(under', nft)
      /\ under'.owners[id] = WRAPPER
      /\ \A i \in Ids : under.owners[i] = WRAPPER => under'.owners[i] = WRAPPER
  <2>1. Under!TransferFrom(WRAPPER, sender, WRAPPER, id) /\ sender \in Addresses
    BY WrapperConstants DEF DepositOne
  <2> QED
    BY <2>1, BringingBacks
<1>2. Good(nft') /\ Backs(under', nft') /\ account # ZERO
  <2>1. Mint(account, id) /\ Good(nft)
    BY DEF DepositOne, SafeMint, Pair
  <2> QED
    BY <1>1, <2>1, WrappingBacks DEF Mint
<1> QED
  BY <1>1, <1>2 DEF Pair, Released

(* One id of a withdrawal takes out just the token whose wrapped one it     *)
(* burns, by leave of whoever holds that.                                   *)
LEMMA WithdrawKeeps ==
  ASSUME Pair(nft, under), NEW sender \in Users, NEW account \in Addresses,
         NEW id \in Ids, WithdrawOne(sender, account, id)
  PROVE  Pair(nft', under') /\ Released(sender) /\ account # ZERO
<1>1. /\ MayUpdate(nft, nft.owners[id], id, sender)
      /\ nft' = Update(nft, nft.owners[id], ZERO, id)
  BY DEF WithdrawOne, UpdateCall, OwnerOf
<1>2. /\ under' = Update(under, under.owners[id], account, id)
      /\ under.owners[id] = WRAPPER /\ account # WRAPPER /\ account # ZERO
  BY UnderIsErc721 DEF WithdrawOne, Under!SafeTransferFrom, Under!TransferFrom,
     Under!OwnerOf
<1>3. Given(nft, nft', ZERO, id) /\ Given(under, under', account, id)
  BY <1>1, <1>2, UpdateGives, ConstantTypes DEF Pair
<1>4. /\ Closed(under') /\ \A i \in Ids \ {id} : under'.owners[i] = under.owners[i]
  BY <1>3, GivingCloses DEF Pair
<1>5. nft'.owners[id] = ZERO /\ \A i \in Ids \ {id} : nft'.owners[i] = nft.owners[i]
  <2>1. nft.owners \in [Ids -> Addresses]
    BY DEF Pair, Good, Storages
  <2> QED
    BY <1>3, <2>1 DEF Given
<1>6. Backs(under', nft')
  BY <1>4, <1>5 DEF Backs, Pair
<1>7. IsAuthorized(nft, OwnerOf(id), sender, id)
  BY <1>1, WrapperConstants DEF MayUpdate, OwnerOf
<1>8. OwnerOf(id) # ZERO
  BY <1>7, WrapperConstants DEF IsAuthorized, Pair, Good, Unentrusted, OwnerOf
<1>9. Released(sender)
  BY <1>4, <1>5, <1>7, <1>8 DEF Released
<1> QED
  BY <1>2, <1>3, <1>4, <1>6, <1>9 DEF Pair, Given

(* The next id of a list, whatever the call.                                *)
LEMMA IterateKeeps ==
  ASSUME Pair(nft, under), NEW what, NEW sender \in Users, NEW account \in Addresses,
         NEW id \in Ids, Iterate(what, sender, account, id)
  PROVE  Pair(nft', under') /\ Released(sender) /\ account # ZERO
BY DepositKeeps, WithdrawKeeps DEF Iterate

-----------------------------------------------------------------------------
(* The calls that wait.                                                     *)
Waiting(k) ==
  /\ k \in Seq(Frames)
  /\ \A i \in 1..Len(k) : Pair(k[i].before.nft, k[i].before.under)

(* A call begins, goes on to its next id, ends.                             *)
LEMMA WaitingGrows ==
  ASSUME NEW k, Waiting(k), NEW e \in Frames, Pair(e.before.nft, e.before.under)
  PROVE  /\ Waiting(Append(k, e)) /\ Append(k, e) # <<>>
         /\ Append(k, e)[Len(Append(k, e))] = e
<1>1. /\ Append(k, e) \in Seq(Frames) /\ Len(Append(k, e)) = Len(k) + 1
      /\ Len(k) \in Nat
      /\ \A i \in 1..Len(k) : Append(k, e)[i] = k[i]
      /\ Append(k, e)[Len(k) + 1] = e
  BY AppendProperties DEF Waiting
<1>2. \A i \in 1..Len(k) + 1 : i \in 1..Len(k) \/ i = Len(k) + 1
  BY <1>1
<1> QED
  BY <1>1, <1>2 DEF Waiting

(* The innermost call forgets the id it has done, and nothing else.         *)
LEMMA WaitingGoesOn ==
  ASSUME NEW k, Waiting(k), k # <<>>, k[Len(k)].ids # <<>>,
         NEW l, l = [k EXCEPT ![Len(k)].ids = Tail(@)]
  PROVE  /\ Waiting(l) /\ l # <<>> /\ l[Len(l)].sender = k[Len(k)].sender
<1> DEFINE n == Len(k)
           e == [k[n] EXCEPT !.ids = Tail(@)]
<1>1. n \in 1..n /\ k \in [1..n -> Frames] /\ k[n] \in Frames
  BY DEF Waiting
<1>2. k[n].ids \in Seq(Ids) /\ Tail(k[n].ids) \in Seq(Ids)
  BY <1>1 DEF Frames
<1>3. e \in Frames /\ e.before = k[n].before /\ e.sender = k[n].sender
  BY <1>1, <1>2 DEF Frames
<1>4. l = [k EXCEPT ![n] = e]
  OBVIOUS
<1> HIDE DEF e
<1>5. l \in Seq(Frames) /\ Len(l) = n /\ l[n] = e /\ \A i \in 1..n : i # n => l[i] = k[i]
  <2>1. k \in Seq(Frames) /\ n \in 1..Len(k)
    BY <1>1 DEF Waiting
  <2> HIDE DEF n
  <2>2. /\ [k EXCEPT ![n] = e] \in Seq(Frames) /\ Len([k EXCEPT ![n] = e]) = Len(k)
        /\ \A j \in 1..Len(k) : [k EXCEPT ![n] = e][j] = IF j = n THEN e ELSE k[j]
    BY <1>3, <2>1, ExceptSeq
  <2> QED
    BY <1>4, <2>1, <2>2 DEF n
<1>6. l # <<>>
  BY <1>1, <1>5
<1>7. ASSUME NEW i \in 1..n
      PROVE  Pair(l[i].before.nft, l[i].before.under)
  BY <1>3, <1>5, <1>7 DEF Waiting
<1> QED
  BY <1>3, <1>5, <1>6, <1>7 DEF Waiting

(* The innermost call leaves those that wait for it.                        *)
LEMMA WaitingPops ==
  ASSUME NEW k, Waiting(k), k # <<>>
  PROVE  /\ Waiting(SubSeq(k, 1, Len(k) - 1))
         /\ Pair(k[Len(k)].before.nft, k[Len(k)].before.under)
<1> DEFINE n == Len(k)
           l == SubSeq(k, 1, n - 1)
<1>1. n \in Nat /\ n >= 1 /\ n - 1 \in Int /\ \A i \in 1..n - 1 : k[i] \in Frames
  BY DEF Waiting
<1>2. /\ l \in Seq(Frames)
      /\ Len(l) = IF 1 <= n - 1 THEN n - 1 - 1 + 1 ELSE 0
      /\ \A i \in 1..n - 1 - 1 + 1 : l[i] = k[1 + i - 1]
  BY <1>1, SubSeqProperties DEF Waiting
<1> HIDE DEF l, n
<1>3. Len(l) = n - 1 /\ \A i \in 1..n - 1 : l[i] = k[i] /\ i \in 1..n
  BY <1>1, <1>2
<1> QED
  BY <1>1, <1>2, <1>3 DEF Waiting, l, n

(* Steps that hold the wrapper's own: what it holds stays or is released.   *)
ReleasedByTop ==
  stack' # <<>> /\ stack'[Len(stack')].sender \in Users
    /\ Released(stack'[Len(stack')].sender)

HoldsOn == \A i \in Ids : under.owners[i] = WRAPPER => under'.owners[i] = WRAPPER

(* The steps of the calls of the wrapper that go through lists.             *)
LEMMA ListsKeep ==
  ASSUME WInv, Continue \/ Revert \/ Return
         \/ \E caller \in Users, a \in Addresses, ids \in Lists,
               what \in {"deposit_for", "withdraw_to"} : Begin(what, caller, a, ids)
  PROVE  WInv' /\ (Revert \/ HoldsOn \/ ReleasedByTop)
<1> DEFINE n == Len(stack)
<1>0. Waiting(stack) /\ Pair(nft, under) /\ (stack # <<>> => n \in 1..n /\ Top \in Frames)
  BY DEF WInv, Waiting, Top
<1>1. CASE \E caller \in Users, a \in Addresses, ids \in Lists,
              what \in {"deposit_for", "withdraw_to"} : Begin(what, caller, a, ids)
  <2>1. PICK caller \in Users, a \in Addresses, ids \in Lists,
             what \in {"deposit_for", "withdraw_to"} : Begin(what, caller, a, ids)
    BY <1>1
  <2>2. ids \in Seq(Ids) /\ ids # <<>>
    BY WrapperConstants
  <2>3. Head(ids) \in Ids /\ Tail(ids) \in Seq(Ids)
    BY <2>2
  <2>4. Pair(nft', under') /\ Released(caller) /\ a # ZERO
    BY <1>0, <2>1, <2>3, IterateKeeps DEF Begin
  <2> DEFINE e == [what |-> what, sender |-> caller, account |-> a, ids |-> Tail(ids),
                   before |-> [nft |-> nft, under |-> under]]
  <2>5. e \in Frames /\ Pair(e.before.nft, e.before.under) /\ e.sender = caller
    BY <1>0, <2>3, <2>4 DEF Frames, Pair, Good
  <2>6. stack' = Append(stack, e)
    BY <2>1 DEF Begin
  <2> HIDE DEF e
  <2>7. Waiting(stack') /\ stack' # <<>> /\ stack'[Len(stack')] = e
    BY <1>0, <2>5, <2>6, WaitingGrows
  <2>8. ReleasedByTop
    BY <2>4, <2>5, <2>7 DEF ReleasedByTop
  <2> QED
    BY <2>4, <2>7, <2>8 DEF WInv, Waiting
<1>2. CASE Continue
  <2>1. /\ stack # <<>> /\ Top.ids # <<>> /\ Iterate(Top.what, Top.sender, Top.account, Head(Top.ids))
        /\ stack' = [stack EXCEPT ![n].ids = Tail(@)]
    BY <1>2 DEF Continue
  <2>2. Top.sender \in Users /\ Top.account \in Addresses /\ Top.ids \in Seq(Ids)
    BY <1>0, <2>1 DEF Frames
  <2>3. Head(Top.ids) \in Ids
    BY <2>1, <2>2
  <2>4. Pair(nft', under') /\ Released(Top.sender)
    BY <1>0, <2>1, <2>2, <2>3, IterateKeeps
  <2>5. Waiting(stack') /\ stack' # <<>> /\ stack'[Len(stack')].sender = Top.sender
    BY <1>0, <2>1, WaitingGoesOn DEF Top
  <2>6. ReleasedByTop
    BY <2>2, <2>4, <2>5 DEF ReleasedByTop
  <2> QED
    BY <2>4, <2>5, <2>6 DEF WInv, Waiting
<1>3. CASE Revert
  <2>1. /\ stack # <<>> /\ nft' = Top.before.nft /\ under' = Top.before.under
        /\ stack' = SubSeq(stack, 1, n - 1)
    BY <1>3 DEF Revert
  <2>2. Waiting(stack') /\ Pair(nft', under')
    BY <1>0, <2>1, WaitingPops DEF Top
  <2> QED
    BY <1>3, <2>2 DEF WInv, Waiting
<1>4. CASE Return
  <2>1. stack # <<>> /\ nft' = nft /\ under' = under /\ stack' = SubSeq(stack, 1, n - 1)
    BY <1>4 DEF Return
  <2>2. Waiting(stack')
    BY <1>0, <2>1, WaitingPops
  <2> QED
    BY <1>0, <2>1, <2>2 DEF WInv, Waiting, HoldsOn
<1> QED
  BY <1>1, <1>2, <1>3, <1>4

(* Those of the other calls, of the wrapper and of the underlying token.    *)
LEMMA OthersKeep ==
  ASSUME WInv,
         \/ \E id \in Ids, to \in Addresses : UnderMint(to, id) \/ Recover(to, id)
         \/ \E caller \in Users : WrappedCall(caller) \/ UnderCall(caller)
         \/ \E caller \in Users, a \in Addresses, id \in Ids : Received(caller, a, id)
  PROVE  WInv' /\ HoldsOn
<1>0. Pair(nft, under) /\ Good(nft) /\ Good(under) /\ Closed(under) /\ Backs(under, nft)
  BY DEF WInv, Pair
<1>1. ASSUME Pair(nft', under'), stack' = stack, HoldsOn
      PROVE  WInv' /\ HoldsOn
  BY <1>1 DEF WInv
<1>2. CASE \E id \in Ids, to \in Addresses : UnderMint(to, id)
  <2>1. PICK id \in Ids, to \in Addresses : UnderMint(to, id)
    BY <1>2
  <2>2. /\ nft' = nft /\ stack' = stack /\ under.owners[id] = ZERO
        /\ under' = Update(under, under.owners[id], to, id)
    BY <2>1, UnderIsErc721 DEF UnderMint, Under!Mint, Under!OwnerOf
  <2>3. Given(under, under', to, id)
    BY <1>0, <2>2, UpdateGives
  <2>4. /\ Closed(under') /\ under'.owners[id] = to
        /\ \A i \in Ids \ {id} : under'.owners[i] = under.owners[i]
    BY <1>0, <2>3, GivingCloses
  <2>5. HoldsOn
    BY <2>2, <2>4, WrapperConstants DEF HoldsOn
  <2>6. Pair(nft', under')
    BY <1>0, <2>2, <2>3, <2>4, <2>5 DEF Pair, Given, Backs, HoldsOn
  <2> QED
    BY <1>1, <2>2, <2>5, <2>6
<1>3. CASE \E id \in Ids, to \in Addresses : Recover(to, id)
  <2>1. PICK id \in Ids, to \in Addresses : Recover(to, id)
    BY <1>3
  <2>2. under.owners[id] = WRAPPER /\ Mint(to, id) /\ under' = under /\ stack' = stack
    BY <2>1 DEF Recover, SafeMint
  <2>3. Good(nft') /\ Backs(under, nft')
    BY <1>0, <2>2, WrappingBacks
  <2>4. HoldsOn /\ Pair(nft', under')
    BY <1>0, <2>2, <2>3 DEF HoldsOn, Pair
  <2> QED
    BY <1>1, <2>2, <2>4
<1>4. CASE \E caller \in Users : WrappedCall(caller)
  <2>1. PICK caller \in Users : WrappedCall(caller)
    BY <1>4
  <2>2. PublicCall(caller) /\ under' = under /\ stack' = stack /\ caller \in Accounts
    BY <2>1, WrapperConstants DEF WrappedCall
  <2>3. Good(nft') /\ \A i \in Ids : nft'.owners[i] # ZERO => nft.owners[i] # ZERO
    BY <1>0, <2>2, CallsWrapNothing
  <2>4. HoldsOn /\ Pair(nft', under')
    BY <1>0, <2>2, <2>3 DEF HoldsOn, Pair, Backs
  <2> QED
    BY <1>1, <2>2, <2>4
<1>5. CASE \E caller \in Users : UnderCall(caller)
  <2>1. PICK caller \in Users : UnderCall(caller)
    BY <1>5
  <2>2. /\ Good(under') /\ Closed(under') /\ nft' = nft /\ stack' = stack /\ HoldsOn
    BY <1>0, <2>1, OthersTakeNothing DEF HoldsOn
  <2>3. Pair(nft', under')
    BY <1>0, <2>2 DEF HoldsOn, Pair, Backs
  <2> QED
    BY <1>1, <2>2, <2>3
<1>6. CASE \E caller \in Users, a \in Addresses, id \in Ids : Received(caller, a, id)
  <2>1. PICK caller \in Users, a \in Addresses, id \in Ids : Received(caller, a, id)
    BY <1>6
  <2>2. Under!TransferFrom(caller, a, WRAPPER, id) /\ Mint(a, id) /\ stack' = stack
    BY <2>1 DEF Received, Under!SafeTransferFrom, SafeMint
  <2>3. /\ Good(under') /\ Closed(under') /\ Backs(under', nft)
        /\ under'.owners[id] = WRAPPER /\ HoldsOn
    BY <1>0, <2>2, BringingBacks DEF HoldsOn
  <2>4. Good(nft') /\ Backs(under', nft')
    BY <1>0, <2>2, <2>3, WrappingBacks
  <2>5. Pair(nft', under')
    BY <2>3, <2>4 DEF Pair
  <2> QED
    BY <1>1, <2>2, <2>3, <2>5
<1> QED
  BY <1>2, <1>3, <1>4, <1>5, <1>6

(* Every step keeps what is known, and of what the wrapper holds releases   *)
(* only what its holders want released.                                     *)
LEMMA WrapperStep ==
  ASSUME WInv, [WrapperNext]_wrapperVars
  PROVE  WInv' /\ (Revert \/ HoldsOn \/ ReleasedByTop)
<1>1. Callers \subseteq Users
  BY WrapperConstants DEF Callers
<1>2. CASE UNCHANGED wrapperVars
  BY <1>2 DEF wrapperVars, WInv, HoldsOn
<1>3. CASE WrapperNext
  BY <1>1, <1>3, ListsKeep, OthersKeep DEF WrapperNext
<1> QED
  BY <1>2, <1>3

(* At first neither token exists and nobody calls.                          *)
LEMMA WrapperStarts ==
  ASSUME WrapperInit
  PROVE  WInv
<1>1. Init /\ nft = EmptyStorage /\ under = EmptyStorage /\ stack = <<>>
  BY UnderIsErc721 DEF WrapperInit, Init, Under!Init
<1>2. Good(EmptyStorage)
  BY <1>1, Initially DEF Inv, Good
<1>3. Closed(EmptyStorage) /\ Backs(EmptyStorage, EmptyStorage)
  BY WrapperConstants DEF Closed, Backs, EmptyStorage
<1>4. stack \in Seq(Frames) /\ 1..Len(stack) = {}
  BY <1>1
<1> QED
  BY <1>1, <1>2, <1>3, <1>4 DEF WInv, Pair

(* Every wrapped token stands for an underlying one that the wrapper holds, *)
(* in the middle of a list and of a receiver's calls, too.                  *)
THEOREM WrappedAreHeld == WrapperSpec => []WrappedIsHeld
<1>1. WInv => WrappedIsHeld
  BY UnderIsErc721 DEF WInv, Pair, Good, Backs, WrappedIsHeld, WrapperTypeOK, TypeOK,
     Under!TypeOK, OwnerOf
<1> QED
  BY <1>1, WrapperStarts, WrapperStep, PTL DEF WrapperSpec

(* An underlying token leaves the wrapper only for its wrapped one, burned  *)
(* on the same step by leave of whoever holds that.                         *)
THEOREM ReleaseIsAskedFor == WrapperSpec => ReleaseIsTheHolders
<1>1. WInv /\ [WrapperNext]_wrapperVars
        => [ \A id \in Ids :
               under.owners[id] = WRAPPER /\ under'.owners[id] # WRAPPER /\ ~Revert =>
                 /\ OwnerOf(id) # ZERO /\ nft'.owners[id] = ZERO
                 /\ stack' # <<>>
                 /\ IsAuthorized(nft, OwnerOf(id), stack'[Len(stack')].sender, id)
           ]_wrapperVars
  BY WrapperStep DEF HoldsOn, ReleasedByTop, Released
<1> QED
  BY <1>1, WrapperStarts, WrapperStep, PTL DEF WrapperSpec, ReleaseIsTheHolders

-----------------------------------------------------------------------------
(* Batches.  A batch leaves no owner of its own with its tokens; as         *)
(* `_owner_of` answers, though, the storage is that of a plain `Erc721`,    *)
(* and that is how the steps keep it.                                       *)
Derived(n, t, d, id) ==
  IF n.owners[id] # ZERO \/ id < FirstConsecutiveId \/ id > MaxU96
    THEN n.owners[id]
    ELSE IF Batches!GetBit(d, id) THEN ZERO ELSE Batches!LowerLookup(t, id)

Seen(n, t, d) == [ owners             |-> [id \in Ids |-> Derived(n, t, d, id)],
                   balances           |-> n.balances,
                   token_approvals    |-> n.token_approvals,
                   operator_approvals |-> n.operator_approvals ]

View == Seen(erc721, sequential_ownership, sequential_burn)

(* The batches come one after the other, and nobody is given nothing.       *)
Traced(t) ==
  /\ t \in Seq(Batches!Checkpoint)
  /\ \A i \in DOMAIN t : /\ t[i].key \in FirstConsecutiveId .. MaxLastId
                         /\ t[i].value \in Accounts
  /\ \A i, j \in DOMAIN t : i < j => t[i].key < t[j].key

BatchInv ==
  /\ erc721 \in Storages
  /\ Traced(sequential_ownership)
  /\ sequential_burn \in Batches!BitMaps
  /\ constructing \in BOOLEAN
  /\ Good(View)
  /\ constructing => \A id \in Ids : /\ erc721.owners[id] = ZERO
                                     /\ ~Batches!GetBit(sequential_burn, id)

(* Batches are minted by the constructor only, and stop short of U96::MAX.  *)
BatchesComeFirst == ~LateBatches /\ MaxLastId < MaxU96

(* What is assumed of the constants of the extension.                       *)
LEMMA BatchConstants ==
  /\ W \in Nat \ {0} /\ Ids \subseteq Nat /\ MaxU96 \in Nat /\ FirstConsecutiveId \in Nat
  /\ MaxLastId \in Nat /\ MaxLastId <= MaxU96 /\ FirstConsecutiveId..MaxLastId \subseteq Ids
  /\ MaxBatchSize \in Nat /\ ApprovableIds \subseteq Ids /\ Operators \subseteq Accounts
BY BatchesAssumption DEF Batches!ConsecutiveAssumption, Batches!Accounts

(* Its storage is that of an Erc721, and its internals repeat those.        *)
LEMMA BatchesAreErc721 ==
  /\ Batches!Storages = Storages /\ Batches!EmptyStorage = EmptyStorage
  /\ \A n, from, to, id : Batches!Update(n, from, to, id) = Update(n, from, to, id)
  /\ \A n, to, id : Batches!Approve(n, to, id) = Approve(n, to, id)
  /\ \A n, o, s, b : Batches!SetApprovalForAll(n, o, s, b) = SetApprovalForAll(n, o, s, b)
  /\ \A n, o, s, id : Batches!MayUpdate(n, o, id, s) <=> MayUpdate(n, o, id, s)
  /\ \A n, o, s, id : Batches!CanApprove(n, o, id, s) <=> CanApprove(n, o, id, s)
  /\ \A n, a, v : Batches!IncreaseBalance(n, a, v) = IncreaseBalance(n, a, v)
<1>1. Batches!Storages = Storages /\ Batches!EmptyStorage = EmptyStorage
  BY DEF Batches!Storages, Batches!EmptyStorage, Storages, EmptyStorage, Batches!U256
<1>2. \A n, from, to, id : Batches!Update(n, from, to, id) = Update(n, from, to, id)
  BY DEF Batches!Update, Update, Batches!Wrap, Wrap
<1>3. \A n, to, id : Batches!Approve(n, to, id) = Approve(n, to, id)
  BY DEF Batches!Approve, Approve
<1>4. \A n, o, s, b : Batches!SetApprovalForAll(n, o, s, b) = SetApprovalForAll(n, o, s, b)
  BY DEF Batches!SetApprovalForAll, SetApprovalForAll
<1>5. \A n, o, s, id : Batches!MayUpdate(n, o, id, s) <=> MayUpdate(n, o, id, s)
  BY DEF Batches!MayUpdate, MayUpdate, Batches!IsAuthorized, IsAuthorized
<1>6. \A n, o, s, id : Batches!CanApprove(n, o, id, s) <=> CanApprove(n, o, id, s)
  BY DEF Batches!CanApprove, CanApprove
<1>7. \A n, a, v : Batches!IncreaseBalance(n, a, v) = IncreaseBalance(n, a, v)
  BY DEF Batches!IncreaseBalance, IncreaseBalance, Batches!Wrap, Wrap
<1> QED
  BY <1>1, <1>2, <1>3, <1>4, <1>5, <1>6, <1>7

(* Two indices with the same word and the same bit are the same.            *)
LEMMA BitsAreDistinct ==
  ASSUME NEW i \in Nat, NEW j \in Nat, NEW w \in Nat \ {0},
         i \div w = j \div w, i % w = j % w
  PROVE  i = j
<1>1. i = (w * (i \div w)) + (i % w)
  OBVIOUS
<1>2. j = (w * (j \div w)) + (j % w)
  OBVIOUS
<1> QED
  BY <1>1, <1>2

(* Setting a bit sets that one and no other.                                *)
LEMMA OneBitIsSet ==
  ASSUME NEW d \in Batches!BitMaps, NEW i \in Ids, NEW e, e = Batches!SetBit(d, i)
  PROVE  /\ e \in Batches!BitMaps
         /\ \A j \in Ids : Batches!GetBit(e, j) <=> j = i \/ Batches!GetBit(d, j)
<1>1. W \in Nat \ {0} /\ Ids \subseteq Nat
  BY BatchConstants
<1>2. \A j \in Ids : j % W \in 0 .. W-1 /\ Batches!Bucket(j) \in Batches!Buckets
  BY <1>1 DEF Batches!Buckets
<1>3. d \in [Batches!Buckets -> SUBSET (0 .. W-1)]
  BY DEF Batches!BitMaps
<1>4. \A x, j : Batches!GetBit(x, j) <=> j % W \in x[Batches!Bucket(j)]
  BY DEF Batches!GetBit, Batches!Mask
<1>5. e = [d EXCEPT ![Batches!Bucket(i)] = d[Batches!Bucket(i)] \cup {i % W}]
  BY DEF Batches!SetBit, Batches!Mask
<1>6. e \in Batches!BitMaps
  <2>1. d[Batches!Bucket(i)] \cup {i % W} \in SUBSET (0 .. W-1)
    BY <1>2, <1>3
  <2> QED
    BY <1>3, <1>5, <2>1 DEF Batches!BitMaps
<1>7. ASSUME NEW j \in Ids
      PROVE  Batches!GetBit(e, j) <=> j = i \/ Batches!GetBit(d, j)
  <2>1. CASE Batches!Bucket(j) # Batches!Bucket(i)
    <3>1. e[Batches!Bucket(j)] = d[Batches!Bucket(j)] /\ j # i
      BY <1>2, <1>3, <1>5, <2>1
    <3> QED
      BY <1>4, <3>1
  <2>2. CASE Batches!Bucket(j) = Batches!Bucket(i)
    <3>1. e[Batches!Bucket(j)] = d[Batches!Bucket(j)] \cup {i % W}
      BY <1>2, <1>3, <1>5, <2>2
    <3>2. j % W = i % W <=> j = i
      BY <1>1, <2>2, BitsAreDistinct DEF Batches!Bucket
    <3> QED
      BY <1>4, <3>1, <3>2
  <2> QED
    BY <2>1, <2>2
<1> QED
  BY <1>6, <1>7

-----------------------------------------------------------------------------
(* The trace as a sequence, and its keys as numbers.                        *)
LEMMA TraceIsASequence ==
  ASSUME NEW t, Traced(t)
  PROVE  /\ t \in Seq(Batches!Checkpoint) /\ DOMAIN t = 1..Len(t) /\ Len(t) \in Nat
         /\ \A i \in DOMAIN t : t[i].key \in Nat
<1>1. t \in Seq(Batches!Checkpoint) /\ DOMAIN t = 1..Len(t) /\ Len(t) \in Nat
  BY LenProperties DEF Traced
<1>2. \A i \in DOMAIN t : t[i].key \in Nat
  BY BatchConstants DEF Traced
<1> QED
  BY <1>1, <1>2

(* What `lower_lookup` answers is the value of a checkpoint that nothing    *)
(* older could have answered, and there is at most one of these.            *)
LEMMA LookupIsTheOldest ==
  ASSUME NEW t, Traced(t), NEW k \in Nat, NEW i \in DOMAIN t, Batches!IsOldestFrom(t, k, i)
  PROVE  Batches!LowerLookup(t, k) = t[i].value
<1> DEFINE c == CHOOSE j \in DOMAIN t : Batches!IsOldestFrom(t, k, j)
<1>1. c \in DOMAIN t /\ Batches!IsOldestFrom(t, k, c)
  OBVIOUS
<1>2. DOMAIN t = 1..Len(t) /\ Len(t) \in Nat /\ \A j \in DOMAIN t : t[j].key \in Nat
  BY TraceIsASequence
<1>3. Batches!LowerLookup(t, k) = t[c].value
  BY DEF Batches!LowerLookup
<1> HIDE DEF c
<1>4. ~(c < i)
  BY <1>1, <1>2 DEF Batches!IsOldestFrom
<1>5. ~(i < c)
  BY <1>1, <1>2 DEF Batches!IsOldestFrom
<1> QED
  BY <1>1, <1>2, <1>3, <1>4, <1>5

(* It finds nobody above the last batch.                                    *)
LEMMA LookupFindsNobody ==
  ASSUME NEW t, Traced(t), NEW k \in Nat,
         \A i \in DOMAIN t : ~Batches!IsOldestFrom(t, k, i)
  PROVE  Batches!LowerLookup(t, k) = ZERO
BY DEF Batches!LowerLookup

(* And it finds nobody but an address.                                      *)
LEMMA LookupFindsAddresses ==
  ASSUME NEW t, Traced(t), NEW k \in Nat
  PROVE  Batches!LowerLookup(t, k) \in Addresses
<1>1. CASE \E i \in DOMAIN t : Batches!IsOldestFrom(t, k, i)
  <2>1. PICK i \in DOMAIN t : Batches!IsOldestFrom(t, k, i)
    BY <1>1
  <2>2. t[i].value \in Addresses
    BY DEF Traced
  <2> QED
    BY <2>1, <2>2, LookupIsTheOldest
<1>2. CASE \A i \in DOMAIN t : ~Batches!IsOldestFrom(t, k, i)
  BY <1>2, LookupFindsNobody, ConstantTypes
<1> QED
  BY <1>1, <1>2

(* Whether an id comes after every batch.                                   *)
Above(t, k) == \A i \in DOMAIN t : t[i].key < k

(* What a lookup answers when a batch has come after the others.            *)
FindsBatch(t, u, last, to) ==
  \A k \in Nat : Batches!LowerLookup(u, k)
    = IF k <= last /\ Above(t, k) THEN to ELSE Batches!LowerLookup(t, k)

(* A batch added after the others answers for its own tokens only.          *)
LEMMA BatchIsAppended ==
  ASSUME NEW t, Traced(t), NEW last \in FirstConsecutiveId..MaxLastId, NEW to \in Accounts,
         Above(t, last), NEW e, e = [key |-> last, value |-> to], NEW u, u = Append(t, e)
  PROVE  Traced(u) /\ FindsBatch(t, u, last, to)
<1>1. e \in Batches!Checkpoint /\ last \in Nat
  BY BatchConstants DEF Batches!Checkpoint, Batches!Keys
<1>2. t \in Seq(Batches!Checkpoint) /\ DOMAIN t = 1..Len(t) /\ Len(t) \in Nat
      /\ \A i \in DOMAIN t : t[i].key \in Nat
  BY TraceIsASequence
<1>3. /\ u \in Seq(Batches!Checkpoint) /\ Len(u) = Len(t) + 1 /\ u[Len(t) + 1] = e
      /\ \A i \in 1..Len(t) : u[i] = t[i]
  BY <1>1, <1>2, AppendProperties
<1>4. DOMAIN u = 1..Len(u) /\ e.key = last /\ e.value = to
  BY <1>3
<1>5. Traced(u)
  <2>1. \A i \in DOMAIN u : /\ u[i].key \in FirstConsecutiveId .. MaxLastId
                            /\ u[i].value \in Accounts
    BY <1>2, <1>3, <1>4 DEF Traced
  <2>2. ASSUME NEW i \in DOMAIN u, NEW j \in DOMAIN u, i < j
        PROVE  u[i].key < u[j].key
    <3>1. i \in DOMAIN t /\ u[i] = t[i]
      BY <1>2, <1>3, <1>4, <2>2
    <3>2. CASE j \in DOMAIN t
      BY <1>2, <1>3, <2>2, <3>1, <3>2 DEF Traced
    <3>3. CASE j = Len(t) + 1
      BY <1>3, <1>4, <3>1, <3>3 DEF Above
    <3> QED
      BY <1>2, <1>3, <1>4, <3>2, <3>3
  <2> QED
    BY <1>3, <2>1, <2>2 DEF Traced
<1>6. ASSUME NEW k \in Nat
      PROVE  Batches!LowerLookup(u, k)
               = IF k <= last /\ Above(t, k) THEN to ELSE Batches!LowerLookup(t, k)
  <2>1. \A i \in DOMAIN t : Batches!IsOldestFrom(u, k, i) <=> Batches!IsOldestFrom(t, k, i)
    BY <1>2, <1>3 DEF Batches!IsOldestFrom
  <2>2. Batches!IsOldestFrom(u, k, Len(t) + 1)
          <=> k <= last /\ Above(t, k)
    BY <1>1, <1>2, <1>3, <1>4 DEF Batches!IsOldestFrom, Above
  <2>3. CASE k <= last /\ Above(t, k)
    <3>1. Len(t) + 1 \in DOMAIN u /\ u[Len(t) + 1].value = to
      BY <1>2, <1>3, <1>4
    <3> QED
      BY <1>5, <2>2, <2>3, <3>1, LookupIsTheOldest
  <2>4. CASE ~(k <= last /\ Above(t, k))
    <3>1. CASE \E i \in DOMAIN t : Batches!IsOldestFrom(t, k, i)
      <4>1. PICK i \in DOMAIN t : Batches!IsOldestFrom(t, k, i)
        BY <3>1
      <4>2. i \in DOMAIN u /\ u[i] = t[i] /\ Batches!IsOldestFrom(u, k, i)
        BY <1>2, <1>3, <1>4, <2>1, <4>1
      <4>3. Batches!LowerLookup(u, k) = u[i].value
        BY <1>5, <4>2, LookupIsTheOldest
      <4>4. Batches!LowerLookup(t, k) = t[i].value
        BY <4>1, LookupIsTheOldest
      <4> QED
        BY <2>4, <4>2, <4>3, <4>4
    <3>2. CASE \A i \in DOMAIN t : ~Batches!IsOldestFrom(t, k, i)
      <4>1. \A i \in DOMAIN u : ~Batches!IsOldestFrom(u, k, i)
        BY <1>2, <1>3, <1>4, <2>1, <2>2, <2>4, <3>2
      <4>2. Batches!LowerLookup(u, k) = ZERO
        BY <1>5, <4>1, LookupFindsNobody
      <4>3. Batches!LowerLookup(t, k) = ZERO
        BY <3>2, LookupFindsNobody
      <4> QED
        BY <2>4, <4>2, <4>3
    <3> QED
      BY <3>1, <3>2
  <2> QED
    BY <2>3, <2>4
<1> QED
  BY <1>5, <1>6 DEF FindsBatch

(* Above the last batch nobody is found, and that is where the next one     *)
(* begins: no batch ends at U96::MAX, so the id after its last does not     *)
(* wrap.                                                                    *)
LEMMA NextIsAbove ==
  ASSUME BatchesComeFirst, Traced(sequential_ownership)
  PROVE  /\ Batches!NextConsecutiveId \in FirstConsecutiveId .. MaxU96
         /\ \A i \in DOMAIN sequential_ownership :
              sequential_ownership[i].key < Batches!NextConsecutiveId
         /\ sequential_ownership # <<>>
              => \A k \in Nat : k >= Batches!NextConsecutiveId
                   <=> k > Batches!Latest(sequential_ownership).key
<1> DEFINE t == sequential_ownership
           next == Batches!NextConsecutiveId
<1>1. t \in Seq(Batches!Checkpoint) /\ DOMAIN t = 1..Len(t) /\ Len(t) \in Nat
  BY TraceIsASequence
<1>2. CASE t = <<>>
  <2>1. next = FirstConsecutiveId /\ DOMAIN t = {}
    BY <1>2 DEF Batches!NextConsecutiveId
  <2>2. FirstConsecutiveId \in FirstConsecutiveId .. MaxU96
    BY BatchesAssumption, BatchConstants DEF Batches!ConsecutiveAssumption
  <2> QED
    BY <1>2, <2>1, <2>2
<1>3. CASE t # <<>>
  <2> DEFINE last == t[Len(t)].key
  <2>1. Len(t) \in DOMAIN t
    BY <1>1, <1>3, EmptySeq
  <2>2. last \in FirstConsecutiveId .. MaxLastId
    BY <2>1 DEF Traced
  <2>3. last \in Nat /\ last + 1 \in 0..MaxU96
    BY <2>2, BatchConstants DEF BatchesComeFirst
  <2>4. next = last + 1
    <3>1. next = (last + 1) % (MaxU96 + 1)
      BY <1>3 DEF Batches!NextConsecutiveId, Batches!Latest, Batches!WrapU96
    <3> HIDE DEF last, next
    <3> QED
      BY <2>3, <3>1, BatchConstants
  <2>5. ASSUME NEW i \in DOMAIN t
        PROVE  t[i].key <= last
    <3>1. CASE i = Len(t)
      BY <2>3, <3>1
    <3>2. CASE i < Len(t)
      <4>1. t[i].key < last
        BY <2>1, <3>2 DEF Traced
      <4>2. t[i].key \in Nat
        BY TraceIsASequence
      <4> QED
        BY <2>3, <4>1, <4>2
    <3> QED
      BY <1>1, <3>1, <3>2
  <2>6. Batches!Latest(t) = t[Len(t)]
    BY DEF Batches!Latest
  <2>7. \A i \in DOMAIN t : t[i].key \in Nat
    BY TraceIsASequence
  <2> HIDE DEF last, next
  <2>8. next \in FirstConsecutiveId .. MaxU96
    BY <2>2, <2>3, <2>4, BatchConstants
  <2>9. \A i \in DOMAIN t : t[i].key < next
    BY <2>3, <2>4, <2>5, <2>7
  <2>10. \A k \in Nat : k >= next <=> k > last
    BY <2>3, <2>4
  <2> QED
    BY <2>6, <2>8, <2>9, <2>10 DEF next, last
<1> QED
  BY <1>2, <1>3

(* What is seen through the batches has the types of a storage.             *)
LEMMA SeenIsAStorage ==
  ASSUME NEW n \in Storages, NEW t, Traced(t), NEW d, NEW v, v = Seen(n, t, d)
  PROVE  /\ v \in Storages
         /\ \A id \in Ids : v.owners[id] = Derived(n, t, d, id)
         /\ v.balances = n.balances /\ v.token_approvals = n.token_approvals
         /\ v.operator_approvals = n.operator_approvals
         /\ v \in [ owners : {v.owners}, balances : {v.balances},
                    token_approvals : {v.token_approvals},
                    operator_approvals : {v.operator_approvals} ]
<1> DEFINE ow == [id \in Ids |-> Derived(n, t, d, id)]
<1>1. n.owners \in [Ids -> Addresses] /\ ZERO \in Addresses
  BY ConstantTypes DEF Storages
<1>2. ASSUME NEW id \in Ids
      PROVE  Derived(n, t, d, id) \in Addresses
  <2>1. id \in Nat
    BY BatchConstants
  <2>2. Batches!LowerLookup(t, id) \in Addresses
    BY <2>1, LookupFindsAddresses
  <2> QED
    BY <1>1, <2>2 DEF Derived
<1>3. ow \in [Ids -> Addresses] /\ \A id \in Ids : ow[id] = Derived(n, t, d, id)
  BY <1>2
<1>4. v = [ owners |-> ow, balances |-> n.balances, token_approvals |-> n.token_approvals,
            operator_approvals |-> n.operator_approvals ]
  BY DEF Seen
<1> HIDE DEF ow
<1>5. /\ v.owners = ow /\ v.balances = n.balances /\ v.token_approvals = n.token_approvals
      /\ v.operator_approvals = n.operator_approvals
  BY <1>4
<1>6. v \in Storages
  BY <1>3, <1>4 DEF Storages
<1>7. v \in [ owners : {v.owners}, balances : {v.balances},
              token_approvals : {v.token_approvals},
              operator_approvals : {v.operator_approvals} ]
  BY <1>4, <1>5
<1> QED
  BY <1>3, <1>5, <1>6, <1>7

(* Two storages with the same fields are the same.                          *)
LEMMA SameStorage ==
  ASSUME NEW u, NEW v,
         u \in [ owners : {u.owners}, balances : {u.balances},
                 token_approvals : {u.token_approvals},
                 operator_approvals : {u.operator_approvals} ],
         v \in [ owners : {v.owners}, balances : {v.balances},
                 token_approvals : {v.token_approvals},
                 operator_approvals : {v.operator_approvals} ],
         u.owners = v.owners, u.balances = v.balances,
         u.token_approvals = v.token_approvals,
         u.operator_approvals = v.operator_approvals
  PROVE  u = v
OBVIOUS

(* `_update` from the derived owner is, through the batches, the `_update`  *)
(* of a plain storage: whether it is the burn bit or the lack of a batch    *)
(* that says so, nobody owns a token burned.                                *)
LEMMA UpdateIsSeen ==
  ASSUME NEW n \in Storages, NEW t, Traced(t), NEW d \in Batches!BitMaps,
         NEW to \in Addresses, NEW id \in Ids, NEW v, v = Seen(n, t, d),
         NEW m, m = Update(n, v.owners[id], to, id), NEW e,
         \/ e = d /\ (to = ZERO => Batches!LowerLookup(t, id) = ZERO)
         \/ to = ZERO /\ e = Batches!SetBit(d, id)
  PROVE  /\ m \in Storages /\ e \in Batches!BitMaps
         /\ Seen(m, t, e) = Update(v, v.owners[id], to, id)
<1> DEFINE from == v.owners[id]
           s == Seen(m, t, e)
           u == Update(v, from, to, id)
<1>1. /\ v \in Storages /\ v.balances = n.balances
      /\ v.token_approvals = n.token_approvals
      /\ v.operator_approvals = n.operator_approvals
      /\ \A i \in Ids : v.owners[i] = Derived(n, t, d, i)
  BY SeenIsAStorage
<1>2. from \in Addresses /\ v.owners \in [Ids -> Addresses] /\ n.owners \in [Ids -> Addresses]
  BY <1>1 DEF Storages
<1> HIDE DEF from
<1>3. /\ m.owners = [n.owners EXCEPT ![id] = to]
      /\ m.token_approvals = UpdatedApprovals(n, from, id)
      /\ m.operator_approvals = n.operator_approvals
      /\ m.balances = Credited(Debited(n, from), to)
      /\ m \in [ owners : {m.owners}, balances : {m.balances},
                 token_approvals : {m.token_approvals},
                 operator_approvals : {m.operator_approvals} ]
  <2> HIDE DEF s, u
  <2>1. m = Update(n, from, to, id)
    BY DEF from
  <2> QED
    BY <1>2, <2>1, UpdateFields
<1>4. m \in Storages
  <2>1. m.balances \in [Addresses -> U256]
    <3>1. \A x \in Int : Wrap(x) \in U256
      BY ConstantTypes DEF Wrap
    <3>2. n.balances \in [Addresses -> U256]
      BY DEF Storages
    <3>3. Debited(n, from) \in [Addresses -> U256]
      <4>1. n.balances[from] - 1 \in Int
        BY <1>2, <3>2
      <4> QED
        BY <1>2, <3>1, <3>2, <4>1 DEF Debited
    <3>4. Credited(Debited(n, from), to) \in [Addresses -> U256]
      <4>1. Debited(n, from)[to] + 1 \in Int
        BY <3>3
      <4> QED
        BY <3>1, <3>3, <4>1 DEF Credited
    <3> QED
      BY <1>3, <3>4
  <2>2. m.token_approvals \in [Ids -> Addresses]
    BY <1>3, ConstantTypes DEF UpdatedApprovals, Storages
  <2>3. m.owners \in [Ids -> Addresses]
    BY <1>2, <1>3
  <2>4. m.operator_approvals \in [Addresses -> [Addresses -> BOOLEAN]]
    BY <1>3 DEF Storages
  <2> HIDE DEF s, u
  <2> QED
    BY <1>3, <2>1, <2>2, <2>3, <2>4 DEF Storages
<1>5. /\ e \in Batches!BitMaps
      /\ \A i \in Ids : i # id => (Batches!GetBit(e, i) <=> Batches!GetBit(d, i))
      /\ to = ZERO => Batches!GetBit(e, id) \/ Batches!LowerLookup(t, id) = ZERO
  <2>1. CASE e = d /\ (to = ZERO => Batches!LowerLookup(t, id) = ZERO)
    BY <2>1
  <2>2. CASE to = ZERO /\ e = Batches!SetBit(d, id)
    BY <2>2, OneBitIsSet
  <2> QED
    BY <2>1, <2>2
<1>6. ASSUME NEW i \in Ids
      PROVE  Derived(m, t, e, i) = IF i = id THEN to ELSE Derived(n, t, d, i)
  <2>1. m.owners[i] = IF i = id THEN to ELSE n.owners[i]
    BY <1>2, <1>3
  <2>2. CASE i # id
    BY <1>5, <2>1, <2>2 DEF Derived
  <2>3. CASE i = id
    BY <1>5, <2>1, <2>3 DEF Derived
  <2> QED
    BY <2>2, <2>3
<1>7. /\ \A i \in Ids : s.owners[i] = Derived(m, t, e, i)
      /\ s.balances = m.balances /\ s.token_approvals = m.token_approvals
      /\ s.operator_approvals = m.operator_approvals /\ s \in Storages
      /\ s \in [ owners : {s.owners}, balances : {s.balances},
                 token_approvals : {s.token_approvals},
                 operator_approvals : {s.operator_approvals} ]
  BY <1>4, SeenIsAStorage
<1>8. /\ u.owners = [v.owners EXCEPT ![id] = to]
      /\ u.token_approvals = UpdatedApprovals(v, from, id)
      /\ u.operator_approvals = v.operator_approvals
      /\ u.balances = Credited(Debited(v, from), to)
      /\ u \in [ owners : {u.owners}, balances : {u.balances},
                 token_approvals : {u.token_approvals},
                 operator_approvals : {u.operator_approvals} ]
  BY <1>1, <1>2, UpdateFields
<1> HIDE DEF s, u
<1>9. s.owners = u.owners
  <2>1. s.owners \in [Ids -> Addresses]
    BY <1>7 DEF Storages
  <2>2. u.owners \in [Ids -> Addresses]
    BY <1>2, <1>8
  <2>3. \A i \in Ids : s.owners[i] = u.owners[i]
    BY <1>1, <1>2, <1>6, <1>7, <1>8
  <2> QED
    BY <2>1, <2>2, <2>3
<1>10. /\ s.balances = u.balances /\ s.token_approvals = u.token_approvals
       /\ s.operator_approvals = u.operator_approvals
  BY <1>1, <1>3, <1>7, <1>8 DEF Debited, UpdatedApprovals
<1>11. s = u
  BY <1>7, <1>8, <1>9, <1>10, SameStorage
<1> QED
  BY <1>4, <1>5, <1>11 DEF s, u, from

(* An approval is, through the batches, the approval of a plain storage.    *)
LEMMA ApproveIsSeen ==
  ASSUME NEW n \in Storages, NEW t, Traced(t), NEW d, NEW v, v = Seen(n, t, d),
         NEW to \in Addresses, NEW id \in Ids, NEW m, m = Approve(n, to, id)
  PROVE  m \in Storages /\ Seen(m, t, d) = Approve(v, to, id)
<1>1. /\ m.owners = n.owners /\ m.balances = n.balances
      /\ m.operator_approvals = n.operator_approvals
      /\ m.token_approvals = [n.token_approvals EXCEPT ![id] = to]
      /\ m \in Storages
  BY DEF Approve, Storages
<1>2. \A i \in Ids : Derived(m, t, d, i) = Derived(n, t, d, i)
  BY <1>1 DEF Derived
<1>3. [i \in Ids |-> Derived(m, t, d, i)] = [i \in Ids |-> Derived(n, t, d, i)]
  BY <1>2
<1>4. Seen(m, t, d) = [v EXCEPT !.token_approvals = [n.token_approvals EXCEPT ![id] = to]]
  BY <1>1, <1>3 DEF Seen
<1>5. v.token_approvals = n.token_approvals
  BY DEF Seen
<1> QED
  BY <1>1, <1>4, <1>5 DEF Approve

(* And so is the naming of an operator.                                     *)
LEMMA OperateIsSeen ==
  ASSUME NEW n \in Storages, NEW t, Traced(t), NEW d, NEW v, v = Seen(n, t, d),
         NEW o \in Addresses, NEW s \in Addresses, NEW b \in BOOLEAN,
         NEW m, m = SetApprovalForAll(n, o, s, b)
  PROVE  m \in Storages /\ Seen(m, t, d) = SetApprovalForAll(v, o, s, b)
<1> DEFINE oa == [n.operator_approvals EXCEPT ![o] = [@ EXCEPT ![s] = b]]
<1>1. m = [n EXCEPT !.operator_approvals = oa]
  BY DEF SetApprovalForAll
<1>2. oa \in [Addresses -> [Addresses -> BOOLEAN]]
  BY DEF Storages
<1>3. v.operator_approvals = n.operator_approvals
  BY DEF Seen
<1>4. SetApprovalForAll(v, o, s, b) = [v EXCEPT !.operator_approvals = oa]
  BY <1>3 DEF SetApprovalForAll
<1> HIDE DEF oa
<1>5. /\ m.owners = n.owners /\ m.balances = n.balances
      /\ m.operator_approvals = oa /\ m.token_approvals = n.token_approvals
      /\ m \in Storages
  BY <1>1, <1>2 DEF Storages
<1>6. \A i \in Ids : Derived(m, t, d, i) = Derived(n, t, d, i)
  BY <1>5 DEF Derived
<1>7. [i \in Ids |-> Derived(m, t, d, i)] = [i \in Ids |-> Derived(n, t, d, i)]
  BY <1>6
<1> QED
  BY <1>4, <1>5, <1>7 DEF Seen

-----------------------------------------------------------------------------
(* What the extension answers for an owner is the owner seen.               *)
LEMMA OwnersAreSeen ==
  ASSUME BatchInv
  PROVE  /\ \A id \in Ids : Batches!OwnerOf(id) = View.owners[id]
         /\ View.owners = [id \in Ids |-> Batches!OwnerOf(id)]
         /\ View.owners \in [Ids -> Addresses]
         /\ View.token_approvals = erc721.token_approvals
         /\ View.operator_approvals = erc721.operator_approvals
         /\ View.balances = erc721.balances
         /\ View = Seen(erc721, sequential_ownership, sequential_burn)
<1>1. \A id \in Ids : Batches!OwnerOf(id)
                       = Derived(erc721, sequential_ownership, sequential_burn, id)
  BY DEF Batches!OwnerOf, Derived
<1>2. View = Seen(erc721, sequential_ownership, sequential_burn)
  BY DEF View
<1>3. /\ \A id \in Ids : View.owners[id]
                       = Derived(erc721, sequential_ownership, sequential_burn, id)
      /\ View.token_approvals = erc721.token_approvals
      /\ View.operator_approvals = erc721.operator_approvals
      /\ View.balances = erc721.balances
      /\ View \in Storages
  BY <1>2, SeenIsAStorage DEF BatchInv
<1>4. View.owners \in [Ids -> Addresses]
  BY <1>3 DEF Storages
<1> QED
  BY <1>1, <1>2, <1>3, <1>4

(* What a call that moves a single token does to what is seen.              *)
LEMMA UpdateCallIsSeen ==
  ASSUME BatchInv, BatchesComeFirst, NEW to \in Addresses, NEW id \in Ids, NEW auth,
         Batches!UpdateCall(to, id, auth)
  PROVE  /\ erc721' \in Storages /\ sequential_burn' \in Batches!BitMaps
         /\ UNCHANGED <<sequential_ownership, constructing>>
         /\ View' = Update(View, View.owners[id], to, id)
         /\ MayUpdate(View, View.owners[id], id, auth)
<1> DEFINE t == sequential_ownership
           d == sequential_burn
<1>1. /\ erc721 \in Storages /\ Traced(t) /\ d \in Batches!BitMaps
      /\ UNCHANGED <<sequential_ownership, constructing>>
  BY DEF BatchInv, Batches!UpdateCall
<1>2. erc721' = Update(erc721, View.owners[id], to, id)
  BY OwnersAreSeen, BatchesAreErc721 DEF Batches!UpdateCall
<1>3. MayUpdate(View, View.owners[id], id, auth)
  <2>1. MayUpdate(erc721, View.owners[id], id, auth)
    BY OwnersAreSeen, BatchesAreErc721 DEF Batches!UpdateCall
  <2> QED
    BY <2>1, OwnersAreSeen DEF MayUpdate, IsAuthorized
<1>4. \/ d' = d /\ (to = ZERO => Batches!LowerLookup(t, id) = ZERO)
      \/ to = ZERO /\ d' = Batches!SetBit(d, id)
  <2>1. CASE to = ZERO /\ id < Batches!NextConsecutiveId
    BY <2>1 DEF Batches!UpdateCall
  <2>2. CASE to # ZERO
    BY <2>2 DEF Batches!UpdateCall
  <2>3. CASE to = ZERO /\ ~(id < Batches!NextConsecutiveId)
    <3>1. d' = d
      BY <2>3 DEF Batches!UpdateCall
    <3>2. id \in Nat /\ Batches!NextConsecutiveId \in Nat
          /\ \A i \in DOMAIN t : t[i].key \in Nat /\ t[i].key < Batches!NextConsecutiveId
      BY <1>1, BatchConstants, NextIsAbove, TraceIsASequence
    <3>3. \A i \in DOMAIN t : ~Batches!IsOldestFrom(t, id, i)
      BY <2>3, <3>2 DEF Batches!IsOldestFrom
    <3>4. Batches!LowerLookup(t, id) = ZERO
      BY <1>1, <3>2, <3>3, LookupFindsNobody
    <3> QED
      BY <3>1, <3>4
  <2> QED
    BY <2>1, <2>2, <2>3
<1>5. View = Seen(erc721, t, d)
  BY OwnersAreSeen
<1>6. View' = Seen(erc721', t, d')
  BY <1>1 DEF View
<1> HIDE DEF t, d
<1>7. /\ erc721' \in Storages /\ d' \in Batches!BitMaps
      /\ Seen(erc721', t, d') = Update(View, View.owners[id], to, id)
  BY <1>1, <1>2, <1>4, <1>5, UpdateIsSeen
<1> QED
  BY <1>1, <1>3, <1>6, <1>7 DEF t, d

(* What `approve` does to it.                                               *)
LEMMA ApproveCallIsSeen ==
  ASSUME BatchInv, NEW to \in Addresses, NEW id \in Ids, NEW caller,
         Batches!ApproveCall(caller, to, id)
  PROVE  /\ erc721' \in Storages
         /\ UNCHANGED <<sequential_ownership, sequential_burn, constructing>>
         /\ View' = Approve(View, to, id)
         /\ CanApprove(View, View.owners[id], id, caller)
<1>1. /\ erc721 \in Storages /\ Traced(sequential_ownership)
      /\ UNCHANGED <<sequential_ownership, sequential_burn, constructing>>
  BY DEF BatchInv, Batches!ApproveCall
<1>2. erc721' = Approve(erc721, to, id)
  BY BatchesAreErc721 DEF Batches!ApproveCall
<1>3. CanApprove(View, View.owners[id], id, caller)
  <2>1. CanApprove(erc721, View.owners[id], id, caller)
    BY OwnersAreSeen, BatchesAreErc721 DEF Batches!ApproveCall
  <2> QED
    BY <2>1, OwnersAreSeen DEF CanApprove
<1>4. View = Seen(erc721, sequential_ownership, sequential_burn)
  BY OwnersAreSeen
<1>5. View' = Seen(erc721', sequential_ownership, sequential_burn)
  BY <1>1 DEF View
<1>6. /\ erc721' \in Storages
      /\ Seen(erc721', sequential_ownership, sequential_burn) = Approve(View, to, id)
  BY <1>1, <1>2, <1>4, ApproveIsSeen
<1> QED
  BY <1>1, <1>3, <1>5, <1>6

(* What `set_approval_for_all` does to it.                                  *)
LEMMA OperateCallIsSeen ==
  ASSUME BatchInv, NEW o \in Accounts, NEW s \in Addresses, NEW b \in BOOLEAN,
         Batches!SetApprovalForAllCall(o, s, b)
  PROVE  /\ erc721' \in Storages
         /\ UNCHANGED <<sequential_ownership, sequential_burn, constructing>>
         /\ View' = SetApprovalForAll(View, o, s, b)
<1>1. /\ erc721 \in Storages /\ Traced(sequential_ownership)
      /\ UNCHANGED <<sequential_ownership, sequential_burn, constructing>>
  BY DEF BatchInv, Batches!SetApprovalForAllCall
<1>2. erc721' = SetApprovalForAll(erc721, o, s, b)
  BY BatchesAreErc721 DEF Batches!SetApprovalForAllCall
<1>3. View = Seen(erc721, sequential_ownership, sequential_burn)
  BY OwnersAreSeen
<1>4. View' = Seen(erc721', sequential_ownership, sequential_burn)
  BY <1>1 DEF View
<1>5. /\ erc721' \in Storages
      /\ Seen(erc721', sequential_ownership, sequential_burn) = SetApprovalForAll(View, o, s, b)
  BY <1>1, <1>2, <1>3, OperateIsSeen
<1> QED
  BY <1>1, <1>4, <1>5

-----------------------------------------------------------------------------
(* A batch gives its ids, which nobody owned, to one account; each of them  *)
(* counts, and no other owner, nor any approval, changes.                   *)
Gains(n, u, to, ids) ==
  /\ \A id \in ids : n.owners[id] = ZERO
  /\ u \in Storages
  /\ u.owners = [id \in Ids |-> IF id \in ids THEN to ELSE n.owners[id]]
  /\ u.balances = [n.balances EXCEPT ![to] = Wrap(@ + Cardinality(ids))]
  /\ u.token_approvals = n.token_approvals
  /\ u.operator_approvals = n.operator_approvals

(* `_increase_balance` leaves all but one balance as they are.              *)
LEMMA IncreaseFields ==
  ASSUME NEW n \in Storages, NEW to \in Addresses, NEW size \in Nat,
         NEW m, m = IncreaseBalance(n, to, size)
  PROVE  /\ m \in Storages /\ m.owners = n.owners
         /\ m.balances = [n.balances EXCEPT ![to] = Wrap(@ + size)]
         /\ m.token_approvals = n.token_approvals
         /\ m.operator_approvals = n.operator_approvals
<1> DEFINE ba == [n.balances EXCEPT ![to] = Wrap(@ + size)]
<1>1. ba \in [Addresses -> U256]
  <2>1. n.balances \in [Addresses -> U256]
    BY DEF Storages
  <2>2. n.balances[to] + size \in Nat
    BY <2>1, ConstantTypes
  <2>3. Wrap(n.balances[to] + size) \in U256
    BY <2>2, ConstantTypes DEF Wrap
  <2> QED
    BY <2>1, <2>3
<1>2. m = [n EXCEPT !.balances = ba]
  BY DEF IncreaseBalance
<1> HIDE DEF ba
<1>3. /\ m \in Storages /\ m.owners = n.owners /\ m.balances = ba
      /\ m.token_approvals = n.token_approvals
      /\ m.operator_approvals = n.operator_approvals
  BY <1>1, <1>2 DEF Storages
<1> QED
  BY <1>3 DEF ba

(* So does `_mint_consecutive` while no token has an owner of its own.      *)
LEMMA MintConsecutiveIsSeen ==
  ASSUME BatchInv, BatchesComeFirst, NEW to \in Addresses, NEW size \in 1..MaxBatchSize,
         Batches!MintConsecutive(to, size)
  PROVE  /\ constructing /\ to \in Accounts
         /\ UNCHANGED <<sequential_burn, constructing>>
         /\ Traced(sequential_ownership')
         /\ erc721' \in Storages /\ erc721'.owners = erc721.owners
         /\ \E ids \in SUBSET Ids : Gains(View, View', to, ids)
<1> DEFINE t    == sequential_ownership
           d    == sequential_burn
           next == Batches!NextConsecutiveId
           last == next + size - 1
           ids  == next..last
<1>1. /\ erc721 \in Storages /\ Traced(t) /\ constructing /\ to \in Accounts
      /\ UNCHANGED <<sequential_burn, constructing>>
      /\ \A id \in Ids : erc721.owners[id] = ZERO /\ ~Batches!GetBit(d, id)
  BY DEF BatchInv, BatchesComeFirst, Batches!MintConsecutive
<1>2. /\ next \in Nat /\ FirstConsecutiveId <= next /\ next <= MaxU96
      /\ \A i \in DOMAIN t : t[i].key \in Nat /\ t[i].key < next
      /\ t # <<>> => \A k \in Nat : k >= next <=> k > Batches!Latest(t).key
  BY <1>1, BatchConstants, NextIsAbove, TraceIsASequence
<1>3. size \in Nat /\ size >= 1
  BY BatchConstants
<1>4. next + size - 1 <= MaxLastId
  BY DEF Batches!MintConsecutive
<1> HIDE DEF t, d, next
<1>5. last \in FirstConsecutiveId..MaxLastId /\ last \in Nat /\ last <= MaxU96 /\ next <= last
  BY <1>2, <1>3, <1>4, BatchConstants
<1>6. ids \in SUBSET Ids /\ \A id \in ids : id \in Nat /\ FirstConsecutiveId <= id /\ id <= MaxU96
  <2>1. ids \subseteq FirstConsecutiveId..MaxLastId
    BY <1>2, <1>5, BatchConstants
  <2> QED
    BY <2>1, BatchConstants
<1>7. IsFiniteSet(ids) /\ Cardinality(ids) = size
  <2>1. IsFiniteSet(next..last) /\ Cardinality(next..last) = last - next + 1
    <3>1. next \in Int /\ last \in Int /\ ~(next > last)
      BY <1>2, <1>5
    <3> HIDE DEF last
    <3> QED
      BY <3>1, FS_Interval
  <2>2. last - next + 1 = size
    BY <1>2, <1>3
  <2> QED
    BY <2>1, <2>2
<1>8. Batches!WrapU96(next + size - 1) = last
  <2>1. last = last % (MaxU96 + 1)
    <3> HIDE DEF last
    <3> QED
      BY <1>5, BatchConstants
  <2> QED
    BY <2>1 DEF Batches!WrapU96
<1>9. t' = Append(t, [key |-> last, value |-> to])
  <2>1. t' = Batches!Insert(t, last, to)
    BY <1>8 DEF Batches!MintConsecutive, t, next
  <2>2. t # <<>> => Batches!Latest(t).key # last
    <3> HIDE DEF last
    <3> QED
      BY <1>2, <1>5
  <2> QED
    BY <2>1, <2>2 DEF Batches!Insert
<1>10. erc721' = IncreaseBalance(erc721, to, size)
  BY BatchesAreErc721 DEF Batches!MintConsecutive
<1>11. /\ erc721' \in Storages /\ erc721'.owners = erc721.owners
       /\ erc721'.balances = [erc721.balances EXCEPT ![to] = Wrap(@ + size)]
       /\ erc721'.token_approvals = erc721.token_approvals
       /\ erc721'.operator_approvals = erc721.operator_approvals
  BY <1>1, <1>3, <1>10, IncreaseFields
<1> HIDE DEF last, ids
<1>12. Traced(t') /\ FindsBatch(t, t', last, to)
  <2>1. Above(t, last)
    BY <1>2, <1>5 DEF Above
  <2> DEFINE e == [key |-> last, value |-> to]
  <2>2. e = [key |-> last, value |-> to] /\ t' = Append(t, e)
    BY <1>9
  <2> HIDE DEF e
  <2> QED
    BY <1>1, <1>5, <2>1, <2>2, BatchIsAppended
<1>13. ASSUME NEW id \in ids
       PROVE  /\ Batches!LowerLookup(t, id) = ZERO
              /\ Batches!LowerLookup(t', id) = to
  <2>1. id \in Nat /\ next <= id /\ id <= last
    BY <1>2, <1>5, <1>6 DEF ids
  <2>2. Above(t, id)
    BY <1>2, <2>1 DEF Above
  <2>3. \A i \in DOMAIN t : ~Batches!IsOldestFrom(t, id, i)
    BY <1>2, <2>1, <2>2 DEF Batches!IsOldestFrom, Above
  <2> QED
    BY <1>1, <1>12, <2>1, <2>2, <2>3, LookupFindsNobody DEF FindsBatch
<1>14. ASSUME NEW id \in Ids, id \notin ids,
              ~(id < FirstConsecutiveId), ~(id > MaxU96)
       PROVE  Batches!LowerLookup(t', id) = Batches!LowerLookup(t, id)
  <2>1. id \in Nat
    BY BatchConstants
  <2>2. id < next \/ id > last
    BY <1>2, <1>5, <1>14, <2>1 DEF ids
  <2>3. CASE id > last
    BY <1>5, <1>12, <2>1, <2>3 DEF FindsBatch
  <2>4. CASE id < next
    <3>1. CASE t = <<>>
      <4>1. next = FirstConsecutiveId
        BY <3>1 DEF next, t, Batches!NextConsecutiveId
      <4> QED
        BY <1>14, <2>4, <4>1
    <3>2. CASE t # <<>>
      <4>1. ~(id > Batches!Latest(t).key)
        BY <1>2, <2>1, <2>4, <3>2
      <4>2. Len(t) \in DOMAIN t /\ Batches!Latest(t) = t[Len(t)]
        BY <1>1, <3>2, TraceIsASequence, EmptySeq DEF Batches!Latest
      <4>3. ~(t[Len(t)].key < id)
        BY <4>1, <4>2, <1>2, <2>1
      <4> QED
        BY <1>12, <2>1, <4>2, <4>3 DEF Above, FindsBatch
    <3> QED
      BY <3>1, <3>2
  <2> QED
    BY <2>2, <2>3, <2>4
<1>15. d' = d
  BY <1>1 DEF d
<1>16. /\ \A id \in ids : Derived(erc721, t, d, id) = ZERO
       /\ \A id \in Ids : Derived(erc721', t', d', id)
                            = IF id \in ids THEN to ELSE Derived(erc721, t, d, id)
  <2>1. ASSUME NEW id \in ids
        PROVE  Derived(erc721, t, d, id) = ZERO /\ Derived(erc721', t', d', id) = to
    <3>1. /\ id \in Ids /\ ~(id < FirstConsecutiveId) /\ ~(id > MaxU96)
      BY <1>6, BatchConstants
    <3> QED
      BY <1>1, <1>11, <1>13, <1>15, <3>1 DEF Derived
  <2>2. ASSUME NEW id \in Ids, id \notin ids
        PROVE  Derived(erc721', t', d', id) = Derived(erc721, t, d, id)
    BY <1>11, <1>14, <1>15, <2>2 DEF Derived
  <2> QED
    BY <2>1, <2>2
<1>17. /\ View = Seen(erc721, t, d) /\ View' = Seen(erc721', t', d')
  BY DEF View, t, d
<1>18. /\ View \in Storages /\ View.balances = erc721.balances
       /\ \A id \in Ids : View.owners[id] = Derived(erc721, t, d, id)
       /\ View.token_approvals = erc721.token_approvals
       /\ View.operator_approvals = erc721.operator_approvals
  BY <1>1, <1>17, SeenIsAStorage
<1>19. /\ View' \in Storages /\ View'.balances = erc721'.balances
       /\ \A id \in Ids : View'.owners[id] = Derived(erc721', t', d', id)
       /\ View'.token_approvals = erc721'.token_approvals
       /\ View'.operator_approvals = erc721'.operator_approvals
  BY <1>11, <1>12, <1>17, SeenIsAStorage
<1>20. View'.owners = [id \in Ids |-> IF id \in ids THEN to ELSE View.owners[id]]
  <2>1. View'.owners \in [Ids -> Addresses]
    BY <1>19 DEF Storages
  <2>2. \A id \in Ids : View'.owners[id] = IF id \in ids THEN to ELSE View.owners[id]
    BY <1>16, <1>18, <1>19
  <2> QED
    BY <2>1, <2>2
<1>21. Gains(View, View', to, ids)
  <2>1. \A id \in ids : View.owners[id] = ZERO
    BY <1>6, <1>16, <1>18
  <2> QED
    BY <1>7, <1>11, <1>18, <1>19, <1>20, <2>1 DEF Gains
<1> QED
  BY <1>1, <1>6, <1>11, <1>12, <1>21 DEF t

(* The new tokens of a batch are counted once.                              *)
LEMMA GainsKeeps ==
  ASSUME NEW n, Good(n), NEW u, NEW to \in Accounts, NEW ids \in SUBSET Ids,
         Gains(n, u, to, ids)
  PROVE  Good(u)
<1>1. /\ n.owners \in [Ids -> Addresses] /\ n.balances \in [Addresses -> U256]
      /\ to \in Addresses /\ to # ZERO
  BY DEF Good, Storages
<1>2. \A id \in Ids : u.owners[id] = IF id \in ids THEN to ELSE n.owners[id]
  BY DEF Gains
<1>3. Owned(u, to) = Owned(n, to) \cup ids /\ Owned(n, to) \cap ids = {}
  BY <1>1, <1>2 DEF Owned, Gains
<1>4. \A a \in Accounts \ {to} : Owned(u, a) = Owned(n, a)
  BY <1>2 DEF Owned, Gains
<1>5. Cardinality(Owned(u, to)) = n.balances[to] + Cardinality(ids)
  <2>1. Owned(n, to) \in SUBSET Ids /\ ids \in SUBSET Ids
    BY DEF Owned
  <2>2. IsFiniteSet(Owned(n, to)) /\ IsFiniteSet(ids)
    BY <2>1, OwnedIsSmall
  <2>3. Cardinality(Owned(n, to) \cup ids)
          = Cardinality(Owned(n, to)) + Cardinality(ids) - Cardinality(Owned(n, to) \cap ids)
    BY <2>2, FS_Union
  <2>4. Cardinality(Owned(n, to) \cap ids) = 0
    BY <1>3, FS_EmptySet
  <2>5. n.balances[to] = Cardinality(Owned(n, to))
    BY DEF Good, Counted
  <2>6. Cardinality(Owned(n, to)) \in Nat /\ Cardinality(ids) \in Nat
    BY <2>2, FS_CardinalityType
  <2> QED
    BY <1>3, <2>3, <2>4, <2>5, <2>6
<1>6. Cardinality(Owned(u, to)) \in U256
  <2>1. Owned(u, to) \in SUBSET Ids
    BY DEF Owned
  <2> QED
    BY <2>1, OwnedIsSmall
<1>7. u.balances = [n.balances EXCEPT ![to] = Cardinality(Owned(u, to))]
  <2>1. Wrap(n.balances[to] + Cardinality(ids)) = Cardinality(Owned(u, to))
    BY <1>5, <1>6, WrapIsExact
  <2> QED
    BY <2>1 DEF Gains
<1>8. Counted(u)
  <2>1. ASSUME NEW a \in Accounts \ {to}
        PROVE  u.balances[a] = Cardinality(Owned(u, a))
    <3>1. n.balances[a] = Cardinality(Owned(n, a))
      BY DEF Good, Counted
    <3> QED
      BY <1>1, <1>4, <1>7, <3>1
  <2>2. u.balances[to] = Cardinality(Owned(u, to))
    BY <1>1, <1>7
  <2> QED
    BY <2>1, <2>2 DEF Counted
<1>9. Unentrusted(u)
  BY <1>1, <1>2 DEF Good, Unentrusted, Gains
<1> QED
  BY <1>8, <1>9 DEF Good, Gains

-----------------------------------------------------------------------------
(* Whatever is called, a single token moves, or an approval is given.       *)
LEMMA SingleCalls ==
  ASSUME NEW ACTION P,
         \A to \in Addresses, id \in Ids, auth \in Addresses :
           Batches!UpdateCall(to, id, auth) => P,
         \A to \in Addresses, id \in Ids, caller \in Accounts :
           Batches!ApproveCall(caller, to, id) => P,
         \A o \in Accounts, s \in Addresses, b \in BOOLEAN :
           Batches!SetApprovalForAllCall(o, s, b) => P
  PROVE  /\ \A caller \in Accounts : Batches!OwnersCall(caller) => P
         /\ \A id \in Ids, caller \in Accounts : Batches!BurnCall(caller, id) => P
         /\ Batches!Internal => P
<1> ZERO \in Addresses
  BY ConstantTypes
<1>1. \A id \in Ids : Batches!Burn(id) => P
  BY DEF Batches!Burn
<1>2. \A id \in Ids, caller \in Accounts : Batches!BurnCall(caller, id) => P
  BY <1>1 DEF Batches!BurnCall
<1>3. \A id \in Ids, to \in Addresses : Batches!Mint(to, id) => P
  BY DEF Batches!Mint
<1>4. \A id \in Ids, to, a \in Addresses : Batches!Transfer(a, to, id) => P
  BY DEF Batches!Transfer
<1>5. Batches!Internal => P
  BY <1>1, <1>3, <1>4 DEF Batches!Internal
<1>6. \A caller \in Accounts : Batches!OwnersCall(caller) => P
  BY DEF Batches!OwnersCall, Batches!TransferFrom
<1> QED
  BY <1>2, <1>5, <1>6

(* Every step is, to what is seen, a step of a plain storage, or a batch;   *)
(* and it keeps the invariant.                                              *)
BatchStep ==
  \/ View' = View \/ Updates(View, View') \/ Approves(View, View') \/ Operates(View, View')
  \/ \E to \in Accounts, ids \in SUBSET Ids : Gains(View, View', to, ids)

(* No handler of the extension does more.                                   *)
LEMMA BatchSteps ==
  ASSUME BatchInv, BatchesComeFirst, [Batches!Next]_(Batches!vars)
  PROVE  BatchInv' /\ BatchStep
<1>1. Good(View) /\ View \in Storages /\ View.owners \in [Ids -> Addresses]
  BY OwnersAreSeen DEF BatchInv, Good
<1>2. CASE ~constructing
  <2> DEFINE P == BatchInv' /\ BatchStep
  <2>1. ASSUME NEW to \in Addresses, NEW id \in Ids, NEW auth \in Addresses,
               Batches!UpdateCall(to, id, auth)
        PROVE  P
    <3>1. /\ erc721' \in Storages /\ sequential_burn' \in Batches!BitMaps
          /\ UNCHANGED <<sequential_ownership, constructing>>
          /\ View' = Update(View, View.owners[id], to, id)
      BY <2>1, UpdateCallIsSeen
    <3>2. Good(View')
      BY <1>1, <3>1, UpdateKeeps DEF Good
    <3>3. BatchInv'
      BY <1>2, <3>1, <3>2 DEF BatchInv
    <3>4. Updates(View, View')
      BY <3>1 DEF Updates
    <3> QED
      BY <3>3, <3>4 DEF BatchStep
  <2>2. ASSUME NEW to \in Addresses, NEW id \in Ids, NEW caller \in Accounts,
               Batches!ApproveCall(caller, to, id)
        PROVE  P
    <3>1. /\ erc721' \in Storages
          /\ UNCHANGED <<sequential_ownership, sequential_burn, constructing>>
          /\ View' = Approve(View, to, id) /\ View.owners[id] # ZERO
      BY <2>2, ApproveCallIsSeen DEF CanApprove
    <3>2. Good(View')
      BY <1>1, <3>1, ApproveKeeps DEF Good
    <3>3. BatchInv'
      BY <1>2, <3>1, <3>2 DEF BatchInv
    <3>4. Approves(View, View')
      BY <3>1 DEF Approves
    <3> QED
      BY <3>3, <3>4 DEF BatchStep
  <2>3. ASSUME NEW o \in Accounts, NEW s \in Addresses, NEW b \in BOOLEAN,
               Batches!SetApprovalForAllCall(o, s, b)
        PROVE  P
    <3>1. /\ erc721' \in Storages
          /\ UNCHANGED <<sequential_ownership, sequential_burn, constructing>>
          /\ View' = SetApprovalForAll(View, o, s, b)
      BY <2>3, OperateCallIsSeen
    <3>2. Good(View')
      BY <1>1, <3>1, SetApprovalForAllKeeps DEF Good
    <3>3. BatchInv'
      BY <1>2, <3>1, <3>2 DEF BatchInv
    <3>4. Operates(View, View')
      BY <3>1 DEF Operates
    <3> QED
      BY <3>3, <3>4 DEF BatchStep
  <2> HIDE DEF P
  <2>4. /\ \A caller \in Accounts : Batches!OwnersCall(caller) => P
        /\ \A id \in Ids, caller \in Accounts : Batches!BurnCall(caller, id) => P
        /\ Batches!Internal => P
    BY <2>1, <2>2, <2>3, SingleCalls
  <2>5. CASE UNCHANGED Batches!vars
    BY <2>5 DEF P, BatchInv, BatchStep, View, Batches!vars
  <2>6. CASE Batches!Next
    <3>1. \A to, size : ~Batches!MintConsecutive(to, size)
      BY <1>2 DEF Batches!MintConsecutive, BatchesComeFirst
    <3>2. ~Batches!Deploy
      BY <1>2 DEF Batches!Deploy
    <3> QED
      BY <2>4, <2>6, <3>1, <3>2 DEF P, Batches!Next, Batches!Accounts
  <2> QED
    BY <2>5, <2>6 DEF P
<1>3. CASE constructing
  <2>1. ASSUME NEW to \in Addresses, NEW size \in 1..MaxBatchSize,
               Batches!MintConsecutive(to, size)
        PROVE  BatchInv' /\ BatchStep
    <3>1. /\ to \in Accounts /\ UNCHANGED <<sequential_burn, constructing>>
          /\ Traced(sequential_ownership')
          /\ erc721' \in Storages /\ erc721'.owners = erc721.owners
          /\ \E ids \in SUBSET Ids : Gains(View, View', to, ids)
      BY <2>1, MintConsecutiveIsSeen
    <3>2. Good(View')
      BY <1>1, <3>1, GainsKeeps
    <3>3. BatchInv'
      BY <3>1, <3>2 DEF BatchInv
    <3> QED
      BY <3>1, <3>3 DEF BatchStep
  <2>2. CASE Batches!Deploy
    <3>1. View' = View
      BY <2>2 DEF Batches!Deploy, View
    <3> QED
      BY <2>2, <3>1 DEF Batches!Deploy, BatchInv, BatchStep
  <2>3. CASE UNCHANGED Batches!vars
    BY <2>3 DEF BatchInv, BatchStep, View, Batches!vars
  <2> QED
    BY <1>3, <2>1, <2>2, <2>3 DEF Batches!Next
<1> QED
  BY <1>2, <1>3

(* A contract under construction owns nothing.                              *)
LEMMA BatchStarts ==
  ASSUME Batches!Init
  PROVE  /\ BatchInv
         /\ View.owners = [id \in Ids |-> ZERO]
         /\ View.token_approvals = [id \in Ids |-> ZERO]
<1>1. /\ erc721 = EmptyStorage /\ sequential_ownership = <<>> /\ constructing
      /\ sequential_burn = Batches!EmptyBitMap /\ constructing \in BOOLEAN
  BY BatchesAreErc721 DEF Batches!Init
<1>2. Traced(<<>>) /\ \A k \in Nat : Batches!LowerLookup(<<>>, k) = ZERO
  BY EmptySeq DEF Traced, Batches!LowerLookup
<1>3. /\ sequential_burn \in Batches!BitMaps
      /\ \A id \in Ids : ~Batches!GetBit(sequential_burn, id)
  BY <1>1 DEF Batches!BitMaps, Batches!EmptyBitMap, Batches!GetBit, Batches!Buckets
<1>4. EmptyStorage.owners = [id \in Ids |-> ZERO]
  BY DEF EmptyStorage
<1>5. \A id \in Ids : Derived(EmptyStorage, <<>>, sequential_burn, id) = ZERO
  BY <1>2, <1>4, BatchConstants DEF Derived
<1>6. View = EmptyStorage
  <2>1. [id \in Ids |-> Derived(EmptyStorage, <<>>, sequential_burn, id)] = [id \in Ids |-> ZERO]
    BY <1>5
  <2>2. Seen(EmptyStorage, <<>>, sequential_burn) = EmptyStorage
    BY <2>1 DEF Seen, EmptyStorage
  <2> QED
    BY <1>1, <2>2 DEF View
<1>7. Good(EmptyStorage)
  <2>1. ZERO \in Addresses /\ 0 \in U256
    BY ConstantTypes
  <2>2. EmptyStorage \in Storages
    BY <2>1 DEF EmptyStorage, Storages
  <2>3. ASSUME NEW a \in Accounts
        PROVE  EmptyStorage.balances[a] = Cardinality(Owned(EmptyStorage, a))
    <3>1. Owned(EmptyStorage, a) = {}
      BY DEF EmptyStorage, Owned
    <3> QED
      BY <3>1, FS_EmptySet DEF EmptyStorage
  <2>4. Unentrusted(EmptyStorage)
    BY <2>1 DEF EmptyStorage, Unentrusted
  <2> QED
    BY <2>2, <2>3, <2>4 DEF Good, Counted
<1>8. BatchInv
  BY <1>1, <1>2, <1>3, <1>4, <1>6, <1>7 DEF BatchInv, Good
<1> QED
  BY <1>4, <1>6, <1>8 DEF EmptyStorage

(* So what is seen of a contract whose batches come first is sound in every *)
(* state.                                                                   *)
LEMMA BatchInvariance ==
  ASSUME BatchesComeFirst
  PROVE  BatchSpec => []BatchInv
<1>1. Batches!Init => BatchInv
  BY BatchStarts
<1>2. BatchInv /\ [Batches!Next]_(Batches!vars) => BatchInv'
  BY BatchSteps
<1> QED
  BY <1>1, <1>2, PTL DEF BatchSpec, Batches!Spec

-----------------------------------------------------------------------------
(* Balances count the tokens, those of batches included: a batch raises one *)
(* balance once, and every move of one of its tokens is counted from the    *)
(* derived owner.                                                           *)
THEOREM BatchBalances ==
  ASSUME BatchesComeFirst
  PROVE  BatchSpec => []BatchesAreCounted
<1>1. BatchInv => BatchesAreCounted
  <2> SUFFICES ASSUME BatchInv
               PROVE  BatchesAreCounted
    OBVIOUS
  <2>1. Batches!TypeOK
    BY BatchesAreErc721 DEF BatchInv, Traced, Batches!TypeOK
  <2>2. ASSUME NEW a \in Accounts
        PROVE  erc721.balances[a] = Cardinality({id \in Ids : Batches!OwnerOf(id) = a})
    <3>1. View.balances[a] = Cardinality(Owned(View, a))
      BY DEF BatchInv, Good, Counted
    <3>2. Owned(View, a) = {id \in Ids : Batches!OwnerOf(id) = a}
      BY OwnersAreSeen DEF Owned
    <3> QED
      BY <3>1, <3>2, OwnersAreSeen
  <2>3. \A S : Batches!Cardinality(S) = Cardinality(S)
    BY DEF Batches!Cardinality, Cardinality
  <2> QED
    BY <2>1, <2>2, <2>3 DEF BatchesAreCounted, Batches!BalancesCountTokens, Batches!Accounts
<1> QED
  BY <1>1, BatchInvariance, PTL

(* A burn leaves no owner, derived or recorded.                             *)
LEMMA BatchBurn ==
  ASSUME BatchInv, BatchInv', BatchesComeFirst, NEW id \in Ids, Batches!Burn(id)
  PROVE  Batches!OwnerOf(id)' = ZERO
<1>1. Batches!UpdateCall(ZERO, id, ZERO) /\ ZERO \in Addresses
  BY ConstantTypes DEF Batches!Burn
<1>2. View' = Update(View, View.owners[id], ZERO, id)
  BY <1>1, UpdateCallIsSeen
<1>3. View \in Storages /\ View.owners \in [Ids -> Addresses]
  BY OwnersAreSeen DEF BatchInv, Good
<1>4. View'.owners = [View.owners EXCEPT ![id] = ZERO]
  <2>1. View.owners[id] \in Addresses
    BY <1>3
  <2> QED
    BY <1>1, <1>2, <1>3, <2>1, UpdateFields
<1>5. Batches!OwnerOf(id)' = Derived(erc721, sequential_ownership, sequential_burn, id)'
  BY DEF Batches!OwnerOf, Derived
<1>6. View'.owners[id] = Derived(erc721, sequential_ownership, sequential_burn, id)'
  BY DEF View, Seen
<1> QED
  BY <1>3, <1>4, <1>5, <1>6

(* A call of somebody without authority leaves a token of a batch alone.    *)
LEMMA BatchAuthorityIsLocal ==
  ASSUME BatchInv, BatchesComeFirst, NEW caller \in Accounts, Batches!OwnersCall(caller),
         NEW id \in Ids, ~Batches!MayTouch(caller, id)
  PROVE  /\ View'.owners[id] = View.owners[id]
         /\ View'.token_approvals[id] = View.token_approvals[id]
<1>1. /\ View \in Storages /\ View.owners \in [Ids -> Addresses]
      /\ View.token_approvals \in [Ids -> Addresses] /\ caller # ZERO
  BY DEF BatchInv, Good, Storages
<1>2. \A i \in Ids : Batches!MayTouch(caller, i)
                       <=> \/ caller \in {View.owners[i], View.token_approvals[i]}
                           \/ View.operator_approvals[View.owners[i]][caller]
  BY OwnersAreSeen DEF Batches!MayTouch
<1>3. ASSUME NEW i \in Ids, NEW to \in Addresses, Batches!UpdateCall(to, i, caller)
      PROVE  /\ View'.owners[id] = View.owners[id]
             /\ View'.token_approvals[id] = View.token_approvals[id]
  <2>1. /\ View' = Update(View, View.owners[i], to, i)
        /\ MayUpdate(View, View.owners[i], i, caller)
    BY <1>3, UpdateCallIsSeen
  <2>2. i # id /\ View.owners[i] \in Addresses
    BY <1>1, <1>2, <2>1 DEF MayUpdate, IsAuthorized
  <2> QED
    BY <1>1, <2>1, <2>2, UpdateIsLocal
<1>4. ASSUME NEW i \in Ids, NEW to \in Addresses, Batches!ApproveCall(caller, to, i)
      PROVE  /\ View'.owners[id] = View.owners[id]
             /\ View'.token_approvals[id] = View.token_approvals[id]
  <2>1. View' = Approve(View, to, i) /\ CanApprove(View, View.owners[i], i, caller)
    BY <1>4, ApproveCallIsSeen
  <2>2. i # id
    BY <1>1, <1>2, <2>1 DEF CanApprove
  <2>3. /\ View'.owners = View.owners
        /\ View'.token_approvals = [View.token_approvals EXCEPT ![i] = to]
    BY <1>1, <2>1, ApproveFields
  <2> QED
    BY <1>1, <2>2, <2>3
<1>5. ASSUME NEW s \in Addresses, NEW b \in BOOLEAN,
             Batches!SetApprovalForAllCall(caller, s, b)
      PROVE  /\ View'.owners[id] = View.owners[id]
             /\ View'.token_approvals[id] = View.token_approvals[id]
  <2>1. View' = SetApprovalForAll(View, caller, s, b)
    BY <1>5, OperateCallIsSeen
  <2> QED
    BY <1>1, <2>1, OperateFields
<1> QED
  BY <1>3, <1>4, <1>5 DEF Batches!OwnersCall, Batches!TransferFrom

(* A token of a batch is destroyed by its burn, and moved or entrusted by   *)
(* nobody without authority over it.                                        *)
THEOREM BatchSafety ==
  ASSUME BatchesComeFirst
  PROVE  BatchSpec => BatchTokensAreSafe
<1>1. BatchInv /\ BatchInv' /\ [Batches!Next]_(Batches!vars)
        => [\A id \in Ids : Batches!Burn(id) => Batches!OwnerOf(id)' = ZERO]_(Batches!vars)
  BY BatchBurn
<1>2. BatchInv /\ BatchInv' /\ [Batches!Next]_(Batches!vars)
        => [ \A id \in Ids, caller \in Accounts :
               ( /\ <<Batches!OwnerOf(id), erc721.token_approvals[id]>>'
                       # <<Batches!OwnerOf(id), erc721.token_approvals[id]>>
                 /\ ~Batches!MayTouch(caller, id) )
               => ~Batches!OwnersCall(caller) ]_(Batches!vars)
  <2> SUFFICES ASSUME BatchInv, BatchInv', NEW id \in Ids, NEW caller \in Accounts,
                      ~Batches!MayTouch(caller, id), Batches!OwnersCall(caller)
               PROVE  <<Batches!OwnerOf(id), erc721.token_approvals[id]>>'
                        = <<Batches!OwnerOf(id), erc721.token_approvals[id]>>
    OBVIOUS
  <2>1. /\ View'.owners[id] = View.owners[id]
        /\ View'.token_approvals[id] = View.token_approvals[id]
    BY BatchAuthorityIsLocal
  <2>2. /\ Batches!OwnerOf(id) = View.owners[id]
        /\ erc721.token_approvals[id] = View.token_approvals[id]
    BY OwnersAreSeen
  <2>3. /\ Batches!OwnerOf(id)' = View'.owners[id]
        /\ erc721'.token_approvals[id] = View'.token_approvals[id]
    BY DEF View, Seen, Derived, Batches!OwnerOf
  <2> QED
    BY <2>1, <2>2, <2>3
<1> QED
  BY <1>1, <1>2, BatchSteps, BatchInvariance, PTL
  DEF BatchSpec, Batches!Spec, BatchTokensAreSafe, Batches!BatchTokensAreSafe,
      Batches!BurnDestroys, Batches!OthersTokensAreSafe, Batches!Accounts
-----------------------------------------------------------------------------
(* A new batch creates its tokens, all for one holder; a single token moves *)
(* as in a plain contract.                                                  *)
LEMMA BatchNftStep ==
  ASSUME BatchInv, BatchInv', BatchesComeFirst, [Batches!Next]_(Batches!vars)
  PROVE  [Batches!Nft!NftNext]_(Batches!Nft!nftVars)
<1> DEFINE Step == \/ \E ids \in SUBSET Ids, to \in Accounts : Batches!Nft!Create(ids, to)
                   \/ \E id \in Ids, a \in Addresses :
                        Batches!Nft!Give(id, a) \/ Batches!Nft!Entrust(id, a)
                   \/ UNCHANGED Batches!Nft!nftVars
<1> ZERO \in Addresses
  BY ConstantTypes
<1> SUFFICES Step
  BY DEF Batches!Nft!NftNext, Batches!Accounts
<1>1. /\ View \in Storages /\ Unentrusted(View) /\ ZERO \in Addresses
      /\ View.owners \in [Ids -> Addresses] /\ View.token_approvals \in [Ids -> Addresses]
  BY ConstantTypes DEF BatchInv, Good, Storages
<1>2. /\ [id \in Ids |-> Batches!OwnerOf(id)] = View.owners
      /\ erc721.token_approvals = View.token_approvals
  BY OwnersAreSeen
<1>3. /\ [id \in Ids |-> Batches!OwnerOf(id)]' = View'.owners
      /\ erc721'.token_approvals = View'.token_approvals
  BY DEF View, Seen, Derived, Batches!OwnerOf
<1>4. CASE Updates(View, View')
  <2>1. PICK to \in Addresses, id \in Ids : View' = Update(View, View.owners[id], to, id)
    BY <1>4 DEF Updates
  <2>2. View.owners[id] \in Addresses
    BY <1>1
  <2>3. /\ View'.owners = [View.owners EXCEPT ![id] = to]
        /\ View'.token_approvals = UpdatedApprovals(View, View.owners[id], id)
    BY <1>1, <2>1, <2>2, UpdateFields
  <2>4. CASE View.owners[id] # ZERO
    <3>1. Batches!Nft!Give(id, to)
      BY <1>2, <1>3, <2>3, <2>4 DEF Batches!Nft!Give, UpdatedApprovals
    <3> QED
      BY <3>1
  <2>5. CASE View.owners[id] = ZERO /\ to # ZERO
    <3>1. View'.owners = [i \in Ids |-> IF i \in {id} THEN to ELSE View.owners[i]]
      BY <1>1, <2>3
    <3>2. View'.token_approvals = View.token_approvals
      BY <2>3, <2>5 DEF UpdatedApprovals
    <3>3. Batches!Nft!Create({id}, to)
      BY <1>2, <1>3, <2>5, <3>1, <3>2 DEF Batches!Nft!Create
    <3> QED
      BY <2>5, <3>3
  <2>6. CASE View.owners[id] = ZERO /\ to = ZERO
    <3>1. View'.owners = View.owners /\ View'.token_approvals = View.token_approvals
      BY <1>1, <2>3, <2>6 DEF UpdatedApprovals
    <3> QED
      BY <1>2, <1>3, <3>1 DEF Batches!Nft!nftVars
  <2> QED
    BY <2>4, <2>5, <2>6
<1>5. CASE Approves(View, View')
  <2>1. PICK to \in Addresses, id \in Ids :
           View.owners[id] # ZERO /\ View' = Approve(View, to, id)
    BY <1>5 DEF Approves
  <2>2. /\ View'.owners = View.owners
        /\ View'.token_approvals = [View.token_approvals EXCEPT ![id] = to]
    BY <1>1, <2>1, ApproveFields
  <2>3. Batches!Nft!Entrust(id, to)
    BY <1>2, <1>3, <2>1, <2>2 DEF Batches!Nft!Entrust
  <2> QED
    BY <2>3
<1>6. CASE Operates(View, View') \/ View' = View
  <2>1. View'.owners = View.owners /\ View'.token_approvals = View.token_approvals
    BY <1>1, <1>6, OperateFields DEF Operates
  <2> QED
    BY <1>2, <1>3, <2>1 DEF Batches!Nft!nftVars
<1>7. CASE \E to \in Accounts, ids \in SUBSET Ids : Gains(View, View', to, ids)
  <2>1. PICK to \in Accounts, ids \in SUBSET Ids : Gains(View, View', to, ids)
    BY <1>7
  <2>2. Batches!Nft!Create(ids, to)
    BY <1>2, <1>3, <2>1 DEF Gains, Batches!Nft!Create
  <2> QED
    BY <2>2
<1> HIDE DEF Step
<1> QED
  BY <1>4, <1>5, <1>6, <1>7, BatchSteps DEF BatchStep

(* Whether by the batch or one by one, the tokens behave as those of the    *)
(* abstract ledger.                                                         *)
THEOREM BatchNftRefinement ==
  ASSUME BatchesComeFirst
  PROVE  BatchSpec => BatchesImplementNft
<1>1. ASSUME Batches!Init
      PROVE  Batches!Nft!NftInit
  <2>1. /\ [id \in Ids |-> Batches!OwnerOf(id)] = View.owners
        /\ erc721.token_approvals = View.token_approvals
    BY <1>1, BatchStarts, OwnersAreSeen
  <2> QED
    BY <1>1, <2>1, BatchStarts DEF Batches!Nft!NftInit
<1> QED
  BY <1>1, BatchNftStep, BatchSteps, BatchInvariance, PTL
  DEF BatchSpec, Batches!Spec, BatchesImplementNft, Batches!ImplementsNft, Batches!Nft!NftSpec
=============================================================================
