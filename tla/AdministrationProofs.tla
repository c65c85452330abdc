-------------------------- MODULE AdministrationProofs --------------------------
(***************************************************************************)
(* What administers contracts, for any accounts, roles, schedules and      *)
(* contracts, whatever the values MCAdministration checks it with.         *)
(***************************************************************************)
EXTENDS MCAdministration, SequenceTheorems, Sums

-----------------------------------------------------------------------------
(* Roles.  The members that are enumerated are the holders, and a set of    *)
(* roles that administers itself and has no holders stays so.               *)

(* The two records of an enumerable set.                                    *)
LEMMA SetFields ==
  ASSUME NEW s \in Set!Stores
  PROVE  /\ s.values \in Seq(Accounts) /\ s.positions \in [Accounts -> Nat]
         /\ Len(s.values) \in Nat /\ DOMAIN s.values = 1..Len(s.values)
         /\ \A i \in 1..Len(s.values) : s.values[i] \in Accounts
<1>1. s.values \in Seq(Accounts) /\ s.positions \in [Accounts -> Nat]
  BY DEF Set!Stores
<1> QED
  BY <1>1

(* `add` appends what is not in the set, and keeps the positions right.     *)
LEMMA AddKeeps ==
  ASSUME NEW s \in Set!Stores, Set!IsCoherent(s), NEW v \in Accounts
  PROVE  /\ Set!Add(s, v) \in Set!Stores /\ Set!IsCoherent(Set!Add(s, v))
         /\ \A w \in Accounts : Set!Contains(Set!Add(s, v), w) <=> w = v \/ Set!Contains(s, w)
<1>1. CASE Set!Contains(s, v)
  BY <1>1 DEF Set!Add
<1>2. CASE ~Set!Contains(s, v)
  <2> DEFINE n  == Len(s.values)
             vs == Append(s.values, v)
             ps == [s.positions EXCEPT ![v] = n + 1]
             t  == [values |-> vs, positions |-> ps]
  <2>1. Set!Add(s, v) = t
    BY <1>2 DEF Set!Add
  <2>2. /\ n \in Nat /\ s.positions \in [Accounts -> Nat] /\ s.positions[v] = 0
        /\ \A i \in 1..n : s.values[i] \in Accounts /\ s.positions[s.values[i]] = i
        /\ \A w \in Accounts : s.positions[w] # 0 =>
             s.positions[w] \in 1..n /\ s.values[s.positions[w]] = w
    BY <1>2, SetFields DEF Set!IsCoherent, Set!Contains
  <2>3. /\ vs \in Seq(Accounts) /\ Len(vs) = n + 1 /\ DOMAIN vs = 1 .. n + 1
        /\ vs[n + 1] = v /\ \A i \in 1..n : vs[i] = s.values[i]
    BY SetFields
  <2>4. /\ ps \in [Accounts -> Nat] /\ ps[v] = n + 1
        /\ \A w \in Accounts \ {v} : ps[w] = s.positions[w]
    BY <2>2
  <2> HIDE DEF n, vs, ps
  <2>5. \A i \in 1 .. n + 1 : ps[vs[i]] = i
    <3>1. ASSUME NEW i \in 1..n
          PROVE  ps[vs[i]] = i
      <4> DEFINE x == s.values[i]
      <4>1. i \in Nat /\ i # 0 /\ vs[i] = x /\ x \in Accounts /\ s.positions[x] = i
        BY <2>2, <2>3
      <4>2. x # v
        BY <4>1, <2>2
      <4> HIDE DEF x
      <4> QED
        BY <4>1, <4>2, <2>4
    <3> QED
      BY <2>2, <2>3, <2>4, <3>1
  <2>6. ASSUME NEW w \in Accounts, ps[w] # 0
        PROVE  ps[w] \in 1 .. n + 1 /\ vs[ps[w]] = w
    <3>1. CASE w = v
      BY <2>2, <2>3, <2>4, <3>1
    <3>2. CASE w # v
      <4> DEFINE i == s.positions[w]
      <4>1. ps[w] = i /\ i \in 1..n /\ s.values[i] = w
        BY <2>2, <2>4, <2>6, <3>2
      <4> HIDE DEF i
      <4> QED
        BY <2>2, <2>3, <4>1
    <3> QED
      BY <3>1, <3>2
  <2>7. t \in Set!Stores /\ Set!IsCoherent(t)
    BY <2>3, <2>4, <2>5, <2>6 DEF Set!Stores, Set!IsCoherent, Set!Contains
  <2>8. ASSUME NEW w \in Accounts
        PROVE  Set!Contains(t, w) <=> w = v \/ Set!Contains(s, w)
    <3>1. CASE w = v
      BY <2>2, <2>4, <3>1 DEF Set!Contains
    <3>2. CASE w # v
      BY <2>4, <3>2 DEF Set!Contains
    <3> QED
      BY <3>1, <3>2
  <2> QED
    BY <2>1, <2>7, <2>8
<1> QED
  BY <1>1, <1>2

(* `remove` moves the last value into the gap, which may be its own, and    *)
(* keeps the positions right.                                               *)
LEMMA RemoveKeeps ==
  ASSUME NEW s \in Set!Stores, Set!IsCoherent(s), NEW v \in Accounts
  PROVE  /\ Set!Remove(s, v) \in Set!Stores /\ Set!IsCoherent(Set!Remove(s, v))
         /\ \A w \in Accounts : Set!Contains(Set!Remove(s, v), w) <=> w # v /\ Set!Contains(s, w)
<1>1. CASE s.positions[v] = 0
  BY <1>1 DEF Set!Remove, Set!Contains
<1>2. CASE s.positions[v] # 0
  <2> DEFINE last == Len(s.values)
             spot == s.positions[v]
             x    == s.values[last]
             mv   == [s.values EXCEPT ![spot] = x]
             vs   == SubSeq(mv, 1, last - 1)
             ps   == [s.positions EXCEPT ![x] = spot, ![v] = 0]
             t    == [values |-> vs, positions |-> ps]
  <2>1. Set!Remove(s, v) = t
    BY <1>2 DEF Set!Remove
  <2>2. /\ last \in Nat /\ s.positions \in [Accounts -> Nat]
        /\ \A i \in 1..last : s.values[i] \in Accounts /\ s.positions[s.values[i]] = i
        /\ \A w \in Accounts : s.positions[w] # 0 =>
             s.positions[w] \in 1..last /\ s.values[s.positions[w]] = w
    BY SetFields DEF Set!IsCoherent, Set!Contains
  <2>3. spot \in 1..last /\ s.values[spot] = v /\ last \in 1..last
    BY <1>2, <2>2
  <2>4. x \in Accounts /\ s.positions[x] = last
    BY <2>2, <2>3
  <2>5. /\ vs \in Seq(Accounts) /\ Len(vs) = last - 1
        /\ \A i \in 1 .. last - 1 : vs[i] = IF i = spot THEN x ELSE s.values[i]
    <3>1. \A i \in 1..last : mv[i] \in Accounts /\ mv[i] = IF i = spot THEN x ELSE s.values[i]
      BY <2>2, <2>3, <2>4, SetFields
    <3> HIDE DEF mv
    <3>2. /\ vs \in Seq(Accounts)
          /\ Len(vs) = IF 1 <= last - 1 THEN (last - 1) - 1 + 1 ELSE 0
          /\ \A i \in 1 .. (last - 1) - 1 + 1 : vs[i] = mv[1 + i - 1]
      <4>1. 1 \in Int /\ last - 1 \in Int /\ \A i \in 1 .. last - 1 : mv[i] \in Accounts
        BY <2>2, <3>1
      <4> QED
        BY <4>1, SubSeqProperties
    <3>3. last \in Nat /\ last >= 1
      BY <2>3
    <3> HIDE DEF vs, last, x, spot
    <3>4. Len(vs) = last - 1
      BY <3>2, <3>3
    <3>5. ASSUME NEW i \in 1 .. last - 1
          PROVE  vs[i] = IF i = spot THEN x ELSE s.values[i]
      <4>1. i \in 1..last /\ i \in 1 .. (last - 1) - 1 + 1 /\ 1 + i - 1 = i
        BY <3>3
      <4> QED
        BY <3>1, <3>2, <4>1
    <3> QED
      BY <3>2, <3>4, <3>5
  <2>6. DOMAIN vs = 1 .. last - 1
    BY <2>5
  <2>7. /\ ps \in [Accounts -> Nat] /\ ps[v] = 0
        /\ x # v => ps[x] = spot
        /\ \A w \in Accounts \ {v, x} : ps[w] = s.positions[w]
    BY <2>2, <2>3, <2>4
  <2> HIDE DEF vs, ps, x, spot, last
  <2>8. ASSUME NEW i \in 1 .. last - 1
        PROVE  ps[vs[i]] = i
    <3>1. i \in 1..last /\ i # last
      BY <2>2
    <3>2. CASE i = spot
      BY <2>2, <2>3, <2>4, <2>5, <2>7, <3>1, <3>2 DEF spot
    <3>3. CASE i # spot
      <4>1. vs[i] = s.values[i] /\ s.values[i] \in Accounts /\ s.positions[s.values[i]] = i
        BY <2>2, <2>5, <3>1, <3>3
      <4>2. s.values[i] # v /\ s.values[i] # x
        BY <2>4, <3>1, <3>3, <4>1 DEF spot
      <4> QED
        BY <2>7, <4>1, <4>2
    <3> QED
      BY <3>2, <3>3
  <2>9. ASSUME NEW w \in Accounts, ps[w] # 0
        PROVE  ps[w] \in 1 .. last - 1 /\ vs[ps[w]] = w /\ w # v /\ s.positions[w] # 0
    <3>1. w # v
      BY <2>7, <2>9
    <3>2. CASE w = x
      <4>1. spot # last
        BY <2>3, <3>1, <3>2 DEF x
      <4>2. spot \in 1 .. last - 1
        BY <2>2, <2>3, <4>1
      <4> QED
        BY <2>2, <2>4, <2>5, <2>7, <3>1, <3>2, <4>2, <2>3
    <3>3. CASE w # x
      <4>1. ps[w] = s.positions[w] /\ ps[w] \in 1..last /\ s.values[ps[w]] = w
        BY <2>2, <2>7, <2>9, <3>1, <3>3
      <4>2. ps[w] # last /\ ps[w] # spot
        BY <2>3, <3>1, <3>3, <4>1 DEF x
      <4>3. ps[w] \in 1 .. last - 1
        BY <2>2, <4>1, <4>2
      <4> QED
        BY <2>5, <3>1, <4>1, <4>2, <4>3, <2>9
    <3> QED
      BY <3>2, <3>3
  <2>10. t \in Set!Stores /\ Set!IsCoherent(t)
    BY <2>5, <2>6, <2>7, <2>8, <2>9 DEF Set!Stores, Set!IsCoherent, Set!Contains
  <2>11. ASSUME NEW w \in Accounts, w # v, s.positions[w] # 0
         PROVE  ps[w] # 0
    BY <2>2, <2>3, <2>7, <2>11
  <2>12. \A w \in Accounts : Set!Contains(t, w) <=> w # v /\ Set!Contains(s, w)
    BY <2>7, <2>9, <2>11 DEF Set!Contains
  <2> QED
    BY <2>1, <2>10, <2>12
<1> QED
  BY <1>1, <1>2

(* The set that nothing was added to.                                       *)
LEMMA EmptyKeeps ==
  /\ Set!EmptyStore \in Set!Stores /\ Set!IsCoherent(Set!EmptyStore)
  /\ \A w \in Accounts : ~Set!Contains(Set!EmptyStore, w)
<1>1. /\ Set!EmptyStore.values = <<>> /\ DOMAIN Set!EmptyStore.values = {}
      /\ Set!EmptyStore.positions = [v \in Accounts |-> 0]
      /\ Set!EmptyStore \in Set!Stores
  BY DEF Set!EmptyStore, Set!Stores
<1> QED
  BY <1>1 DEF Set!IsCoherent, Set!Contains

(* A caller that reads the values slice by slice misses none, wherever it   *)
(* cuts and however far it reaches past the end.                            *)
LEMMA SlicesAlwaysMeet ==
  ASSUME NEW s \in Set!Stores
  PROVE  Set!SlicesMeet(s)
<1> DEFINE v == s.values
           L == Len(v)
<1>1. L \in Nat /\ v \in Seq(Accounts) /\ \A i \in 1..L : v[i] \in Accounts
  BY SetFields
<1> SUFFICES ASSUME NEW cut \in 0 .. L + 1, NEW end \in 0 .. L + 1, cut <= end
             PROVE  Set!ValuesSlice(s, 0, cut) \o Set!ValuesSlice(s, cut, end)
                      = SubSeq(v, 1, Set!Lesser(end, L))
  BY DEF Set!SlicesMeet
<1> DEFINE m == Set!Lesser(cut, L)
           n == Set!Lesser(end, L)
           a == SubSeq(v, 1, m)
           b == SubSeq(v, m + 1, n)
           c == SubSeq(v, 1, n)
<1>2. /\ m \in 0..L /\ n \in 0..L /\ m <= n
      /\ Set!Lesser(0, m) = 0 /\ Set!Lesser(cut, n) = m
  BY <1>1 DEF Set!Lesser
<1>3. Set!ValuesSlice(s, 0, cut) = a /\ Set!ValuesSlice(s, cut, end) = b
  BY <1>2 DEF Set!ValuesSlice
<1> HIDE DEF L, m, n
<1>4. a \o b = c
  <2>1. 1 \in 1 .. L + 1 /\ m \in 1 - 1 .. L /\ n \in m .. L
    BY <1>1, <1>2
  <2> QED
    BY <1>1, <2>1, ConcatAdjacentSubSeq DEF L
<1> QED
  BY <1>3, <1>4 DEF n

-----------------------------------------------------------------------------
(* The invariant: each set is coherent and contains who has the role.       *)
Inv ==
  /\ has_role \in [Roles -> [Accounts -> BOOLEAN]]
  /\ admin_role \in [Roles -> Roles]
  /\ role_members \in [Roles -> Set!Stores]
  /\ \A role \in Roles :
       /\ Set!IsCoherent(role_members[role])
       /\ \A a \in Accounts : Set!Contains(role_members[role], a) <=> has_role[role][a]

(* The constructor's grant to the admin.                                    *)
LEMMA Initially ==
  ASSUME Init
  PROVE  Inv
<1> DEFINE s == Set!Add(Set!EmptyStore, Admin)
<1>1. /\ s \in Set!Stores /\ Set!IsCoherent(s)
      /\ \A a \in Accounts : Set!Contains(s, a) <=> a = Admin
  BY EmptyKeeps, AddKeeps, AccessControlAssumption
<1> HIDE DEF s
<1>2. \A role \in Roles : role_members[role] = IF role = DEFAULT_ADMIN_ROLE THEN s
                                                                      ELSE Set!EmptyStore
  BY DEF Init, s
<1>3. role_members \in [Roles -> Set!Stores]
  BY <1>1, EmptyKeeps DEF Init, s
<1>4. /\ admin_role \in [Roles -> Roles] /\ has_role \in [Roles -> [Accounts -> BOOLEAN]]
      /\ \A role \in Roles, a \in Accounts :
           has_role[role][a] <=> role = DEFAULT_ADMIN_ROLE /\ a = Admin
  BY AccessControlAssumption DEF Init
<1> QED
  BY <1>1, <1>2, <1>3, <1>4, EmptyKeeps DEF Inv

(* A change of one role of one account, and of its members accordingly.     *)
LEMMA ChangeKeeps ==
  ASSUME Inv, NEW role \in Roles, NEW account \in Accounts, NEW held \in BOOLEAN,
         SetRole(role, account, held), UNCHANGED admin_role,
         NEW s \in Set!Stores, Set!IsCoherent(s),
         \A a \in Accounts : Set!Contains(s, a) <=> has_role'[role][a],
         role_members' = [role_members EXCEPT ![role] = s]
  PROVE  Inv'
<1>1. /\ has_role' \in [Roles -> [Accounts -> BOOLEAN]]
      /\ \A r \in Roles \ {role} : has_role'[r] = has_role[r]
  BY DEF SetRole, Inv
<1>2. /\ role_members' \in [Roles -> Set!Stores] /\ role_members'[role] = s
      /\ \A r \in Roles \ {role} : role_members'[r] = role_members[r]
  BY DEF Inv
<1>3. ASSUME NEW r \in Roles
      PROVE  /\ Set!IsCoherent(role_members'[r])
             /\ \A a \in Accounts : Set!Contains(role_members'[r], a) <=> has_role'[r][a]
  <2>1. CASE r = role
    BY <1>2, <2>1
  <2>2. CASE r # role
    BY <1>1, <1>2, <2>2 DEF Inv
  <2> QED
    BY <2>1, <2>2
<1> QED
  BY <1>1, <1>2, <1>3 DEF Inv

(* The extension's grants and revocations touch the set when the role did,  *)
(* and leave both as they were when it did not.                             *)
LEMMA GrantKeeps ==
  ASSUME Inv, NEW role \in Roles, NEW account \in Accounts, Grant(role, account)
  PROVE  Inv'
<1> DEFINE m == role_members[role]
<1>1. /\ m \in Set!Stores /\ Set!IsCoherent(m) /\ role_members \in [Roles -> Set!Stores]
      /\ \A a \in Accounts : Set!Contains(m, a) <=> has_role[role][a]
  BY DEF Inv
<1>2. /\ SetRole(role, account, TRUE) /\ UNCHANGED admin_role
      /\ has_role'[role][account]
      /\ \A a \in Accounts \ {account} : has_role'[role][a] <=> has_role[role][a]
  BY DEF Grant, SetRole, Inv
<1> HIDE DEF m
<1>3. CASE has_role[role][account]
  <2>1. role_members' = [role_members EXCEPT ![role] = m]
    BY <1>1, <1>3 DEF Grant, m
  <2>2. \A a \in Accounts : Set!Contains(m, a) <=> has_role'[role][a]
    BY <1>1, <1>2, <1>3
  <2> QED
    BY <1>1, <1>2, <2>1, <2>2, ChangeKeeps
<1>4. CASE ~has_role[role][account]
  <2> DEFINE s == Set!Add(m, account)
  <2>1. role_members' = [role_members EXCEPT ![role] = s]
    BY <1>4 DEF Grant, m
  <2>2. /\ s \in Set!Stores /\ Set!IsCoherent(s)
        /\ \A a \in Accounts : Set!Contains(s, a) <=> a = account \/ Set!Contains(m, a)
    BY <1>1, AddKeeps
  <2> HIDE DEF s
  <2>3. \A a \in Accounts : Set!Contains(s, a) <=> has_role'[role][a]
    BY <1>1, <1>2, <2>2
  <2> QED
    BY <1>2, <2>1, <2>2, <2>3, ChangeKeeps
<1> QED
  BY <1>3, <1>4

(* The same of a revocation, also when an account renounces.                *)
LEMMA RevokeKeeps ==
  ASSUME Inv, NEW role \in Roles, NEW account \in Accounts, Revoke(role, account)
  PROVE  Inv'
<1> DEFINE m == role_members[role]
<1>1. /\ m \in Set!Stores /\ Set!IsCoherent(m) /\ role_members \in [Roles -> Set!Stores]
      /\ \A a \in Accounts : Set!Contains(m, a) <=> has_role[role][a]
  BY DEF Inv
<1>2. /\ SetRole(role, account, FALSE) /\ UNCHANGED admin_role
      /\ ~has_role'[role][account]
      /\ \A a \in Accounts \ {account} : has_role'[role][a] <=> has_role[role][a]
  BY DEF Revoke, SetRole, Inv
<1> HIDE DEF m
<1>3. CASE ~has_role[role][account]
  <2>1. role_members' = [role_members EXCEPT ![role] = m]
    BY <1>1, <1>3 DEF Revoke, m
  <2>2. \A a \in Accounts : Set!Contains(m, a) <=> has_role'[role][a]
    BY <1>1, <1>2, <1>3
  <2> QED
    BY <1>1, <1>2, <2>1, <2>2, ChangeKeeps
<1>4. CASE has_role[role][account]
  <2> DEFINE s == Set!Remove(m, account)
  <2>1. role_members' = [role_members EXCEPT ![role] = s]
    BY <1>4 DEF Revoke, m
  <2>2. /\ s \in Set!Stores /\ Set!IsCoherent(s)
        /\ \A a \in Accounts : Set!Contains(s, a) <=> a # account /\ Set!Contains(m, a)
    BY <1>1, RemoveKeeps
  <2> HIDE DEF s
  <2>3. \A a \in Accounts : Set!Contains(s, a) <=> has_role'[role][a]
    BY <1>1, <1>2, <2>2
  <2> QED
    BY <1>2, <2>1, <2>2, <2>3, ChangeKeeps
<1> QED
  BY <1>3, <1>4

(* Every step keeps it.                                                     *)
LEMMA Preserved ==
  ASSUME Inv, [Next]_vars
  PROVE  Inv'
<1>1. CASE \E caller \in Accounts : PublicCall(caller)
  BY <1>1, GrantKeeps, RevokeKeeps DEF PublicCall, GrantRole, RevokeRole, RenounceRole
<1>2. CASE \E role, new_admin_role \in Roles : SetRoleAdmin(role, new_admin_role)
  BY <1>2 DEF SetRoleAdmin, Inv
<1>3. CASE UNCHANGED vars
  BY <1>3 DEF vars, Inv
<1> QED
  BY <1>1, <1>2, <1>3 DEF Next

(* So it always holds.                                                      *)
LEMMA Invariance == Spec => []Inv
<1> QED
  BY Initially, Preserved, PTL DEF Spec

(* The set of a role lists its holders, whatever was granted and revoked.   *)
THEOREM Membership == Spec => []MembersAreHolders
<1>1. ASSUME Inv, NEW role \in Roles, NEW set, set = role_members[role]
      PROVE  {set.values[i] : i \in DOMAIN set.values} = Holders(role)
  <2>1. set \in Set!Stores /\ Set!IsCoherent(set)
        /\ \A a \in Accounts : Set!Contains(set, a) <=> has_role[role][a]
    BY <1>1 DEF Inv
  <2>2. /\ DOMAIN set.values = 1..Len(set.values) /\ Len(set.values) \in Nat
        /\ \A i \in DOMAIN set.values : set.values[i] \in Accounts
    BY <2>1, SetFields
  <2>3. ASSUME NEW i \in DOMAIN set.values
        PROVE  set.values[i] \in Holders(role)
    <3>1. set.positions[set.values[i]] # 0
      BY <2>1, <2>2 DEF Set!IsCoherent
    <3> QED
      BY <2>1, <2>2, <3>1 DEF Set!Contains, Holders
  <2>4. ASSUME NEW a \in Holders(role)
        PROVE  \E i \in DOMAIN set.values : set.values[i] = a
    BY <2>1 DEF Set!IsCoherent, Holders
  <2> QED
    BY <2>3, <2>4
<1>2. Inv => MembersAreHolders
  BY <1>1, SlicesAlwaysMeet DEF Inv, TypeOK, MembersAreHolders
<1> QED
  BY <1>2, Invariance, PTL

(* Nobody's call brings to life a set of roles that only its own holders    *)
(* could administer, once nobody holds them.                                *)
THEOREM Extinction == Spec => DeadRolesStayDead
<1>1. ASSUME Inv, \E caller \in Accounts : PublicCall(caller),
             NEW roles \in SUBSET Roles, IsDead(roles)
      PROVE  IsDead(roles)'
  <2>1. PICK caller \in Accounts : PublicCall(caller)
    BY <1>1
  <2>2. \A r \in roles, a \in Accounts : admin_role[r] \in roles /\ ~has_role[r][a]
    BY <1>1 DEF IsDead, Holders
  <2>3. PICK role \in Roles, account \in Accounts :
             \/ GrantRole(caller, role, account)
             \/ RevokeRole(caller, role, account)
             \/ RenounceRole(caller, role, account)
    BY <2>1 DEF PublicCall
  <2>4. CASE GrantRole(caller, role, account)
    <3>1. role \notin roles
      BY <2>2, <2>4 DEF GrantRole, IsAdminOf
    <3>2. admin_role' = admin_role /\ \A r \in roles, a \in Accounts : has_role'[r][a] = has_role[r][a]
      BY <1>1, <2>4, <3>1 DEF GrantRole, Grant, SetRole, Inv
    <3> QED
      BY <2>2, <3>2 DEF IsDead, Holders
  <2>5. CASE ~GrantRole(caller, role, account)
    <3>1. Revoke(role, account)
      BY <2>3, <2>5 DEF RevokeRole, RenounceRole
    <3>2. /\ admin_role' = admin_role
          /\ \A r \in roles, a \in Accounts : has_role'[r][a] => has_role[r][a]
      BY <1>1, <3>1 DEF Revoke, SetRole, Inv
    <3> QED
      BY <2>2, <3>2 DEF IsDead, Holders
  <2> QED
    BY <2>4, <2>5
<1>2. ASSUME Inv, [Next]_vars
      PROVE  [ (\E caller \in Accounts : PublicCall(caller)) =>
                 \A roles \in SUBSET Roles : IsDead(roles) => IsDead(roles)' ]_vars
  BY <1>1, <1>2
<1> QED
  BY <1>2, Invariance, PTL DEF Spec, DeadRolesStayDead

-----------------------------------------------------------------------------
(* Owners.                                                                  *)

(* Offers are current, in every reachable state.                            *)
THEOREM Offers == OwnableSpec => []OffersAreCurrent
<1>1. OwnableInit => OffersAreCurrent
  BY OwnableAssumption DEF OwnableInit, OffersAreCurrent, OwnableTypeOK, Addresses
<1>2. OffersAreCurrent /\ [OwnableNext]_ownableVars => OffersAreCurrent'
  <2> SUFFICES ASSUME OffersAreCurrent, [OwnableNext]_ownableVars
               PROVE  OffersAreCurrent'
    OBVIOUS
  <2> USE OwnableAssumption DEF OffersAreCurrent, OwnableTypeOK, Addresses
  <2>1. ASSUME NEW caller \in Owners, NEW new_owner \in Addresses,
               TransferOwnership(caller, new_owner)
        PROVE  OffersAreCurrent'
    BY <2>1 DEF TransferOwnership, only_owner
  <2>2. ASSUME NEW caller \in Owners, AcceptOwnership(caller)
        PROVE  OffersAreCurrent'
    BY <2>2 DEF AcceptOwnership, Install
  <2>3. ASSUME NEW caller \in Owners, RenounceOwnership(caller)
        PROVE  OffersAreCurrent'
    BY <2>3 DEF RenounceOwnership, Install
  <2>4. CASE UNCHANGED ownableVars
    BY <2>4 DEF ownableVars
  <2>5. QED
    BY <2>1, <2>2, <2>3, <2>4 DEF OwnableNext
<1>3. QED
  BY <1>1, <1>2, PTL DEF OwnableSpec

(* Every change of the owner is one the owner asked for: nobody accepts an  *)
(* offer of an earlier term, or once the contract was renounced.            *)
THEOREM Succession == OwnableSpec => SuccessionIsInvited
<1>1. OffersAreCurrent /\ [OwnableNext]_ownableVars
        => [owner' # owner => owner # ZERO /\ owner' \in {ZERO, named}]_ownableVars
  BY OwnableAssumption
  DEF OffersAreCurrent, OwnableNext, TransferOwnership, AcceptOwnership,
      RenounceOwnership, Install, only_owner, ownableVars
<1>2. QED
  BY <1>1, Offers, PTL DEF OwnableSpec, SuccessionIsInvited

-----------------------------------------------------------------------------
(* The vesting wallet.  What it counts as released is what it paid, and     *)
(* never more than had vested by then: so the subtraction in `releasable`   *)
(* does not wrap.  (Released, not paid: an owner may be the wallet itself,  *)
(* and what it is paid then vests once more.)                               *)
Assets == Vesting!Assets
Payees == Vesting!Payees

Paid(c) == SumOf([a \in Payees |-> received[a][c]])

Scheduled(allocation, done) ==
  /\ timestamp < start => done = 0
  /\ start <= timestamp /\ timestamp < start + duration =>
       done * duration <= allocation * (timestamp - start)

Accounted(c) ==
  /\ released[c] = Paid(c)
  /\ balance[c] + released[c] = paid_in[c] + received[Wallet][c]

WalletTypes ==
  /\ beneficiary \in Payees
  /\ start \in Starts /\ duration \in Durations /\ timestamp \in Nat
  /\ released \in [Assets -> 0..MaxU256] /\ balance \in [Assets -> Nat]
  /\ paid_in \in [Assets -> 0..MaxPaid]
  /\ received \in [Payees -> [Assets -> 0..MaxU256]]

WalletInv ==
  /\ WalletTypes
  /\ \A c \in Assets : Accounted(c) /\ Scheduled(balance[c] + released[c], released[c])

(* What the assumption says of the constants.                               *)
LEMMA WalletConstants ==
  /\ IsFiniteSet(Payees) /\ Wallet \in Payees /\ ZERO \in Payees /\ Beneficiaries \subseteq Payees
  /\ Starts \subseteq Nat /\ Durations \subseteq Nat
  /\ MaxU256 \in Nat /\ MaxPaid \in 0..MaxU256
<1>1. IsFiniteSet(Beneficiaries)
  BY InstancesAssumption DEF Vesting!VestingAssumption, Vesting!IsFiniteSet, IsFiniteSet
<1>2. IsFiniteSet(Beneficiaries \cup {ZERO, Wallet})
  <2>1. IsFiniteSet(Beneficiaries \cup {ZERO})
    BY <1>1, FS_AddElement
  <2>2. IsFiniteSet((Beneficiaries \cup {ZERO}) \cup {Wallet})
    BY <2>1, FS_AddElement
  <2>3. (Beneficiaries \cup {ZERO}) \cup {Wallet} = Beneficiaries \cup {ZERO, Wallet}
    OBVIOUS
  <2> QED
    BY <2>2, <2>3
<1> QED
  BY <1>2, InstancesAssumption DEF Vesting!VestingAssumption, Vesting!Payees, Payees

(* The wallet adds as this module does.                                     *)
LEMMA WalletAdds == \A f : Vesting!SumOf(f) = SumOf(f)
BY DEF Vesting!SumOf, Vesting!Units, Vesting!Cardinality, SumOf, Units, Cardinality

(* A quotient is the largest number within its bound.                       *)
LEMMA QuotientIsLargest ==
  ASSUME NEW n \in Nat, NEW d \in Nat \ {0}
  PROVE  /\ n \div d \in Nat /\ (n \div d) * d <= n
         /\ \A p \in Nat : p * d <= n => p <= n \div d
<1> DEFINE k == n \div d
<1>1. k \in Nat /\ n < k * d + d /\ k * d <= n
  OBVIOUS
<1> HIDE DEF k
<1>2. ASSUME NEW p \in Nat, p * d <= n, p >= k + 1 PROVE FALSE
  <2> DEFINE e == p - (k + 1)
  <2>1. e \in Nat /\ p = k + 1 + e
    BY <1>1, <1>2
  <2> HIDE DEF e
  <2>2. p * d = k * d + d + e * d /\ e * d \in Nat /\ k * d \in Nat
    BY <1>1, <2>1
  <2> QED
    BY <1>1, <1>2, <2>2
<1>3. \A p \in Nat : p * d <= n => p <= k
  BY <1>1, <1>2
<1> QED
  BY <1>1, <1>3 DEF k

(* What has vested is no less than what was released on schedule, no more   *)
(* than what there is, and on schedule if it is released.                   *)
LEMMA VestedIsOnSchedule ==
  ASSUME timestamp \in Nat, start \in Nat, duration \in Nat,
         NEW total \in Nat, NEW done \in Nat, done <= total, Scheduled(total, done)
  PROVE  /\ Vesting!Vested(total) \in Nat
         /\ done <= Vesting!Vested(total) /\ Vesting!Vested(total) <= total
         /\ Scheduled(total, Vesting!Vested(total))
<1> DEFINE v == Vesting!Vested(total)
           k == timestamp - start
<1>1. CASE timestamp < start
  BY <1>1 DEF Vesting!Vested, Scheduled
<1>2. CASE timestamp >= start + duration
  BY <1>2 DEF Vesting!Vested, Scheduled
<1>3. CASE start <= timestamp /\ timestamp < start + duration
  <2>1. k \in Nat /\ k < duration /\ duration \in Nat \ {0}
    BY <1>3
  <2>2. v = (total * k) \div duration
    BY <1>3 DEF Vesting!Vested
  <2>3. done * duration <= total * k
    BY <1>3 DEF Scheduled
  <2> HIDE DEF k, v
  <2> DEFINE n == total * k
  <2>4. n \in Nat
    BY <2>1
  <2>5. n <= total * duration
    <3> DEFINE e == duration - k
    <3>1. e \in Nat /\ duration = k + e
      BY <2>1
    <3> HIDE DEF e
    <3>2. total * duration = total * k + total * e /\ total * e \in Nat
      BY <2>1, <3>1
    <3> QED
      BY <2>4, <3>2
  <2> HIDE DEF n
  <2>6. v \in Nat /\ v * duration <= n /\ done <= v
    BY <2>1, <2>2, <2>3, <2>4, QuotientIsLargest DEF n
  <2>7. v <= total
    <3>1. ASSUME v >= total + 1 PROVE FALSE
      <4> DEFINE e == v - (total + 1)
      <4>1. e \in Nat /\ v = total + 1 + e
        BY <2>6, <3>1
      <4> HIDE DEF e
      <4>2. v * duration = total * duration + duration + e * duration
            /\ e * duration \in Nat /\ total * duration \in Nat
        BY <2>1, <4>1
      <4> QED
        BY <2>1, <2>4, <2>5, <2>6, <4>2
    <3> QED
      BY <2>6, <3>1
  <2> QED
    BY <1>3, <2>6, <2>7 DEF Scheduled, n, k, v
<1> QED
  BY <1>1, <1>2, <1>3

(* More in the wallet keeps what was released on schedule.                  *)
LEMMA MoreKeepsSchedule ==
  ASSUME timestamp \in Nat, start \in Nat, duration \in Nat,
         NEW total \in Nat, NEW more \in Nat, NEW done \in Nat,
         Scheduled(total, done)
  PROVE  Scheduled(total + more, done)
<1>1. CASE ~(start <= timestamp /\ timestamp < start + duration)
  BY <1>1 DEF Scheduled
<1>2. CASE start <= timestamp /\ timestamp < start + duration
  <2> DEFINE k == timestamp - start
  <2>1. k \in Nat /\ done * duration <= total * k
    BY <1>2 DEF Scheduled
  <2> HIDE DEF k
  <2>2. (total + more) * k = total * k + more * k /\ more * k \in Nat /\ total * k \in Nat
        /\ done * duration \in Nat
    BY <2>1
  <2>3. done * duration <= (total + more) * k
    BY <2>1, <2>2
  <2> QED
    BY <1>2, <2>3 DEF Scheduled, k
<1> QED
  BY <1>1, <1>2

-----------------------------------------------------------------------------
(* At first nothing was paid and nothing vests.                             *)
LEMMA WalletBegins == Vesting!Init => WalletInv
<1> SUFFICES ASSUME Vesting!Init PROVE WalletInv
  OBVIOUS
<1> USE DEF Vesting!Init, Assets, Payees
<1>1. WalletTypes
  BY WalletConstants DEF WalletTypes
<1>2. ASSUME NEW c \in Assets
      PROVE  Accounted(c) /\ Scheduled(balance[c] + released[c], released[c])
  <2>1. Paid(c) = 0
    <3>1. [a \in Payees |-> received[a][c]] = [a \in Payees |-> 0]
      BY <1>2
    <3> HIDE DEF Payees
    <3> QED
      BY <3>1, SumOfZero DEF Paid
  <2>2. Wallet \in Payees /\ duration \in Nat /\ start \in Nat
    BY WalletConstants
  <2> QED
    BY <1>2, <2>1, <2>2 DEF Accounted, Scheduled
<1> QED
  BY <1>1, <1>2 DEF WalletInv

(* The sums of a wallet, and what bounds them.                              *)
LEMMA WalletSums ==
  ASSUME WalletInv, NEW c \in Assets
  PROVE  /\ released[c] \in Nat /\ balance[c] \in Nat /\ paid_in[c] \in Nat
         /\ \A a \in Payees : received[a][c] \in Nat /\ received[a][c] <= released[c]
<1> DEFINE f == [a \in Payees |-> received[a][c]]
<1>1. /\ f \in [Payees -> 0..MaxU256] /\ released[c] = SumOf(f)
      /\ released[c] \in Nat /\ balance[c] \in Nat /\ paid_in[c] \in Nat
  BY WalletConstants DEF WalletInv, WalletTypes, Accounted, Paid
<1>2. \A a \in Payees : f[a] <= SumOf(f) /\ f[a] \in Nat
  <2> HIDE DEF f
  <2>1. \A a \in Payees : f[a] <= SumOf(f)
    BY <1>1, WalletConstants, SumOfBounds
  <2> QED
    BY <1>1, <2>1, WalletConstants
<1> QED
  BY <1>1, <1>2

(* What can be released is what has vested and was not released: nothing    *)
(* wraps, and no more than the balance.                                     *)
LEMMA ReleasableIsExact ==
  ASSUME WalletInv, NEW c \in Assets, Vesting!CanCompute(c)
  PROVE  LET total == balance[c] + released[c] IN
         /\ Vesting!Releasable(c) \in Nat
         /\ released[c] + Vesting!Releasable(c) = Vesting!Vested(total)
         /\ Vesting!Releasable(c) <= balance[c]
         /\ Scheduled(total, Vesting!Vested(total))
<1> DEFINE total == balance[c] + released[c]
           v == Vesting!Vested(total)
           r == released[c]
<1>1. /\ r \in Nat /\ balance[c] \in Nat /\ total \in Nat /\ r <= total
      /\ timestamp \in Nat /\ start \in Nat /\ duration \in Nat /\ Scheduled(total, r)
      /\ MaxU256 \in Nat
  BY WalletSums, WalletConstants DEF WalletInv, WalletTypes
<1>2. total <= MaxU256
  BY DEF Vesting!CanCompute, Vesting!Allocation
<1>3. Vesting!Releasable(c) = (v - r) % (MaxU256 + 1)
  BY DEF Vesting!Releasable, Vesting!Allocation
<1>4. total = balance[c] + r
  OBVIOUS
<1> HIDE DEF total, r
<1>5. v \in Nat /\ r <= v /\ v <= total /\ Scheduled(total, v)
  BY <1>1, VestedIsOnSchedule
<1> HIDE DEF v
<1>6. (v - r) % (MaxU256 + 1) = v - r
  BY <1>1, <1>2, <1>5
<1>7. /\ Vesting!Releasable(c) \in Nat /\ r + Vesting!Releasable(c) = v
      /\ Vesting!Releasable(c) <= balance[c]
  BY <1>1, <1>3, <1>4, <1>5, <1>6
<1> QED
  BY <1>5, <1>7 DEF total, r, v

(* A release pays the owner what it counts, and stays on schedule.          *)
LEMMA ReleaseKeeps ==
  ASSUME WalletInv, NEW c \in Assets, Vesting!Release(c)
  PROVE  WalletInv'
<1> DEFINE amount == Vesting!Releasable(c)
           total == balance[c] + released[c]
           S == Payees
           f == [a \in S |-> received[a][c]]
           g == [a \in S |-> received'[a][c]]
<1>1. /\ Vesting!CanRelease(c) /\ Vesting!CanCompute(c)
      /\ released[c] + amount <= MaxU256
      /\ released' = [released EXCEPT ![c] = @ + amount]
      /\ balance' = IF beneficiary = Wallet THEN balance
                    ELSE [balance EXCEPT ![c] = @ - amount]
      /\ received' = [received EXCEPT ![beneficiary][c] = @ + amount]
      /\ UNCHANGED <<beneficiary, start, duration, timestamp, paid_in>>
  BY DEF Vesting!Release, Vesting!CanRelease
<1>2. /\ amount \in Nat /\ amount <= balance[c]
      /\ released[c] + amount = Vesting!Vested(total)
      /\ Scheduled(total, Vesting!Vested(total))
  BY <1>1, ReleasableIsExact
<1> HIDE DEF amount
<1>3. /\ released \in [Assets -> 0..MaxU256] /\ balance \in [Assets -> Nat]
      /\ received \in [S -> [Assets -> 0..MaxU256]] /\ beneficiary \in S
      /\ MaxU256 \in Nat /\ IsFiniteSet(S) /\ Wallet \in S
      /\ timestamp \in Nat /\ start \in Nat /\ duration \in Nat
  BY WalletConstants DEF WalletInv, WalletTypes
<1>4. /\ \A d \in Assets : released[d] \in Nat /\ balance[d] \in Nat /\ paid_in[d] \in Nat
      /\ \A a \in S : received[a][c] \in Nat /\ received[a][c] <= released[c]
  BY WalletSums
<1> HIDE DEF S
<1>5. /\ released' \in [Assets -> 0..MaxU256] /\ released'[c] = released[c] + amount
      /\ \A d \in Assets \ {c} : released'[d] = released[d]
  BY <1>1, <1>2, <1>3, <1>4
<1>6. /\ balance' \in [Assets -> Nat]
      /\ balance'[c] = IF beneficiary = Wallet THEN balance[c] ELSE balance[c] - amount
      /\ \A d \in Assets \ {c} : balance'[d] = balance[d]
  BY <1>1, <1>2, <1>3, <1>4
<1>7. /\ received' \in [S -> [Assets -> 0..MaxU256]]
      /\ received'[beneficiary][c] = received[beneficiary][c] + amount
      /\ \A a \in S \ {beneficiary} : received'[a] = received[a]
      /\ \A a \in S : \A d \in Assets \ {c} : received'[a][d] = received[a][d]
  <2>1. received[beneficiary][c] + amount \in 0..MaxU256
    BY <1>1, <1>2, <1>3, <1>4
  <2> QED
    BY <1>1, <1>3, <2>1
<1>8. Accounted(c)'
  <2>1. released[c] = SumOf(f) /\ balance[c] + released[c] = paid_in[c] + received[Wallet][c]
    BY DEF WalletInv, Accounted, Paid, S
  <2>2. /\ f \in [S -> 0..MaxU256] /\ g \in [S -> 0..MaxU256]
        /\ g[beneficiary] = f[beneficiary] + amount
        /\ \A a \in S \ {beneficiary} : g[a] = f[a]
    BY <1>3, <1>7
  <2>3. f[beneficiary] \in Nat
    BY <1>3, <1>4
  <2> HIDE DEF f, g
  <2>4. SumOf(g) = SumOf(f) - f[beneficiary] + g[beneficiary] /\ SumOf(f) \in Nat
    <3> DEFINE x == beneficiary
    <3>1. SumOf(g) = SumOf(f) - f[x] + g[x]
      <4>1. /\ x \in S /\ IsFiniteSet(S) /\ MaxU256 \in Nat
            /\ f \in [S -> 0..MaxU256] /\ g \in [S -> 0..MaxU256]
            /\ \A a \in S \ {x} : g[a] = f[a]
        BY <1>3, <2>2
      <4> HIDE DEF x
      <4> QED
        BY <4>1, SumOfChange
    <3>2. SumOf(f) \in Nat
      BY <1>3, <2>2, SumOfType
    <3> QED
      BY <3>1, <3>2
  <2>5. released'[c] = SumOf(g)
    BY <1>2, <1>5, <2>1, <2>2, <2>3, <2>4
  <2>6. balance'[c] + released'[c] = paid_in'[c] + received'[Wallet][c]
    <3>1. paid_in' = paid_in
      BY <1>1
    <3>2. /\ amount \in Nat /\ balance[c] \in Nat /\ released[c] \in Nat
          /\ paid_in[c] \in Nat /\ received[Wallet][c] \in Nat
          /\ released'[c] = released[c] + amount
      BY <1>2, <1>3, <1>4, <1>5
    <3>3. CASE beneficiary = Wallet
      <4>1. balance'[c] = balance[c] /\ received'[Wallet][c] = received[Wallet][c] + amount
        BY <1>6, <1>7, <3>3
      <4> QED
        BY <2>1, <3>1, <3>2, <4>1
    <3>4. CASE beneficiary # Wallet
      <4>1. balance'[c] = balance[c] - amount /\ received'[Wallet][c] = received[Wallet][c]
        BY <1>3, <1>6, <1>7, <3>4
      <4> QED
        BY <2>1, <3>1, <3>2, <4>1
    <3> QED
      BY <3>3, <3>4
  <2> QED
    BY <2>5, <2>6 DEF Accounted, Paid, g, S
<1>9. Scheduled(balance[c] + released[c], released[c])'
  <2> DEFINE more == IF beneficiary = Wallet THEN amount ELSE 0
  <2>1. /\ balance'[c] + released'[c] = total + more /\ more \in Nat /\ total \in Nat
        /\ released'[c] \in Nat
    BY <1>2, <1>4, <1>5, <1>6
  <2>2. Scheduled(total, released'[c])
    BY <1>2, <1>5
  <2> HIDE DEF total, more
  <2>3. Scheduled(total + more, released'[c])
    BY <1>3, <2>1, <2>2, MoreKeepsSchedule
  <2> QED
    BY <1>1, <2>1, <2>3 DEF Scheduled
<1>10. ASSUME NEW d \in Assets, d # c
       PROVE  Accounted(d)' /\ Scheduled(balance[d] + released[d], released[d])'
  <2>1. /\ released'[d] = released[d] /\ balance'[d] = balance[d] /\ paid_in' = paid_in
        /\ received'[Wallet][d] = received[Wallet][d]
    BY <1>1, <1>3, <1>5, <1>6, <1>7, <1>10
  <2>2. Paid(d)' = Paid(d)
    <3>1. \A a \in S : received'[a][d] = received[a][d]
      BY <1>7, <1>10
    <3> QED
      BY <3>1 DEF Paid, S
  <2>3. Accounted(d) /\ Scheduled(balance[d] + released[d], released[d])
    BY DEF WalletInv
  <2> QED
    BY <1>1, <2>1, <2>2, <2>3 DEF Accounted, Scheduled
<1>11. WalletTypes'
  BY <1>1, <1>5, <1>6, <1>7 DEF WalletInv, WalletTypes, S
<1> QED
  BY <1>8, <1>9, <1>10, <1>11 DEF WalletInv

(* So does a payment to the wallet, which adds to what vests.               *)
LEMMA ReceiveKeeps ==
  ASSUME WalletInv, NEW c \in Assets, NEW amount \in 1..MaxPaid, Vesting!Receive(c, amount)
  PROVE  WalletInv'
<1>1. /\ paid_in[c] + amount <= MaxPaid
      /\ paid_in' = [paid_in EXCEPT ![c] = @ + amount]
      /\ balance' = [balance EXCEPT ![c] = @ + amount]
      /\ UNCHANGED <<beneficiary, start, duration, released, timestamp, received>>
  BY DEF Vesting!Receive
<1>2. /\ paid_in \in [Assets -> 0..MaxPaid] /\ balance \in [Assets -> Nat]
      /\ released \in [Assets -> 0..MaxU256] /\ MaxU256 \in Nat /\ MaxPaid \in Nat
      /\ timestamp \in Nat /\ start \in Nat /\ duration \in Nat /\ amount \in Nat
      /\ \A d \in Assets : released[d] \in Nat /\ balance[d] \in Nat /\ paid_in[d] \in Nat
      /\ received[Wallet][c] \in Nat
  BY WalletConstants, WalletSums DEF WalletInv, WalletTypes
<1>3. /\ paid_in' \in [Assets -> 0..MaxPaid] /\ balance' \in [Assets -> Nat]
      /\ paid_in'[c] = paid_in[c] + amount /\ balance'[c] = balance[c] + amount
      /\ \A d \in Assets \ {c} : paid_in'[d] = paid_in[d] /\ balance'[d] = balance[d]
  BY <1>1, <1>2
<1>4. WalletTypes'
  BY <1>1, <1>3 DEF WalletInv, WalletTypes
<1>5. \A d \in Assets : Accounted(d) /\ Scheduled(balance[d] + released[d], released[d])
  BY DEF WalletInv
<1>6. \A d \in Assets : Paid(d)' = Paid(d)
  BY <1>1 DEF Paid
<1>7. Accounted(c)' /\ Scheduled(balance[c] + released[c], released[c])'
  <2> DEFINE total == balance[c] + released[c]
  <2>1. balance'[c] + released[c] = total + amount /\ total \in Nat
    BY <1>2, <1>3
  <2>2. Accounted(c) /\ Scheduled(total, released[c])
    BY <1>5
  <2> HIDE DEF total
  <2>3. Scheduled(total + amount, released[c])
    BY <1>2, <2>1, <2>2, MoreKeepsSchedule
  <2>4. Scheduled(balance[c] + released[c], released[c])'
    BY <1>1, <2>1, <2>3 DEF Scheduled
  <2>5. Accounted(c)'
    BY <1>1, <1>2, <1>3, <1>6, <2>2 DEF Accounted
  <2> QED
    BY <2>4, <2>5
<1>8. ASSUME NEW d \in Assets, d # c
      PROVE  Accounted(d)' /\ Scheduled(balance[d] + released[d], released[d])'
  BY <1>1, <1>3, <1>5, <1>6, <1>8 DEF Accounted, Scheduled
<1> QED
  BY <1>4, <1>7, <1>8 DEF WalletInv

(* A later block has vested more; another owner is owed the same.           *)
LEMMA OthersKeep ==
  ASSUME WalletInv,
         UNCHANGED <<start, duration, released, balance, paid_in, received>>,
         beneficiary' \in Payees, timestamp' \in {timestamp, timestamp + 1}
  PROVE  WalletInv'
<1>1. /\ timestamp \in Nat /\ start \in Nat /\ duration \in Nat
      /\ \A d \in Assets : released[d] \in Nat /\ balance[d] \in Nat
  BY WalletConstants, WalletSums DEF WalletInv, WalletTypes
<1>2. WalletTypes'
  BY <1>1 DEF WalletInv, WalletTypes
<1>3. ASSUME NEW c \in Assets
      PROVE  Accounted(c)' /\ Scheduled(balance[c] + released[c], released[c])'
  <2> DEFINE total == balance[c] + released[c]
             r == released[c]
  <2>1. Accounted(c) /\ Scheduled(total, r) /\ total \in Nat /\ r \in Nat
    BY <1>1 DEF WalletInv
  <2>2. Accounted(c)'
    BY <2>1 DEF Accounted, Paid
  <2>3. total' = total /\ r' = r
    OBVIOUS
  <2> HIDE DEF total, r
  <2>4. timestamp' < start => r = 0
    BY <1>1, <2>1 DEF Scheduled
  <2>5. start <= timestamp' /\ timestamp' < start + duration =>
          r * duration <= total * (timestamp' - start)
    <3>1. CASE timestamp' = timestamp
      BY <2>1, <3>1 DEF Scheduled
    <3>2. CASE timestamp' = timestamp + 1 /\ timestamp < start
      <4>1. SUFFICES ASSUME start <= timestamp'
                     PROVE  r * duration <= total * (timestamp' - start)
        OBVIOUS
      <4>2. r = 0 /\ timestamp' - start = 0
        BY <1>1, <2>1, <3>2, <4>1 DEF Scheduled
      <4> QED
        BY <1>1, <2>1, <4>2
    <3>3. CASE timestamp' = timestamp + 1 /\ timestamp >= start
      <4> DEFINE k == timestamp - start
      <4>1. k \in Nat /\ timestamp' - start = k + 1
        BY <1>1, <3>3
      <4>2. timestamp' < start + duration => r * duration <= total * k
        BY <1>1, <2>1, <3>3 DEF Scheduled
      <4> HIDE DEF k
      <4>3. total * (k + 1) = total * k + total /\ total * k \in Nat /\ r * duration \in Nat
        BY <1>1, <2>1, <4>1
      <4>4. r * duration <= total * k => r * duration <= total * (k + 1)
        BY <2>1, <4>3
      <4> QED
        BY <4>1, <4>2, <4>4
    <3> QED
      BY <1>1, <3>1, <3>2, <3>3
  <2>6. Scheduled(total, r)'
    BY <2>3, <2>4, <2>5 DEF Scheduled
  <2> QED
    BY <2>2, <2>6 DEF total, r
<1> QED
  BY <1>2, <1>3 DEF WalletInv

(* What the invariant promises.                                             *)
LEMMA WalletInvImplies == WalletInv => VestingIsKept
<1> SUFFICES ASSUME WalletInv PROVE VestingIsKept
  OBVIOUS
<1>1. /\ timestamp \in Nat /\ start \in Nat /\ duration \in Nat
      /\ MaxU256 \in Nat /\ MaxPaid \in 0..MaxU256
  BY WalletConstants DEF WalletInv, WalletTypes
<1>2. Vesting!TypeOK
  <2>1. 0..MaxU256 \subseteq Nat /\ 0..MaxPaid \subseteq Nat
    BY <1>1
  <2> QED
    BY <1>1, <2>1 DEF WalletInv, WalletTypes, Vesting!TypeOK, Payees, Assets
<1>3. Vesting!ScheduleIsKept
  BY <1>2 DEF WalletInv, Scheduled, Vesting!ScheduleIsKept, Vesting!Allocation, Assets
<1>4. Vesting!EverythingIsAccounted
  <2>1. ASSUME NEW c \in Assets
        PROVE  /\ released[c] = Paid(c)
               /\ balance[c] + Paid(c) - received[Wallet][c] = paid_in[c]
    <3>1. released[c] = Paid(c) /\ balance[c] + released[c] = paid_in[c] + received[Wallet][c]
      BY DEF WalletInv, Accounted
    <3>2. /\ balance[c] \in Nat /\ released[c] \in Nat /\ paid_in[c] \in Nat
          /\ received[Wallet][c] \in Nat
      BY WalletSums, WalletConstants
    <3> QED
      BY <3>1, <3>2
  <2> QED
    BY <2>1, WalletAdds DEF Vesting!EverythingIsAccounted, Paid, Payees, Assets
<1>5. Vesting!MaturedIsReleasable
  <2>1. ASSUME NEW c \in Assets, timestamp >= start + duration,
               Vesting!CanReceive(beneficiary, c), received[Wallet][c] = 0
        PROVE  Vesting!CanRelease(c) /\ Vesting!Releasable(c) = balance[c]
    <3> DEFINE total == balance[c] + released[c]
               r == released[c]
               b == balance[c]
               m == Vesting!Releasable(c)
    <3>1. r \in Nat /\ b \in Nat /\ total = r + b /\ total <= MaxU256
      <4>1. total = paid_in[c] /\ paid_in[c] \in 0..MaxPaid
        BY <2>1, WalletSums DEF WalletInv, Accounted, WalletTypes
      <4> QED
        BY <1>1, <4>1, WalletSums
    <3>2. Vesting!CanCompute(c)
      BY <1>1, <2>1, <3>1
         DEF Vesting!CanCompute, Vesting!CanVest, Vesting!Allocation
    <3>3. m \in Nat /\ r + m = Vesting!Vested(total) /\ m <= b
      BY <3>2, ReleasableIsExact
    <3>4. Vesting!Vested(total) = total
      BY <1>1, <2>1 DEF Vesting!Vested
    <3> HIDE DEF total, r, b, m
    <3>5. m = b /\ r + m <= MaxU256
      BY <1>1, <3>1, <3>3, <3>4
    <3> QED
      BY <2>1, <3>2, <3>3, <3>5 DEF Vesting!CanRelease, r, b, m
  <2> QED
    BY <2>1 DEF Vesting!MaturedIsReleasable, Assets
<1> QED
  BY <1>3, <1>4, <1>5 DEF VestingIsKept, Vesting!VestingIsKept

(* A vesting wallet releases nothing ahead of its schedule, and accounts    *)
(* for all that was ever sent to it, however payments, releases and owners  *)
(* follow one another; what is left at the end can be released.             *)
THEOREM Vests == Vesting!Spec => []VestingIsKept
<1>1. WalletInv /\ [Vesting!Next]_(Vesting!vars) => WalletInv'
  <2> SUFFICES ASSUME WalletInv, [Vesting!Next]_(Vesting!vars) PROVE WalletInv'
    OBVIOUS
  <2>1. beneficiary \in Payees /\ timestamp \in Nat
    BY DEF WalletInv, WalletTypes
  <2>2. ASSUME NEW c \in Vesting!Assets, Vesting!Release(c)
        PROVE  WalletInv'
    BY <2>2, ReleaseKeeps DEF Assets
  <2>3. ASSUME NEW c \in Vesting!Assets, NEW amount \in 1..MaxPaid, Vesting!Receive(c, amount)
        PROVE  WalletInv'
    BY <2>3, ReceiveKeeps DEF Assets
  <2>4. ASSUME NEW caller, NEW new_owner \in Vesting!Payees,
               Vesting!TransferOwnership(caller, new_owner)
        PROVE  WalletInv'
    BY <2>1, <2>4, OthersKeep DEF Vesting!TransferOwnership, Payees
  <2>5. ASSUME NEW caller, Vesting!RenounceOwnership(caller)
        PROVE  WalletInv'
    BY <2>1, <2>5, WalletConstants, OthersKeep DEF Vesting!RenounceOwnership
  <2>6. CASE Vesting!Tick
    BY <2>1, <2>6, OthersKeep DEF Vesting!Tick
  <2>7. CASE UNCHANGED Vesting!vars
    BY <2>1, <2>7, OthersKeep DEF Vesting!vars
  <2> QED
    BY <2>2, <2>3, <2>4, <2>5, <2>6, <2>7 DEF Vesting!Next
<1> QED
  BY <1>1, WalletBegins, WalletInvImplies, PTL DEF Vesting!Spec

-----------------------------------------------------------------------------
(* Proxies.  A transaction may be undone to the storage it began with, so   *)
(* the invariant speaks of both, and of the upgrades under way.             *)
Contexts == Uups!Contexts
Codes    == Contexts \cup Strangers \cup {BEACON}

Holds(s, of, a) ==  \* `a` has code, in the storage s
  \/ a \in Logics \cup Strangers \cup {BEACON}
  \/ a \in Proxies /\ s[a].implementation # ZERO
  \/ a \in BeaconProxies /\ of[a] # ZERO

(* What points at a contract points at code.                                *)
Linked(s, b, of) ==
  /\ Holds(s, of, b.implementation)
  /\ \A p \in Proxies :
       s[p].implementation # ZERO => Holds(s, of, s[p].implementation)
  /\ \A p \in BeaconProxies : of[p] \in Proxies => s[of[p]].implementation # ZERO

(* Logic contracts are as they were deployed, and nothing else has the flag *)
(* of one; a beacon proxy has no implementation of its own.                 *)
Kinds(s) ==
  /\ s \in Uups!Storages
  /\ \A c \in Contexts : s[c].logic_flag <=> c \in Logics
  /\ \A l \in Logics : s[l].version = 0
  /\ \A c \in Logics \cup BeaconProxies : s[c].implementation = ZERO

(* A proxy whose version was ever set runs that version.                    *)
Settled(s, p) ==
  s[p].version # 0 =>
    /\ s[p].implementation \in Logics
    /\ s[p].version = VERSION_NUMBER[s[p].implementation]

Committed(s, b, of) ==
  Kinds(s) /\ Linked(s, b, of) /\ \A p \in Proxies : Settled(s, p)

Frames == [ kind : {"proxy", "beacon", "upgrade"}, context : Contexts,
            sender : Senders, code : Codes, data : BOOLEAN, target : Codes,
            before : Uups!Storages ]

(* Upgrades under way: those that wait were entered with the version of     *)
(* their own code, and versions only rise; once the innermost has set its   *)
(* version, none that waits can set a later one.                            *)
Upgrading(s, k) ==
  LET here == s[k[1].context]
      last == k[Len(k)]
  IN  /\ k[1].context \in Proxies /\ here.implementation \in Logics
      /\ \A i \in 1..Len(k) : k[i].kind = "upgrade" /\ k[i].code \in Logics
      /\ \A i \in 1..Len(k) - 1 : VERSION_NUMBER[k[i].code] <= here.version
      /\ \/ here.implementation = last.code
         \/ /\ ~last.data /\ VERSION_NUMBER[here.implementation] = here.version
            /\ VERSION_NUMBER[last.code] <= here.version

(* A construction under way has only one call to make.                      *)
Constructing(s, k) ==
  /\ Len(k) = 1 /\ k[1].kind = "proxy" /\ k[1].context \in Proxies
  /\ s[k[1].context].implementation = k[1].code
  /\ k[1].data => s[k[1].context].version = 0
  /\ Settled(s, k[1].context)

ConstructingBeacon(s, k) ==
  /\ Len(k) = 1 /\ k[1].kind = "beacon" /\ k[1].context \in BeaconProxies
  /\ k[1].target \in {BEACON} \cup Proxies
  /\ k[1].target \in Proxies => s[k[1].target].implementation # ZERO

UnderWay(s, k, b, of) ==
  /\ Committed(k[1].before, b, of)
  /\ \A i \in 1..Len(k) :
       k[i].context = k[1].context /\ (i < Len(k) => ~k[i].data)
  /\ \A p \in Proxies : p # k[1].context => Settled(s, p)
  /\ Upgrading(s, k) \/ Constructing(s, k) \/ ConstructingBeacon(s, k)

Standing(s, k, b, of) ==
  IF k = <<>> THEN \A p \in Proxies : Settled(s, p) ELSE UnderWay(s, k, b, of)

ProxyInv ==
  /\ Kinds(stored) /\ Linked(stored, beacon, beacon_of)
  /\ beacon \in [implementation : Codes, owner : Senders \cup {ZERO}]
  /\ beacon_of \in [BeaconProxies -> {ZERO, BEACON} \cup Proxies]
  /\ stack \in Seq(Frames) /\ Len(stack) <= MaxDepth
  /\ Standing(stored, stack, beacon, beacon_of)

(* What the assumption says of the constants.                               *)
LEMMA ProxyConstants ==
  /\ ZERO \notin Senders \cup Codes /\ MaxDepth \in Nat
  /\ VERSION_NUMBER \in [Logics -> Nat \ {0}]
  /\ Contexts = Logics \cup Proxies \cup BeaconProxies
  /\ Logics \cap (Strangers \cup Proxies \cup BeaconProxies) = {}
  /\ Proxies \cap (Strangers \cup BeaconProxies) = {}
  /\ BeaconProxies \cap Strangers = {}
  /\ BEACON \notin Proxies \cup BeaconProxies
BY InstancesAssumption DEF Uups!ProxyAssumption, Uups!Contexts, Contexts, Codes

(* The parts of a context's storage.                                        *)
LEMMA StorageTypes ==
  ASSUME NEW s \in Uups!Storages, NEW c \in Contexts
  PROVE  /\ s[c].implementation \in {ZERO} \cup Logics \cup Strangers \cup Proxies
         /\ s[c].version \in Nat /\ s[c].logic_flag \in BOOLEAN
         /\ s[c].owner \in Senders \cup {ZERO}
BY DEF Uups!Storages, Uups!Implementations, Uups!Contexts, Contexts

(* A storage in which one context was written.                              *)
Written(s, t, c, implementation, version) ==
  /\ t \in Uups!Storages
  /\ t[c].implementation = implementation /\ t[c].version = version
  /\ t[c].logic_flag = s[c].logic_flag
  /\ \A d \in Contexts : d # c => t[d] = s[d]

(* An implementation written.                                               *)
LEMMA ImplementationIsWritten ==
  ASSUME NEW s \in Uups!Storages, NEW c \in Contexts,
         NEW code \in Logics \cup Strangers \cup Proxies
  PROVE  Written(s, [s EXCEPT ![c].implementation = code], c, code, s[c].version)
<1> DEFINE t == [s EXCEPT ![c].implementation = code]
<1>1. /\ t \in Uups!Storages /\ t[c].implementation = code
      /\ t[c].version = s[c].version /\ t[c].logic_flag = s[c].logic_flag
  BY DEF Uups!Storages, Uups!Implementations, Uups!Contexts, Contexts
<1>2. \A d \in Contexts : d # c => t[d] = s[d]
  BY DEF Uups!Storages, Uups!Contexts, Contexts
<1> QED
  BY <1>1, <1>2 DEF Written

(* A version written, and an owner, or both.                                *)
LEMMA VersionIsWritten ==
  ASSUME NEW s \in Uups!Storages, NEW c \in Contexts, NEW v \in Nat,
         NEW owner_ \in Senders \cup {ZERO}
  PROVE  /\ Written(s, [s EXCEPT ![c].version = v], c, s[c].implementation, v)
         /\ Written(s, [s EXCEPT ![c].version = v, ![c].owner = owner_], c,
                    s[c].implementation, v)
         /\ Written(s, [s EXCEPT ![c].owner = owner_], c,
                    s[c].implementation, s[c].version)
<1> USE DEF Uups!Storages, Uups!Contexts, Contexts
<1>1. Written(s, [s EXCEPT ![c].version = v], c, s[c].implementation, v)
  BY DEF Written
<1>2. Written(s, [s EXCEPT ![c].version = v, ![c].owner = owner_], c,
              s[c].implementation, v)
  BY DEF Written
<1>3. Written(s, [s EXCEPT ![c].owner = owner_], c, s[c].implementation, s[c].version)
  BY DEF Written
<1> QED
  BY <1>1, <1>2, <1>3

(* Code stays where it is, as long as no implementation is taken away.      *)
LEMMA HoldsOn ==
  ASSUME NEW s, NEW t, NEW of, NEW of2, NEW a, Holds(s, of, a),
         \A p \in Proxies : s[p].implementation # ZERO => t[p].implementation # ZERO,
         \A p \in BeaconProxies : of[p] # ZERO => of2[p] # ZERO
  PROVE  Holds(t, of2, a)
BY DEF Holds

(* So writing an implementation that has code keeps the links, and writing  *)
(* anything else keeps what it is.                                          *)
LEMMA WrittenKeepsLinks ==
  ASSUME NEW s, NEW t, NEW b, NEW of, NEW c \in Contexts, NEW code, NEW v,
         Kinds(s), Linked(s, b, of), Written(s, t, c, code, v),
         \/ code = s[c].implementation
         \/ c \in Proxies /\ code # ZERO /\ Holds(s, of, code)
  PROVE  Linked(t, b, of)
<1>1. \A p \in Proxies : s[p].implementation # ZERO => t[p].implementation # ZERO
  BY ProxyConstants DEF Written
<1>2. \A a : Holds(s, of, a) => Holds(t, of, a)
  BY <1>1, HoldsOn
<1>3. Holds(t, of, b.implementation)
  BY <1>2 DEF Linked
<1>4. \A p \in Proxies : t[p].implementation # ZERO => Holds(t, of, t[p].implementation)
  BY <1>2, ProxyConstants DEF Linked, Written
<1>5. \A p \in BeaconProxies : of[p] \in Proxies => t[of[p]].implementation # ZERO
  BY <1>1 DEF Linked
<1> QED
  BY <1>3, <1>4, <1>5 DEF Linked

(* Contexts keep their kind when what is written is a proxy's, or no logic  *)
(* contract's version.                                                      *)
LEMMA WrittenKeepsKinds ==
  ASSUME NEW s, NEW t, NEW c \in Contexts, NEW code, NEW v,
         Kinds(s), Written(s, t, c, code, v),
         code = s[c].implementation \/ c \in Proxies,
         c \in Logics => v = s[c].version
  PROVE  Kinds(t)
BY ProxyConstants DEF Kinds, Written

(* A settled proxy that nothing was written to is settled.                  *)
LEMMA WrittenKeepsSettled ==
  ASSUME NEW s, NEW t, NEW c \in Contexts, NEW code, NEW v,
         Written(s, t, c, code, v), NEW p \in Proxies, p # c, Settled(s, p)
  PROVE  Settled(t, p)
BY ProxyConstants DEF Written, Settled

-----------------------------------------------------------------------------
(* The module's HasCode, of the storage there is.                           *)
LEMMA HasCodeHolds == \A a : Uups!HasCode(a) <=> Holds(stored, beacon_of, a)
BY DEF Uups!HasCode, Holds

(* The call that goes with an upgrade is made once.                         *)
LEMMA ServedOnce ==
  ASSUME NEW k \in Seq(Frames), k # <<>>
  PROVE  LET n == Len(k)
             r == [k EXCEPT ![n].data = FALSE]
         IN  /\ n \in Nat /\ n >= 1 /\ r \in Seq(Frames) /\ Len(r) = n
             /\ \A i \in 1..n - 1 : r[i] = k[i]
             /\ ~r[n].data
             /\ r[n].kind = k[n].kind /\ r[n].context = k[n].context
             /\ r[n].code = k[n].code /\ r[n].target = k[n].target
             /\ r[n].before = k[n].before
<1> DEFINE n == Len(k)
           r == [k EXCEPT ![n].data = FALSE]
<1>1. n \in Nat /\ n >= 1 /\ n \in 1..n /\ k[n] \in Frames
  OBVIOUS
<1> DEFINE e == [k[n] EXCEPT !.data = FALSE]
<1>2. /\ e \in Frames /\ ~e.data /\ e.kind = k[n].kind /\ e.context = k[n].context
      /\ e.code = k[n].code /\ e.target = k[n].target /\ e.before = k[n].before
  BY <1>1 DEF Frames
<1>3. r = [k EXCEPT ![n] = e]
  OBVIOUS
<1> HIDE DEF e, n
<1>4. /\ r \in Seq(Frames) /\ Len(r) = n
      /\ \A i \in 1..n : r[i] = IF i = n THEN e ELSE k[i]
  <2>1. /\ [k EXCEPT ![n] = e] \in Seq(Frames) /\ Len([k EXCEPT ![n] = e]) = Len(k)
        /\ \A i \in 1..Len(k) : [k EXCEPT ![n] = e][i] = IF i = n THEN e ELSE k[i]
    <3>1. n \in 1..Len(k)
      BY <1>1 DEF n
    <3> HIDE DEF r
    <3> QED
      BY <3>1, <1>2, ExceptSeq
  <2> HIDE DEF r
  <2> QED
    BY <2>1, <1>3 DEF n
<1> HIDE DEF r
<1>5. r[n] = e /\ \A i \in 1..n - 1 : r[i] = k[i]
  BY <1>1, <1>4
<1>6. /\ n \in Nat /\ n >= 1 /\ r \in Seq(Frames) /\ Len(r) = n
      /\ \A i \in 1..n - 1 : r[i] = k[i]
      /\ ~r[n].data
      /\ r[n].kind = k[n].kind /\ r[n].context = k[n].context
      /\ r[n].code = k[n].code /\ r[n].target = k[n].target
      /\ r[n].before = k[n].before
  BY <1>1, <1>2, <1>4, <1>5
<1> QED
  BY <1>6 DEF n, r

(* So do the rest of the frames stay what they are.                         *)
SameCalls(k, r) ==
  /\ r \in Seq(Frames) /\ Len(r) = Len(k)
  /\ \A i \in 1..Len(k) :
       /\ r[i].kind = k[i].kind /\ r[i].context = k[i].context
       /\ r[i].code = k[i].code /\ r[i].target = k[i].target
       /\ r[i].before = k[i].before

(* A call that was made leaves the stack as it was, but that the frame on   *)
(* its top has nothing left to call.                                        *)
LEMMA ServedStack ==
  ASSUME stack \in Seq(Frames), stack # <<>>
  PROVE  /\ Len(stack) \in Nat /\ Len(stack) >= 1
         /\ SameCalls(stack, Uups!Served)
         /\ ~Uups!Served[Len(stack)].data
         /\ \A i \in 1..Len(stack) - 1 : Uups!Served[i] = stack[i]
<1> DEFINE n == Len(stack)
           r == [stack EXCEPT ![n].data = FALSE]
<1>1. r = Uups!Served
  BY DEF Uups!Served
<1>2. /\ n \in Nat /\ n >= 1 /\ r \in Seq(Frames) /\ Len(r) = n
      /\ \A i \in 1..n - 1 : r[i] = stack[i]
      /\ ~r[n].data
      /\ r[n].kind = stack[n].kind /\ r[n].context = stack[n].context
      /\ r[n].code = stack[n].code /\ r[n].target = stack[n].target
      /\ r[n].before = stack[n].before
  BY ServedOnce
<1> HIDE DEF r
<1>3. ASSUME NEW i \in 1..n
      PROVE  /\ r[i].kind = stack[i].kind /\ r[i].context = stack[i].context
             /\ r[i].code = stack[i].code /\ r[i].target = stack[i].target
             /\ r[i].before = stack[i].before
  <2> HIDE DEF n
  <2>1. CASE i = n
    BY <2>1, <1>2
  <2>2. CASE i # n
    <3>1. i \in 1..n - 1
      BY <2>2, <1>2
    <3> QED
      BY <3>1, <1>2
  <2> QED
    BY <2>1, <2>2
<1> QED
  BY <1>1, <1>2, <1>3 DEF SameCalls

(* Who is calling what: anybody a contract, or the innermost upgrade or     *)
(* construction the code it brings.                                         *)
Turn(code, context) ==
  /\ context \in Contexts
  /\ stack = <<>> => code = Uups!CodeOf(context)
  /\ stack # <<>> => /\ stack[Len(stack)].data
                     /\ code = stack[Len(stack)].code
                     /\ context = stack[Len(stack)].context

(* Whoever may call has its turn: what runs is what its context holds, or   *)
(* what the frame on the top of the stack runs.                             *)
LEMMA TurnsAreTurns ==
  ASSUME ProxyInv, NEW turn \in Uups!Turns
  PROVE  Turn(turn[1], turn[2]) /\ turn[3] \in Senders
<1>1. CASE stack = <<>>
  BY <1>1 DEF Uups!Turns, Turn, Contexts
<1>2. CASE stack # <<>>
  <2>1. Len(stack) \in 1..Len(stack) /\ stack[Len(stack)] \in Frames
    BY <1>2 DEF ProxyInv
  <2>2. stack[Len(stack)].context \in Contexts /\ stack[Len(stack)].sender \in Senders
    BY <2>1 DEF Frames
  <2>3. /\ stack[Len(stack)].data
        /\ turn = << stack[Len(stack)].code, stack[Len(stack)].context,
                     stack[Len(stack)].sender >>
    BY <1>2 DEF Uups!Turns, Uups!Top
  <2> QED
    BY <1>2, <2>2, <2>3 DEF Turn
<1> QED
  BY <1>1, <1>2

(* What a step of the proxies may do to the versions and implementations.   *)
Forward ==
  \A p \in Proxies :
    /\ stored'[p].version >= stored[p].version
    /\ stored[p].implementation # ZERO
         => stored'[p].implementation \in {stored[p].implementation} \cup Logics

(* A write that lowers no version, and leaves the implementation, or makes  *)
(* it a logic contract, or is the first, goes forward.                      *)
LEMMA WrittenGoesForward ==
  ASSUME ProxyInv, NEW c \in Contexts, NEW code, NEW v \in Nat,
         Written(stored, stored', c, code, v), v >= stored[c].version,
         \/ code \in {stored[c].implementation} \cup Logics
         \/ stored[c].implementation = ZERO
  PROVE  Forward
<1> SUFFICES ASSUME NEW p \in Proxies
             PROVE  /\ stored'[p].version >= stored[p].version
                    /\ stored[p].implementation # ZERO
                         => stored'[p].implementation
                              \in {stored[p].implementation} \cup Logics
  BY DEF Forward
<1>1. p \in Contexts /\ stored[p].version \in Nat
  BY StorageTypes, ProxyConstants DEF ProxyInv, Kinds
<1>2. CASE p = c
  BY <1>2 DEF Written
<1>3. CASE p # c
  BY <1>1, <1>3 DEF Written
<1> QED
  BY <1>2, <1>3

(* A call that changes no implementation and sets no version but that of    *)
(* its code, no lower than it was.                                          *)
LEMMA CallIsMade ==
  ASSUME ProxyInv, NEW code, NEW c, Turn(code, c), NEW v \in Nat,
         Written(stored, stored', c, stored[c].implementation, v),
         \/ v = stored[c].version
         \/ /\ c \notin Logics /\ code \in Logics
            /\ v = VERSION_NUMBER[code] /\ stored[c].version <= v,
         stack' = Uups!Served, beacon' = beacon, beacon_of' = beacon_of
  PROVE  ProxyInv' /\ Forward
<1>1. /\ c \in Contexts /\ stored \in Uups!Storages /\ stored[c].version \in Nat
      /\ Kinds(stored) /\ Linked(stored, beacon, beacon_of)
  BY StorageTypes DEF Turn, ProxyInv, Kinds
<1>2. Kinds(stored')
  BY <1>1, WrittenKeepsKinds
<1>3. Linked(stored', beacon, beacon_of)
  BY <1>1, WrittenKeepsLinks
<1>4. Forward
  BY <1>1, WrittenGoesForward
<1>5. stored'[c].implementation = stored[c].implementation /\ stored'[c].version = v
  BY DEF Written
<1>6. \A p \in Proxies : p # c /\ Settled(stored, p) => Settled(stored', p)
  BY <1>1, WrittenKeepsSettled
<1>7. code \in Logics /\ code = stored[c].implementation /\ Settled(stored, c) => Settled(stored', c)
  BY <1>5 DEF Settled
<1>8. CASE stack = <<>>
  <2>1. stack' = <<>>
    BY <1>8 DEF Uups!Served
  <2>2. \A p \in Proxies : Settled(stored, p)
    BY <1>8 DEF ProxyInv, Standing
  <2>3. c \in Proxies => code = stored[c].implementation
    BY <1>8, ProxyConstants DEF Turn, Uups!CodeOf
  <2>4. c \in Proxies => Settled(stored', c)
    <3>1. CASE v = stored[c].version
      BY <3>1, <2>2, <1>5 DEF Settled
    <3>2. CASE code \in Logics
      BY <3>2, <2>2, <2>3, <1>7
    <3> QED
      BY <3>1, <3>2
  <2>5. \A p \in Proxies : Settled(stored', p)
    BY <2>2, <2>4, <1>6
  <2>6. Standing(stored', stack', beacon', beacon_of')
    BY <2>1, <2>5 DEF Standing
  <2>7. stack' \in Seq(Frames) /\ Len(stack') <= MaxDepth
    BY <2>1, ProxyConstants
  <2> QED
    BY <1>2, <1>3, <1>4, <2>6, <2>7 DEF ProxyInv
<1>9. CASE stack # <<>>
  <2> DEFINE n == Len(stack)
             r == Uups!Served
  <2>1. /\ n \in Nat /\ n >= 1 /\ SameCalls(stack, r) /\ ~r[n].data
        /\ \A i \in 1..n - 1 : r[i] = stack[i]
    BY <1>9, ServedStack DEF ProxyInv
  <2>2. /\ r \in Seq(Frames) /\ Len(r) = n /\ n <= MaxDepth /\ r # <<>>
        /\ 1 \in 1..n /\ n \in 1..n
    BY <2>1 DEF SameCalls, ProxyInv
  <2>3. UnderWay(stored, stack, beacon, beacon_of)
    BY <1>9 DEF ProxyInv, Standing
  <2>4. stack[n].data /\ code = stack[n].code /\ c = stack[n].context
    BY <1>9 DEF Turn
  <2>5. c = stack[1].context /\ c = r[1].context
    BY <2>1, <2>2, <2>3, <2>4 DEF UnderWay, SameCalls
  <2> HIDE DEF r
  <2>6. /\ Committed(r[1].before, beacon, beacon_of)
        /\ \A i \in 1..Len(r) : r[i].context = r[1].context /\ (i < Len(r) => ~r[i].data)
    <3>1. r[1].before = stack[1].before
      BY <2>1, <2>2 DEF SameCalls
    <3>2. ASSUME NEW i \in 1..Len(r)
          PROVE  r[i].context = r[1].context /\ (i < Len(r) => ~r[i].data)
      <4>1. r[i].context = stack[i].context /\ stack[i].context = stack[1].context
        BY <2>1, <2>2, <2>3 DEF SameCalls, UnderWay
      <4>2. ASSUME i < Len(r)
            PROVE  ~r[i].data
        <5>1. i \in 1..n - 1
          BY <2>2, <4>2
        <5> QED
          BY <5>1, <4>2, <2>1, <2>2, <2>3 DEF UnderWay
      <4> QED
        BY <4>1, <4>2, <2>5
    <3> QED
      BY <3>1, <3>2, <2>3 DEF UnderWay
  <2>7. \A p \in Proxies : p # r[1].context => Settled(stored', p)
    BY <2>3, <2>5, <1>6 DEF UnderWay
  <2>8. ASSUME Upgrading(stored, stack)
        PROVE  Upgrading(stored', r)
    <3>1. c \in Proxies /\ stored'[c].implementation \in Logics
      BY <2>8, <2>5, <1>5 DEF Upgrading
    <3>2. \A i \in 1..Len(r) : r[i].kind = "upgrade" /\ r[i].code \in Logics
      BY <2>8, <2>1, <2>2 DEF Upgrading, SameCalls
    <3>3. ASSUME NEW i \in 1..Len(r) - 1
          PROVE  VERSION_NUMBER[r[i].code] <= stored'[c].version
      <4>1. i \in 1..n - 1 /\ i \in 1..n
        BY <2>2
      <4>2. VERSION_NUMBER[stack[i].code] <= stored[c].version /\ stack[i].code \in Logics
        BY <4>1, <2>8, <2>5 DEF Upgrading
      <4>3. r[i] = stack[i]
        BY <4>1, <2>1
      <4>4. VERSION_NUMBER[stack[i].code] \in Nat
        BY <4>2, ProxyConstants
      <4>5. stored[c].version <= stored'[c].version /\ stored'[c].version \in Nat
        BY <1>1, <1>5
      <4> QED
        BY <4>2, <4>3, <4>4, <4>5, <1>1
    <3>4. stored[c].implementation = stack[n].code
      BY <2>8, <2>4, <2>5 DEF Upgrading
    <3>5. stored'[c].implementation = r[Len(r)].code
      BY <3>4, <1>5, <2>1, <2>2 DEF SameCalls
    <3> QED
      BY <3>1, <3>2, <3>3, <3>5, <2>5 DEF Upgrading
  <2>9. ASSUME Constructing(stored, stack)
        PROVE  Constructing(stored', r)
    <3>1. n = 1 /\ c \in Proxies /\ code = stored[c].implementation /\ Settled(stored, c)
      BY <2>9, <2>4, <2>5 DEF Constructing
    <3>2. Settled(stored', c)
      <4>1. CASE v = stored[c].version
        BY <4>1, <3>1, <1>5 DEF Settled
      <4>2. CASE code \in Logics
        BY <4>2, <3>1, <1>7
      <4> QED
        BY <4>1, <4>2
    <3>3. r[1].kind = "proxy" /\ r[1].code = code /\ ~r[1].data
      BY <2>9, <2>1, <2>2, <2>4, <3>1 DEF Constructing, SameCalls
    <3> QED
      BY <3>1, <3>2, <3>3, <2>2, <2>5, <1>5 DEF Constructing
  <2>10. ASSUME ConstructingBeacon(stored, stack)
         PROVE  ConstructingBeacon(stored', r)
    <3>1. /\ r[1].kind = "beacon" /\ r[1].target = stack[1].target /\ Len(r) = 1
          /\ r[1].context \in BeaconProxies /\ r[1].target \in {BEACON} \cup Proxies
      BY <2>10, <2>1, <2>2 DEF ConstructingBeacon, SameCalls
    <3>2. ASSUME r[1].target \in Proxies
          PROVE  stored'[r[1].target].implementation # ZERO
      <4>1. stored[r[1].target].implementation # ZERO
        BY <3>1, <3>2, <2>10 DEF ConstructingBeacon
      <4> QED
        BY <4>1, <3>2, <1>5, ProxyConstants DEF Written
    <3> QED
      BY <3>1, <3>2 DEF ConstructingBeacon
  <2>11. UnderWay(stored', r, beacon, beacon_of)
    BY <2>3, <2>6, <2>7, <2>8, <2>9, <2>10 DEF UnderWay
  <2>12. stack' = r
    BY DEF r
  <2>13. Standing(stored', stack', beacon', beacon_of')
    BY <2>2, <2>11, <2>12 DEF Standing
  <2>14. stack' \in Seq(Frames) /\ Len(stack') <= MaxDepth
    BY <2>2, <2>12
  <2> QED
    BY <1>2, <1>3, <1>4, <2>13, <2>14 DEF ProxyInv
<1> QED
  BY <1>8, <1>9

(* set_version, initialize and the calls of Ownable keep the invariant, and *)
(* no version goes back.                                                    *)
LEMMA CallsKeep ==
  ASSUME ProxyInv, NEW code \in Logics, NEW c, NEW sender, Turn(code, c), sender \in Senders,
         \/ Uups!SetVersion(code, c)
         \/ \E owner_ \in Senders \cup {ZERO} :
              Uups!Initialize(code, c, owner_) \/ Uups!Own(c, sender, owner_),
         stack' = Uups!Served, beacon' = beacon, beacon_of' = beacon_of
  PROVE  ProxyInv' /\ Forward
<1>1. /\ c \in Contexts /\ stored \in Uups!Storages /\ stored[c].version \in Nat
      /\ VERSION_NUMBER[code] \in Nat
  BY StorageTypes, ProxyConstants DEF Turn, ProxyInv, Kinds
<1>2. stored[c].owner \in Senders \cup {ZERO}
  BY <1>1, StorageTypes
<1> DEFINE v == VERSION_NUMBER[code]
           implementation == stored[c].implementation
<1>3. ASSUME stored[c].version <= v, ~Uups!not_delegated(c),
             Written(stored, stored', c, implementation, v)
      PROVE  ProxyInv' /\ Forward
  <2>1. c \notin Logics
    BY <1>1, <1>3 DEF Uups!not_delegated, ProxyInv, Kinds
  <2> QED
    BY <2>1, <1>1, <1>3, CallIsMade
<1>4. CASE Uups!SetVersion(code, c)
  <2>1. Written(stored, stored', c, implementation, v)
    BY <1>1, <1>2, <1>4, VersionIsWritten DEF Uups!SetVersion
  <2> QED
    BY <2>1, <1>3, <1>4 DEF Uups!SetVersion
<1>5. ASSUME NEW owner_ \in Senders \cup {ZERO}, Uups!Initialize(code, c, owner_)
      PROVE  ProxyInv' /\ Forward
  <2>1. Written(stored, stored', c, implementation, v)
    BY <1>1, <1>5, VersionIsWritten DEF Uups!Initialize
  <2> QED
    BY <2>1, <1>3, <1>5 DEF Uups!Initialize
<1>6. ASSUME NEW owner_ \in Senders \cup {ZERO}, Uups!Own(c, sender, owner_)
      PROVE  ProxyInv' /\ Forward
  <2>1. Written(stored, stored', c, implementation, stored[c].version)
    BY <1>1, <1>6, VersionIsWritten DEF Uups!Own
  <2> QED
    BY <2>1, <1>1, CallIsMade
<1> QED
  BY <1>4, <1>5, <1>6

(* So does the call of a setup that touches none of what is modelled.       *)
LEMMA OtherCallKeeps ==
  ASSUME ProxyInv, Uups!OtherCall
  PROVE  ProxyInv' /\ Forward
<1> DEFINE c == stack[Len(stack)].context
<1>1. Len(stack) \in 1..Len(stack) /\ stack[Len(stack)] \in Frames /\ stack # <<>>
  BY DEF ProxyInv, Uups!OtherCall
<1>2. c \in Contexts
  BY <1>1 DEF Frames
<1>3. Turn(stack[Len(stack)].code, c)
  BY <1>1, <1>2 DEF Uups!OtherCall, Uups!Top, Turn
<1>4. stored[c].version \in Nat /\ stored \in Uups!Storages /\ stored' = stored
  BY <1>2, StorageTypes DEF ProxyInv, Kinds, Uups!OtherCall
<1>5. Written(stored, stored', c, stored[c].implementation, stored[c].version)
  BY <1>4 DEF Written
<1>6. stack' = Uups!Served /\ beacon' = beacon /\ beacon_of' = beacon_of
  BY DEF Uups!OtherCall
<1> HIDE DEF c
<1> QED
  BY <1>3, <1>4, <1>5, <1>6, CallIsMade

(* An upgrade or a construction that is begun.                              *)
LEMMA EnteredFrame ==
  ASSUME ProxyInv, NEW kind \in {"proxy", "beacon", "upgrade"}, NEW c \in Contexts,
         NEW sender \in Senders, NEW code \in Codes, NEW data \in BOOLEAN,
         NEW target \in Codes, Uups!Enter(kind, c, sender, code, data, target)
  PROVE  /\ Len(stack') = Len(stack) + 1 /\ stack' \in Seq(Frames)
         /\ Len(stack') <= MaxDepth /\ stack' # <<>> /\ Len(stack) \in Nat
         /\ \A i \in 1..Len(stack) : stack'[i] = Uups!Served[i]
         /\ LET e == stack'[Len(stack) + 1]
            IN  /\ e.kind = kind /\ e.context = c /\ e.code = code /\ e.data = data
                /\ e.target = target /\ e.before = stored
         /\ Holds(stored, beacon_of, code) /\ beacon' = beacon /\ beacon_of' = beacon_of
<1> DEFINE e == [ kind |-> kind, context |-> c, sender |-> sender, code |-> code,
                  data |-> data, target |-> target, before |-> stored ]
           r == Uups!Served
<1>1. e \in Frames
  BY DEF Frames, ProxyInv, Kinds
<1>2. /\ stack' = Append(r, e) /\ Len(stack) < MaxDepth
      /\ Holds(stored, beacon_of, code) /\ beacon' = beacon /\ beacon_of' = beacon_of
  BY HasCodeHolds DEF Uups!Enter
<1>3. r \in Seq(Frames) /\ Len(r) = Len(stack) /\ Len(stack) \in Nat
  <2>1. CASE stack = <<>>
    BY <2>1 DEF Uups!Served
  <2>2. CASE stack # <<>>
    BY <2>2, ServedStack DEF ProxyInv, SameCalls
  <2> QED
    BY <2>1, <2>2
<1>4. /\ e.kind = kind /\ e.context = c /\ e.code = code /\ e.data = data
      /\ e.target = target /\ e.before = stored
  OBVIOUS
<1> HIDE DEF e, r
<1>5. /\ Append(r, e) \in Seq(Frames) /\ Append(r, e) # <<>>
      /\ Len(Append(r, e)) = Len(r) + 1
      /\ \A i \in 1..Len(r) : Append(r, e)[i] = r[i]
      /\ Append(r, e)[Len(r) + 1] = e
  BY <1>1, <1>3, AppendProperties
<1>6. Len(stack) + 1 <= MaxDepth
  BY <1>2, <1>3, ProxyConstants
<1> QED
  BY <1>2, <1>3, <1>4, <1>5, <1>6 DEF r

(* An upgrade writes the implementation of the proxy that runs the code,    *)
(* and its frame then has to set the version of what was written.           *)
LEMMA UpgradeKeeps ==
  ASSUME ProxyInv, NEW code \in Logics, NEW c, Turn(code, c), NEW sender \in Senders,
         NEW new \in Uups!Addresses, NEW data \in BOOLEAN,
         Uups!UpgradeToAndCall(code, c, sender, new, data)
  PROVE  ProxyInv' /\ Forward
<1>1. /\ c \in Proxies /\ c \in Contexts /\ stored \in Uups!Storages
      /\ stored[c].version = VERSION_NUMBER[code]
      /\ stored[c].version \in Nat \ {0} /\ stored[c].implementation # ZERO
  <2>1. c \in Contexts
    BY DEF Turn
  <2>2. c \notin Logics /\ c \notin BeaconProxies /\ stored \in Uups!Storages
    BY <2>1 DEF Uups!UpgradeToAndCall, Uups!only_proxy, ProxyInv, Kinds
  <2>3. /\ stored[c].version = VERSION_NUMBER[code] /\ stored[c].implementation # ZERO
    BY DEF Uups!UpgradeToAndCall, Uups!only_proxy
  <2> QED
    BY <2>1, <2>2, <2>3, ProxyConstants
<1>2. new \in Logics /\ new \in Codes
  BY ProxyConstants DEF Uups!UpgradeToAndCall, Uups!IsUups, Uups!not_delegated,
     ProxyInv, Kinds, Contexts, Codes
<1>3. Uups!Enter("upgrade", c, sender, new, data, new)
  BY DEF Uups!UpgradeToAndCall
<1> DEFINE n == Len(stack)
           k == stack'
<1>4. /\ Len(k) = n + 1 /\ k \in Seq(Frames) /\ Len(k) <= MaxDepth /\ k # <<>> /\ n \in Nat
      /\ \A i \in 1..n : k[i] = Uups!Served[i]
      /\ k[n + 1].kind = "upgrade" /\ k[n + 1].context = c /\ k[n + 1].code = new
      /\ k[n + 1].before = stored
      /\ beacon' = beacon /\ beacon_of' = beacon_of
  BY <1>1, <1>2, <1>3, EnteredFrame
<1>5. Written(stored, stored', c, new, stored[c].version)
  BY <1>1, <1>2, <1>3, ImplementationIsWritten DEF Uups!Enter
<1>6. Kinds(stored) /\ Linked(stored, beacon, beacon_of) /\ Holds(stored, beacon_of, new)
  BY <1>2 DEF ProxyInv, Holds
<1>7. Kinds(stored') /\ Linked(stored', beacon, beacon_of)
  BY <1>1, <1>2, <1>5, <1>6, WrittenKeepsKinds, WrittenKeepsLinks, ProxyConstants
<1>8. Forward
  BY <1>1, <1>2, <1>5, WrittenGoesForward
<1>9. \A p \in Proxies : p # c /\ Settled(stored, p) => Settled(stored', p)
  BY <1>1, <1>5, WrittenKeepsSettled
<1>10. stored'[c].implementation = new /\ stored'[c].version = VERSION_NUMBER[code]
  BY <1>1, <1>5 DEF Written
<1> HIDE DEF k
<1>11. CASE stack = <<>>
  <2>1. n = 0 /\ Len(k) = 1 /\ \A p \in Proxies : Settled(stored, p)
    BY <1>11, <1>4 DEF ProxyInv, Standing
  <2>2. Committed(k[1].before, beacon, beacon_of)
    BY <2>1, <1>4, <1>6 DEF Committed
  <2>3. Upgrading(stored', k)
    BY <2>1, <1>1, <1>2, <1>4, <1>10 DEF Upgrading
  <2>4. UnderWay(stored', k, beacon, beacon_of)
    BY <2>1, <2>2, <2>3, <1>4, <1>9 DEF UnderWay
  <2> QED
    BY <2>4, <1>4, <1>7, <1>8 DEF ProxyInv, Standing, k
<1>12. CASE stack # <<>>
  <2>1. /\ n >= 1 /\ SameCalls(stack, Uups!Served) /\ ~Uups!Served[n].data
        /\ \A i \in 1..n - 1 : Uups!Served[i] = stack[i]
    BY <1>12, ServedStack DEF ProxyInv
  <2>2. UnderWay(stored, stack, beacon, beacon_of)
    BY <1>12 DEF ProxyInv, Standing
  <2>3. stack[n].data /\ code = stack[n].code /\ c = stack[n].context
    BY <1>12 DEF Turn
  <2>4. 1 \in 1..n /\ n \in 1..n
    BY <2>1, <1>4
  <2>5. c = stack[1].context
    BY <2>2, <2>3, <2>4 DEF UnderWay
  <2>6. \A i \in 1..n : /\ k[i].context = c /\ k[i].code = stack[i].code /\ ~k[i].data
                        /\ k[i].kind = stack[i].kind /\ k[i].before = stack[i].before
    <3> SUFFICES ASSUME NEW i \in 1..n
                 PROVE  /\ k[i].context = c /\ k[i].code = stack[i].code /\ ~k[i].data
                        /\ k[i].kind = stack[i].kind /\ k[i].before = stack[i].before
      OBVIOUS
    <3>1. /\ k[i].context = stack[i].context /\ k[i].code = stack[i].code
          /\ k[i].kind = stack[i].kind /\ k[i].before = stack[i].before
      BY <1>4, <2>1 DEF SameCalls
    <3>2. stack[i].context = c
      BY <2>2, <2>5 DEF UnderWay
    <3>3. ~k[i].data
      <4>1. CASE i = n
        BY <4>1, <1>4, <2>1
      <4>2. CASE i # n
        <5>1. i \in 1..n - 1 /\ i < n
          BY <4>2, <1>4
        <5>2. k[i] = stack[i]
          BY <5>1, <1>4, <2>1
        <5> QED
          BY <5>1, <5>2, <2>2 DEF UnderWay
      <4> QED
        BY <4>1, <4>2
    <3> QED
      BY <3>1, <3>2, <3>3
  <2>7. Upgrading(stored, stack)
    <3>1. ~Constructing(stored, stack)
      BY <2>3, <2>5, <1>1 DEF Constructing
    <3>2. ~ConstructingBeacon(stored, stack)
      BY <2>5, <1>1, ProxyConstants DEF ConstructingBeacon
    <3> QED
      BY <3>1, <3>2, <2>2 DEF UnderWay
  <2>8. Upgrading(stored', k)
    <3>1. \A i \in 1..n + 1 : k[i].kind = "upgrade" /\ k[i].code \in Logics
      <4> SUFFICES ASSUME NEW i \in 1..n + 1
                   PROVE  k[i].kind = "upgrade" /\ k[i].code \in Logics
        OBVIOUS
      <4>1. CASE i = n + 1
        BY <4>1, <1>2, <1>4
      <4>2. CASE i # n + 1
        <5>1. i \in 1..n
          BY <4>2, <1>4
        <5> QED
          BY <5>1, <2>6, <2>7 DEF Upgrading
      <4> QED
        BY <4>1, <4>2
    <3>2. \A i \in 1..n : VERSION_NUMBER[k[i].code] <= stored'[c].version
      <4> SUFFICES ASSUME NEW i \in 1..n
                   PROVE  VERSION_NUMBER[k[i].code] <= stored'[c].version
        OBVIOUS
      <4>1. CASE i = n
        BY <4>1, <2>3, <2>6, <1>1, <1>10
      <4>2. CASE i # n
        <5>1. i \in 1..n - 1
          BY <4>2, <1>4
        <5>2. VERSION_NUMBER[stack[i].code] <= stored[c].version
          BY <5>1, <2>5, <2>7 DEF Upgrading
        <5> QED
          BY <5>2, <2>6, <1>1, <1>10
      <4> QED
        BY <4>1, <4>2
    <3>3. k[1].context = c /\ Len(k) = n + 1 /\ Len(k) - 1 = n
      BY <2>4, <2>6, <1>4
    <3> HIDE DEF n
    <3> QED
      BY <3>1, <3>2, <3>3, <1>1, <1>2, <1>4, <1>10 DEF Upgrading
  <2>9. UnderWay(stored', k, beacon, beacon_of)
    <3>1. Committed(k[1].before, beacon, beacon_of) /\ k[1].context = c
      BY <2>2, <2>4, <2>6 DEF UnderWay
    <3>2. ASSUME NEW i \in 1..Len(k)
          PROVE  k[i].context = k[1].context /\ (i < Len(k) => ~k[i].data)
      <4>1. CASE i = n + 1
        BY <4>1, <3>1, <1>4
      <4>2. CASE i # n + 1
        <5>1. i \in 1..n
          BY <4>2, <1>4
        <5> QED
          BY <5>1, <3>1, <2>6
      <4> QED
        BY <4>1, <4>2
    <3>3. \A p \in Proxies : p # k[1].context => Settled(stored', p)
      BY <3>1, <2>2, <2>5, <1>9 DEF UnderWay
    <3> QED
      BY <3>1, <3>2, <3>3, <2>8 DEF UnderWay
  <2> QED
    BY <2>9, <1>4, <1>7, <1>8 DEF ProxyInv, Standing, k
<1> QED
  BY <1>11, <1>12

(* The constructor of a proxy, which writes an implementation and calls it, *)
(* where nothing was before.                                                *)
LEMMA ConstructKeeps ==
  ASSUME ProxyInv, NEW p \in Proxies, NEW sender \in Senders,
         NEW code \in Logics \cup Strangers \cup Proxies, NEW data \in BOOLEAN,
         Uups!Construct(p, sender, code, data)
  PROVE  ProxyInv' /\ Forward
<1> DEFINE k == stack'
<1>1. /\ p \in Contexts /\ code \in Codes /\ stored \in Uups!Storages
      /\ Kinds(stored) /\ Linked(stored, beacon, beacon_of) /\ stack = <<>>
      /\ \A q \in Proxies : Settled(stored, q)
  BY ProxyConstants DEF ProxyInv, Kinds, Uups!Construct, Codes, Standing
<1>2. stored[p].implementation = ZERO /\ stored[p].version = 0
  <2>1. stored[p].implementation = ZERO
    BY DEF Uups!Construct, Uups!HasCode
  <2>2. ZERO \notin Logics
    BY ProxyConstants DEF Codes
  <2> QED
    BY <2>1, <2>2, <1>1 DEF Settled
<1>3. Uups!Enter("proxy", p, sender, code, data, code)
  BY DEF Uups!Construct
<1>4. /\ Len(k) = 1 /\ k \in Seq(Frames) /\ Len(k) <= MaxDepth /\ k # <<>>
      /\ k[1].kind = "proxy" /\ k[1].context = p /\ k[1].code = code
      /\ k[1].before = stored
      /\ Holds(stored, beacon_of, code) /\ beacon' = beacon /\ beacon_of' = beacon_of
  <2>1. Len(stack) = 0
    BY <1>1
  <2> QED
    BY <2>1, <1>1, <1>3, EnteredFrame
<1>5. Written(stored, stored', p, code, 0)
  BY <1>1, <1>2, <1>3, ImplementationIsWritten DEF Uups!Enter
<1>6. code # ZERO
  BY <1>1, ProxyConstants
<1>7. Kinds(stored') /\ Linked(stored', beacon, beacon_of)
  BY <1>1, <1>2, <1>4, <1>5, <1>6, WrittenKeepsKinds, WrittenKeepsLinks
<1>8. Forward
  BY <1>1, <1>2, <1>5, WrittenGoesForward
<1>9. \A q \in Proxies : q # p => Settled(stored', q)
  BY <1>1, <1>5, WrittenKeepsSettled
<1> HIDE DEF k
<1>10. Constructing(stored', k)
  BY <1>4, <1>5 DEF Constructing, Written, Settled
<1>11. Committed(k[1].before, beacon, beacon_of)
  BY <1>1, <1>4 DEF Committed
<1>12. UnderWay(stored', k, beacon, beacon_of)
  BY <1>4, <1>9, <1>10, <1>11 DEF UnderWay
<1> QED
  BY <1>4, <1>7, <1>8, <1>12 DEF ProxyInv, Standing, k

(* The constructor of a beacon proxy, which calls what the beacon holds     *)
(* before it stores the beacon.                                             *)
LEMMA ConstructBeaconKeeps ==
  ASSUME ProxyInv, NEW p \in BeaconProxies, NEW sender \in Senders,
         NEW target \in {BEACON} \cup Proxies \cup Strangers, NEW data \in BOOLEAN,
         Uups!ConstructBeaconProxy(p, sender, target, data)
  PROVE  ProxyInv' /\ Forward
<1> DEFINE k == stack'
           code == Uups!ImplementationAt(target)
<1>1. /\ p \in Contexts /\ target \in Codes /\ stored \in Uups!Storages
      /\ Kinds(stored) /\ Linked(stored, beacon, beacon_of) /\ stack = <<>>
      /\ \A q \in Proxies : Settled(stored, q)
  BY ProxyConstants DEF ProxyInv, Kinds, Uups!ConstructBeaconProxy, Codes, Standing
<1>2. Uups!Enter("beacon", p, sender, code, data, target)
  BY DEF Uups!ConstructBeaconProxy
<1>3. code \in Codes /\ code # ZERO
  <2>1. Holds(stored, beacon_of, code)
    BY <1>2, HasCodeHolds DEF Uups!Enter
  <2> HIDE DEF code
  <2>2. code \in Codes
    BY <2>1, ProxyConstants DEF Holds, Codes
  <2> QED
    BY <2>2, ProxyConstants
<1>4. /\ target \in {BEACON} \cup Proxies
      /\ target \in Proxies => stored[target].implementation # ZERO
  BY <1>3, ProxyConstants DEF Uups!ImplementationAt
<1>5. stored' = stored
  BY <1>2 DEF Uups!Enter
<1> HIDE DEF code
<1>6. /\ Len(k) = 1 /\ k \in Seq(Frames) /\ Len(k) <= MaxDepth /\ k # <<>>
      /\ k[1].kind = "beacon" /\ k[1].context = p /\ k[1].target = target
      /\ k[1].before = stored
      /\ beacon' = beacon /\ beacon_of' = beacon_of
  <2>1. Len(stack) = 0
    BY <1>1
  <2> QED
    BY <2>1, <1>1, <1>2, <1>3, EnteredFrame
<1>7. Forward
  <2> SUFFICES ASSUME NEW q \in Proxies
               PROVE  stored[q].version >= stored[q].version
    BY <1>5 DEF Forward
  <2>1. stored[q].version \in Nat
    BY <1>1, StorageTypes, ProxyConstants
  <2> QED
    BY <2>1
<1> HIDE DEF k
<1>8. ConstructingBeacon(stored, k)
  BY <1>4, <1>6 DEF ConstructingBeacon
<1>9. Committed(k[1].before, beacon, beacon_of)
  BY <1>1, <1>6 DEF Committed
<1>10. UnderWay(stored, k, beacon, beacon_of)
  BY <1>1, <1>6, <1>8, <1>9 DEF UnderWay
<1> QED
  BY <1>1, <1>5, <1>6, <1>7, <1>10 DEF ProxyInv, Standing, k

(* The end of a construction of a proxy, of one of a beacon proxy, and of   *)
(* an upgrade.                                                              *)
LEMMA PoppedStack ==
  ASSUME stack \in Seq(Frames), stack # <<>>, stack' = SubSeq(stack, 1, Len(stack) - 1)
  PROVE  /\ Len(stack) \in Nat /\ Len(stack) >= 1
         /\ stack' \in Seq(Frames) /\ Len(stack') = Len(stack) - 1
         /\ \A i \in 1..Len(stack) - 1 : stack'[i] = stack[i]
         /\ Len(stack) = 1 => stack' = <<>>
         /\ Len(stack) > 1 => stack' # <<>>
<1> DEFINE n == Len(stack)
<1>1. n \in Nat /\ n >= 1 /\ n - 1 \in Int /\ \A i \in 1..n - 1 : stack[i] \in Frames
  OBVIOUS
<1>2. /\ SubSeq(stack, 1, n - 1) \in Seq(Frames)
      /\ Len(SubSeq(stack, 1, n - 1)) = IF 1 <= n - 1 THEN n - 1 - 1 + 1 ELSE 0
      /\ \A i \in 1..n - 1 - 1 + 1 : SubSeq(stack, 1, n - 1)[i] = stack[1 + i - 1]
  BY <1>1, SubSeqProperties
<1>3. stack' = SubSeq(stack, 1, n - 1)
  OBVIOUS
<1> HIDE DEF n
<1>4. /\ stack' \in Seq(Frames) /\ Len(stack') = n - 1
      /\ \A i \in 1..n - 1 : stack'[i] = stack[i]
  BY <1>1, <1>2, <1>3
<1>5. n = 1 => stack' = <<>>
  BY <1>4
<1>6. ASSUME n > 1, stack' = <<>>
      PROVE  FALSE
  <2>1. Len(<<>>) = 0
    OBVIOUS
  <2>2. Len(stack') = 0
    BY <2>1, <1>6
  <2> QED
    BY <2>2, <1>1, <1>4, <1>6
<1> QED
  BY <1>1, <1>4, <1>5, <1>6 DEF n

(* A constructor that returns leaves a proxy that is settled or waits for   *)
(* its first set_version.                                                   *)
LEMMA FinishedConstruction ==
  ASSUME ProxyInv, Uups!Finish, Uups!Top.kind # "upgrade"
  PROVE  ProxyInv' /\ Forward
<1> DEFINE n == Len(stack)
           c == stack[n].context
           target == stack[n].target
<1>1. /\ stack # <<>> /\ stored' = stored /\ beacon' = beacon
      /\ stack' = SubSeq(stack, 1, n - 1)
      /\ beacon_of' = IF stack[n].kind = "beacon"
                      THEN [beacon_of EXCEPT ![c] = target] ELSE beacon_of
  BY DEF Uups!Finish, Uups!Top
<1>2. /\ n \in Nat /\ n >= 1 /\ stack' \in Seq(Frames) /\ Len(stack') = n - 1
      /\ n = 1 => stack' = <<>>
      /\ n \in 1..n
  BY <1>1, PoppedStack DEF ProxyInv
<1>3. UnderWay(stored, stack, beacon, beacon_of) /\ Kinds(stored)
      /\ stored \in Uups!Storages
  BY <1>1 DEF ProxyInv, Standing, Kinds
<1>4. Forward
  <2> SUFFICES ASSUME NEW q \in Proxies
               PROVE  stored[q].version >= stored[q].version
    BY <1>1 DEF Forward
  <2>1. stored[q].version \in Nat
    BY <1>3, StorageTypes, ProxyConstants
  <2> QED
    BY <2>1
<1>5. ~Upgrading(stored, stack)
  BY <1>2 DEF Upgrading, Uups!Top
<1>6. CASE Constructing(stored, stack)
  <2>1. n = 1 /\ beacon_of' = beacon_of
    BY <1>1, <1>6 DEF Constructing
  <2>2. \A p \in Proxies : Settled(stored, p)
    BY <1>3, <1>6 DEF UnderWay, Constructing
  <2> QED
    BY <2>1, <2>2, <1>1, <1>2, <1>4, ProxyConstants DEF ProxyInv, Standing
<1>7. CASE ConstructingBeacon(stored, stack)
  <2>1. /\ n = 1 /\ stack[n].kind = "beacon" /\ c \in BeaconProxies
        /\ target \in {BEACON} \cup Proxies
        /\ target \in Proxies => stored[target].implementation # ZERO
        /\ c = stack[1].context
    BY <1>7 DEF ConstructingBeacon
  <2>2. \A p \in Proxies : Settled(stored, p)
    BY <2>1, <1>3, ProxyConstants DEF UnderWay
  <2> DEFINE of == beacon_of'
  <2>3. of = [beacon_of EXCEPT ![c] = target]
    BY <1>1, <2>1
  <2>4. beacon_of \in [BeaconProxies -> {ZERO, BEACON} \cup Proxies]
        /\ Linked(stored, beacon, beacon_of)
    BY DEF ProxyInv
  <2> HIDE DEF of, c, target
  <2>5. /\ of \in [BeaconProxies -> {ZERO, BEACON} \cup Proxies]
        /\ of[c] = target /\ \A p \in BeaconProxies : p # c => of[p] = beacon_of[p]
    BY <2>1, <2>3, <2>4
  <2>6. target # ZERO
    BY <2>1, ProxyConstants DEF Codes
  <2>7. \A p \in BeaconProxies : beacon_of[p] # ZERO => of[p] # ZERO
    BY <2>5, <2>6
  <2>8. \A a : Holds(stored, beacon_of, a) => Holds(stored, of, a)
    BY <2>7, HoldsOn
  <2>9. Linked(stored, beacon, of)
    BY <2>1, <2>4, <2>5, <2>8 DEF Linked
  <2> QED
    BY <2>1, <2>2, <2>5, <2>9, <1>1, <1>2, <1>3, <1>4, ProxyConstants
    DEF ProxyInv, Standing, of
<1> QED
  BY <1>3, <1>5, <1>6, <1>7 DEF UnderWay

(* An upgrade that returns has set the version of what it wrote, whatever   *)
(* its setup did in between.                                                *)
LEMMA FinishedUpgrade ==
  ASSUME ProxyInv, Uups!Finish, Uups!Top.kind = "upgrade"
  PROVE  ProxyInv' /\ Forward
<1> DEFINE n == Len(stack)
           k == stack'
           c == stack[n].context
           code == stack[n].code
           v == VERSION_NUMBER[code]
<1>1. /\ stack # <<>> /\ beacon' = beacon /\ beacon_of' = beacon_of
      /\ stack' = SubSeq(stack, 1, n - 1) /\ Uups!SetVersion(code, c)
      /\ ~stack[n].data /\ stack[n].kind = "upgrade"
  BY DEF Uups!Finish, Uups!Top
<1>2. /\ n \in Nat /\ n >= 1 /\ k \in Seq(Frames) /\ Len(k) = n - 1
      /\ \A i \in 1..n - 1 : k[i] = stack[i]
      /\ n = 1 => k = <<>>
      /\ n > 1 => k # <<>>
      /\ n \in 1..n /\ 1 \in 1..n /\ n <= MaxDepth
  BY <1>1, PoppedStack DEF ProxyInv
<1>3. UnderWay(stored, stack, beacon, beacon_of) /\ Kinds(stored)
      /\ stored \in Uups!Storages /\ Linked(stored, beacon, beacon_of)
  BY <1>1 DEF ProxyInv, Standing, Kinds
<1>4. Upgrading(stored, stack) /\ c = stack[1].context
  BY <1>1, <1>2, <1>3 DEF UnderWay, Constructing, ConstructingBeacon
<1>5. /\ c \in Proxies /\ c \in Contexts /\ code \in Logics /\ v \in Nat
      /\ stored[c].version \in Nat /\ stored[c].version <= v
      /\ stored[c].implementation \in Logics
  <2>1. c \in Proxies /\ code \in Logics /\ stored[c].implementation \in Logics
    BY <1>2, <1>4 DEF Upgrading
  <2> QED
    BY <2>1, <1>1, <1>3, StorageTypes, ProxyConstants DEF Uups!SetVersion
<1>6. Written(stored, stored', c, stored[c].implementation, v)
  <2>1. stored[c].owner \in Senders \cup {ZERO}
    BY <1>3, <1>5, StorageTypes
  <2> HIDE DEF c, code
  <2> QED
    BY <2>1, <1>1, <1>3, <1>5, VersionIsWritten DEF Uups!SetVersion
<1> HIDE DEF k, c, code
<1>7. Kinds(stored') /\ Linked(stored', beacon, beacon_of)
  <2>1. c \notin Logics
    BY <1>5, ProxyConstants
  <2> HIDE DEF v
  <2> QED
    BY <2>1, <1>3, <1>5, <1>6, WrittenKeepsKinds, WrittenKeepsLinks
<1>8. Forward
  BY <1>5, <1>6, WrittenGoesForward
<1>9. \A p \in Proxies : p # c => Settled(stored', p)
  BY <1>3, <1>4, <1>5, <1>6, WrittenKeepsSettled DEF UnderWay
<1>10. /\ stored'[c].implementation = stored[c].implementation
       /\ stored'[c].version = v
       /\ VERSION_NUMBER[stored'[c].implementation] = v
  <2>1. /\ stored'[c].implementation = stored[c].implementation
        /\ stored'[c].version = v
    BY <1>6 DEF Written
  <2>2. CASE stored[c].implementation = code
    BY <2>1, <2>2
  <2>3. CASE stored[c].implementation # code
    <3>1. /\ VERSION_NUMBER[stored[c].implementation] = stored[c].version
          /\ v <= stored[c].version
      BY <2>3, <1>4 DEF Upgrading, code, c
    <3> QED
      BY <2>1, <3>1, <1>5
  <2> QED
    BY <2>2, <2>3
<1>11. CASE n = 1
  <2>1. Settled(stored', c)
    BY <1>5, <1>10 DEF Settled
  <2> QED
    BY <2>1, <1>1, <1>2, <1>7, <1>8, <1>9, <1>11, ProxyConstants DEF ProxyInv, Standing, k
<1>12. CASE n > 1
  <2>1. 1 \in 1..n - 1 /\ n - 1 \in 1..n - 1 /\ k[1] = stack[1] /\ k[n - 1] = stack[n - 1]
    BY <1>2, <1>12
  <2>2. ASSUME NEW i \in 1..n - 1
        PROVE  /\ k[i] = stack[i] /\ k[i].kind = "upgrade" /\ k[i].code \in Logics
               /\ k[i].context = k[1].context /\ ~k[i].data
               /\ VERSION_NUMBER[k[i].code] <= v
    <3>1. i \in 1..n /\ i < n /\ k[i] = stack[i]
      BY <1>2
    <3>2. /\ stack[i].kind = "upgrade" /\ stack[i].code \in Logics
          /\ stack[i].context = stack[1].context /\ ~stack[i].data
      BY <3>1, <1>3, <1>4 DEF Upgrading, UnderWay
    <3>3. VERSION_NUMBER[stack[i].code] <= stored[c].version
      BY <1>4 DEF Upgrading
    <3>4. VERSION_NUMBER[stack[i].code] \in Nat
      BY <3>2, ProxyConstants
    <3> HIDE DEF v, n
    <3>5. VERSION_NUMBER[stack[i].code] <= v
      BY <3>3, <3>4, <1>5
    <3> QED
      BY <3>1, <3>2, <3>5, <2>1
  <2>3. Upgrading(stored', k)
    <3>1. k[1].context = c /\ \A i \in 1..Len(k) - 1 : i \in 1..n - 1
      BY <2>1, <1>2, <1>4
    <3> HIDE DEF n, v
    <3> QED
      BY <3>1, <2>1, <2>2, <1>2, <1>5, <1>10 DEF Upgrading
  <2>4. UnderWay(stored', k, beacon, beacon_of)
    <3>1. Committed(k[1].before, beacon, beacon_of)
      BY <2>1, <1>3 DEF UnderWay
    <3>2. k[1].context = c
      BY <2>1, <1>4
    <3> HIDE DEF n, v
    <3> QED
      BY <3>1, <3>2, <2>2, <2>3, <1>2, <1>9 DEF UnderWay
  <2>5. Len(k) <= MaxDepth
    BY <1>2, ProxyConstants
  <2> QED
    BY <2>4, <2>5, <1>1, <1>2, <1>7, <1>8, <1>12 DEF ProxyInv, Standing, k
<1> QED
  BY <1>2, <1>11, <1>12

(* A failure brings the storage back that the transaction began with.       *)
LEMMA FailKeeps ==
  ASSUME ProxyInv, Uups!Fail
  PROVE  ProxyInv'
<1>1. /\ stored' = stack[1].before /\ stack' = <<>> /\ stack # <<>>
      /\ beacon' = beacon /\ beacon_of' = beacon_of
  BY DEF Uups!Fail
<1>2. Committed(stored', beacon, beacon_of)
  BY <1>1 DEF ProxyInv, Standing, UnderWay
<1> QED
  BY <1>1, <1>2, ProxyConstants DEF ProxyInv, Standing, Committed

(* The owner of the beacon changes what the beacon holds, and no proxy's    *)
(* storage.                                                                 *)
LEMMA BeaconKeeps ==
  ASSUME ProxyInv, NEW sender \in Senders, Uups!BeaconCall(sender)
  PROVE  ProxyInv' /\ Forward
<1>1. /\ stack = <<>> /\ stack' = stack /\ stored' = stored /\ beacon_of' = beacon_of
      /\ Linked(stored, beacon, beacon_of)
      /\ beacon \in [implementation : Codes, owner : Senders \cup {ZERO}]
  BY DEF Uups!BeaconCall, ProxyInv
<1>2. Forward
  <2> SUFFICES ASSUME NEW q \in Proxies
               PROVE  stored[q].version >= stored[q].version
    BY <1>1 DEF Forward
  <2>1. stored[q].version \in Nat
    BY StorageTypes, ProxyConstants DEF ProxyInv, Kinds
  <2> QED
    BY <2>1
<1>3. ASSUME Holds(stored, beacon_of, beacon'.implementation),
             beacon' \in [implementation : Codes, owner : Senders \cup {ZERO}]
      PROVE  ProxyInv'
  <2>1. Linked(stored, beacon', beacon_of)
    BY <1>1, <1>3 DEF Linked
  <2>2. Kinds(stored) /\ \A p \in Proxies : Settled(stored, p)
    BY <1>1 DEF ProxyInv, Standing
  <2>3. Kinds(stored') /\ Standing(stored', stack', beacon', beacon_of')
    BY <2>2, <1>1 DEF Standing
  <2> QED
    BY <2>1, <2>3, <1>1, <1>3 DEF ProxyInv
<1>4. ASSUME NEW new, Uups!HasCode(new), beacon' = [beacon EXCEPT !.implementation = new]
      PROVE  ProxyInv'
  <2>1. Holds(stored, beacon_of, new)
    BY <1>4, HasCodeHolds
  <2>2. new \in Codes
    BY <2>1, ProxyConstants DEF Holds, Codes
  <2>3. /\ beacon' \in [implementation : Codes, owner : Senders \cup {ZERO}]
        /\ beacon'.implementation = new
    BY <2>2, <1>1, <1>4
  <2> QED
    BY <2>1, <2>3, <1>3
<1>5. ASSUME NEW owner_ \in Senders \cup {ZERO}, beacon' = [beacon EXCEPT !.owner = owner_]
      PROVE  ProxyInv'
  <2>1. /\ beacon' \in [implementation : Codes, owner : Senders \cup {ZERO}]
        /\ beacon'.implementation = beacon.implementation
    BY <1>1, <1>5
  <2> QED
    BY <2>1, <1>1, <1>3 DEF Linked
<1> QED
  BY <1>2, <1>4, <1>5 DEF Uups!BeaconCall

(* The invariant holds at first, and is kept.                               *)
LEMMA ProxyInvInit == Uups!ProxyInit => ProxyInv
<1> SUFFICES ASSUME Uups!ProxyInit
             PROVE  ProxyInv
  OBVIOUS
<1> USE ProxyConstants
<1>1. PICK deployer \in Senders :
        /\ stored = [c \in Contexts |->
             [ implementation |-> ZERO, version |-> 0,
               logic_flag |-> c \in Logics,
               owner |-> IF c \in Logics THEN deployer ELSE ZERO ]]
        /\ \E logic \in Logics \cup Strangers :
             beacon = [implementation |-> logic, owner |-> deployer]
  BY DEF Uups!ProxyInit, Contexts
<1>2. PICK logic \in Logics \cup Strangers :
        beacon = [implementation |-> logic, owner |-> deployer]
  BY <1>1
<1>3. beacon_of = [p \in BeaconProxies |-> ZERO] /\ stack = <<>>
  BY DEF Uups!ProxyInit
<1>4. \A c \in Contexts : /\ stored[c].implementation = ZERO /\ stored[c].version = 0
                          /\ stored[c].logic_flag <=> c \in Logics
  BY <1>1
<1>5. stored \in Uups!Storages
  BY <1>1 DEF Uups!Storages, Uups!Implementations, Uups!Contexts, Contexts
<1>6. Kinds(stored)
  BY <1>4, <1>5 DEF Kinds
<1>7. Linked(stored, beacon, beacon_of)
  <2>1. beacon.implementation \in Logics \cup Strangers
    BY <1>2
  <2>2. \A p \in BeaconProxies : beacon_of[p] \notin Proxies
    BY <1>3 DEF Codes
  <2>3. \A p \in Proxies : stored[p].implementation = ZERO
    BY <1>4
  <2> QED
    BY <2>1, <2>2, <2>3 DEF Linked, Holds
<1>8. /\ beacon \in [implementation : Codes, owner : Senders \cup {ZERO}]
      /\ beacon_of \in [BeaconProxies -> {ZERO, BEACON} \cup Proxies]
  BY <1>2, <1>3 DEF Codes
<1>9. Standing(stored, stack, beacon, beacon_of)
  <2>1. \A p \in Proxies : stored[p].version = 0
    BY <1>4
  <2> QED
    BY <2>1, <1>3 DEF Standing, Settled
<1>10. stack \in Seq(Frames) /\ Len(stack) <= MaxDepth
  BY <1>3
<1> QED
  BY <1>6, <1>7, <1>8, <1>9, <1>10 DEF ProxyInv

(* Every step keeps the invariant, and none but a failure, which undoes     *)
(* what its transaction did, lowers a version.                              *)
LEMMA ProxyInvStep ==
  ASSUME ProxyInv, [Uups!ProxyNext]_Uups!proxyVars
  PROVE  /\ ProxyInv'
         /\ ~Uups!Fail /\ Uups!ProxyNext => Forward
<1>1. ASSUME NEW turn \in Uups!Turns, Uups!Call(turn[1], turn[2], turn[3])
      PROVE  ProxyInv' /\ Forward
  <2> DEFINE code == turn[1]
             c == turn[2]
             sender == turn[3]
  <2>1. Turn(code, c) /\ sender \in Senders
    BY TurnsAreTurns
  <2> HIDE DEF code, c, sender
  <2>2. code \in Logics
    BY <1>1 DEF Uups!Call, code, c, sender
  <2>3. ASSUME NEW new \in Uups!Addresses, NEW data \in BOOLEAN,
               Uups!UpgradeToAndCall(code, c, sender, new, data)
        PROVE  ProxyInv' /\ Forward
    BY <2>1, <2>2, <2>3, UpgradeKeeps
  <2>4. CASE /\ \/ Uups!SetVersion(code, c)
                \/ \E owner_ \in Senders \cup {ZERO} :
                     Uups!Initialize(code, c, owner_) \/ Uups!Own(c, sender, owner_)
             /\ stack' = Uups!Served /\ beacon' = beacon /\ beacon_of' = beacon_of
    BY <2>1, <2>2, <2>4, CallsKeep
  <2>5. \/ \E new \in Uups!Addresses, data \in BOOLEAN :
             Uups!UpgradeToAndCall(code, c, sender, new, data)
        \/ /\ \/ Uups!SetVersion(code, c)
              \/ \E owner_ \in Senders \cup {ZERO} :
                   Uups!Initialize(code, c, owner_) \/ Uups!Own(c, sender, owner_)
           /\ stack' = Uups!Served /\ beacon' = beacon /\ beacon_of' = beacon_of
    BY <1>1 DEF Uups!Call, code, c, sender
  <2> QED
    BY <2>3, <2>4, <2>5
<1>2. CASE Uups!OtherCall
  BY <1>2, OtherCallKeeps
<1>3. CASE Uups!Finish
  BY <1>3, FinishedConstruction, FinishedUpgrade
<1>4. CASE Uups!Fail
  BY <1>4, FailKeeps
<1>5. ASSUME NEW sender \in Senders, Uups!BeaconCall(sender)
      PROVE  ProxyInv' /\ Forward
  BY <1>5, BeaconKeeps
<1>6. ASSUME NEW sender \in Senders, NEW data \in BOOLEAN, NEW p \in Proxies,
             NEW code \in Logics \cup Strangers \cup Proxies,
             Uups!Construct(p, sender, code, data)
      PROVE  ProxyInv' /\ Forward
  BY <1>6, ConstructKeeps
<1>7. ASSUME NEW sender \in Senders, NEW data \in BOOLEAN, NEW p \in BeaconProxies,
             NEW target \in {BEACON} \cup Proxies \cup Strangers,
             Uups!ConstructBeaconProxy(p, sender, target, data)
      PROVE  ProxyInv' /\ Forward
  BY <1>7, ConstructBeaconKeeps
<1>8. CASE UNCHANGED Uups!proxyVars
  <2>1. /\ stored' = stored /\ beacon' = beacon /\ beacon_of' = beacon_of
        /\ stack' = stack
    BY <1>8 DEF Uups!proxyVars
  <2>2. ProxyInv'
    <3>1. Kinds(stored)' = Kinds(stored)
      BY <2>1 DEF Kinds
    <3>2. Linked(stored, beacon, beacon_of)' = Linked(stored, beacon, beacon_of)
      BY <2>1 DEF Linked, Holds
    <3>3. Standing(stored, stack, beacon, beacon_of)'
            = Standing(stored, stack, beacon, beacon_of)
      BY <2>1 DEF Standing, UnderWay, Committed, Kinds, Linked, Holds, Settled,
         Upgrading, Constructing, ConstructingBeacon
    <3> QED
      BY <3>1, <3>2, <3>3, <2>1 DEF ProxyInv
  <2>3. Forward
    <3> SUFFICES ASSUME NEW q \in Proxies
                 PROVE  stored[q].version >= stored[q].version
      BY <2>1 DEF Forward
    <3>1. stored[q].version \in Nat
      BY StorageTypes, ProxyConstants DEF ProxyInv, Kinds
    <3> QED
      BY <3>1
  <2> QED
    BY <2>2, <2>3
<1> QED
  BY <1>1, <1>2, <1>3, <1>4, <1>5, <1>6, <1>7, <1>8 DEF Uups!ProxyNext

(* A proxy whose version was ever set runs, between transactions, a logic   *)
(* contract of exactly that version, however upgrades were nested; a logic  *)
(* contract stays what it was; a beacon proxy always has code behind it.    *)
THEOREM RunsItsVersion == Uups!ProxySpec => []ProxiesRunTheirVersion
<1>1. ProxyInv => ProxiesRunTheirVersion
  <2> SUFFICES ASSUME ProxyInv
               PROVE  Uups!ProxiesRunTheirVersion
    BY DEF ProxiesRunTheirVersion
  <2>1. Uups!ProxyTypeOK
    BY DEF ProxyInv, Kinds, Uups!ProxyTypeOK, Contexts, Codes
  <2>2. stack = <<>> => \A p \in Proxies :
          stored[p].version # 0 =>
            /\ stored[p].implementation \in Logics
            /\ stored[p].version = VERSION_NUMBER[stored[p].implementation]
    BY DEF ProxyInv, Standing, Settled
  <2>3. \A l \in Logics :
          /\ Uups!not_delegated(l) /\ stored[l].version = 0
          /\ stored[l].implementation = ZERO
    BY ProxyConstants DEF ProxyInv, Kinds, Uups!not_delegated
  <2>4. ASSUME NEW p \in BeaconProxies, Uups!HasCode(p)
        PROVE  Uups!HasCode(Uups!CodeOf(p))
    <3>1. beacon_of[p] \in {BEACON} \cup Proxies
      <4>1. p \notin Logics \cup Strangers \cup {BEACON} \cup Proxies
        BY ProxyConstants
      <4>2. beacon_of[p] # ZERO
        BY <2>4, <4>1 DEF Uups!HasCode
      <4> QED
        BY <4>2 DEF ProxyInv
    <3>2. Uups!CodeOf(p) = Uups!ImplementationAt(beacon_of[p])
      BY ProxyConstants DEF Uups!CodeOf
    <3>3. Holds(stored, beacon_of, Uups!ImplementationAt(beacon_of[p]))
      BY <3>1, ProxyConstants DEF Uups!ImplementationAt, ProxyInv, Linked
    <3> QED
      BY <3>2, <3>3, HasCodeHolds
  <2> QED
    BY <2>1, <2>2, <2>3, <2>4 DEF Uups!ProxiesRunTheirVersion
<1>2. ProxyInv /\ [Uups!ProxyNext]_Uups!proxyVars => ProxyInv'
  BY ProxyInvStep
<1> QED
  BY <1>1, <1>2, ProxyInvInit, PTL DEF Uups!ProxySpec

(* No call takes a version back, and an upgrade leads only to a logic       *)
(* contract, which can upgrade again.                                       *)
THEOREM GoesForward == Uups!ProxySpec => UpgradesGoForward
<1> DEFINE Step == ~Uups!Fail => \A p \in Proxies :
              /\ stored'[p].version >= stored[p].version
              /\ stored[p].implementation # ZERO
                   => stored'[p].implementation
                        \in {stored[p].implementation} \cup Logics
<1>1. ProxyInv /\ [Uups!ProxyNext]_Uups!proxyVars => [Step]_Uups!proxyVars
  BY ProxyInvStep DEF Forward
<1>2. ProxyInv /\ [Uups!ProxyNext]_Uups!proxyVars => ProxyInv'
  BY ProxyInvStep
<1>3. Uups!ProxySpec => [][Step]_Uups!proxyVars
  BY <1>1, <1>2, ProxyInvInit, PTL DEF Uups!ProxySpec
<1> QED
  BY <1>3 DEF UpgradesGoForward, Uups!UpgradesGoForward
=============================================================================
