---------------------------- MODULE MultiTokenProofs ----------------------------
(***************************************************************************)
(* The two standards of many tokens in one contract, for any accounts,     *)
(* tokens, batches and width of a word, whatever the values MCMultiTokens  *)
(* checks them with.                                                       *)
(***************************************************************************)
EXTENDS MCMultiTokens

-----------------------------------------------------------------------------
(* What repeats a step some number of times exists.                         *)
Steps(S, N) == [1..N -> [S -> S]]

Runs(S, N, x, step) ==
  { f \in [0..N -> S] : f[0] = x /\ \A n \in 1..N : f[n] = step[n][f[n - 1]] }

(* It is built one step at a time: no finite number of steps lacks one.     *)
LEMMA Iterated ==
  ASSUME NEW S, NEW x \in S, NEW N \in Nat, NEW step \in Steps(S, N)
  PROVE  Runs(S, N, x, step) # {}
<1> USE DEF Steps
<1> DEFINE Repeats(f, m) ==
             f[0] = x /\ \A n \in 1..m : f[n] = step[n][f[n - 1]]
           P == {m \in Nat : m <= N => \E f \in [0..m -> S] : Repeats(f, m)}
<1>1. 0 \in P
  <2>1. [n \in 0..0 |-> x] \in [0..0 -> S] /\ Repeats([n \in 0..0 |-> x], 0)
    OBVIOUS
  <2> QED
    BY <2>1
<1>2. ASSUME NEW m \in P
      PROVE  m + 1 \in P
  <2> SUFFICES ASSUME m + 1 <= N
               PROVE  \E f \in [0..m + 1 -> S] : Repeats(f, m + 1)
    OBVIOUS
  <2>1. PICK f \in [0..m -> S] : Repeats(f, m)
    OBVIOUS
  <2> DEFINE y == step[m + 1][f[m]]
             g == [n \in 0..m + 1 |-> IF n = m + 1 THEN y ELSE f[n]]
  <2>2. f[m] \in S /\ m + 1 \in 1..N
    OBVIOUS
  <2>3. y \in S
    BY <2>2
  <2>4. g \in [0..m + 1 -> S] /\ g[m + 1] = y /\ \A n \in 0..m : g[n] = f[n]
    BY <2>3
  <2> HIDE DEF g
  <2>5. Repeats(g, m + 1)
    <3>1. g[0] = x
      BY <2>1, <2>4
    <3>2. ASSUME NEW n \in 1..m + 1
          PROVE  g[n] = step[n][g[n - 1]]
      <4>1. CASE n = m + 1
        <5>1. g[n - 1] = f[m]
          BY <4>1, <2>4
        <5> QED
          BY <4>1, <5>1, <2>4
      <4>2. CASE n # m + 1
        <5>1. n \in 1..m /\ n \in 0..m /\ n - 1 \in 0..m
          BY <4>2
        <5>2. f[n] = step[n][f[n - 1]]
          BY <5>1, <2>1
        <5> QED
          BY <5>1, <5>2, <2>4
      <4> QED
        BY <4>1, <4>2
    <3> QED
      BY <3>1, <3>2
  <2> QED
    BY <2>4, <2>5
<1> HIDE DEF P
<1>3. P = Nat
  <2>1. P \in SUBSET Nat
    BY DEF P
  <2> QED
    BY <1>1, <1>2, <2>1, NaturalsByInduction
<1>4. N \in P
  BY <1>3
<1> QED
  BY <1>4 DEF P, Runs

(* The balances after each line of a batch, whether or not it can be done.  *)
Tallies == [Ids -> [Addresses -> Int]]

(* A line maps balances to balances.                                        *)
LEMMA LineIsTally ==
  ASSUME NEW b \in Tallies, NEW from \in Addresses, NEW to \in Addresses,
         NEW id \in Ids, NEW value \in Int
  PROVE  Base!DoUpdate(b, from, to, id, value) \in Tallies
<1>1. Base!Debit(b, from, id, value) \in Tallies
  BY DEF Base!Debit, Tallies
<1> DEFINE d == Base!Debit(b, from, id, value)
<1> HIDE DEF d
<1>2. d \in Tallies => Base!Credit(d, to, id, value) \in Tallies
  BY DEF Base!Credit, Tallies
<1> QED
  BY <1>1, <1>2 DEF d, Base!DoUpdate

(* The recursion of a batch is what it says: the balances after a line are  *)
(* what the line makes of those before it.                                  *)
LEMMA LineAfterLine ==
  ASSUME NEW b \in Tallies, NEW from \in Addresses, NEW to \in Addresses,
         NEW ids \in Seq(Ids), NEW values \in Seq(Int), Len(ids) = Len(values)
  PROVE  LET after == Base!AfterLines(b, from, to, ids, values)
         IN  /\ after \in [0..Len(ids) -> Tallies] /\ after[0] = b
             /\ \A n \in 1..Len(ids) :
                  after[n] = Base!DoUpdate(after[n - 1], from, to, ids[n], values[n])
<1> DEFINE N == Len(ids)
           Step(n, t) == Base!DoUpdate(t, from, to, ids[n], values[n])
           Is(f) == f = [n \in 0..N |-> IF n = 0 THEN b ELSE Step(n, f[n - 1])]
           step == [n \in 1..N |-> [t \in Tallies |-> Step(n, t)]]
<1>1. N \in Nat /\ \A n \in 1..N : ids[n] \in Ids /\ values[n] \in Int
  OBVIOUS
<1>2. step \in [1..N -> [Tallies -> Tallies]]
  BY <1>1, LineIsTally
<1>3. \A n \in 1..N, t \in Tallies : step[n][t] = Step(n, t)
  OBVIOUS
<1> HIDE DEF Step, step, N, Is
<1>4. PICK f \in [0..N -> Tallies] :
        f[0] = b /\ \A n \in 1..N : f[n] = step[n][f[n - 1]]
  <2>1. N \in Nat /\ b \in Tallies /\ step \in Steps(Tallies, N)
    BY <1>1, <1>2 DEF Steps
  <2>2. Runs(Tallies, N, b, step) # {}
    BY <2>1, Iterated
  <2> QED
    BY <2>2 DEF Runs
<1>5. ASSUME NEW n \in 1..N
      PROVE  f[n] = Step(n, f[n - 1])
  <2>1. f[n - 1] \in Tallies
    BY <1>1
  <2> QED
    BY <2>1, <1>3, <1>4
<1>6. Is(f)
  BY <1>1, <1>4, <1>5 DEF Is
<1> DEFINE after == CHOOSE g : Is(g)
<1>7. Is(after)
  BY <1>6
<1>8. Base!AfterLines(b, from, to, ids, values) = after
  BY DEF Base!AfterLines, Step, N, Is
<1> HIDE DEF after
<1>9. /\ after[0] = b /\ \A n \in 1..N : after[n] = Step(n, after[n - 1])
      /\ after = [n \in 0..N |-> after[n]]
  <2>1. after = [n \in 0..N |-> IF n = 0 THEN b ELSE Step(n, after[n - 1])]
    BY <1>7 DEF Is
  <2>2. \A n \in 0..N : after[n] = IF n = 0 THEN b ELSE Step(n, after[n - 1])
    BY <2>1
  <2>3. \A n \in 1..N : n \in 0..N /\ n # 0
    BY <1>1
  <2>4. \A n \in 1..N : after[n] = Step(n, after[n - 1])
    BY <2>2, <2>3
  <2>5. 0 \in 0..N
    BY <1>1
  <2> QED
    BY <2>1, <2>2, <2>4, <2>5
<1>10. \A n \in 0..N : after[n] \in Tallies
  <2> DEFINE P == {n \in Nat : n <= N => after[n] \in Tallies}
  <2>1. 0 \in P
    BY <1>9
  <2>2. ASSUME NEW n \in P
        PROVE  n + 1 \in P
    <3> SUFFICES ASSUME n + 1 <= N
                 PROVE  after[n + 1] \in Tallies
      OBVIOUS
    <3> DEFINE m == n + 1
    <3>1. after[n] \in Tallies /\ m \in 1..N /\ m - 1 = n
      BY <1>1
    <3> HIDE DEF m
    <3>2. after[m] = Step(m, after[n])
      BY <3>1, <1>9
    <3>3. after[m] \in Tallies
      BY <3>1, <3>2, <1>1, LineIsTally DEF Step
    <3> QED
      BY <3>3 DEF m
  <2>3. P \in SUBSET Nat
    OBVIOUS
  <2> HIDE DEF P
  <2>4. P = Nat
    BY <2>1, <2>2, <2>3, NaturalsByInduction
  <2> QED
    BY <2>4, <1>1 DEF P
<1> QED
  BY <1>8, <1>9, <1>10 DEF Step, N

-----------------------------------------------------------------------------
(* Totals of batches.                                                       *)
PartialTotals(values) ==
  CHOOSE f : f = [n \in 0..Len(values) |-> IF n = 0 THEN 0 ELSE f[n - 1] + values[n]]

(* The total of a batch is the last of its partial totals.                  *)
LEMMA TotalIsSummed == \A values : Base!Total(values) = PartialTotals(values)[Len(values)]
BY DEF Base!Total, PartialTotals

(* And each partial total is the one before with one more value.            *)
LEMMA SummedLineByLine ==
  ASSUME NEW values \in Seq(Nat)
  PROVE  LET s == PartialTotals(values)
         IN  /\ s \in [0..Len(values) -> Nat] /\ s[0] = 0
             /\ \A n \in 1..Len(values) : s[n] = s[n - 1] + values[n]
<1> DEFINE N == Len(values)
           Is(f) == f = [n \in 0..N |-> IF n = 0 THEN 0 ELSE f[n - 1] + values[n]]
           step == [n \in 1..N |-> [t \in Nat |-> t + values[n]]]
           s == PartialTotals(values)
<1>1. N \in Nat /\ \A n \in 1..N : values[n] \in Nat
  OBVIOUS
<1>2. step \in Steps(Nat, N) /\ \A n \in 1..N, t \in Nat : step[n][t] = t + values[n]
  BY <1>1 DEF Steps
<1> HIDE DEF step, N, Is
<1>3. PICK f \in [0..N -> Nat] :
        f[0] = 0 /\ \A n \in 1..N : f[n] = step[n][f[n - 1]]
  <2>1. Runs(Nat, N, 0, step) # {}
    BY <1>1, <1>2, Iterated
  <2> QED
    BY <2>1 DEF Runs
<1>4. ASSUME NEW n \in 1..N
      PROVE  f[n] = f[n - 1] + values[n]
  <2>1. f[n - 1] \in Nat
    BY <1>1
  <2> QED
    BY <2>1, <1>2, <1>3
<1>5. Is(f)
  BY <1>1, <1>3, <1>4 DEF Is
<1>6. s = CHOOSE g : Is(g)
  BY DEF Is, N, PartialTotals
<1>7. Is(s)
  BY <1>5, <1>6
<1> HIDE DEF s
<1>8. /\ s[0] = 0 /\ \A n \in 1..N : s[n] = s[n - 1] + values[n]
      /\ s = [n \in 0..N |-> s[n]]
  <2>1. s = [n \in 0..N |-> IF n = 0 THEN 0 ELSE s[n - 1] + values[n]]
    BY <1>7 DEF Is
  <2>2. \A n \in 0..N : s[n] = IF n = 0 THEN 0 ELSE s[n - 1] + values[n]
    BY <2>1
  <2>3. \A n \in 1..N : n \in 0..N /\ n # 0
    BY <1>1
  <2>4. \A n \in 1..N : s[n] = s[n - 1] + values[n]
    BY <2>2, <2>3
  <2>5. 0 \in 0..N
    BY <1>1
  <2> QED
    BY <2>1, <2>2, <2>4, <2>5
<1>9. \A n \in 0..N : s[n] \in Nat
  <2> DEFINE P == {n \in Nat : n <= N => s[n] \in Nat}
  <2>1. 0 \in P
    BY <1>8
  <2>2. ASSUME NEW n \in P
        PROVE  n + 1 \in P
    <3> SUFFICES ASSUME n + 1 <= N
                 PROVE  s[n + 1] \in Nat
      OBVIOUS
    <3> DEFINE m == n + 1
    <3>1. s[n] \in Nat /\ m \in 1..N /\ m - 1 = n
      BY <1>1
    <3> HIDE DEF m
    <3>2. s[m] = s[n] + values[m]
      BY <3>1, <1>8
    <3>3. s[m] \in Nat
      BY <3>1, <3>2, <1>1
    <3> QED
      BY <3>3 DEF m
  <2>3. P \in SUBSET Nat
    OBVIOUS
  <2> HIDE DEF P
  <2>4. P = Nat
    BY <2>1, <2>2, <2>3, NaturalsByInduction
  <2>5. ASSUME NEW n \in 0..N
        PROVE  n \in P /\ n <= N
    BY <2>4, <1>1
  <2> QED
    BY <2>5 DEF P
<1> QED
  BY <1>8, <1>9 DEF s, N

(* The values of one id in a batch.                                         *)
Masked(ids, values, id) == [n \in DOMAIN ids |-> IF ids[n] = id THEN values[n] ELSE 0]

(* What a batch amounts to for an id is the total of its values, those of   *)
(* the other ids counted as nothing.                                        *)
LEMMA MaskedValues ==
  ASSUME NEW ids \in Seq(Ids), NEW values \in Seq(Nat), Len(ids) = Len(values), NEW id
  PROVE  /\ Masked(ids, values, id) \in Seq(Nat)
         /\ Len(Masked(ids, values, id)) = Len(ids)
         /\ \A n \in 1..Len(ids) :
              Masked(ids, values, id)[n] = IF ids[n] = id THEN values[n] ELSE 0
         /\ Base!Amount(ids, values, id) = Base!Total(Masked(ids, values, id))
<1>1. \A n \in 1..Len(ids) : values[n] \in Nat
  OBVIOUS
<1>2. Masked(ids, values, id) \in [1..Len(ids) -> Nat]
  BY <1>1 DEF Masked
<1>3. Masked(ids, values, id) \in Seq(Nat)
      /\ Len(Masked(ids, values, id)) = Len(ids)
  BY <1>2
<1>4. Base!Amount(ids, values, id) = Base!Total(Masked(ids, values, id))
  BY DEF Base!Amount, Masked
<1> QED
  BY <1>3, <1>4 DEF Masked

(* A function changed at one place, and what that does to its sum.          *)
ChangedAt(S, M, f, g, x) ==
  /\ M \in Nat /\ f \in [S -> 0..M] /\ g \in [S -> 0..M] /\ x \in S
  /\ \A y \in S \ {x} : g[y] = f[y]

(* It moves by what the value at that place did.                            *)
LEMMA ChangeOfSum ==
  ASSUME NEW S, IsFiniteSet(S), NEW M, NEW f, NEW g, NEW x, ChangedAt(S, M, f, g, x)
  PROVE  SumOf(g) = SumOf(f) - f[x] + g[x]
BY SumOfChange DEF ChangedAt

(* The amounts of the ids in a batch are what the batch amounts to.         *)
LEMMA AmountsAddUp ==
  ASSUME IsFiniteSet(Ids), NEW M \in Nat, NEW f \in [Ids -> 0..M],
         NEW ids \in Seq(Ids), NEW values \in Seq(Nat), Len(ids) = Len(values)
  PROVE  /\ \A id \in Ids : /\ Base!Amount(ids, values, id) \in Nat
                            /\ Base!Amount(ids, values, id) <= Base!Total(values)
         /\ Base!Total(values) \in Nat
         /\ SumOf([id \in Ids |-> f[id] + Base!Amount(ids, values, id)])
              = SumOf(f) + Base!Total(values)
<1> DEFINE N == Len(ids)
           t == PartialTotals(values)
           s(id) == PartialTotals(Masked(ids, values, id))
           g(n) == [id \in Ids |-> f[id] + s(id)[n]]
           Good(n) == /\ \A id \in Ids : s(id)[n] <= t[n]
                      /\ SumOf(g(n)) = SumOf(f) + t[n]
           P == {n \in Nat : n <= N => Good(n)}
<1>1. N \in Nat /\ \A n \in 1..N : ids[n] \in Ids /\ values[n] \in Nat
  OBVIOUS
<1>2. /\ t \in [0..N -> Nat] /\ t[0] = 0
      /\ \A n \in 1..N : t[n] = t[n - 1] + values[n]
  BY SummedLineByLine
<1>3. ASSUME NEW id \in Ids
      PROVE  /\ s(id) \in [0..N -> Nat] /\ s(id)[0] = 0
             /\ \A n \in 1..N : s(id)[n] = s(id)[n - 1] + (IF ids[n] = id THEN values[n] ELSE 0)
  <2> DEFINE m == Masked(ids, values, id)
  <2>1. /\ m \in Seq(Nat) /\ Len(m) = N
        /\ \A n \in 1..N : m[n] = IF ids[n] = id THEN values[n] ELSE 0
    BY MaskedValues
  <2> HIDE DEF m
  <2>2. LET p == PartialTotals(m)
        IN  /\ p \in [0..Len(m) -> Nat] /\ p[0] = 0
            /\ \A n \in 1..Len(m) : p[n] = p[n - 1] + m[n]
    BY <2>1, SummedLineByLine
  <2>3. s(id) = PartialTotals(m)
    BY DEF m
  <2> HIDE DEF s
  <2> QED
    BY <2>1, <2>2, <2>3
<1>4. /\ Base!Total(values) = t[N]
      /\ \A id \in Ids : Base!Amount(ids, values, id) = s(id)[N]
  <2>1. ASSUME NEW id \in Ids
        PROVE  Base!Amount(ids, values, id) = s(id)[N]
    <3> DEFINE m == Masked(ids, values, id)
    <3>1. Len(m) = N /\ Base!Amount(ids, values, id) = Base!Total(m)
      BY MaskedValues
    <3> HIDE DEF m
    <3>2. Base!Total(m) = PartialTotals(m)[Len(m)]
      BY TotalIsSummed
    <3> QED
      BY <3>1, <3>2 DEF m
  <2>2. Base!Total(values) = t[N]
    BY TotalIsSummed
  <2> QED
    BY <2>1, <2>2
<1> HIDE DEF N, t, s
<1>5. 0 \in P
  <2>1. g(0) = f
    BY <1>1, <1>3
  <2> HIDE DEF g
  <2>2. SumOf(f) \in Nat
    BY SumOfType
  <2>3. Good(0)
    BY <2>1, <2>2, <1>1, <1>2, <1>3
  <2> QED
    BY <2>3
<1>6. ASSUME NEW n \in P
      PROVE  n + 1 \in P
  <2> SUFFICES ASSUME n + 1 <= N
               PROVE  Good(n + 1)
    OBVIOUS
  <2> DEFINE k == n + 1
             x == ids[k]
             v == values[k]
             L == M + t[k]
  <2>1. k \in 1..N /\ k \in 0..N /\ n \in 0..N /\ k - 1 = n /\ x \in Ids /\ v \in Nat
    BY <1>1
  <2>2. Good(n)
    BY <2>1, <1>1
  <2> HIDE DEF k, x, v
  <2>3. t[n] \in Nat /\ t[k] \in Nat /\ t[k] = t[n] + v
    <3>1. t[k] = t[k - 1] + values[k]
      BY <2>1, <1>2
    <3> QED
      BY <2>1, <3>1, <1>2 DEF v
  <2>4. ASSUME NEW id \in Ids
        PROVE  /\ s(id)[n] \in Nat /\ s(id)[k] \in Nat
               /\ s(id)[n] <= t[n] /\ s(id)[k] <= t[k]
               /\ s(id)[k] = s(id)[n] + (IF x = id THEN v ELSE 0)
               /\ f[id] \in 0..M
    <3>1. /\ s(id)[n] \in Nat /\ s(id)[k] \in Nat
          /\ s(id)[k] = s(id)[n] + (IF x = id THEN v ELSE 0)
      BY <2>1, <1>3 DEF x, v
    <3>2. s(id)[n] <= t[n]
      BY <2>2
    <3>3. s(id)[k] <= t[k]
      <4> DEFINE p == s(id)[n]
                 q == s(id)[k]
                 y == t[n]
                 z == t[k]
      <4>1. p \in Nat /\ q \in Nat /\ p <= y /\ y \in Nat /\ z = y + v /\ v \in Nat
        BY <2>1, <2>3, <3>1, <3>2
      <4>2. q = p \/ q = p + v
        BY <3>1
      <4> HIDE DEF p, q, y, z
      <4> QED
        BY <4>1, <4>2 DEF q, z
    <3> QED
      BY <3>1, <3>2, <3>3
  <2>5. g(n) \in [Ids -> 0..L] /\ g(k) \in [Ids -> 0..L] /\ L \in Nat
    <3>1. ASSUME NEW id \in Ids
          PROVE  f[id] + s(id)[n] \in 0..L /\ f[id] + s(id)[k] \in 0..L
      <4> DEFINE p == f[id]
                 q == s(id)[n]
                 r == s(id)[k]
                 y == t[n]
                 z == t[k]
      <4>1. /\ p \in Nat /\ p <= M /\ q \in Nat /\ r \in Nat /\ q <= y /\ r <= z
            /\ y \in Nat /\ z \in Nat /\ z = y + v /\ v \in Nat
        BY <2>1, <2>3, <2>4
      <4> HIDE DEF p, q, r, y, z
      <4>2. p + q \in 0..(M + z) /\ p + r \in 0..(M + z)
        BY <4>1
      <4> QED
        BY <4>2 DEF p, q, r, z
    <3> QED
      BY <3>1, <2>3
  <2>6. \A id \in Ids \ {x} : g(k)[id] = g(n)[id]
    BY <2>4
  <2>7. g(k)[x] = g(n)[x] + v /\ g(n)[x] \in Nat
    BY <2>1, <2>4
  <2> DEFINE a == g(n)
             b == g(k)
  <2>8. /\ a \in [Ids -> 0..L] /\ b \in [Ids -> 0..L] /\ L \in Nat
        /\ \A id \in Ids \ {x} : b[id] = a[id]
        /\ b[x] = a[x] + v /\ a[x] \in Nat
    BY <2>5, <2>6, <2>7
  <2> HIDE DEF a, b, L
  <2>9. SumOf(b) = SumOf(a) - a[x] + b[x]
    <3>1. x \in Ids
      BY <2>1
    <3>2. ChangedAt(Ids, L, a, b, x)
      BY <3>1, <2>8 DEF ChangedAt
    <3> QED
      BY <3>2, ChangeOfSum
  <2>10. SumOf(a) \in Nat /\ SumOf(f) \in Nat
    BY <2>8, SumOfType
  <2>11. SumOf(b) = SumOf(f) + t[k]
    <3> DEFINE p == SumOf(a)
               q == SumOf(b)
               r == SumOf(f)
               y == a[x]
               tn == t[n]
               tk == t[k]
    <3>1. p = r + tn
      BY <2>2 DEF a
    <3>2. q = p - y + (y + v) /\ p \in Nat /\ r \in Nat /\ y \in Nat
      BY <2>8, <2>9, <2>10
    <3>3. tk = tn + v /\ tn \in Nat /\ v \in Nat
      BY <2>1, <2>3
    <3> HIDE DEF p, q, r, y, tn, tk
    <3>4. q = r + tk
      BY <3>1, <3>2, <3>3
    <3> QED
      BY <3>4 DEF q, r, tk
  <2>12. \A id \in Ids : s(id)[k] <= t[k]
    BY <2>4
  <2> QED
    BY <2>11, <2>12 DEF b, k
<1>7. P \in SUBSET Nat
  OBVIOUS
<1> HIDE DEF P
<1>8. P = Nat
  BY <1>5, <1>6, <1>7, NaturalsByInduction
<1>9. Good(N)
  <2>1. N \in P
    BY <1>1, <1>8
  <2> QED
    BY <2>1, <1>1 DEF P
<1>10. t[N] \in Nat /\ \A id \in Ids : s(id)[N] \in Nat
  BY <1>1, <1>2, <1>3
<1>11. [id \in Ids |-> f[id] + Base!Amount(ids, values, id)] = g(N)
  BY <1>4
<1> QED
  BY <1>4, <1>9, <1>10, <1>11

-----------------------------------------------------------------------------
(* What goes out of an account, or into one: nothing, of the zero address.  *)
Counted(a, amount) == IF a = ZERO THEN 0 ELSE amount

(* A batch takes from one account and gives to the other what it amounts    *)
(* to, of each id; no third account has less.                               *)
Moved(b, c, from, to, id, amount) ==
  /\ c \in Base!Balances
  /\ SumOf(c[id]) + Counted(from, amount) = SumOf(b[id]) + Counted(to, amount)
  /\ \A a \in Addresses \ {from} : c[id][a] >= b[id][a]

(* One line, carried out, is such a move of what it says of its id and of   *)
(* nothing of another.                                                      *)
LEMMA LineMoves ==
  ASSUME IsFiniteSet(Addresses), MaxU256 \in Nat,
         NEW b \in Base!Balances, NEW from \in Addresses, NEW to \in Addresses,
         NEW id \in Ids, NEW value \in U256,
         Base!CanDoUpdate(b, from, to, id, value), NEW j \in Ids
  PROVE  Moved(b, Base!DoUpdate(b, from, to, id, value), from, to, j,
               IF id = j THEN value ELSE 0)
<1> DEFINE d == Base!Debit(b, from, id, value)
           c == Base!Credit(d, to, id, value)
<1> USE DEF U256, Base!U256, Base!Balances
<1>1. /\ d \in Base!Balances
      /\ \A i \in Ids \ {id} : d[i] = b[i]
      /\ \A a \in Addresses \ {from} : d[id][a] = b[id][a]
      /\ from # ZERO => d[id][from] = b[id][from] - value
      /\ from = ZERO => d = b
  <2>1. CASE from = ZERO
    BY <2>1 DEF Base!Debit
  <2>2. CASE from # ZERO
    <3>1. value <= b[id][from] /\ b[id][from] \in 0..MaxU256
      BY <2>2 DEF Base!CanDoUpdate
    <3>2. b[id][from] - value \in 0..MaxU256
      BY <3>1
    <3> QED
      BY <2>2, <3>2 DEF Base!Debit
  <2> QED
    BY <2>1, <2>2
<1>2. to # ZERO => d[id][to] + value <= MaxU256
  BY DEF Base!CanDoUpdate
<1> HIDE DEF d
<1>3. /\ c \in Base!Balances
      /\ \A i \in Ids \ {id} : c[i] = d[i]
      /\ \A a \in Addresses \ {to} : c[id][a] = d[id][a]
      /\ to # ZERO => c[id][to] = d[id][to] + value
      /\ to = ZERO => c = d
  <2>1. CASE to = ZERO
    BY <2>1, <1>1 DEF Base!Credit
  <2>2. CASE to # ZERO
    <3>1. d[id][to] + value \in 0..MaxU256
      BY <2>2, <1>1, <1>2
    <3> QED
      BY <2>2, <3>1, <1>1 DEF Base!Credit
  <2> QED
    BY <2>1, <2>2
<1>4. c = Base!DoUpdate(b, from, to, id, value)
  BY DEF Base!DoUpdate, d
<1> HIDE DEF c
<1>5. \A i \in Ids : /\ b[i] \in [Addresses -> 0..MaxU256]
                     /\ d[i] \in [Addresses -> 0..MaxU256]
                     /\ c[i] \in [Addresses -> 0..MaxU256]
  BY <1>1, <1>3
<1>6. SumOf(b[j]) \in Nat /\ SumOf(d[j]) \in Nat /\ SumOf(c[j]) \in Nat
  BY <1>5, SumOfType
<1>7. CASE j # id
  <2>1. c[j] = b[j]
    BY <1>1, <1>3, <1>7
  <2>2. \A a \in Addresses : b[j][a] >= b[j][a]
    BY <1>5
  <2> QED
    BY <2>1, <2>2, <1>3, <1>4, <1>6, <1>7 DEF Moved, Counted
<1>8. CASE j = id
  <2>1. SumOf(d[j]) + Counted(from, value) = SumOf(b[j])
    <3>1. CASE from = ZERO
      BY <3>1, <1>1, <1>6 DEF Counted
    <3>2. CASE from # ZERO
      <4>1. SumOf(d[j]) = SumOf(b[j]) - b[j][from] + d[j][from]
        <5> DEFINE p == b[j]
                   q == d[j]
        <5>1. /\ p \in [Addresses -> 0..MaxU256] /\ q \in [Addresses -> 0..MaxU256]
              /\ \A a \in Addresses \ {from} : q[a] = p[a]
          BY <1>1, <1>5, <1>8
        <5> HIDE DEF p, q
        <5>2. SumOf(q) = SumOf(p) - p[from] + q[from]
          BY <5>1, SumOfChange
        <5> QED
          BY <5>2 DEF p, q
      <4> QED
        BY <4>1, <3>2, <1>1, <1>5, <1>6, <1>8 DEF Counted
    <3> QED
      BY <3>1, <3>2
  <2>2. SumOf(c[j]) = SumOf(d[j]) + Counted(to, value)
    <3>1. CASE to = ZERO
      BY <3>1, <1>3, <1>6 DEF Counted
    <3>2. CASE to # ZERO
      <4>1. SumOf(c[j]) = SumOf(d[j]) - d[j][to] + c[j][to]
        <5> DEFINE p == d[j]
                   q == c[j]
        <5>1. /\ p \in [Addresses -> 0..MaxU256] /\ q \in [Addresses -> 0..MaxU256]
              /\ \A a \in Addresses \ {to} : q[a] = p[a]
          BY <1>3, <1>5, <1>8
        <5> HIDE DEF p, q
        <5>2. SumOf(q) = SumOf(p) - p[to] + q[to]
          BY <5>1, SumOfChange
        <5> QED
          BY <5>2 DEF p, q
      <4> QED
        BY <4>1, <3>2, <1>3, <1>5, <1>6, <1>8 DEF Counted
    <3> QED
      BY <3>1, <3>2
  <2>3. \A a \in Addresses \ {from} : c[j][a] >= b[j][a]
    <3> SUFFICES ASSUME NEW a \in Addresses \ {from}
                 PROVE  c[j][a] >= b[j][a]
      OBVIOUS
    <3>1. d[j][a] = b[j][a] /\ d[j][a] \in Nat /\ b[j][a] \in Nat
      BY <1>1, <1>5, <1>8
    <3>2. CASE a = to /\ to # ZERO
      BY <3>1, <3>2, <1>3, <1>8
    <3>3. CASE a # to
      BY <3>1, <3>3, <1>3, <1>8
    <3>4. CASE to = ZERO
      BY <3>1, <3>4, <1>3, <1>8
    <3> QED
      BY <3>2, <3>3, <3>4
  <2>4. Counted(from, value) \in Nat /\ Counted(to, value) \in Nat
    BY DEF Counted
  <2>5. SumOf(c[j]) + Counted(from, value) = SumOf(b[j]) + Counted(to, value)
    BY <2>1, <2>2, <2>4, <1>6
  <2> QED
    BY <2>3, <2>5, <1>3, <1>4, <1>8 DEF Moved
<1> QED
  BY <1>7, <1>8

(* Two moves are one of the sum of the amounts.                             *)
LEMMA MovedTwice ==
  ASSUME IsFiniteSet(Addresses), MaxU256 \in Nat, NEW b \in Base!Balances,
         NEW c, NEW d, NEW from \in Addresses, NEW to \in Addresses, NEW j \in Ids,
         NEW v \in Nat, NEW w \in Nat,
         Moved(b, c, from, to, j, v), Moved(c, d, from, to, j, w)
  PROVE  Moved(b, d, from, to, j, v + w)
<1> USE DEF Base!Balances, Base!U256
<1>1. /\ b[j] \in [Addresses -> 0..MaxU256] /\ c[j] \in [Addresses -> 0..MaxU256]
      /\ d[j] \in [Addresses -> 0..MaxU256] /\ d \in Base!Balances
  BY DEF Moved
<1>2. SumOf(b[j]) \in Nat /\ SumOf(c[j]) \in Nat /\ SumOf(d[j]) \in Nat
  BY <1>1, SumOfType
<1>3. /\ SumOf(c[j]) + Counted(from, v) = SumOf(b[j]) + Counted(to, v)
      /\ SumOf(d[j]) + Counted(from, w) = SumOf(c[j]) + Counted(to, w)
  BY DEF Moved
<1>4. SumOf(d[j]) + Counted(from, v + w) = SumOf(b[j]) + Counted(to, v + w)
  <2> DEFINE p == SumOf(b[j])
             q == SumOf(c[j])
             r == SumOf(d[j])
  <2>1. p \in Nat /\ q \in Nat /\ r \in Nat
    BY <1>2
  <2>2. /\ q + Counted(from, v) = p + Counted(to, v)
        /\ r + Counted(from, w) = q + Counted(to, w)
    BY <1>3
  <2> HIDE DEF p, q, r
  <2>3. r + Counted(from, v + w) = p + Counted(to, v + w)
    BY <2>1, <2>2 DEF Counted
  <2> QED
    BY <2>3 DEF p, r
<1>5. ASSUME NEW a \in Addresses \ {from}
      PROVE  d[j][a] >= b[j][a]
  <2>1. c[j][a] >= b[j][a] /\ d[j][a] >= c[j][a]
    BY DEF Moved
  <2>2. b[j][a] \in Nat /\ c[j][a] \in Nat /\ d[j][a] \in Nat
    BY <1>1
  <2> QED
    BY <2>1, <2>2
<1> QED
  BY <1>1, <1>4, <1>5 DEF Moved

(* Hence a whole batch moves, of each id, what it amounts to, though it may *)
(* name an id more than once.                                               *)
LEMMA BatchMoves ==
  ASSUME IsFiniteSet(Addresses), MaxU256 \in Nat,
         NEW b \in Base!Balances, NEW from \in Addresses, NEW to \in Addresses,
         NEW ids \in Seq(Ids), NEW values \in Seq(U256),
         Base!CanUpdate(b, from, to, ids, values), NEW j \in Ids
  PROVE  Moved(b, Base!Update(b, from, to, ids, values), from, to, j,
               Base!Amount(ids, values, j))
<1> DEFINE N == Len(ids)
           m == Masked(ids, values, j)
           s == PartialTotals(m)
           after == Base!AfterLines(b, from, to, ids, values)
           Good(n) == Moved(b, after[n], from, to, j, s[n])
           P == {n \in Nat : n <= N => Good(n)}
<1>1. /\ N \in Nat /\ Len(values) = N /\ values \in Seq(Nat) /\ values \in Seq(Int)
      /\ \A n \in 1..N : /\ ids[n] \in Ids /\ values[n] \in U256 /\ values[n] \in Nat
                         /\ Base!CanDoUpdate(after[n - 1], from, to, ids[n], values[n])
  BY DEF Base!CanUpdate, U256, Base!U256
<1>2. b \in Tallies
  BY DEF Base!Balances, Tallies, Base!U256
<1>3. /\ after \in [0..N -> Tallies] /\ after[0] = b
      /\ \A n \in 1..N : after[n] = Base!DoUpdate(after[n - 1], from, to, ids[n], values[n])
  BY <1>1, <1>2, LineAfterLine
<1>4. /\ m \in Seq(Nat) /\ Len(m) = N /\ Base!Amount(ids, values, j) = s[N]
      /\ \A n \in 1..N : m[n] = IF ids[n] = j THEN values[n] ELSE 0
  <2>1. /\ m \in Seq(Nat) /\ Len(m) = N
        /\ Base!Amount(ids, values, j) = Base!Total(m)
        /\ \A n \in 1..N : m[n] = IF ids[n] = j THEN values[n] ELSE 0
    BY <1>1, MaskedValues
  <2>2. Base!Total(m) = s[Len(m)]
    BY TotalIsSummed
  <2> HIDE DEF m, s, N
  <2> QED
    BY <2>1, <2>2
<1>5. Base!Update(b, from, to, ids, values) = after[N]
  BY DEF Base!Update
<1> HIDE DEF m
<1>6. /\ s \in [0..N -> Nat] /\ s[0] = 0
      /\ \A n \in 1..N : s[n] = s[n - 1] + m[n]
  <2>1. /\ s \in [0..Len(m) -> Nat] /\ s[0] = 0
        /\ \A n \in 1..Len(m) : s[n] = s[n - 1] + m[n]
    BY <1>4, SummedLineByLine
  <2> HIDE DEF s, N
  <2> QED
    BY <2>1, <1>4
<1> HIDE DEF N, s, after
<1>7. 0 \in P
  <2>1. SumOf(b[j]) \in Nat
    <3>1. b[j] \in [Addresses -> 0..MaxU256]
      BY DEF Base!Balances, Base!U256
    <3> QED
      BY <3>1, SumOfType
  <2>2. \A a \in Addresses : b[j][a] \in Nat
    BY DEF Base!Balances, Base!U256
  <2> QED
    BY <2>1, <2>2, <1>3, <1>6 DEF Moved, Counted
<1>8. ASSUME NEW n \in P
      PROVE  n + 1 \in P
  <2> SUFFICES ASSUME n + 1 <= N
               PROVE  Good(n + 1)
    OBVIOUS
  <2> DEFINE k == n + 1
             c == after[n]
             d == after[k]
             v == IF ids[k] = j THEN values[k] ELSE 0
  <2>1. Good(n) /\ k \in 1..N /\ n \in 0..N /\ k - 1 = n
    BY <1>1
  <2> HIDE DEF k
  <2>2. /\ d = Base!DoUpdate(c, from, to, ids[k], values[k])
        /\ Base!CanDoUpdate(c, from, to, ids[k], values[k])
        /\ ids[k] \in Ids /\ values[k] \in U256 /\ values[k] \in Nat
    <3>1. after[k] = Base!DoUpdate(after[k - 1], from, to, ids[k], values[k])
      BY <2>1, <1>3
    <3>2. Base!CanDoUpdate(after[k - 1], from, to, ids[k], values[k])
      BY <2>1, <1>1
    <3> QED
      BY <3>1, <3>2, <2>1, <1>1
  <2>3. s[k] = s[n] + v /\ s[n] \in Nat /\ v \in Nat
    <3>1. s[k] = s[k - 1] + m[k] /\ s[n] \in Nat
      BY <2>1, <1>6
    <3> QED
      BY <3>1, <2>1, <2>2, <1>4
  <2>4. c \in Base!Balances /\ Moved(b, c, from, to, j, s[n])
    BY <2>1 DEF Moved
  <2> HIDE DEF c, d
  <2>5. Moved(c, d, from, to, j, v)
    BY <2>2, <2>4, LineMoves
  <2> HIDE DEF v
  <2>6. Moved(b, d, from, to, j, s[n] + v)
    BY <2>3, <2>4, <2>5, MovedTwice
  <2> QED
    BY <2>3, <2>6 DEF d, k
<1>9. P \in SUBSET Nat
  OBVIOUS
<1> HIDE DEF P
<1>10. P = Nat
  BY <1>7, <1>8, <1>9, NaturalsByInduction
<1>11. Good(N)
  <2>1. N \in P
    BY <1>1, <1>10
  <2> QED
    BY <2>1, <1>1 DEF P
<1> QED
  BY <1>4, <1>5, <1>11

-----------------------------------------------------------------------------
(* ERC-1155.  What the assumption says of the constants.                    *)
LEMMA SupplyConstants ==
  /\ IsFiniteSet(Addresses) /\ IsFiniteSet(Ids) /\ ZERO \in Addresses
  /\ MaxU256 \in Nat \ {0} /\ U256 = 0..MaxU256 /\ Base!U256 = 0..MaxU256
  /\ \A batch \in Batches : batch[1] \in Seq(Ids) /\ batch[2] \in Seq(U256)
BY SupplyAssumption DEF Base!Erc1155Assumption, U256, Base!U256

(* A word keeps its value when it is wrapped, and what is wrapped is one.   *)
LEMMA Wrapped ==
  ASSUME NEW x \in Int
  PROVE  Wrap(x) \in U256 /\ (x \in U256 => Wrap(x) = x)
<1>1. MaxU256 + 1 \in Nat /\ MaxU256 + 1 > 0 /\ MaxU256 \in Nat
  BY SupplyConstants
<1>2. x % (MaxU256 + 1) \in 0..MaxU256
  BY <1>1
<1>3. x \in 0..MaxU256 => x % (MaxU256 + 1) = x
  BY <1>1
<1> QED
  BY <1>2, <1>3, SupplyConstants DEF Wrap

(* What a batch amounts to is no less than nothing.                         *)
LEMMA AmountsAreNatural ==
  ASSUME NEW ids \in Seq(Ids), NEW values \in Seq(Nat), Len(ids) = Len(values)
  PROVE  /\ \A id \in Ids : Base!Amount(ids, values, id) \in Nat
         /\ Base!Total(values) \in Nat
<1>1. [id \in Ids |-> 0] \in [Ids -> 0..0] /\ 0 \in Nat
  OBVIOUS
<1> QED
  BY <1>1, AmountsAddUp, SupplyConstants

(* A batch that is carried out.                                             *)
LEMMA UpdateMoves ==
  ASSUME SupplyIsHeld, NEW from \in Addresses, NEW to \in Addresses,
         NEW ids \in Seq(Ids), NEW values \in Seq(U256),
         UpdateChecked(from, to, ids, values)
  PROVE  /\ Len(ids) = Len(values) /\ values \in Seq(Nat)
         /\ balances' \in Base!Balances /\ operator_approvals' = operator_approvals
         /\ \A id \in Ids :
              /\ Base!Amount(ids, values, id) \in Nat
              /\ SumOf(balances'[id]) \in Nat
              /\ SumOf(balances'[id]) + Counted(from, Base!Amount(ids, values, id))
                   = total_supply[id] + Counted(to, Base!Amount(ids, values, id))
              /\ \A a \in Addresses \ {from} : balances'[id][a] >= balances[id][a]
<1>1. /\ Base!CanUpdate(balances, from, to, ids, values)
      /\ balances' = Base!Update(balances, from, to, ids, values)
      /\ operator_approvals' = operator_approvals
      /\ balances \in Base!Balances
      /\ \A id \in Ids : SumOf(balances[id]) = total_supply[id]
  BY DEF UpdateChecked, SupplyIsHeld, TypeOK
<1>2. Len(ids) = Len(values) /\ values \in Seq(Nat)
  BY <1>1, SupplyConstants DEF Base!CanUpdate
<1>3. \A id \in Ids : Moved(balances, balances', from, to, id, Base!Amount(ids, values, id))
  BY <1>1, BatchMoves, SupplyConstants
<1>4. \A id \in Ids : Base!Amount(ids, values, id) \in Nat
  BY <1>2, AmountsAreNatural
<1>5. balances' \in Base!Balances
  <2>1. CASE Ids = {}
    <3>1. Base!Balances = [{} -> [Addresses -> Base!U256]]
      BY <2>1 DEF Base!Balances
    <3>2. Len(ids) = 0
      BY <2>1
    <3>3. balances' = balances
      <4>1. 0..Len(ids) = {0} /\ balances \in Tallies /\ values \in Seq(Int)
        BY <1>1, <1>2, <3>2 DEF Base!Balances, Tallies, Base!U256
      <4>2. Base!AfterLines(balances, from, to, ids, values)[0] = balances
        BY <4>1, <1>2, LineAfterLine
      <4> QED
        BY <4>2, <3>2, <1>1 DEF Base!Update
    <3> QED
      BY <3>3, <1>1
  <2>2. CASE Ids # {}
    BY <2>2, <1>3 DEF Moved
  <2> QED
    BY <2>1, <2>2
<1>6. ASSUME NEW id \in Ids
      PROVE  SumOf(balances'[id]) \in Nat
  <2>1. balances'[id] \in [Addresses -> 0..MaxU256]
    BY <1>5 DEF Base!Balances, Base!U256
  <2> DEFINE b == balances'[id]
  <2> HIDE DEF b
  <2>2. b \in [Addresses -> 0..MaxU256] => SumOf(b) \in Nat
    BY SumOfType, SupplyConstants
  <2> QED
    BY <2>1, <2>2 DEF b
<1> QED
  BY <1>1, <1>2, <1>3, <1>4, <1>5, <1>6 DEF Moved

(* A burn, which lowers the supplies unchecked, lowers them by no more than *)
(* there is.                                                                *)
LEMMA BurnLowers ==
  ASSUME SupplyIsHeld, NEW from \in Addresses, NEW ids \in Seq(Ids),
         NEW values \in Seq(U256), Burn(from, ids, values)
  PROVE  /\ total_supply' = [id \in Ids |-> total_supply[id] - Base!Amount(ids, values, id)]
         /\ total_supply' \in [Ids -> U256]
         /\ \A id \in Ids : total_supply'[id] = SumOf(balances'[id])
<1>1. /\ from # ZERO /\ UpdateChecked(from, ZERO, ids, values) /\ ZERO \in Addresses
      /\ total_supply' =
           [id \in Ids |-> Wrap(total_supply[id] - Base!Amount(ids, values, id))]
      /\ total_supply \in [Ids -> U256]
  BY SupplyConstants DEF Burn, LowerSupply, SupplyIsHeld, TypeOK
<1>2. ASSUME NEW id \in Ids
      PROVE  /\ total_supply[id] - Base!Amount(ids, values, id) = SumOf(balances'[id])
             /\ total_supply[id] - Base!Amount(ids, values, id) \in U256
             /\ Wrap(total_supply[id] - Base!Amount(ids, values, id))
                  = total_supply[id] - Base!Amount(ids, values, id)
  <2> DEFINE m == Base!Amount(ids, values, id)
             h == SumOf(balances'[id])
             s == total_supply[id]
  <2>1. m \in Nat /\ h \in Nat /\ h + m = s + 0
    BY <1>1, UpdateMoves DEF Counted
  <2>2. s \in Nat /\ s <= MaxU256 /\ MaxU256 \in Nat
    BY <1>1, SupplyConstants
  <2> HIDE DEF m, h, s
  <2>3. s - m = h /\ s - m \in 0..MaxU256 /\ s - m \in Int
    BY <2>1, <2>2
  <2>4. s - m \in U256 /\ Wrap(s - m) = s - m
    BY <2>3, Wrapped, SupplyConstants
  <2> QED
    BY <2>3, <2>4 DEF m, h, s
<1> QED
  BY <1>1, <1>2

(* A mint raises each supply by what it raises the balances by, and no      *)
(* supply wraps.                                                            *)
LEMMA MintRaises ==
  ASSUME SupplyIsHeld, NEW to \in Addresses, NEW ids \in Seq(Ids),
         NEW values \in Seq(U256), Mint(to, ids, values)
  PROVE  /\ total_supply' = [id \in Ids |-> total_supply[id] + Base!Amount(ids, values, id)]
         /\ total_supply' \in [Ids -> U256]
         /\ \A id \in Ids : total_supply'[id] = SumOf(balances'[id])
<1>1. /\ to # ZERO /\ UpdateChecked(ZERO, to, ids, values) /\ ZERO \in Addresses
      /\ total_supply' = [id \in Ids |-> total_supply[id] + Base!Amount(ids, values, id)]
      /\ \A id \in Ids : total_supply[id] + Base!Amount(ids, values, id) <= MaxU256
      /\ total_supply \in [Ids -> U256]
  BY SupplyConstants DEF Mint, RaiseSupply, SupplyIsHeld, TypeOK
<1>2. ASSUME NEW id \in Ids
      PROVE  /\ total_supply[id] + Base!Amount(ids, values, id) = SumOf(balances'[id])
             /\ total_supply[id] + Base!Amount(ids, values, id) \in U256
  <2> DEFINE m == Base!Amount(ids, values, id)
             h == SumOf(balances'[id])
             s == total_supply[id]
  <2>1. m \in Nat /\ h \in Nat /\ h + 0 = s + m
    BY <1>1, UpdateMoves DEF Counted
  <2>2. s \in Nat /\ s + m <= MaxU256 /\ MaxU256 \in Nat
    BY <1>1, SupplyConstants
  <2> HIDE DEF m, h, s
  <2>3. s + m = h /\ s + m \in 0..MaxU256
    BY <2>1, <2>2
  <2> QED
    BY <2>3, SupplyConstants DEF m, h, s
<1> QED
  BY <1>1, <1>2

(* The calls that change a supply keep it what is held.                     *)
LEMMA SupplyIsKept ==
  ASSUME SupplyIsHeld, [Next]_vars
  PROVE  SupplyIsHeld'
<1>1. /\ balances \in Base!Balances /\ total_supply \in [Ids -> U256]
      /\ operator_approvals \in [Addresses -> [Addresses -> BOOLEAN]]
      /\ total_supply_all \in U256
      /\ \A id \in Ids : total_supply[id] = SumOf(balances[id])
  BY DEF SupplyIsHeld, TypeOK
<1>2. ASSUME NEW caller \in Accounts, NEW operator \in Addresses,
             NEW approved \in BOOLEAN, SetApprovalForAll(caller, operator, approved)
      PROVE  SupplyIsHeld'
  <2>1. caller \in Addresses
    BY DEF Accounts, Base!Accounts
  <2> QED
    BY <1>1, <1>2, <2>1 DEF SetApprovalForAll, SupplyIsHeld, TypeOK
<1>3. ASSUME NEW caller \in Accounts, NEW from \in Addresses, NEW to \in Addresses,
             NEW batch \in Batches, SafeTransferFrom(caller, from, to, batch[1], batch[2])
      PROVE  SupplyIsHeld'
  <2> DEFINE ids == batch[1]
             values == batch[2]
  <2>1. /\ ids \in Seq(Ids) /\ values \in Seq(U256) /\ from # ZERO /\ to # ZERO
        /\ UpdateChecked(from, to, ids, values)
        /\ total_supply' = total_supply /\ total_supply_all' = total_supply_all
    BY <1>3, SupplyConstants DEF SafeTransferFrom, KeepSupply
  <2> HIDE DEF ids, values
  <2>2. /\ balances' \in Base!Balances /\ operator_approvals' = operator_approvals
        /\ \A id \in Ids :
             /\ Base!Amount(ids, values, id) \in Nat /\ SumOf(balances'[id]) \in Nat
             /\ SumOf(balances'[id]) + Base!Amount(ids, values, id)
                  = total_supply[id] + Base!Amount(ids, values, id)
    BY <2>1, UpdateMoves DEF Counted
  <2>3. ASSUME NEW id \in Ids
        PROVE  total_supply[id] = SumOf(balances'[id])
    <3> DEFINE m == Base!Amount(ids, values, id)
               h == SumOf(balances'[id])
               s == total_supply[id]
    <3>1. m \in Nat /\ h \in Nat /\ h + m = s + m /\ s \in Nat
      BY <2>2, <1>1, SupplyConstants
    <3> HIDE DEF m, h, s
    <3>2. s = h
      BY <3>1
    <3> QED
      BY <3>2 DEF h, s
  <2> QED
    BY <1>1, <2>1, <2>2, <2>3 DEF SupplyIsHeld, TypeOK
<1>4. ASSUME NEW account \in Addresses, NEW batch \in Batches,
             Mint(account, batch[1], batch[2])
      PROVE  SupplyIsHeld'
  <2> DEFINE ids == batch[1]
             values == batch[2]
  <2>1. /\ ids \in Seq(Ids) /\ values \in Seq(U256) /\ ZERO \in Addresses
        /\ UpdateChecked(ZERO, account, ids, values) /\ Mint(account, ids, values)
        /\ total_supply_all' = total_supply_all + Wrap(Base!Total(values))
        /\ total_supply_all + Wrap(Base!Total(values)) <= MaxU256
    BY <1>4, SupplyConstants DEF Mint, RaiseSupply
  <2> HIDE DEF ids, values
  <2>2. balances' \in Base!Balances /\ operator_approvals' = operator_approvals
    BY <2>1, UpdateMoves
  <2>3. /\ total_supply' \in [Ids -> U256]
        /\ \A id \in Ids : total_supply'[id] = SumOf(balances'[id])
    BY <2>1, MintRaises
  <2>4. total_supply_all' \in U256
    <3>1. Base!Total(values) \in Int
      <4>1. values \in Seq(Nat) /\ Len(ids) = Len(values)
        BY <2>1, UpdateMoves
      <4> QED
        BY <2>1, <4>1, AmountsAreNatural
    <3>2. Wrap(Base!Total(values)) \in 0..MaxU256
      BY <3>1, Wrapped, SupplyConstants
    <3> DEFINE w == Wrap(Base!Total(values))
    <3>3. w \in 0..MaxU256
      BY <3>2
    <3> HIDE DEF w
    <3>4. total_supply_all + w <= MaxU256 => total_supply_all + w \in 0..MaxU256
      BY <3>3, <1>1, SupplyConstants
    <3> QED
      BY <3>4, <2>1, SupplyConstants DEF w
  <2> QED
    BY <1>1, <2>2, <2>3, <2>4 DEF SupplyIsHeld, TypeOK
<1>5. ASSUME NEW account \in Addresses, NEW batch \in Batches,
             Burn(account, batch[1], batch[2])
      PROVE  SupplyIsHeld'
  <2> DEFINE ids == batch[1]
             values == batch[2]
  <2>1. /\ ids \in Seq(Ids) /\ values \in Seq(U256) /\ ZERO \in Addresses
        /\ UpdateChecked(account, ZERO, ids, values) /\ Burn(account, ids, values)
        /\ total_supply_all' = Wrap(total_supply_all - Wrap(Base!Total(values)))
    BY <1>5, SupplyConstants DEF Burn, LowerSupply
  <2> HIDE DEF ids, values
  <2>2. balances' \in Base!Balances /\ operator_approvals' = operator_approvals
    BY <2>1, UpdateMoves
  <2>3. /\ total_supply' \in [Ids -> U256]
        /\ \A id \in Ids : total_supply'[id] = SumOf(balances'[id])
    BY <2>1, BurnLowers
  <2>4. total_supply_all' \in U256
    <3>1. Base!Total(values) \in Int
      <4>1. values \in Seq(Nat) /\ Len(ids) = Len(values)
        BY <2>1, UpdateMoves
      <4> QED
        BY <2>1, <4>1, AmountsAreNatural
    <3>2. Wrap(Base!Total(values)) \in Int
      BY <3>1, Wrapped, SupplyConstants
    <3>3. total_supply_all - Wrap(Base!Total(values)) \in Int
      BY <3>2, <1>1, SupplyConstants
    <3> QED
      BY <3>3, <2>1, Wrapped
  <2> QED
    BY <1>1, <2>2, <2>3, <2>4 DEF SupplyIsHeld, TypeOK
<1>6. CASE UNCHANGED vars
  BY <1>6 DEF vars, SupplyIsHeld, TypeOK
<1> QED
  BY <1>2, <1>3, <1>4, <1>5, <1>6 DEF Next, Erc1155Call, BurnCall

(* The supply of all tokens keeps being the sum of the supplies, when the   *)
(* values of no batch add up to more than a word holds.                     *)
BatchesFit ==
  \A batch \in Batches :
    Len(batch[1]) = Len(batch[2]) => Base!Total(batch[2]) <= MaxU256

(* Each call moves it by the total of the batch, which is what the supplies *)
(* move by.                                                                 *)
LEMMA SupplyAllIsKept ==
  ASSUME BatchesFit, SupplyIsHeld, SupplyAllIsSum, [Next]_vars
  PROVE  SupplyAllIsSum'
<1> DEFINE supplies == total_supply
           all == total_supply_all
<1>1. /\ supplies \in [Ids -> 0..MaxU256] /\ MaxU256 \in Nat /\ all \in 0..MaxU256
      /\ all = SumOf(supplies)
  BY SupplyConstants DEF SupplyIsHeld, TypeOK, SupplyAllIsSum
<1>2. ASSUME NEW account \in Addresses, NEW batch \in Batches,
             Mint(account, batch[1], batch[2])
      PROVE  total_supply_all' = SumOf(total_supply')
  <2> DEFINE ids == batch[1]
             values == batch[2]
             m == Base!Total(values)
  <2>1. /\ ids \in Seq(Ids) /\ values \in Seq(U256) /\ ZERO \in Addresses
        /\ UpdateChecked(ZERO, account, ids, values) /\ Mint(account, ids, values)
        /\ total_supply_all' = all + Wrap(m)
        /\ Len(ids) = Len(values) => m <= MaxU256
    BY <1>2, SupplyConstants DEF Mint, RaiseSupply, BatchesFit
  <2> HIDE DEF ids, values
  <2>2. values \in Seq(Nat) /\ Len(ids) = Len(values)
    BY <2>1, UpdateMoves
  <2>3. m \in Nat
    BY <2>1, <2>2, AmountsAreNatural
  <2>4. total_supply' = [id \in Ids |-> supplies[id] + Base!Amount(ids, values, id)]
    BY <2>1, MintRaises
  <2> HIDE DEF m, supplies
  <2>5. SumOf([id \in Ids |-> supplies[id] + Base!Amount(ids, values, id)])
          = SumOf(supplies) + m
    BY <1>1, <2>1, <2>2, AmountsAddUp, SupplyConstants DEF m
  <2>6. Wrap(m) = m
    <3>1. m \in U256 /\ m \in Int
      BY <1>1, <2>1, <2>2, <2>3, SupplyConstants
    <3> QED
      BY <3>1, Wrapped
  <2> QED
    BY <1>1, <2>1, <2>4, <2>5, <2>6
<1>3. ASSUME NEW account \in Addresses, NEW batch \in Batches,
             Burn(account, batch[1], batch[2])
      PROVE  total_supply_all' = SumOf(total_supply')
  <2> DEFINE ids == batch[1]
             values == batch[2]
             m == Base!Total(values)
             lowered == total_supply'
  <2>1. /\ ids \in Seq(Ids) /\ values \in Seq(U256) /\ ZERO \in Addresses
        /\ UpdateChecked(account, ZERO, ids, values) /\ Burn(account, ids, values)
        /\ total_supply_all' = Wrap(all - Wrap(m))
        /\ Len(ids) = Len(values) => m <= MaxU256
    BY <1>3, SupplyConstants DEF Burn, LowerSupply, BatchesFit
  <2> HIDE DEF ids, values
  <2>2. values \in Seq(Nat) /\ Len(ids) = Len(values)
    BY <2>1, UpdateMoves
  <2>3. m \in Nat /\ \A id \in Ids : Base!Amount(ids, values, id) \in Nat
    BY <2>1, <2>2, AmountsAreNatural
  <2>4. /\ lowered = [id \in Ids |-> supplies[id] - Base!Amount(ids, values, id)]
        /\ lowered \in [Ids -> 0..MaxU256]
    BY <2>1, BurnLowers, SupplyConstants
  <2> HIDE DEF m, lowered, supplies
  <2>5. SumOf([id \in Ids |-> lowered[id] + Base!Amount(ids, values, id)])
          = SumOf(lowered) + m
    <3>1. lowered \in [Ids -> 0..MaxU256] /\ MaxU256 \in Nat /\ ids \in Seq(Ids)
      BY <1>1, <2>1, <2>4
    <3> QED
      BY <3>1, <2>2, AmountsAddUp, SupplyConstants DEF m
  <2>6. [id \in Ids |-> lowered[id] + Base!Amount(ids, values, id)] = supplies
    <3>1. ASSUME NEW id \in Ids
          PROVE  lowered[id] + Base!Amount(ids, values, id) = supplies[id]
      <4> DEFINE p == lowered[id]
                 q == Base!Amount(ids, values, id)
                 r == supplies[id]
      <4>1. p = r - q /\ q \in Nat /\ r \in Nat
        BY <1>1, <2>3, <2>4
      <4> HIDE DEF p, q, r
      <4>2. p + q = r
        BY <4>1
      <4> QED
        BY <4>2 DEF p, q, r
    <3> QED
      BY <3>1, <1>1
  <2>7. SumOf(lowered) \in Nat
    BY <1>1, <2>4, SumOfType, SupplyConstants
  <2>8. all = SumOf(lowered) + m
    BY <1>1, <2>5, <2>6
  <2> DEFINE h == SumOf(lowered)
             n == all
  <2> HIDE DEF h, n
  <2>9. /\ n = h + m /\ h \in Nat /\ m \in Nat /\ n <= MaxU256 /\ MaxU256 \in Nat
        /\ m \in U256 /\ m \in Int
    <3>1. n = h + m /\ h \in Nat /\ m \in Nat /\ n <= MaxU256 /\ MaxU256 \in Nat
      BY <1>1, <2>3, <2>7, <2>8 DEF h, n
    <3> QED
      BY <3>1, SupplyConstants
  <2>10. Wrap(m) = m
    BY <2>9, Wrapped
  <2>11. n - m = h /\ n - m \in Int /\ n - m \in 0..MaxU256
    BY <2>9
  <2>12. Wrap(n - m) = h
    BY <2>11, Wrapped, SupplyConstants
  <2> QED
    BY <2>1, <2>10, <2>12 DEF n, h, lowered
<1>4. ASSUME total_supply' = total_supply, total_supply_all' = total_supply_all
      PROVE  total_supply_all' = SumOf(total_supply')
  BY <1>1, <1>4
<1> HIDE DEF supplies, all
<1>5. ASSUME NEW caller \in Accounts, Erc1155Call(caller)
      PROVE  total_supply_all' = SumOf(total_supply')
  BY <1>4, <1>5 DEF Erc1155Call, SafeTransferFrom, KeepSupply, SetApprovalForAll
<1>6. ASSUME UNCHANGED vars
      PROVE  total_supply_all' = SumOf(total_supply')
  BY <1>4, <1>6 DEF vars
<1>7. total_supply_all' = SumOf(total_supply')
  BY <1>2, <1>3, <1>5, <1>6 DEF Next, BurnCall
<1> QED
  BY <1>7 DEF SupplyAllIsSum

(* Every step is one of Erc1155, with the supplies as what it issued.       *)
LEMMA StepIsOfErc1155 ==
  ASSUME SupplyIsHeld, [Next]_vars
  PROVE  [Base!Next]_Base!vars
<1>1. ASSUME NEW caller \in Accounts, NEW operator \in Addresses,
             NEW approved \in BOOLEAN, <<caller, operator>> \in Delegations,
             SetApprovalForAll(caller, operator, approved)
      PROVE  Base!Next
  <2>1. Base!SetApprovalForAll(caller, operator, approved) /\ caller \in Base!Accounts
    BY <1>1 DEF SetApprovalForAll, Base!SetApprovalForAll, Accounts
  <2> QED
    BY <1>1, <2>1 DEF Base!Next, Base!PublicCall
<1>2. \A from, to \in Addresses : \A ids, values :
        UpdateChecked(from, to, ids, values) => Base!UpdateChecked(from, to, ids, values)
  BY DEF UpdateChecked, Base!UpdateChecked, Accepts, Base!Accepts
<1>3. ASSUME NEW caller \in Accounts, NEW from \in Addresses, NEW to \in Addresses,
             NEW batch \in Batches, SafeTransferFrom(caller, from, to, batch[1], batch[2])
      PROVE  Base!Next
  <2>1. Base!SafeTransferFrom(caller, from, to, batch[1], batch[2])
    BY <1>2, <1>3 DEF SafeTransferFrom, Base!SafeTransferFrom, IsAuthorized,
       Base!IsAuthorized, KeepSupply
  <2>2. caller \in Base!Accounts
    BY DEF Accounts
  <2> QED
    BY <2>1, <2>2 DEF Base!Next, Base!PublicCall
<1>4. ASSUME NEW account \in Addresses, NEW batch \in Batches,
             Mint(account, batch[1], batch[2])
      PROVE  Base!Next
  <2>1. batch[1] \in Seq(Ids) /\ batch[2] \in Seq(U256) /\ ZERO \in Addresses
    BY SupplyConstants
  <2>2. total_supply' = [id \in Ids |-> total_supply[id] + Base!Amount(batch[1], batch[2], id)]
    BY <1>4, <2>1, MintRaises
  <2>3. Base!Mint(account, batch[1], batch[2])
    BY <1>2, <1>4, <2>1, <2>2 DEF Mint, Base!Mint
  <2> QED
    BY <2>3 DEF Base!Next, Base!Internal
<1>5. ASSUME NEW account \in Addresses, NEW batch \in Batches,
             Burn(account, batch[1], batch[2])
      PROVE  Base!Next
  <2>1. batch[1] \in Seq(Ids) /\ batch[2] \in Seq(U256) /\ ZERO \in Addresses
    BY SupplyConstants
  <2>2. total_supply' = [id \in Ids |-> total_supply[id] - Base!Amount(batch[1], batch[2], id)]
    BY <1>5, <2>1, BurnLowers
  <2>3. Base!Burn(account, batch[1], batch[2])
    BY <1>2, <1>5, <2>1, <2>2 DEF Burn, Base!Burn
  <2> QED
    BY <2>3 DEF Base!Next, Base!Internal
<1>6. CASE UNCHANGED vars
  BY <1>6 DEF vars, Base!vars
<1> QED
  BY <1>1, <1>3, <1>4, <1>5, <1>6 DEF Next, Erc1155Call, BurnCall

(* Only who is authorized lowers a balance through IErc1155.                *)
LEMMA OthersAreSafe ==
  ASSUME SupplyIsHeld, [Next]_vars, NEW a \in Accounts, NEW caller \in Accounts,
         NEW id \in Ids, balances'[id][a] < balances[id][a],
         a # caller, ~operator_approvals[a][caller]
  PROVE  ~Erc1155Call(caller)
<1>1. a \in Addresses /\ balances \in Base!Balances
  BY DEF Accounts, Base!Accounts, SupplyIsHeld, TypeOK
<1>2. balances[id][a] \in Nat
  BY <1>1, SupplyConstants DEF Base!Balances
<1>3. ASSUME NEW operator, NEW approved, SetApprovalForAll(caller, operator, approved)
      PROVE  FALSE
  <2>1. balances' = balances
    BY <1>3 DEF SetApprovalForAll
  <2> QED
    BY <2>1, <1>2
<1>4. ASSUME NEW batch \in Batches, NEW from \in Addresses, NEW to \in Addresses,
             SafeTransferFrom(caller, from, to, batch[1], batch[2])
      PROVE  FALSE
  <2>1. UpdateChecked(from, to, batch[1], batch[2]) /\ IsAuthorized(from, caller)
    BY <1>4 DEF SafeTransferFrom
  <2>2. from # a
    BY <2>1 DEF IsAuthorized
  <2>3. batch[1] \in Seq(Ids) /\ batch[2] \in Seq(U256)
    BY SupplyConstants
  <2>4. /\ balances' \in Base!Balances
        /\ \A x \in Addresses \ {from} : balances'[id][x] >= balances[id][x]
    BY <2>1, <2>3, UpdateMoves
  <2>5. balances'[id][a] >= balances[id][a] /\ balances'[id][a] \in Nat
    BY <1>1, <2>2, <2>4, SupplyConstants DEF Base!Balances
  <2> QED
    BY <2>5, <1>2
<1> QED
  BY <1>3, <1>4 DEF Erc1155Call

-----------------------------------------------------------------------------
(* ERC-6909.  What the assumption says of the constants.                    *)
Amounts == 0..MaxAmount

(* Holders are finite in number and words of ERC-6909 are the amounts.      *)
LEMMA TokenConstants ==
  /\ IsFiniteSet(Holders) /\ ZERO \in Holders /\ MaxAmount \in Nat \ {0}
  /\ Erc6909!U256 = Amounts /\ Erc6909!Base!U256 = Amounts
  /\ Erc6909!Accounts = Holders \ {ZERO} /\ Erc6909!Base!Accounts = Holders \ {ZERO}
<1>1. /\ Erc6909!Base!Erc6909Assumption /\ IsFiniteSet(Holders)
  BY Erc6909Assumption DEF Erc6909!SupplyAssumption, Erc6909!IsFiniteSet, IsFiniteSet
<1> QED
  BY <1>1 DEF Erc6909!Base!Erc6909Assumption, Erc6909!U256, Erc6909!Base!U256, Amounts,
     Erc6909!Accounts, Erc6909!Base!Accounts

(* Sums in Erc6909 are those of Sums.                                       *)
LEMMA TokensAdd == \A f : Erc6909!SumOf(f) = SumOf(f)
BY DEF Erc6909!SumOf, Erc6909!Units, Erc6909!Cardinality, SumOf, Units, Cardinality

(* A word keeps its value when it is wrapped.                               *)
LEMMA WrappedAmount ==
  ASSUME NEW x \in Amounts
  PROVE  Erc6909!Wrap(x) = x
<1>1. x % (MaxAmount + 1) = x
  BY TokenConstants DEF Amounts
<1> QED
  BY <1>1 DEF Erc6909!Wrap

(* The parts of a storage.                                                  *)
Holdings   == [Holders -> [TokenIds -> Amounts]]
Allowances == [Holders -> [Holders -> [TokenIds -> Amounts]]]
Leaves     == [Holders -> [Holders -> BOOLEAN]]

(* They have the types that the storage gives them.                         *)
LEMMA StorageFields ==
  ASSUME NEW t
  PROVE  t \in Erc6909!Base!Storages
           => /\ t.balances \in Holdings /\ t.allowances \in Allowances
              /\ t.operator_approvals \in Leaves
BY TokenConstants DEF Erc6909!Base!Storages, Holdings, Allowances, Leaves

(* What is held of one token                                                *)
Held(b, id) == [a \in Holders |-> b[a][id]]

(* A storage after tokens of one id moved                                   *)
TokensMoved(t, u, from, to, id, amount) ==
  /\ u \in Erc6909!Base!Storages
  /\ u.allowances = t.allowances /\ u.operator_approvals = t.operator_approvals
  /\ \A i \in TokenIds \ {id} : Held(u.balances, i) = Held(t.balances, i)
  /\ SumOf(Held(u.balances, id)) + Counted(from, amount)
       = SumOf(Held(t.balances, id)) + Counted(to, amount)
  /\ \A a \in Holders \ {from} : u.balances[a][id] >= t.balances[a][id]
  /\ from # ZERO => u.balances[from][id] = t.balances[from][id]
                                             - (IF from = to THEN 0 ELSE amount)

(* `_update`, carried out, moves tokens of its id so, a self-transfer none. *)
LEMMA UpdateMovesTokens ==
  ASSUME NEW t \in Erc6909!Base!Storages, NEW from \in Holders, NEW to \in Holders,
         NEW id \in TokenIds, NEW amount \in Amounts,
         Erc6909!Base!CanUpdate(t, from, to, id, amount)
  PROVE  TokensMoved(t, Erc6909!Base!Update(t, from, to, id, amount), from, to, id, amount)
<1> DEFINE b == t.balances
           d == Erc6909!Base!Debit(t, from, id, amount)
           c == IF to = ZERO THEN d ELSE [d EXCEPT ![to][id] = @ + amount]
           u == Erc6909!Base!Update(t, from, to, id, amount)
<1>1. /\ b \in Holdings /\ MaxAmount \in Nat /\ amount \in Nat /\ IsFiniteSet(Holders)
      /\ \A a \in Holders, i \in TokenIds : b[a][i] \in 0..MaxAmount
  BY StorageFields, TokenConstants DEF Holdings, Amounts
<1>2. /\ d \in Holdings
      /\ \A a \in Holders, i \in TokenIds : a # from \/ i # id => d[a][i] = b[a][i]
      /\ from # ZERO => d[from][id] = b[from][id] - amount
      /\ from = ZERO => d = b
  <2>1. CASE from = ZERO
    BY <2>1, <1>1 DEF Erc6909!Base!Debit
  <2>2. CASE from # ZERO
    <3>1. b[from][id] - amount \in 0..MaxAmount
      BY <2>2, <1>1 DEF Erc6909!Base!CanUpdate
    <3>2. d = [b EXCEPT ![from][id] = b[from][id] - amount]
      BY <2>2 DEF Erc6909!Base!Debit
    <3> HIDE DEF d, b
    <3> QED
      BY <2>2, <3>1, <3>2, <1>1 DEF Holdings, Amounts
  <2> QED
    BY <2>1, <2>2
<1>3. to # ZERO => d[to][id] + amount <= MaxAmount
  BY DEF Erc6909!Base!CanUpdate
<1>4. u = [t EXCEPT !.balances = c]
  BY DEF Erc6909!Base!Update
<1> HIDE DEF d, b
<1>5. /\ c \in Holdings
      /\ \A a \in Holders, i \in TokenIds : a # to \/ i # id => c[a][i] = d[a][i]
      /\ to # ZERO => c[to][id] = d[to][id] + amount
      /\ to = ZERO => c = d
  <2>1. CASE to = ZERO
    BY <2>1, <1>2
  <2>2. CASE to # ZERO
    <3>1. d[to][id] + amount \in 0..MaxAmount
      BY <2>2, <1>1, <1>2, <1>3 DEF Holdings, Amounts
    <3> QED
      BY <2>2, <3>1, <1>2 DEF Holdings, Amounts
  <2> QED
    BY <2>1, <2>2
<1> HIDE DEF c
<1>6. /\ u \in Erc6909!Base!Storages /\ u.balances = c
      /\ u.allowances = t.allowances /\ u.operator_approvals = t.operator_approvals
  BY <1>4, <1>5, TokenConstants DEF Erc6909!Base!Storages, Holdings
<1> HIDE DEF u
<1>7. \A i \in TokenIds : /\ Held(b, i) \in [Holders -> 0..MaxAmount]
                          /\ Held(d, i) \in [Holders -> 0..MaxAmount]
                          /\ Held(c, i) \in [Holders -> 0..MaxAmount]
  BY <1>1, <1>2, <1>5 DEF Held, Holdings, Amounts
<1>8. \A i \in TokenIds \ {id} : Held(c, i) = Held(b, i)
  BY <1>2, <1>5 DEF Held
<1> DEFINE p == Held(b, id)
           q == Held(d, id)
           r == Held(c, id)
<1>9. /\ p \in [Holders -> 0..MaxAmount] /\ q \in [Holders -> 0..MaxAmount]
      /\ r \in [Holders -> 0..MaxAmount]
      /\ \A a \in Holders : p[a] = b[a][id] /\ q[a] = d[a][id] /\ r[a] = c[a][id]
  BY <1>7 DEF Held
<1> HIDE DEF p, q, r
<1>10. SumOf(p) \in Nat /\ SumOf(q) \in Nat /\ SumOf(r) \in Nat
  BY <1>1, <1>9, SumOfType
<1>11. SumOf(q) + Counted(from, amount) = SumOf(p)
  <2>1. CASE from = ZERO
    <3>1. q = p
      BY <2>1, <1>2 DEF p, q
    <3> QED
      BY <3>1, <2>1, <1>10 DEF Counted
  <2>2. CASE from # ZERO
    <3>1. ChangedAt(Holders, MaxAmount, p, q, from)
      BY <1>1, <1>2, <1>9 DEF ChangedAt
    <3>2. SumOf(q) = SumOf(p) - p[from] + q[from]
      BY <3>1, <1>1, ChangeOfSum
    <3>3. q[from] = p[from] - amount /\ p[from] \in Nat
      BY <2>2, <1>1, <1>2, <1>9
    <3> QED
      BY <3>2, <3>3, <2>2, <1>1, <1>10 DEF Counted
  <2> QED
    BY <2>1, <2>2
<1>12. SumOf(r) = SumOf(q) + Counted(to, amount)
  <2>1. CASE to = ZERO
    <3>1. r = q
      BY <2>1, <1>5 DEF q, r
    <3> QED
      BY <3>1, <2>1, <1>10 DEF Counted
  <2>2. CASE to # ZERO
    <3>1. ChangedAt(Holders, MaxAmount, q, r, to)
      BY <1>1, <1>5, <1>9 DEF ChangedAt
    <3>2. SumOf(r) = SumOf(q) - q[to] + r[to]
      BY <3>1, <1>1, ChangeOfSum
    <3>3. r[to] = q[to] + amount /\ q[to] \in Nat
      BY <2>2, <1>1, <1>5, <1>9
    <3> QED
      BY <3>2, <3>3, <2>2, <1>1, <1>10 DEF Counted
  <2> QED
    BY <2>1, <2>2
<1>13. SumOf(r) + Counted(from, amount) = SumOf(p) + Counted(to, amount)
  <2>1. Counted(from, amount) \in Nat /\ Counted(to, amount) \in Nat
    BY <1>1 DEF Counted
  <2> QED
    BY <2>1, <1>10, <1>11, <1>12
<1>14. ASSUME NEW a \in Holders \ {from}
       PROVE  c[a][id] >= b[a][id]
  <2>1. d[a][id] = b[a][id] /\ b[a][id] \in Nat
    BY <1>1, <1>2
  <2>2. CASE a = to /\ to # ZERO
    BY <2>1, <2>2, <1>1, <1>5
  <2>3. CASE a # to
    BY <2>1, <2>3, <1>5
  <2>4. CASE to = ZERO
    BY <2>1, <2>4, <1>5
  <2> QED
    BY <2>2, <2>3, <2>4
<1>15. from # ZERO => c[from][id] = b[from][id] - (IF from = to THEN 0 ELSE amount)
  <2> SUFFICES ASSUME from # ZERO
               PROVE  c[from][id] = b[from][id] - (IF from = to THEN 0 ELSE amount)
    OBVIOUS
  <2>1. d[from][id] = b[from][id] - amount /\ b[from][id] \in Nat
    BY <1>1, <1>2
  <2>2. CASE from = to
    BY <2>1, <2>2, <1>1, <1>5
  <2>3. CASE from # to
    BY <2>1, <2>3, <1>5
  <2> QED
    BY <2>2, <2>3
<1> QED
  BY <1>6, <1>8, <1>13, <1>14, <1>15 DEF TokensMoved, b, p, r, u

(* An allowance written changes nothing else.                               *)
LEMMA AllowanceIsWritten ==
  ASSUME NEW t \in Erc6909!Base!Storages, NEW o \in Holders, NEW s \in Holders,
         NEW id \in TokenIds, NEW v \in Amounts
  PROVE  LET u == [t EXCEPT !.allowances[o][s][id] = v]
         IN  /\ u \in Erc6909!Base!Storages /\ u.balances = t.balances
             /\ u.operator_approvals = t.operator_approvals
             /\ u.allowances[o][s][id] = v
<1> DEFINE al == t.allowances
           one == [al[o][s] EXCEPT ![id] = v]
           row == [al[o] EXCEPT ![s] = one]
           all == [al EXCEPT ![o] = row]
           u == [t EXCEPT !.allowances = all]
<1>1. al \in Allowances
  BY StorageFields
<1> HIDE DEF al
<1>2. al[o] \in [Holders -> [TokenIds -> Amounts]] /\ al[o][s] \in [TokenIds -> Amounts]
  BY <1>1 DEF Allowances
<1>3. one \in [TokenIds -> Amounts] /\ one[id] = v
  BY <1>2
<1> HIDE DEF one
<1>4. row \in [Holders -> [TokenIds -> Amounts]] /\ row[s] = one
  BY <1>2, <1>3
<1> HIDE DEF row
<1>5. all \in Allowances /\ all[o] = row
  BY <1>1, <1>4 DEF Allowances
<1> HIDE DEF all
<1>6. /\ u \in Erc6909!Base!Storages /\ u.balances = t.balances
      /\ u.operator_approvals = t.operator_approvals /\ u.allowances = all
  BY <1>5, TokenConstants DEF Erc6909!Base!Storages, Allowances
<1>7. [t EXCEPT !.allowances[o][s][id] = v] = u
  BY DEF al, one, row, all
<1> HIDE DEF u
<1>8. u.allowances[o][s][id] = v
  BY <1>3, <1>4, <1>5, <1>6
<1> QED
  BY <1>6, <1>7, <1>8

(* A spent allowance changes nothing but itself.                            *)
LEMMA LeaveIsTaken ==
  ASSUME tokens \in Erc6909!Base!Storages, NEW sender \in Holders, NEW caller \in Holders,
         NEW id \in TokenIds, NEW amount \in Amounts,
         Erc6909!Base!CanLeave(tokens, sender, caller, id, amount)
  PROVE  LET t == Erc6909!Base!Leave(tokens, sender, caller, id, amount)
             leave == tokens.allowances[sender][caller][id]
         IN  /\ t \in Erc6909!Base!Storages /\ t.balances = tokens.balances
             /\ t.operator_approvals = tokens.operator_approvals
             /\ \/ sender = caller \/ tokens.operator_approvals[sender][caller]
                \/ leave = MaxAmount
                \/ t.allowances[sender][caller][id] = leave - amount
<1> DEFINE t == Erc6909!Base!Leave(tokens, sender, caller, id, amount)
           leave == tokens.allowances[sender][caller][id]
           spent == [tokens EXCEPT !.allowances[sender][caller][id] = leave - amount]
<1>1. tokens.allowances \in Allowances /\ leave \in 0..MaxAmount
      /\ MaxAmount \in Nat /\ amount \in Nat
  BY StorageFields, TokenConstants DEF Allowances, Amounts
<1>2. CASE t = tokens /\ (\/ sender = caller \/ tokens.operator_approvals[sender][caller]
                          \/ leave = MaxAmount)
  BY <1>2
<1>3. CASE t = spent /\ amount <= leave
  <2>1. leave - amount \in Amounts
    BY <1>1, <1>3 DEF Amounts
  <2>2. /\ spent \in Erc6909!Base!Storages /\ spent.balances = tokens.balances
        /\ spent.operator_approvals = tokens.operator_approvals
        /\ spent.allowances[sender][caller][id] = leave - amount
    BY <2>1, AllowanceIsWritten
  <2> QED
    BY <1>3, <2>2
<1>4. \/ t = tokens /\ (\/ sender = caller \/ tokens.operator_approvals[sender][caller]
                        \/ leave = MaxAmount)
      \/ t = spent /\ amount <= leave
  BY DEF Erc6909!Base!Leave, Erc6909!Base!CanLeave, Erc6909!Base!Spend,
     Erc6909!Base!CanSpend, Erc6909!Base!NeedsNoAllowance
<1> QED
  BY <1>2, <1>3, <1>4

(* The supplies keep being what is held through the extension's `_update`.  *)
LEMMA SuppliesAreKept ==
  ASSUME Erc6909!SuppliesAreHeld, NEW t \in Erc6909!Base!Storages,
         t.balances = tokens.balances,
         NEW from \in Holders, NEW to \in Holders, from # ZERO \/ to # ZERO,
         NEW id \in TokenIds, NEW amount \in Amounts,
         Erc6909!UpdateSupply(t, from, to, id, amount)
  PROVE  Erc6909!SuppliesAreHeld' /\ TokensMoved(t, tokens', from, to, id, amount)
<1> DEFINE s == total_supplies[id]
           raised == s + (IF from = ZERO THEN amount ELSE 0)
           p == SumOf(Held(t.balances, id))
           r == SumOf(Held(tokens'.balances, id))
<1>1. /\ total_supplies \in [TokenIds -> Amounts]
      /\ \A i \in TokenIds : total_supplies[i] = SumOf(Held(t.balances, i))
  BY TokensAdd, TokenConstants DEF Erc6909!SuppliesAreHeld, Erc6909!TypeOK, Held
<1>2. /\ Erc6909!Base!CanUpdate(t, from, to, id, amount)
      /\ tokens' = Erc6909!Base!Update(t, from, to, id, amount)
      /\ raised <= MaxAmount
      /\ total_supplies' = [total_supplies EXCEPT ![id] =
           IF to = ZERO THEN Erc6909!Wrap(raised - amount) ELSE raised]
  BY DEF Erc6909!UpdateSupply
<1>3. TokensMoved(t, tokens', from, to, id, amount)
  BY <1>2, UpdateMovesTokens
<1>4. r + Counted(from, amount) = p + Counted(to, amount) /\ p = s
  BY <1>1, <1>3 DEF TokensMoved
<1>5. s \in Nat /\ s <= MaxAmount /\ MaxAmount \in Nat /\ amount \in Nat /\ r \in Nat
  <2>1. tokens'.balances \in Holdings
    BY <1>3, StorageFields DEF TokensMoved
  <2> DEFINE h == Held(tokens'.balances, id)
  <2>2. h \in [Holders -> 0..MaxAmount]
    BY <2>1 DEF Held, Holdings, Amounts
  <2> HIDE DEF h
  <2>3. SumOf(h) \in Nat
    BY <2>2, SumOfType, TokenConstants
  <2> QED
    BY <2>3, <1>1, TokenConstants DEF h, Amounts
<1> HIDE DEF p, r, s
<1>6. /\ r \in 0..MaxAmount
      /\ r = (IF to = ZERO THEN raised - amount ELSE raised)
  <2>1. CASE to = ZERO
    BY <2>1, <1>4, <1>5 DEF Counted
  <2>2. CASE to # ZERO
    BY <2>2, <1>2, <1>4, <1>5 DEF Counted
  <2> QED
    BY <2>1, <2>2
<1>7. total_supplies' = [total_supplies EXCEPT ![id] = r]
  <2>1. CASE to = ZERO
    <3>1. Erc6909!Wrap(raised - amount) = raised - amount
      BY <2>1, <1>6, WrappedAmount DEF Amounts
    <3> QED
      BY <2>1, <3>1, <1>2, <1>6
  <2>2. CASE to # ZERO
    BY <2>2, <1>2, <1>6
  <2> QED
    BY <2>1, <2>2
<1>8. total_supplies' \in [TokenIds -> Amounts]
  BY <1>1, <1>6, <1>7 DEF Amounts
<1>9. ASSUME NEW i \in TokenIds
      PROVE  total_supplies'[i] = SumOf(Held(tokens'.balances, i))
  <2>1. CASE i = id
    BY <2>1, <1>1, <1>7 DEF r
  <2>2. CASE i # id
    <3>1. Held(tokens'.balances, i) = Held(t.balances, i)
      BY <2>2, <1>3 DEF TokensMoved
    <3> QED
      BY <2>2, <3>1, <1>1, <1>7
  <2> QED
    BY <2>1, <2>2
<1>10. \A i \in TokenIds : total_supplies'[i]
         = Erc6909!SumOf([a \in Holders |-> tokens'.balances[a][i]])
  BY <1>9, TokensAdd DEF Held
<1> QED
  BY <1>3, <1>8, <1>10, TokenConstants
  DEF TokensMoved, Erc6909!SuppliesAreHeld, Erc6909!TypeOK

(* Each call: the supplies are kept, and of what is another's no more is    *)
(* taken than leave was given for.                                          *)
LeaveIsGiven(caller) ==
  \A a \in Holders \ {ZERO}, id \in TokenIds :
    LET taken == tokens.balances[a][id] - tokens'.balances[a][id]
        leave == tokens.allowances[a][caller][id]
    IN  (taken > 0 /\ a # caller) =>
          \/ tokens.operator_approvals[a][caller]
          \/ leave = MaxAmount
          \/ tokens'.allowances[a][caller][id] = leave - taken

(* Tokens leave one account only.                                           *)
LEMMA OnlyOneIsTakenFrom ==
  ASSUME NEW t \in Erc6909!Base!Storages, NEW u, NEW from \in Holders, NEW to \in Holders,
         NEW id \in TokenIds, NEW amount \in Amounts,
         TokensMoved(t, u, from, to, id, amount), from # ZERO
  PROVE  \A a \in Holders, i \in TokenIds :
           t.balances[a][i] - u.balances[a][i] > 0
             => a = from /\ i = id /\ t.balances[a][i] - u.balances[a][i] = amount
<1> SUFFICES ASSUME NEW a \in Holders, NEW i \in TokenIds,
                    t.balances[a][i] - u.balances[a][i] > 0
             PROVE  a = from /\ i = id /\ t.balances[a][i] - u.balances[a][i] = amount
  OBVIOUS
<1>1. t.balances \in Holdings /\ u.balances \in Holdings
  BY StorageFields DEF TokensMoved
<1>2. t.balances[a][i] \in Nat /\ u.balances[a][i] \in Nat /\ amount \in Nat
  BY <1>1, TokenConstants DEF Holdings, Amounts
<1>3. i = id
  <2> SUFFICES ASSUME i # id
               PROVE  FALSE
    OBVIOUS
  <2>1. Held(u.balances, i) = Held(t.balances, i)
    BY DEF TokensMoved
  <2>2. Held(u.balances, i)[a] = u.balances[a][i] /\ Held(t.balances, i)[a] = t.balances[a][i]
    BY DEF Held
  <2>3. u.balances[a][i] = t.balances[a][i]
    BY <2>1, <2>2
  <2> QED
    BY <1>2, <2>3
<1>4. a = from
  <2> SUFFICES ASSUME a # from
               PROVE  FALSE
    OBVIOUS
  <2>1. u.balances[a][i] >= t.balances[a][i]
    BY <1>3 DEF TokensMoved
  <2> QED
    BY <1>2, <2>1
<1>5. u.balances[a][i] = t.balances[a][i] - (IF from = to THEN 0 ELSE amount)
  BY <1>3, <1>4 DEF TokensMoved
<1>6. from # to
  BY <1>2, <1>5
<1>7. t.balances[a][i] - u.balances[a][i] = amount
  <2> DEFINE p == t.balances[a][i]
             q == u.balances[a][i]
  <2>1. q = p - amount /\ p \in Nat /\ q \in Nat /\ amount \in Nat
    BY <1>2, <1>5, <1>6
  <2> HIDE DEF p, q
  <2>2. p - q = amount
    BY <2>1
  <2> QED
    BY <2>2 DEF p, q
<1> QED
  BY <1>3, <1>4, <1>7

(* The calls of IErc6909 keep the supplies and take with leave only.        *)
LEMMA Erc6909CallsKeep ==
  ASSUME Erc6909!SuppliesAreHeld, NEW caller \in Holders \ {ZERO},
         Erc6909!Erc6909Call(caller)
  PROVE  Erc6909!SuppliesAreHeld' /\ LeaveIsGiven(caller)
<1>1. tokens \in Erc6909!Base!Storages /\ total_supplies \in [TokenIds -> Amounts]
  BY TokenConstants DEF Erc6909!SuppliesAreHeld, Erc6909!TypeOK
<1>2. tokens.balances \in Holdings
  BY <1>1, StorageFields
<1>3. ASSUME tokens' \in Erc6909!Base!Storages, tokens'.balances = tokens.balances,
             total_supplies' = total_supplies
      PROVE  Erc6909!SuppliesAreHeld' /\ LeaveIsGiven(caller)
  <2>1. Erc6909!SuppliesAreHeld'
    BY <1>3 DEF Erc6909!SuppliesAreHeld, Erc6909!TypeOK
  <2>2. \A a \in Holders, id \in TokenIds :
          ~(tokens.balances[a][id] - tokens'.balances[a][id] > 0)
    <3> SUFFICES ASSUME NEW a \in Holders, NEW id \in TokenIds
                 PROVE  ~(tokens.balances[a][id] - tokens.balances[a][id] > 0)
      BY <1>3
    <3>1. tokens.balances[a][id] \in Nat
      BY <1>2, TokenConstants DEF Holdings, Amounts
    <3> QED
      BY <3>1
  <2> QED
    BY <2>1, <2>2 DEF LeaveIsGiven
<1>4. ASSUME NEW a \in Holders, NEW approved \in BOOLEAN,
             Erc6909!SetOperatorCall(caller, a, approved)
      PROVE  Erc6909!SuppliesAreHeld' /\ LeaveIsGiven(caller)
  <2>1. tokens' = [tokens EXCEPT !.operator_approvals[caller][a] = approved]
        /\ total_supplies' = total_supplies
    BY <1>4 DEF Erc6909!SetOperatorCall, Erc6909!Base!SetOperator
  <2>2. tokens' \in Erc6909!Base!Storages /\ tokens'.balances = tokens.balances
    BY <1>1, <2>1 DEF Erc6909!Base!Storages
  <2> QED
    BY <2>1, <2>2, <1>3
<1>5. ASSUME NEW a \in Holders, NEW id \in TokenIds, NEW amount \in Amounts,
             Erc6909!ApproveCall(caller, a, id, amount)
      PROVE  Erc6909!SuppliesAreHeld' /\ LeaveIsGiven(caller)
  <2>1. tokens' = [tokens EXCEPT !.allowances[caller][a][id] = amount]
        /\ total_supplies' = total_supplies
    BY <1>5 DEF Erc6909!ApproveCall, Erc6909!Base!Approve
  <2>2. caller \in Holders
    OBVIOUS
  <2>3. tokens' \in Erc6909!Base!Storages /\ tokens'.balances = tokens.balances
    BY <1>1, <2>1, <2>2, AllowanceIsWritten
  <2> QED
    BY <2>1, <2>3, <1>3
<1>6. ASSUME NEW a \in Holders, NEW id \in TokenIds, NEW amount \in Amounts,
             Erc6909!Transfer(caller, a, id, amount)
      PROVE  Erc6909!SuppliesAreHeld' /\ LeaveIsGiven(caller)
  <2>1. Erc6909!UpdateSupply(tokens, caller, a, id, amount)
    BY <1>6 DEF Erc6909!Transfer, Erc6909!Move
  <2>2. Erc6909!SuppliesAreHeld' /\ TokensMoved(tokens, tokens', caller, a, id, amount)
    BY <2>1, <1>1, SuppliesAreKept
  <2>3. LeaveIsGiven(caller)
    BY <2>2, <1>1, OnlyOneIsTakenFrom DEF LeaveIsGiven
  <2> QED
    BY <2>2, <2>3
<1>7. ASSUME NEW sender \in Holders, NEW a \in Holders, NEW id \in TokenIds,
             NEW amount \in Amounts, Erc6909!TransferFrom(caller, sender, a, id, amount)
      PROVE  Erc6909!SuppliesAreHeld' /\ LeaveIsGiven(caller)
  <2> DEFINE t == Erc6909!Base!Leave(tokens, sender, caller, id, amount)
             leave == tokens.allowances[sender][caller][id]
  <2>1. /\ Erc6909!Base!CanLeave(tokens, sender, caller, id, amount)
        /\ sender # ZERO /\ Erc6909!UpdateSupply(t, sender, a, id, amount)
    BY <1>7 DEF Erc6909!TransferFrom, Erc6909!Move
  <2>2. /\ t \in Erc6909!Base!Storages /\ t.balances = tokens.balances
        /\ t.operator_approvals = tokens.operator_approvals
        /\ \/ sender = caller \/ tokens.operator_approvals[sender][caller]
           \/ leave = MaxAmount
           \/ t.allowances[sender][caller][id] = leave - amount
    BY <2>1, <1>1, LeaveIsTaken
  <2> HIDE DEF t
  <2>3. Erc6909!SuppliesAreHeld' /\ TokensMoved(t, tokens', sender, a, id, amount)
    BY <2>1, <2>2, SuppliesAreKept
  <2>4. ASSUME NEW x \in Holders \ {ZERO}, NEW i \in TokenIds, x # caller,
               tokens.balances[x][i] - tokens'.balances[x][i] > 0
        PROVE  \/ tokens.operator_approvals[x][caller]
               \/ tokens.allowances[x][caller][i] = MaxAmount
               \/ tokens'.allowances[x][caller][i]
                    = tokens.allowances[x][caller][i]
                        - (tokens.balances[x][i] - tokens'.balances[x][i])
    <3>1. t.balances[x][i] - tokens'.balances[x][i] > 0 /\ x \in Holders
      BY <2>2, <2>4
    <3>2. /\ x = sender /\ i = id
          /\ t.balances[x][i] - tokens'.balances[x][i] = amount
      <4>1. \A y \in Holders, j \in TokenIds :
              t.balances[y][j] - tokens'.balances[y][j] > 0
                => /\ y = sender /\ j = id
                   /\ t.balances[y][j] - tokens'.balances[y][j] = amount
        <5>1. t \in Erc6909!Base!Storages /\ sender # ZERO
          BY <2>1, <2>2
        <5>2. TokensMoved(t, tokens', sender, a, id, amount)
          BY <2>3
        <5> QED
          BY <5>1, <5>2, OnlyOneIsTakenFrom
      <4> QED
        BY <3>1, <4>1
    <3>3. tokens.balances[x][i] - tokens'.balances[x][i] = amount
      BY <3>2, <2>2
    <3>4. tokens'.allowances = t.allowances
      BY <2>3 DEF TokensMoved
    <3> QED
      BY <3>2, <3>3, <3>4, <2>2, <2>4
  <2>5. LeaveIsGiven(caller)
    BY <2>4 DEF LeaveIsGiven
  <2> QED
    BY <2>3, <2>5
<1> QED
  BY <1>4, <1>5, <1>6, <1>7, TokenConstants DEF Erc6909!Erc6909Call

(* So does every step of ERC-6909, mints and burns included.                *)
LEMMA Erc6909Kept ==
  ASSUME Erc6909!SuppliesAreHeld, [Erc6909!Next]_Erc6909!vars
  PROVE  Erc6909!SuppliesAreHeld'
<1>1. tokens \in Erc6909!Base!Storages
  BY DEF Erc6909!SuppliesAreHeld, Erc6909!TypeOK
<1>2. ASSUME NEW caller \in Holders \ {ZERO}, Erc6909!Erc6909Call(caller)
      PROVE  Erc6909!SuppliesAreHeld'
  BY <1>2, Erc6909CallsKeep
<1>3. ASSUME NEW a \in Holders, NEW id \in TokenIds, NEW amount \in Amounts,
             Erc6909!Mint(a, id, amount) \/ Erc6909!Burn(a, id, amount)
      PROVE  Erc6909!SuppliesAreHeld'
  BY <1>1, <1>3, SuppliesAreKept, TokenConstants DEF Erc6909!Mint, Erc6909!Burn
<1>4. CASE UNCHANGED Erc6909!vars
  BY <1>4 DEF Erc6909!vars, Erc6909!SuppliesAreHeld, Erc6909!TypeOK
<1> QED
  BY <1>2, <1>3, <1>4, TokenConstants DEF Erc6909!Next

(* Every step is one of Erc6909.                                            *)
LEMMA StepIsOfErc6909 ==
  ASSUME [Erc6909!Next]_Erc6909!vars
  PROVE  [Erc6909!Base!Next]_tokens
<1>1. \A t, from, to, id, amount : Erc6909!Move(t, from, to, id, amount)
        => Erc6909!Base!Move(t, from, to, id, amount)
  BY DEF Erc6909!Move, Erc6909!UpdateSupply, Erc6909!Base!Move
<1>2. ASSUME NEW caller \in Holders \ {ZERO}, Erc6909!Erc6909Call(caller)
      PROVE  Erc6909!Base!Next
  <2>1. CASE \E a \in Holders, approved \in BOOLEAN :
               Erc6909!SetOperatorCall(caller, a, approved)
    BY <2>1, TokenConstants DEF Erc6909!SetOperatorCall, Erc6909!Base!SetOperatorCall,
       Erc6909!Base!Next
  <2>2. CASE \E a \in Holders, id \in TokenIds, amount \in Amounts :
               Erc6909!ApproveCall(caller, a, id, amount)
    BY <2>2, TokenConstants DEF Erc6909!ApproveCall, Erc6909!Base!ApproveCall,
       Erc6909!Base!Next
  <2>3. CASE \E a \in Holders, id \in TokenIds, amount \in Amounts :
               Erc6909!Transfer(caller, a, id, amount)
    BY <2>3, <1>1, TokenConstants DEF Erc6909!Transfer, Erc6909!Base!Transfer,
       Erc6909!Base!Next
  <2>4. CASE \E a, to \in Holders, id \in TokenIds, amount \in Amounts :
               Erc6909!TransferFrom(caller, a, to, id, amount)
    BY <2>4, <1>1, TokenConstants DEF Erc6909!TransferFrom, Erc6909!Base!TransferFrom,
       Erc6909!Base!Next
  <2> QED
    BY <1>2, <2>1, <2>2, <2>3, <2>4, TokenConstants DEF Erc6909!Erc6909Call
<1>3. ASSUME NEW a \in Holders, NEW id \in TokenIds, NEW amount \in Amounts,
             Erc6909!Mint(a, id, amount) \/ Erc6909!Burn(a, id, amount)
      PROVE  Erc6909!Base!Next
  <2>1. Erc6909!Base!Mint(a, id, amount) \/ Erc6909!Base!Burn(a, id, amount)
    BY <1>3 DEF Erc6909!Mint, Erc6909!Burn, Erc6909!UpdateSupply,
       Erc6909!Base!Mint, Erc6909!Base!Burn
  <2> QED
    BY <2>1, TokenConstants DEF Erc6909!Base!Next
<1>4. CASE UNCHANGED Erc6909!vars
  BY <1>4 DEF Erc6909!vars
<1> QED
  BY <1>2, <1>3, <1>4, TokenConstants DEF Erc6909!Next

-----------------------------------------------------------------------------
(* The two of them, one at a time.                                          *)
SuppliesInv == SupplyIsHeld /\ Erc6909!SuppliesAreHeld

(* Nothing is held and nothing supplied at first.                           *)
LEMMA SuppliesInit ==
  MCInit => SuppliesInv /\ SupplyAllIsSum
<1> SUFFICES ASSUME MCInit
             PROVE  SuppliesInv /\ SupplyAllIsSum
  OBVIOUS
<1>1. /\ balances = [id \in Ids |-> [a \in Addresses |-> 0]]
      /\ operator_approvals = [o \in Addresses |-> [s \in Addresses |-> FALSE]]
      /\ total_supply = [id \in Ids |-> 0] /\ total_supply_all = 0
      /\ tokens = Erc6909!Base!EmptyStorage
      /\ total_supplies = [id \in TokenIds |-> 0]
  BY DEF MCInit, Init, Erc6909!Init, Base!EmptyBalances
<1>2. SumOf(total_supply) = 0 /\ SumOf([a \in Addresses |-> 0]) = 0
  BY <1>1, SumOfZero
<1>3. TypeOK
  BY <1>1, SupplyConstants DEF TypeOK, Base!Balances
<1>4. SupplyIsHeld /\ SupplyAllIsSum
  BY <1>1, <1>2, <1>3 DEF SupplyIsHeld, SupplyAllIsSum
<1>5. tokens \in Erc6909!Base!Storages
  BY <1>1, TokenConstants DEF Erc6909!Base!EmptyStorage, Erc6909!Base!Storages, Amounts
<1>6. \A a \in Holders, id \in TokenIds : tokens.balances[a][id] = 0
  BY <1>1 DEF Erc6909!Base!EmptyStorage
<1>7. Erc6909!SuppliesAreHeld
  <2>1. ASSUME NEW id \in TokenIds
        PROVE  Erc6909!SumOf([a \in Holders |-> tokens.balances[a][id]]) = 0
    <3>1. [a \in Holders |-> tokens.balances[a][id]] = [a \in Holders |-> 0]
      BY <1>6
    <3>2. SumOf([a \in Holders |-> 0]) = 0
      BY SumOfZero
    <3> QED
      BY <3>1, <3>2, TokensAdd
  <2>2. total_supplies \in [TokenIds -> Erc6909!U256]
    BY <1>1, TokenConstants DEF Amounts
  <2> QED
    BY <1>1, <1>5, <2>1, <2>2 DEF Erc6909!SuppliesAreHeld, Erc6909!TypeOK
<1> QED
  BY <1>4, <1>7 DEF SuppliesInv

(* A step is one of the one, or of the other, or of neither.                *)
LEMMA StepsOfEither ==
  ASSUME [MCNext]_<<standard, vars, erc6909Vars>>
  PROVE  /\ [Next]_vars /\ [Erc6909!Next]_Erc6909!vars
         /\ vars' = vars \/ Next
         /\ Erc6909!vars' = Erc6909!vars \/ Erc6909!Next
BY DEF MCNext, erc6909Vars, Erc6909!vars, vars

(* Every step of either keeps what is known of both.                        *)
LEMMA SuppliesStep ==
  ASSUME SuppliesInv, [MCNext]_<<standard, vars, erc6909Vars>>
  PROVE  SuppliesInv'
BY StepsOfEither, SupplyIsKept, Erc6909Kept DEF SuppliesInv

(* The supply recorded for an id, which is kept apart from the balances and *)
(* lowered unchecked, is what is held of it, whatever batches are moved;    *)
(* and the one of all ids is the sum of them, as long as the values of no   *)
(* batch add up to more than a word holds, which is when the sum that the   *)
(* code makes of them wraps.                                                *)
THEOREM SuppliesAreBacked ==
  ASSUME BatchesFit
  PROVE  MCSpec => []SuppliesAreHeld
<1> DEFINE Inv == SuppliesInv /\ SupplyAllIsSum
<1>1. MCInit => Inv
  BY SuppliesInit
<1>2. Inv /\ [MCNext]_<<standard, vars, erc6909Vars>> => Inv'
  BY SuppliesStep, StepsOfEither, SupplyAllIsKept DEF SuppliesInv
<1>3. Inv => SuppliesAreHeld
  BY DEF SuppliesInv, SuppliesAreHeld
<1> QED
  BY <1>1, <1>2, <1>3, PTL DEF MCSpec

(* The supply of an id needs no such hypothesis.                            *)
THEOREM EachSupplyIsBacked == MCSpec => [](SupplyIsHeld /\ Erc6909!SuppliesAreHeld)
<1>1. SuppliesInv => SupplyIsHeld /\ Erc6909!SuppliesAreHeld
  BY DEF SuppliesInv
<1>2. SuppliesInv /\ [MCNext]_<<standard, vars, erc6909Vars>> => SuppliesInv'
  BY SuppliesStep
<1> QED
  BY <1>1, <1>2, SuppliesInit, PTL DEF MCSpec

(* The internals that the extensions write again do what those of the       *)
(* contracts extended do: the refinement of Erc1155 and of Erc6909, step by *)
(* step.                                                                    *)
THEOREM ExtensionsAreExtensions == MCSpec => ExtensionsImplement
<1>1. MCInit => Base!Init /\ Erc6909!Base!Init
  BY DEF MCInit, Init, Base!Init, Erc6909!Init, Erc6909!Base!Init
<1>2. SuppliesInv /\ [MCNext]_<<standard, vars, erc6909Vars>>
        => [Base!Next]_Base!vars /\ [Erc6909!Base!Next]_tokens
  BY StepsOfEither, StepIsOfErc1155, StepIsOfErc6909 DEF SuppliesInv
<1>3. SuppliesInv /\ [MCNext]_<<standard, vars, erc6909Vars>> => SuppliesInv'
  BY SuppliesStep
<1>4. MCSpec => Base!Spec /\ Erc6909!Base!Spec
  BY <1>1, <1>2, <1>3, SuppliesInit, PTL DEF MCSpec, Base!Spec, Erc6909!Base!Spec
<1> QED
  BY <1>4 DEF ExtensionsImplement, ImplementsErc1155, Erc6909!ImplementsErc6909

(* Nobody's call takes tokens without leave: of an ERC-1155, none at all    *)
(* from who did not make the caller an operator; of an ERC-6909, none but   *)
(* what an allowance for that very id shrinks by.                           *)
THEOREM NothingIsTaken == MCSpec => TakingNeedsLeave
<1> DEFINE Others == \A a, caller \in Accounts, id \in Ids :
              ( /\ balances'[id][a] < balances[id][a]
                /\ a # caller
                /\ ~operator_approvals[a][caller] ) => ~Erc1155Call(caller)
           Takes == \A a, caller \in Erc6909!Accounts, id \in TokenIds :
              LET taken == tokens.balances[a][id] - tokens'.balances[a][id]
                  leave == tokens.allowances[a][caller][id]
              IN  (taken > 0 /\ a # caller /\ Erc6909!Erc6909Call(caller)) =>
                    \/ tokens.operator_approvals[a][caller]
                    \/ leave = MaxAmount
                    \/ tokens'.allowances[a][caller][id] = leave - taken
<1>1. SuppliesInv /\ [MCNext]_<<standard, vars, erc6909Vars>> => Others
  BY StepsOfEither, OthersAreSafe DEF SuppliesInv
<1>2. SuppliesInv => Takes
  BY Erc6909CallsKeep, TokenConstants DEF SuppliesInv, LeaveIsGiven
<1>3. SuppliesInv /\ [MCNext]_<<standard, vars, erc6909Vars>> => SuppliesInv'
  BY SuppliesStep
<1> HIDE DEF Others, Takes
<1>4. MCSpec => [][Others]_vars /\ [][Takes]_Erc6909!vars
  BY <1>1, <1>2, <1>3, SuppliesInit, PTL DEF MCSpec
<1> QED
  BY <1>4 DEF TakingNeedsLeave, OthersBalancesAreSafe, Erc6909!TakingNeedsLeave,
     Others, Takes
=============================================================================
