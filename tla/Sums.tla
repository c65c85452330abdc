---------------------------------- MODULE Sums ----------------------------------
(***************************************************************************)
(* The sum of a function over a finite set, what it does when the function *)
(* changes, and the induction its facts rest on.  The contracts keep their *)
(* totals apart from the entries that make them up: that the two agree is  *)
(* what most of their invariants say.                                      *)
(***************************************************************************)
EXTENDS Integers, FiniteSets, FiniteSetTheorems, WellFoundedInduction, TLAPS

(* The sum of a function with natural values over a finite domain, as the   *)
(* number of its units: unit i of x is there when f[x] is at least i.       *)
(* Saying it as a cardinality, and not as a recursion, is what lets the     *)
(* conservation of balances be proved.                                      *)
Units(f) == UNION { {x} \X (1..f[x]) : x \in DOMAIN f }

SumOf(f) == Cardinality(Units(f))

-----------------------------------------------------------------------------
(* Every non-empty set of naturals has a least element.                     *)
LEMMA Least ==
  ASSUME NEW T \in SUBSET Nat, T # {}
  PROVE  \E n \in T : \A m \in T : n <= m
<1>1. PICK n \in T : \A m \in T : ~(<<m, n>> \in OpToRel(<, Nat))
  BY NatLessThanWellFounded, WFMin, Zenon
<1>2. \A m \in T : ~(m < n)
  BY <1>1 DEF OpToRel
<1> QED
  BY <1>2

(* Induction over the naturals, for the set of those that have a property.  *)
LEMMA NaturalsByInduction ==
  ASSUME NEW P \in SUBSET Nat, 0 \in P, \A n \in P : n + 1 \in P
  PROVE  P = Nat
<1> SUFFICES ASSUME Nat \ P # {} PROVE FALSE
  OBVIOUS
<1>1. PICK n \in Nat \ P : \A m \in Nat \ P : n <= m
  <2>1. Nat \ P \in SUBSET Nat
    OBVIOUS
  <2> QED
    BY <2>1, Least
<1>2. n - 1 \in P
  BY <1>1
<1> QED
  BY <1>1, <1>2

(* Induction over the subsets of a finite set, for the set of those that    *)
(* have a property.                                                         *)
LEMMA SubsetsByInduction ==
  ASSUME NEW S, IsFiniteSet(S), NEW P \in SUBSET (SUBSET S), {} \in P,
         \A A \in P : \A x \in S \ A : A \cup {x} \in P
  PROVE  S \in P
<1> SUFFICES ASSUME S \notin P PROVE FALSE
  OBVIOUS
<1> DEFINE T == {Cardinality(A) : A \in (SUBSET S) \ P}
<1>1. \A A \in SUBSET S : IsFiniteSet(A) /\ Cardinality(A) \in Nat
  BY FS_Subset, FS_CardinalityType
<1>2. PICK n \in T : \A m \in T : n <= m
  <2>1. T \in SUBSET Nat /\ T # {}
    BY <1>1
  <2> HIDE DEF T
  <2> QED
    BY <2>1, Least
<1>3. PICK A \in (SUBSET S) \ P : n = Cardinality(A)
  BY <1>2
<1>4. PICK x \in A : TRUE
  OBVIOUS
<1> DEFINE B == A \ {x}
<1>5. Cardinality(B) = n - 1 /\ n \in Nat
  BY <1>1, <1>3, <1>4, FS_RemoveElement
<1>6. B \in P
  BY <1>2, <1>5
<1>7. B \cup {x} = A /\ x \in S \ B
  BY <1>4
<1> QED
  BY <1>6, <1>7

-----------------------------------------------------------------------------
(* What SumOf does when one value of the function changes.                  *)
(* A bounded function on a finite set has finitely many units.              *)
LEMMA SumOfType ==
  ASSUME NEW S, IsFiniteSet(S), NEW M \in Nat, NEW f \in [S -> 0..M]
  PROVE  IsFiniteSet(Units(f)) /\ SumOf(f) \in Nat
<1>0. IsFiniteSet(1..M)
  BY FS_Interval
<1>1. IsFiniteSet(S \X (1..M))
  BY <1>0, FS_Product
<1>2. Units(f) \in SUBSET (S \X (1..M))
  BY DEF Units
<1>3. IsFiniteSet(Units(f))
  BY <1>1, <1>2, FS_Subset
<1> QED
  BY <1>3, FS_CardinalityType DEF SumOf

(* The units of one argument are as many as its value.                      *)
LEMMA UnitsOfOne ==
  ASSUME NEW x, NEW n \in Nat
  PROVE  IsFiniteSet({x} \X (1..n)) /\ Cardinality({x} \X (1..n)) = n
<1>1. IsFiniteSet({x}) /\ Cardinality({x}) = 1
  BY FS_Singleton
<1>2. IsFiniteSet(1..n) /\ Cardinality(1..n) = n
  BY FS_Interval
<1>3. /\ IsFiniteSet({x} \X (1..n))
      /\ Cardinality({x} \X (1..n)) = Cardinality({x}) * Cardinality(1..n)
  BY <1>1, <1>2, FS_Product
<1> QED
  BY <1>1, <1>2, <1>3

(* Zeroing one value takes it out of the sum.                               *)
LEMMA SumOfWithout ==
  ASSUME NEW S, IsFiniteSet(S), NEW M \in Nat, NEW f \in [S -> 0..M],
         NEW x \in S
  PROVE  SumOf(f) = SumOf([f EXCEPT ![x] = 0]) + f[x]
<1> DEFINE g == [f EXCEPT ![x] = 0]
           A == Units(g)
           B == {x} \X (1..f[x])
<1>1. g \in [S -> 0..M] /\ f[x] \in Nat
  OBVIOUS
<1>2. IsFiniteSet(A)
  BY <1>1, SumOfType
<1>3. IsFiniteSet(B) /\ Cardinality(B) = f[x]
  BY <1>1, UnitsOfOne
<1>4. A \cap B = {}
  <2>1. \A u \in A : u[1] # x
    BY <1>1 DEF Units
  <2> QED
    BY <2>1
<1>5. Units(f) = A \cup B
  <2>1. ASSUME NEW u \in Units(f) PROVE u \in A \cup B
    <3>1. PICK y \in S : u \in {y} \X (1..f[y])
      BY <2>1 DEF Units
    <3>2. CASE y = x
      BY <3>1, <3>2
    <3>3. CASE y # x
      BY <3>1, <3>3, g[y] = f[y] DEF Units
    <3> QED
      BY <3>2, <3>3
  <2>2. ASSUME NEW u \in A PROVE u \in Units(f)
    <3>1. PICK y \in S : u \in {y} \X (1..g[y])
      BY <2>2 DEF Units
    <3>2. y # x
      BY <3>1, <1>1
    <3> QED
      BY <3>1, <3>2 DEF Units
  <2>3. B \subseteq Units(f)
    BY DEF Units
  <2> QED
    BY <2>1, <2>2, <2>3
<1>6. Cardinality(A \cup B) = Cardinality(A) + Cardinality(B) - Cardinality({})
  <2>1. \A P, Q : IsFiniteSet(P) /\ IsFiniteSet(Q) =>
          Cardinality(P \cup Q) =
            Cardinality(P) + Cardinality(Q) - Cardinality(P \cap Q)
    BY FS_Union
  <2>2. Cardinality(A \cup B) =
          Cardinality(A) + Cardinality(B) - Cardinality(A \cap B)
    BY <1>2, <1>3, <2>1
  <2> QED
    BY <1>4, <2>2
<1>7. Cardinality({}) = 0 /\ Cardinality(A) \in Nat
  BY <1>2, FS_EmptySet, FS_CardinalityType
<1> QED
  BY <1>1, <1>3, <1>5, <1>6, <1>7 DEF SumOf

(* Changing one value changes the sum by the difference.                    *)
LEMMA SumOfChange ==
  ASSUME NEW S, IsFiniteSet(S), NEW M \in Nat,
         NEW f \in [S -> 0..M], NEW g \in [S -> 0..M], NEW x \in S,
         \A y \in S \ {x} : g[y] = f[y]
  PROVE  SumOf(g) = SumOf(f) - f[x] + g[x]
<1> DEFINE h == [f EXCEPT ![x] = 0]
           k == [g EXCEPT ![x] = 0]
<1>1. h \in [S -> 0..M] /\ f[x] \in Nat /\ g[x] \in Nat
  OBVIOUS
<1>2. SumOf(f) = SumOf(h) + f[x]
  BY SumOfWithout
<1>3. SumOf(g) = SumOf(k) + g[x]
  BY SumOfWithout
<1>4. k = h
  OBVIOUS
<1> HIDE DEF h, k
<1>5. SumOf(h) \in Nat
  BY <1>1, SumOfType
<1> QED
  BY <1>1, <1>2, <1>3, <1>4, <1>5

(* No value exceeds the sum, nor do two values together.                    *)
LEMMA SumOfBounds ==
  ASSUME NEW S, IsFiniteSet(S), NEW M \in Nat, NEW f \in [S -> 0..M],
         NEW x \in S
  PROVE  /\ f[x] <= SumOf(f)
         /\ \A y \in S \ {x} : f[x] + f[y] <= SumOf(f)
<1> DEFINE g == [f EXCEPT ![x] = 0]
<1>1. g \in [S -> 0..M]
  OBVIOUS
<1>2. SumOf(f) = SumOf(g) + f[x] /\ SumOf(g) \in Nat
  BY <1>1, SumOfWithout, SumOfType
<1>3. ASSUME NEW y \in S \ {x} PROVE f[y] <= SumOf(g)
  <2> DEFINE h == [g EXCEPT ![y] = 0]
  <2>1. SumOf(g) = SumOf(h) + g[y]
    <3> HIDE DEF g
    <3> QED
      BY <1>1, SumOfWithout
  <2>2. h \in [S -> 0..M] /\ g[y] = f[y] /\ f[y] \in Nat
    BY <1>1
  <2> HIDE DEF g, h
  <2>3. SumOf(h) \in Nat
    BY <2>2, SumOfType
  <2> QED
    BY <2>1, <2>2, <2>3
<1>4. f[x] \in Nat /\ \A y \in S : f[y] \in Nat
  OBVIOUS
<1> HIDE DEF g
<1> QED
  BY <1>2, <1>3, <1>4

(* A function without one of its arguments.                                 *)
Without(g, x) == [y \in DOMAIN g \ {x} |-> g[y]]

(* An argument less takes its value from the sum.                           *)
LEMMA SumOfExtended ==
  ASSUME NEW S, IsFiniteSet(S), NEW M \in Nat, NEW g \in [S -> 0..M], NEW x \in S
  PROVE  SumOf(g) = SumOf(Without(g, x)) + g[x] /\ SumOf(Without(g, x)) \in Nat
<1> DEFINE h == [g EXCEPT ![x] = 0]
           T == S \ {x}
           f == Without(g, x)
<1>1. SumOf(g) = SumOf(h) + g[x]
  BY SumOfWithout
<1>2. f \in [T -> 0..M] /\ \A y \in T : f[y] = g[y]
  BY DEF Without
<1>3. DOMAIN h = T \cup {x} /\ h[x] = 0 /\ \A y \in T : h[y] = g[y]
  OBVIOUS
<1>4. IsFiniteSet(T)
  BY FS_Subset
<1> HIDE DEF f, h, T
<1>5. Units(h) = Units(f)
  <2>1. Units(h) = UNION { {y} \X (1..h[y]) : y \in T }
    <3>1. {x} \X (1..h[x]) = {}
      BY <1>3
    <3> QED
      BY <1>3, <3>1 DEF Units
  <2> QED
    BY <1>2, <1>3, <2>1 DEF Units
<1>6. SumOf(f) \in Nat
  BY <1>2, <1>4, SumOfType
<1> QED
  BY <1>1, <1>5, <1>6 DEF SumOf, f

(* The function that is zero everywhere sums to zero.                       *)
LEMMA SumOfZero ==
  ASSUME NEW S
  PROVE  SumOf([x \in S |-> 0]) = 0
<1>1. Units([x \in S |-> 0]) = {}
  BY DEF Units
<1> QED
  BY <1>1, FS_EmptySet DEF SumOf

(* A bound on each value, scaled, is one on the sum.                        *)
LEMMA SumOfScaled ==
  ASSUME NEW S, IsFiniteSet(S), NEW M \in Nat, NEW f \in [S -> 0..M],
         NEW g \in [S -> 0..M], NEW c \in Nat, NEW d \in Nat,
         \A x \in S : f[x] * c <= g[x] * d
  PROVE  SumOf(f) * c <= SumOf(g) * d
<1> DEFINE On(h, A) == [x \in A |-> h[x]]
           P == {A \in SUBSET S : SumOf(On(f, A)) * c <= SumOf(On(g, A)) * d}
<1>1. {} \in P
  <2>1. On(f, {}) = [x \in {} |-> 0] /\ On(g, {}) = [x \in {} |-> 0]
    OBVIOUS
  <2> HIDE DEF On
  <2>2. SumOf(On(f, {})) = 0 /\ SumOf(On(g, {})) = 0
    BY <2>1, SumOfZero
  <2> QED
    BY <2>2
<1>2. ASSUME NEW A \in P, NEW x \in S \ A
      PROVE  A \cup {x} \in P
  <2> DEFINE B == A \cup {x}
  <2>1. B \subseteq S
    OBVIOUS
  <2>2. ASSUME NEW h \in [S -> 0..M]
        PROVE  SumOf(On(h, B)) = SumOf(On(h, A)) + h[x] /\ SumOf(On(h, A)) \in Nat
    <3> DEFINE p == On(h, B)
               q == On(h, A)
    <3>1. p \in [B -> 0..M] /\ x \in B /\ p[x] = h[x] /\ IsFiniteSet(B)
      BY FS_Subset
    <3>2. q = Without(p, x)
      BY DEF Without
    <3> HIDE DEF p, q, B
    <3>3. SumOf(p) = SumOf(Without(p, x)) + p[x] /\ SumOf(Without(p, x)) \in Nat
      BY <3>1, SumOfExtended
    <3> QED
      BY <3>1, <3>2, <3>3 DEF p, q
  <2>3. SumOf(On(f, A)) * c <= SumOf(On(g, A)) * d /\ f[x] * c <= g[x] * d
    OBVIOUS
  <2>4. f[x] \in Nat /\ g[x] \in Nat
    OBVIOUS
  <2> DEFINE sf == SumOf(On(f, A))
             sg == SumOf(On(g, A))
  <2>5. sf \in Nat /\ sg \in Nat
    BY <2>2
  <2> HIDE DEF sf, sg
  <2>6. (sf + f[x]) * c = sf * c + f[x] * c /\ (sg + g[x]) * d = sg * d + g[x] * d
    BY <2>4, <2>5
  <2>7. /\ sf * c \in Nat /\ f[x] * c \in Nat
        /\ sg * d \in Nat /\ g[x] * d \in Nat
    BY <2>4, <2>5
  <2>8. (sf + f[x]) * c <= (sg + g[x]) * d
    BY <2>3, <2>6, <2>7 DEF sf, sg
  <2> QED
    BY <2>1, <2>2, <2>8 DEF sf, sg
<1>3. S \in P
  <2> HIDE DEF P
  <2>1. P \in SUBSET (SUBSET S)
    BY DEF P
  <2> QED
    BY <1>1, <1>2, <2>1, SubsetsByInduction
<1>4. On(f, S) = f /\ On(g, S) = g
  OBVIOUS
<1> QED
  BY <1>3, <1>4

(* A value that leaves one place for another leaves the sum.                *)
LEMMA SumOfMove ==
  ASSUME NEW S, IsFiniteSet(S), NEW M \in Nat, NEW f \in [S -> 0..M], SumOf(f) <= M,
         NEW x \in S, NEW y \in S, NEW n \in 0..f[x], NEW g \in [S -> Int],
         x = y => g = f,
         x # y => g[x] = f[x] - n /\ g[y] = f[y] + n,
         \A z \in S \ {x, y} : g[z] = f[z]
  PROVE  g \in [S -> 0..M] /\ SumOf(g) = SumOf(f)
<1> DEFINE h == [f EXCEPT ![x] = @ - n]
<1>1. /\ h \in [S -> 0..M] /\ h[x] = f[x] - n /\ f[x] \in Nat /\ n \in Nat
      /\ \A z \in S \ {x} : h[z] = f[z]
  OBVIOUS
<1> HIDE DEF h
<1>2. SumOf(h) = SumOf(f) - n /\ SumOf(f) \in Nat /\ SumOf(h) \in Nat
  <2>1. SumOf(h) = SumOf(f) - f[x] + h[x]
    BY <1>1, SumOfChange
  <2>2. SumOf(f) \in Nat /\ SumOf(h) \in Nat
    BY <1>1, SumOfType
  <2> QED
    BY <1>1, <2>1, <2>2
<1>3. h[y] \in Nat /\ h[y] + n <= M
  <2>1. h[y] <= SumOf(h)
    BY <1>1, SumOfBounds
  <2> QED
    BY <1>1, <1>2, <2>1
<1>4. /\ g \in [S -> 0..M] /\ g[y] = h[y] + n
      /\ \A z \in S \ {y} : g[z] = h[z]
  <2>1. \A z \in S : g[z] = IF z = y THEN h[z] + n ELSE h[z]
    BY <1>1
  <2>2. \A z \in S : g[z] \in 0..M
    BY <1>1, <1>3, <2>1
  <2> QED
    BY <2>1, <2>2
<1>5. SumOf(g) = SumOf(h) - h[y] + g[y]
  BY <1>1, <1>4, SumOfChange
<1> QED
  BY <1>1, <1>2, <1>3, <1>4, <1>5
=============================================================================
