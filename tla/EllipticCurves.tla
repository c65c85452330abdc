---------------------------- MODULE EllipticCurves ----------------------------
(***************************************************************************)
(* Elliptic curves (lib/crypto/src/curve) in the short Weierstrass and the *)
(* twisted Edwards model, a point computed with on either, and ed25519     *)
(* signatures (lib/crypto/src/eddsa.rs) on the latter.                     *)
(***************************************************************************)
EXTENDS Arithmetic

(***************************************************************************)
(* Curves in the short Weierstrass model (lib/crypto/src/curve/sw):        *)
(* y^2 = x^3 + a * x + b over the residues modulo p.  Affine points, and   *)
(* the Jacobian coordinates <<x, y, z>> of <<x / z^2, y / z^3>> in which   *)
(* the code computes.  A curve is a record of its parameters.              *)
(***************************************************************************)
(* Affine::identity and Projective::ZERO                                    *)
SwIdentity == [x |-> 0, y |-> 0, infinity |-> TRUE]
SwZero     == [x |-> 1, y |-> 1, z |-> 0]

SwAffine(x, y) == [x |-> x, y |-> y, infinity |-> FALSE]

SwIsZero(P) == P.z = 0

SwIsOnCurve(c, A) ==
  A.infinity \/ (A.y * A.y) % c.p = (A.x * A.x * A.x + c.a * A.x + c.b) % c.p

SwPoints(c) ==
  {A \in {SwAffine(x, y) : x, y \in 0 .. c.p - 1} : SwIsOnCurve(c, A)} \cup {SwIdentity}

(* `AffineRepr::into_group`                                                 *)
SwIntoGroup(A) == IF A.infinity THEN SwZero ELSE [x |-> A.x, y |-> A.y, z |-> 1]

(* `From<Projective> for Affine`                                            *)
SwIntoAffine(c, P) ==
  LET zinv == Inverse(c.p, P.z)
  IN  IF SwIsZero(P) THEN SwIdentity
      ELSE IF P.z = 1 THEN SwAffine(P.x, P.y)
      ELSE SwAffine((P.x * zinv^2) % c.p, (((P.y * zinv^2) % c.p) * zinv) % c.p)

SwNegAffine(c, A) == [A EXCEPT !.y = (-@) % c.p]
SwNeg(c, P) == [P EXCEPT !.y = (-@) % c.p]

SwEq(c, P, Q) ==
  LET z1z1 == (P.z * P.z) % c.p
      z2z2 == (Q.z * Q.z) % c.p
  IN  IF SwIsZero(P) \/ SwIsZero(Q)
        THEN SwIsZero(P) /\ SwIsZero(Q)
        ELSE /\ (P.x * z2z2) % c.p = (Q.x * z1z1) % c.p
             /\ (P.y * z2z2 * Q.z) % c.p = (Q.y * z1z1 * P.z) % c.p

-----------------------------------------------------------------------------
(* `double_in_place`, with one formula for a = 0 and one for the rest       *)
SwDoubleWithoutA(c, P) ==
  LET b  == (P.y * P.y) % c.p
      d  == (4 * P.x * b) % c.p
      e  == (3 * P.x * P.x) % c.p
      x3 == (e * e - 2 * d) % c.p
  IN  [ x |-> x3,
        y |-> (e * (d - x3) - 8 * b * b) % c.p,
        z |-> (2 * P.y * P.z) % c.p ]

SwDoubleWithA(c, P) ==
  LET xx   == (P.x * P.x) % c.p
      yy   == (P.y * P.y) % c.p
      yyyy == (yy * yy) % c.p
      zz   == (P.z * P.z) % c.p
      s    == (2 * ((P.x + yy) * (P.x + yy) - xx - yyyy)) % c.p
      m    == (3 * xx + c.a * ((zz * zz) % c.p)) % c.p
      x3   == (m * m - 2 * s) % c.p
  IN  [ x |-> x3,
        y |-> (m * (s - x3) - 8 * yyyy) % c.p,
        z |-> (2 * P.y * P.z) % c.p ]

SwDouble(c, P) ==
  IF SwIsZero(P) THEN P
  ELSE IF c.a = 0 THEN SwDoubleWithoutA(c, P) ELSE SwDoubleWithA(c, P)

(* What the two additions share once the coordinates have been brought to   *)
(* one denominator: equal points are doubled, opposite ones give zero.      *)
SwSumOf(c, P, u1, s1, u2, s2, z) ==
  LET h  == (u2 - u1) % c.p
      i  == (4 * h * h) % c.p
      j  == ((-h) * i) % c.p
      r  == (2 * (s2 - s1)) % c.p
      v  == (u1 * i) % c.p
      x3 == (r * r + j - 2 * v) % c.p
  IN  IF u1 = u2
        THEN IF s1 = s2 THEN SwDouble(c, P) ELSE SwZero
        ELSE [ x |-> x3,
               y |-> SumOfProducts(c.p, <<r, (2 * s1) % c.p>>, <<(v - x3) % c.p, j>>),
               z |-> (2 * ((z * h) % c.p)) % c.p ]

(* `add_assign` of an affine point, and of one in Jacobian coordinates      *)
SwAddAffine(c, P, A) ==
  LET z1z1 == (P.z * P.z) % c.p
  IN  IF A.infinity THEN P
      ELSE IF SwIsZero(P) THEN [x |-> A.x, y |-> A.y, z |-> 1]
      ELSE SwSumOf(c, P, P.x, P.y,
                   (A.x * z1z1) % c.p, (((P.z * A.y) % c.p) * z1z1) % c.p, P.z)

SwAddUnguarded(c, P, Q) ==  \* mutant: a zero on the right is not looked for
  LET z1z1 == (P.z * P.z) % c.p
      z2z2 == (Q.z * Q.z) % c.p
  IN  IF SwIsZero(P) THEN Q
      ELSE SwSumOf(c, P,
                   (P.x * z2z2) % c.p, (((P.y * Q.z) % c.p) * z2z2) % c.p,
                   (Q.x * z1z1) % c.p, (((Q.y * P.z) % c.p) * z1z1) % c.p,
                   (P.z * Q.z) % c.p)

SwAdd(c, P, Q) ==
  LET z1z1 == (P.z * P.z) % c.p
      z2z2 == (Q.z * Q.z) % c.p
  IN  IF SwIsZero(P) THEN Q
      ELSE IF SwIsZero(Q) THEN P
      ELSE SwSumOf(c, P,
                   (P.x * z2z2) % c.p, (((P.y * Q.z) % c.p) * z2z2) % c.p,
                   (Q.x * z1z1) % c.p, (((Q.y * P.z) % c.p) * z1z1) % c.p,
                   (P.z * Q.z) % c.p)

(* `sw_double_and_add_affine` and `sw_double_and_add_projective`            *)
SwMulAffine(c, A, n) ==
  LET bits == BitsBE(n)
      res[i \in 0..Len(bits)] ==
        IF i = 0 THEN SwZero
        ELSE LET twice == SwDouble(c, res[i - 1])
             IN  IF bits[i] THEN SwAddAffine(c, twice, A) ELSE twice
  IN  res[Len(bits)]

SwMul(c, P, n) ==
  LET bits == BitsBE(n)
      res[i \in 0..Len(bits)] ==
        IF i = 0 THEN SwZero
        ELSE LET twice == SwDouble(c, res[i - 1])
             IN  IF bits[i] THEN SwAdd(c, twice, P) ELSE twice
  IN  res[Len(bits)]

(* `normalize_batch`                                                        *)
SwNormalizeBatch(c, points) ==
  LET zinv == BatchInversion(c.p, [i \in DOMAIN points |-> points[i].z])
      Of(P, z) == IF SwIsZero(P) THEN SwIdentity
                  ELSE SwAffine((P.x * z * z) % c.p, (((P.y * z * z) % c.p) * z) % c.p)
  IN  [i \in DOMAIN points |-> Of(points[i], zinv[i])]

-----------------------------------------------------------------------------
(* The group law, by chords and tangents.                                   *)
SwSum(c, A, C) ==
  LET opposite == A.x = C.x /\ (A.y + C.y) % c.p = 0
      slope == IF A = C
                 THEN ((3 * A.x * A.x + c.a) * Inverse(c.p, (2 * A.y) % c.p)) % c.p
                 ELSE ((C.y - A.y) * Inverse(c.p, (C.x - A.x) % c.p)) % c.p
      x == (slope * slope - A.x - C.x) % c.p
  IN  IF A.infinity THEN C
      ELSE IF C.infinity THEN A
      ELSE IF opposite THEN SwIdentity
      ELSE SwAffine(x, (slope * (A.x - x) - A.y) % c.p)

-----------------------------------------------------------------------------
(***************************************************************************)
(* Curves in the twisted Edwards model (lib/crypto/src/curve/te):          *)
(* a * x^2 + y^2 = 1 + d * x^2 * y^2 over the residues modulo p, in        *)
(* extended coordinates <<x, y, t, z>> of <<x / z, y / z>>, t = x * y / z. *)
(***************************************************************************)
TeAffine(x, y) == [x |-> x, y |-> y]
TeIdentity     == TeAffine(0, 1)
TeZero         == [x |-> 0, y |-> 1, t |-> 0, z |-> 1]

TeIsZero(P) == P.x = 0 /\ P.y = P.z /\ P.y # 0 /\ P.t = 0

TeIsOnCurve(c, A) ==
  LET x2 == (A.x * A.x) % c.p
      y2 == (A.y * A.y) % c.p
  IN  (y2 + c.a * x2) % c.p = (1 + c.d * ((x2 * y2) % c.p)) % c.p

TePoints(c) ==
  {A \in {TeAffine(x, y) : x, y \in 0 .. c.p - 1} : TeIsOnCurve(c, A)}

(* `AffineRepr::into_group`                                                 *)
TeIntoGroup(c, A) == [x |-> A.x, y |-> A.y, t |-> (A.x * A.y) % c.p, z |-> 1]

(* `From<Projective> for Affine`                                            *)
TeIntoAffine(c, P) ==
  LET zinv == Inverse(c.p, P.z)
  IN  IF TeIsZero(P) THEN TeIdentity
      ELSE IF P.z = 1 THEN TeAffine(P.x, P.y)
      ELSE TeAffine((P.x * zinv) % c.p, (P.y * zinv) % c.p)

TeNegAffine(c, A) == [A EXCEPT !.x = (-@) % c.p]
TeNeg(c, P) == [P EXCEPT !.x = (-@) % c.p, !.t = (-@) % c.p]

TeEq(c, P, Q) ==
  IF TeIsZero(P) \/ TeIsZero(Q)
    THEN TeIsZero(P) /\ TeIsZero(Q)
    ELSE /\ (P.x * Q.z) % c.p = (Q.x * P.z) % c.p
         /\ (P.y * Q.z) % c.p = (Q.y * P.z) % c.p

-----------------------------------------------------------------------------
(* `double_in_place`                                                        *)
TeDouble(c, P) ==
  LET aa == (P.x * P.x) % c.p
      bb == (P.y * P.y) % c.p
      d  == (c.a * aa) % c.p
      e  == ((P.x + P.y) * (P.x + P.y) - aa - bb) % c.p
      g  == (d + bb) % c.p
      f  == (g - 2 * P.z * P.z) % c.p
      h  == (d - bb) % c.p
  IN  [x |-> (e * f) % c.p, y |-> (g * h) % c.p, t |-> (e * h) % c.p, z |-> (f * g) % c.p]

(* The two additions; t and z are the products of the coordinates of both.  *)
TeSumOf(c, P, Q, t, z) ==
  LET aa == (P.x * Q.x) % c.p
      bb == (P.y * Q.y) % c.p
      cc == (c.d * t) % c.p
      h  == (bb - c.a * aa) % c.p
      e  == ((P.x + P.y) * (Q.x + Q.y) - aa - bb) % c.p
      f  == (z - cc) % c.p
      g  == (z + cc) % c.p
  IN  [x |-> (e * f) % c.p, y |-> (g * h) % c.p, t |-> (e * h) % c.p, z |-> (f * g) % c.p]

TeAddAffine(c, P, A) == TeSumOf(c, P, A, (P.t * ((A.x * A.y) % c.p)) % c.p, P.z)

TeAdd(c, P, Q) == TeSumOf(c, P, Q, (P.t * Q.t) % c.p, (P.z * Q.z) % c.p)

(* `mul_affine` and `mul_projective`                                        *)
TeMulAffine(c, A, n) ==
  LET bits == BitsBE(n)
      res[i \in 0..Len(bits)] ==
        IF i = 0 THEN TeZero
        ELSE LET twice == TeDouble(c, res[i - 1])
             IN  IF bits[i] THEN TeAddAffine(c, twice, A) ELSE twice
  IN  res[Len(bits)]

TeMul(c, P, n) ==
  LET bits == BitsBE(n)
      res[i \in 0..Len(bits)] ==
        IF i = 0 THEN TeZero
        ELSE LET twice == TeDouble(c, res[i - 1])
             IN  IF bits[i] THEN TeAdd(c, twice, P) ELSE twice
  IN  res[Len(bits)]

(* `normalize_batch`, which panics for a z of zero                          *)
TeNormalizeBatch(c, points) ==
  LET zinv == BatchInversion(c.p, [i \in DOMAIN points |-> points[i].z])
      Of(P, z) == IF TeIsZero(P) THEN TeIdentity
                                 ELSE TeAffine((P.x * z) % c.p, (P.y * z) % c.p)
  IN  IF \E i \in DOMAIN points : points[i].z = 0
        THEN "panic"
        ELSE [i \in DOMAIN points |-> Of(points[i], zinv[i])]

-----------------------------------------------------------------------------
(* The group law.                                                           *)
TeSum(c, A, C) ==
  LET t == (c.d * A.x * C.x * ((A.y * C.y) % c.p)) % c.p
  IN  TeAffine( ((A.x * C.y + A.y * C.x) * Inverse(c.p, (1 + t) % c.p)) % c.p,
                ((A.y * C.y - c.a * A.x * C.x) * Inverse(c.p, (1 - t) % c.p)) % c.p )

-----------------------------------------------------------------------------
(***************************************************************************)
(* A point that is computed with (lib/crypto/src/curve): one value of type *)
(* Projective, on a curve of either model, under any sequence of its       *)
(* operations.  The coordinates it ends up with depend on the way there;   *)
(* `meaning` is the point of the group that it should stand for.           *)
(***************************************************************************)
CONSTANTS
  Curves,    \* records of a model, "sw" or "te", and the parameters
  MaxScalar  \* bound: the scalars multiplied by

VARIABLES
  curve,   \* the curve, fixed
  point,   \* the projective coordinates
  meaning  \* history: the affine point

pointVars == <<curve, point, meaning>>

-----------------------------------------------------------------------------
isSw == curve.model = "sw"

Points        == IF isSw THEN SwPoints(curve) ELSE TePoints(curve)
Identity      == IF isSw THEN SwIdentity ELSE TeIdentity
ZeroPoint     == IF isSw THEN SwZero ELSE TeZero
IntoAffine(P) == IF isSw THEN SwIntoAffine(curve, P) ELSE TeIntoAffine(curve, P)
Eq(P, Q)      == IF isSw THEN SwEq(curve, P, Q) ELSE TeEq(curve, P, Q)
GroupSum(A, C) == IF isSw THEN SwSum(curve, A, C) ELSE TeSum(curve, A, C)

NormalizeBatch(points) ==
  IF isSw THEN SwNormalizeBatch(curve, points) ELSE TeNormalizeBatch(curve, points)

Multiple(n, A) ==
  LET times[k \in 0..n] == IF k = 0 THEN Identity ELSE GroupSum(times[k - 1], A)
  IN  times[n]

(* The coordinates of an affine point for every z, which is how the results *)
(* of other computations look.                                              *)
WithZ(A, z) ==
  IF isSw
    THEN IF A.infinity
           THEN [x |-> (z * z) % curve.p, y |-> (z * z * z) % curve.p, z |-> 0]
           ELSE [ x |-> (A.x * z * z) % curve.p,
                  y |-> (A.y * z * z * z) % curve.p,
                  z |-> z ]
    ELSE [ x |-> (A.x * z) % curve.p, y |-> (A.y * z) % curve.p,
           t |-> (A.x * A.y * z) % curve.p, z |-> z ]

Forms == {WithZ(A, z) : A \in Points, z \in 1 .. curve.p - 1}

-----------------------------------------------------------------------------
PointInit == \E c \in Curves :
  /\ curve = c
  /\ point = ZeroPoint
  /\ meaning = Identity

DoubleInPlace ==
  /\ point' = IF isSw THEN SwDouble(curve, point) ELSE TeDouble(curve, point)
  /\ meaning' = GroupSum(meaning, meaning)
  /\ UNCHANGED curve

AddAssignAffine(A) ==
  /\ point' = IF isSw THEN SwAddAffine(curve, point, A) ELSE TeAddAffine(curve, point, A)
  /\ meaning' = GroupSum(meaning, A)
  /\ UNCHANGED curve

AddAssign(Q) ==
  /\ point' = IF isSw THEN SwAdd(curve, point, Q) ELSE TeAdd(curve, point, Q)
  /\ meaning' = GroupSum(meaning, IntoAffine(Q))
  /\ UNCHANGED curve

NegPoint ==
  /\ point' = IF isSw THEN SwNeg(curve, point) ELSE TeNeg(curve, point)
  /\ meaning' = IF isSw THEN SwNegAffine(curve, meaning) ELSE TeNegAffine(curve, meaning)
  /\ UNCHANGED curve

(* `mul_bigint` of the point, and of its affine form                        *)
MulBigint(n) ==
  /\ point' = IF isSw THEN SwMul(curve, point, n) ELSE TeMul(curve, point, n)
  /\ meaning' = Multiple(n, meaning)
  /\ UNCHANGED curve

MulAffine(n) ==
  /\ point' = IF isSw THEN SwMulAffine(curve, meaning, n) ELSE TeMulAffine(curve, meaning, n)
  /\ meaning' = Multiple(n, meaning)
  /\ UNCHANGED curve

PointNext ==
  \/ DoubleInPlace
  \/ NegPoint
  \/ \E A \in Points : AddAssignAffine(A)
  \/ \E Q \in Forms : AddAssign(Q)
  \/ \E n \in 0..MaxScalar : MulBigint(n) \/ MulAffine(n)

PointSpec == PointInit /\ [][PointNext]_pointVars

-----------------------------------------------------------------------------
(* Whatever the way to a point, its coordinates stand for the point that    *)
(* the group law gives: through sums of equal and of opposite points, of    *)
(* points of order two and of zeros with any coordinates.  Comparing it     *)
(* with any coordinates compares the points, and normalizing it in a batch, *)
(* next to zeros and other points, gives the affine point.                  *)
PointsAreExact ==
  /\ meaning \in Points
  /\ IntoAffine(point) = meaning
  /\ \A A \in Points, z \in 1 .. curve.p - 1 :
       Eq(point, WithZ(A, z)) <=> meaning = A
  /\ \A Q \in {WithZ(A, 2) : A \in Points} :
       NormalizeBatch(<<ZeroPoint, point, Q, point>>)
         = <<Identity, meaning, IntoAffine(Q), meaning>>

-----------------------------------------------------------------------------
(***************************************************************************)
(* ed25519 signatures (lib/crypto/src/eddsa.rs) on a twisted Edwards       *)
(* curve.  The hashes are SHA-512 reduced to a scalar: any scalar *)
(* here, the same for the same message, key and commitment.                *)
(***************************************************************************)
CONSTANTS
  Ed,    \* the curve: a record of p, a and d
  Base,  \* its generator, an affine point
  Order  \* the order of the generator, a prime: the modulus of Scalar

Scalars == 0 .. Order - 1

VARIABLES
  scalar,  \* the scalar of the signing key
  signed   \* the last signature made and the hash it was made for, if any

signVars == <<scalar, signed>>

-----------------------------------------------------------------------------
(* `CompressedPointY`: y, and whether x is odd                              *)
Compressed(A) == <<A.y, A.x % 2>>

(* The point of `VerifyingKey`, in projective coordinates                   *)
KeyOf(a) == TeMul(Ed, TeIntoGroup(Ed, Base), a)

(* `sign`, with the hashes r and k                                          *)
Sign(a, r, k) == [R |-> TeMul(Ed, TeIntoGroup(Ed, Base), r), s |-> (k * a + r) % Order]

(* `compute_R` and `is_valid`                                               *)
IsValid(A, sig, k) ==
  TeEq(Ed, TeAdd(Ed, TeMul(Ed, A, (-k) % Order),
                     TeMul(Ed, TeIntoGroup(Ed, Base), sig.s)), sig.R)

-----------------------------------------------------------------------------
SignInit == scalar \in Scalars /\ signed = <<>>

SignMessage(r, k) ==
  /\ signed' = <<[signature |-> Sign(scalar, r, k), hash |-> k]>>
  /\ UNCHANGED scalar

SignNext == \E r, k \in Scalars : SignMessage(r, k)

(* A signature verifies for the hash it was made for, and for another only  *)
(* when the key is the identity; and the points that go into the hash are   *)
(* told apart by their compressed forms.                                    *)
SignaturesVerify ==
  /\ \A i \in DOMAIN signed : \A k \in Scalars :
       IsValid(KeyOf(scalar), signed[i].signature, k)
         <=> (k = signed[i].hash \/ scalar = 0)
  /\ \A A, C \in TePoints(Ed) : Compressed(A) = Compressed(C) => A = C
=============================================================================
