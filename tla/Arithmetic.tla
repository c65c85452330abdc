------------------------------- MODULE Arithmetic -------------------------------
(***************************************************************************)
(* Prime fields in Montgomery form (lib/crypto/src/field/fp.rs) on the     *)
(* numbers of lib/crypto/src/arithmetic: `Uint` and `WideUint` (uint.rs)   *)
(* over the limb arithmetic of limb.rs, arrays of machine words, the       *)
(* lowest first, and the loops that carry between the words.  Words have   *)
(* LimbBits bits here for 64 there, and numbers N words.  The limb         *)
(* limbs[i] of the code is a[i + 1], and so are bits and digits.           *)
(*                                                                         *)
(* A field is the record of the constants of its FpParams; every operation *)
(* works on Montgomery forms and, where the modulus leaves no spare bit in *)
(* the top limb, on the carry as well.                                     *)
(*                                                                         *)
(* The `Math` trait of contracts/src/utils/math/alloy.rs comes first:      *)
(* square root, average and `mul_div` of words of WordBits bits.           *)
(***************************************************************************)
EXTENDS Integers, Sequences, Bitwise

CONSTANTS LimbBits,    \* Limb::BITS, even
          N,           \* the limbs of a number
          WordBits,    \* the bits of a U256: a power of 2, at least 4
          NewtonSteps  \* 6 in the code, for 256 bits

ASSUME UintAssumption == LimbBits \in Nat \ {0} /\ LimbBits % 2 = 0 /\ N \in Nat \ {0}

B     == 2^LimbBits
BITS  == N * LimbBits
Limbs == 0 .. B - 1
Words == [1..N -> Limbs]

MaxWord == 2^WordBits - 1

(* A panic of the code as a result.                                         *)
Panic == [panic |-> TRUE]

-----------------------------------------------------------------------------
(* The `Math` trait.  `sqrt`: for the first estimate halves, quarters, ...  *)
(* of the word down to two bits are shifted out of aa while anything is     *)
(* left, and each raises xn by half as many bits.                           *)
Estimate(a) ==
  LET after[bits \in 1..WordBits] ==
        IF bits = WordBits
          THEN [aa |-> a, xn |-> 1]
          ELSE LET before == after[2 * bits]
               IN  IF before.aa >= 2^bits
                     THEN [ aa |-> before.aa \div 2^bits,
                            xn |-> before.xn * 2^(bits \div 2) ]
                     ELSE before
  IN  after[2].xn

NewtonStep(a, x) == (x + a \div x) \div 2

(* Newton's method from the middle of the interval of the estimate, and the *)
(* last correction.                                                         *)
Sqrt(a) ==
  LET x[n \in 0..NewtonSteps] ==
        IF n = 0 THEN (3 * Estimate(a)) \div 2 ELSE NewtonStep(a, x[n - 1])
      last == x[NewtonSteps]
  IN  IF a <= 1 THEN a ELSE IF last > a \div last THEN last - 1 ELSE last

(* `average`, without the carry that a + b may have                         *)
Average(a, b) == ((a & b) + (a ^^ b) \div 2) % (MaxWord + 1)

(* `mul_div`, which panics for a zero denominator and a result that is no   *)
(* word; the product and its adjustment are computed in twice the width.    *)
MulDiv(x, y, denominator, rounding) ==
  LET adjusted == IF rounding = "Ceil" THEN x * y + denominator - 1 ELSE x * y
      result   == adjusted \div denominator
  IN  IF denominator = 0 THEN "panic"
      ELSE IF result > MaxWord THEN "panic" ELSE result

-----------------------------------------------------------------------------
(* limb.rs.  `widening_mul` of the wasm target multiplies halves of limbs,  *)
(* so that no product leaves a limb; "|" joins parts with no bit in common. *)
Half == 2^(LimbBits \div 2)

LimbProduct(a, b) ==
  LET lolo == (a % Half) * (b % Half)
      lohi == ((a % Half) * (b \div Half)) * Half
      hilo == ((a \div Half) * (b % Half)) * Half
      hihi == ((a \div Half) * (b \div Half)) * B
  IN  (lolo + hihi) + (lohi + hilo)

(* A wide word as the limb it leaves and the limb it carries.              *)
Split(wide) == [limb |-> wide % B, carry |-> wide \div B]

carrying_mac(a, b, c, carry) == Split(a + LimbProduct(b, c) + carry)
mac(a, b, c) == Split(a + LimbProduct(b, c))
adc(a, b, carry) == Split(a + b + carry)

sbb(a, b, borrow) ==
  LET tmp == B + a - b - borrow
  IN  [limb |-> tmp % B, carry |-> IF tmp \div B = 0 THEN 1 ELSE 0]

(* Two subtractions that wrap, of which at most one borrows.                *)
sbb_assign(a, b, borrow) ==
  LET sub == (a - b) % B
  IN  [ limb  |-> (sub - borrow) % B,
        carry |-> IF a < b \/ sub < borrow THEN 1 ELSE 0 ]

-----------------------------------------------------------------------------
(* The limbs from the lowest to the highest, each with the carry of the one *)
(* before: `adc`, `checked_add`, `checked_sub` and their `_assign` forms.   *)
Ripple(step(_, _, _), a, b, first) ==
  LET upTo[i \in 0..N] ==
        IF i = 0
          THEN [word |-> <<>>, carry |-> first]
          ELSE LET below == upTo[i - 1]
                   s     == step(a[i], b[i], below.carry)
               IN  [word |-> Append(below.word, s.limb), carry |-> s.carry]
  IN  upTo[N]

checked_add(a, b) == Ripple(adc, a, b, 0)
checked_sub(a, b) == Ripple(sbb, a, b, 0)
checked_sub_assign(a, b) == Ripple(sbb_assign, a, b, 0)

(* A number by its limbs, one after the other.                              *)
Word(limb(_)) ==
  LET upTo[i \in 0..N] == IF i = 0 THEN <<>> ELSE Append(upTo[i - 1], limb(i))
  IN  upTo[N]

Zero == Word(LAMBDA i : 0)
One  == [Zero EXCEPT ![1] = 1]

(* `cmp`, `ge`, `gt`, `le` and `lt` scan all limbs from the lowest, and the *)
(* last difference decides; the result starts with the answer for equals.   *)
LastDifference(a, b, equal) ==
  LET result[i \in 0..N] ==
        IF i = 0 THEN equal
        ELSE IF a[i] = b[i] THEN result[i - 1]
        ELSE IF a[i] < b[i] THEN "less" ELSE "greater"
  IN  result[N]

cmp(a, b) == LastDifference(a, b, "equal")
ge(a, b)  == LastDifference(a, b, "greater") = "greater"
gt(a, b)  == LastDifference(a, b, "less") = "greater"
le(a, b)  == LastDifference(a, b, "less") = "less"
lt(a, b)  == LastDifference(a, b, "greater") = "less"

(* `checked_mul2` and `div2_assign` shift by one bit, limb by limb.         *)
LimbAt(a, i) == IF i \in 1..N THEN a[i] ELSE 0

checked_mul2(a) ==
  [ word  |-> Word(LAMBDA i : ((a[i] * 2) % B) + (LimbAt(a, i - 1) \div (B \div 2))),
    carry |-> a[N] \div (B \div 2) ]

div2(a) == Word(LAMBDA i : (a[i] \div 2) + (LimbAt(a, i + 1) % 2) * (B \div 2))

(* `shl_assign` and `shr_assign`: a limb lands in two adjacent limbs, and a *)
(* shift of the limb by all its bits gives zero.                            *)
shl(a, rhs) ==
  LET limbs == rhs \div LimbBits
      bits  == rhs % LimbBits
  IN  IF rhs >= BITS THEN Panic
      ELSE Word(LAMBDA i : ((LimbAt(a, i - limbs) * 2^bits) % B)
                             + (LimbAt(a, i - limbs - 1) \div 2^(LimbBits - bits)))

shr(a, rhs) ==
  LET limbs == rhs \div LimbBits
      bits  == rhs % LimbBits
  IN  IF rhs >= BITS THEN Panic
      ELSE Word(LAMBDA i : (LimbAt(a, i + limbs) \div 2^bits)
                             + ((LimbAt(a, i + limbs + 1) * 2^(LimbBits - bits)) % B))

(* `num_bits` takes the leading zeros off from the highest limb down to the *)
(* first that is not empty; zero has one bit.                               *)
LimbWidth(limb) == CHOOSE n \in 0..LimbBits : limb < 2^n /\ (n > 0 => limb >= 2^(n - 1))

num_bits(a) ==
  IF a = Zero
    THEN 1
    ELSE LET top == CHOOSE i \in 1..N : a[i] # 0 /\ \A j \in i + 1 .. N : a[j] = 0
         IN  BITS - (N - top) * LimbBits - (LimbBits - LimbWidth(a[top]))

get_bit(a, i) ==
  IF i >= BITS THEN 0 ELSE (a[i \div LimbBits + 1] \div 2^(i % LimbBits)) % 2

-----------------------------------------------------------------------------
(* `widening_mul`: the rows of the long multiplication, each added to the   *)
(* limbs lo and hi, written as one array; a row ends with its carry.        *)
widening_mul(a, b) ==
  LET Row(limbs, i) ==
        LET cell[j \in 0..N] ==
              IF j = 0 THEN [limbs |-> limbs, carry |-> 0]
              ELSE LET c == cell[j - 1]
                       k == i + j - 1
                       m == carrying_mac(c.limbs[k], a[i], b[j], c.carry)
                   IN  [limbs |-> [c.limbs EXCEPT ![k] = m.limb], carry |-> m.carry]
            last == cell[N]
        IN  [last.limbs EXCEPT ![i + N] = last.carry]
      rows[i \in 0..N] == IF i = 0 THEN Zero \o Zero ELSE Row(rows[i - 1], i)
      Halves(all) == [lo |-> SubSeq(all, 1, N), hi |-> SubSeq(all, N + 1, 2 * N)]
  IN  Halves(rows[N])

Narrow(w) == IF w.hi = Zero THEN w.lo ELSE Panic

mul(a, b) == Narrow(widening_mul(a, b))
add(a, b) == LET s == checked_add(a, b) IN IF s.carry = 0 THEN s.word ELSE Panic

(* WideUint: its bits are those of the low part and then of the high one,   *)
(* and `rem` divides bit by bit from the top.                               *)
wide_num_bits(w) == IF w.hi = Zero THEN num_bits(w.lo) ELSE num_bits(w.hi) + BITS

wide_get_bit(w, i) == IF i >= BITS THEN get_bit(w.hi, i - BITS) ELSE get_bit(w.lo, i)

RemStep(remainder, bit, rhs) ==
  LET twice == checked_mul2(remainder)
      next  == [twice.word EXCEPT ![1] = @ + bit]
  IN  IF ge(next, rhs) \/ twice.carry = 1 THEN checked_sub(next, rhs).word ELSE next

rem(w, rhs) ==
  LET bits == wide_num_bits(w)
      after[n \in 0..bits] ==
        IF n = 0 THEN Zero
                 ELSE RemStep(after[n - 1], wide_get_bit(w, bits - n), rhs)
  IN  IF rhs = Zero THEN Panic ELSE after[bits]

-----------------------------------------------------------------------------
(* Conversions: from a number of more or fewer limbs, from and into integers *)
(* of two limbs (u128) and of one or part of one, up to max.                *)
from_uint(value) ==
  IF \E i \in DOMAIN value : i > N /\ value[i] # 0
    THEN Panic ELSE Word(LAMBDA i : IF i \in DOMAIN value THEN value[i] ELSE 0)

from_u128(val) ==
  IF N = 1 /\ val >= B
    THEN Panic
    ELSE Word(LAMBDA i : CASE i = 1 -> val % B [] i = 2 -> val \div B [] OTHER -> 0)

into_u128(a) ==
  IF \E i \in 3..N : a[i] # 0
    THEN Panic ELSE IF N = 1 THEN a[1] ELSE a[1] + a[2] * B

into_primitive(a, max) ==
  IF a[1] > max \/ \E i \in 2..N : a[i] # 0 THEN Panic ELSE a[1]

(* `from_str_radix` reads digits, the lowest last, with the order of        *)
(* magnitude as a number of its own: the order is raised before every digit *)
(* but the lowest, and the call panics when it does not fit.                *)
FromDigit(d) == [Zero EXCEPT ![1] = d]

UnlessPanic(order, uint) ==
  IF order = Panic \/ uint = Panic THEN Panic ELSE [order |-> order, uint |-> uint]

AddTerm(uint, term) == IF term = Panic THEN Panic ELSE add(uint, term)

AddDigit(before, digit, next_order) ==
  IF before = Panic
    THEN Panic
    ELSE UnlessPanic(next_order, AddTerm(before.uint, mul(FromDigit(digit), before.order)))

from_str_radix(digits, radix) ==
  LET after[n \in 0..Len(digits)] ==
        IF n = 0
          THEN [order |-> One, uint |-> Zero]
          ELSE LET before == after[n - 1]
               IN  AddDigit(before, digits[Len(digits) - n + 1],
                            IF n = Len(digits) THEN before.order
                                               ELSE mul(FromDigit(radix), before.order))
      Answer(last) == IF last = Panic THEN Panic ELSE last.uint
  IN  IF digits = <<>> THEN Panic ELSE Answer(after[Len(digits)])

(* `from_str_hex`: a digit of half a limb goes to its place by a shift.     *)
from_str_hex(digits) ==
  IF digits = <<>> \/ Len(digits) > 2 * N
    THEN Panic
    ELSE LET At(k) == IF k < Len(digits) THEN digits[Len(digits) - k] ELSE 0
         IN  Word(LAMBDA i : At(2 * i - 2) + At(2 * i - 1) * Half)

-----------------------------------------------------------------------------
(* What the words stand for.                                                *)
Val(a) ==
  LET sum[i \in 0..N] == IF i = 0 THEN 0 ELSE sum[i - 1] + a[i] * B^(i - 1)
  IN  sum[N]

WideVal(w) == Val(w.lo) + Val(w.hi) * B^N
FromVal(n) == Word(LAMBDA i : (n \div B^(i - 1)) % B)

-----------------------------------------------------------------------------
(* fp.rs                                                                    *)
CONSTANT Moduli  \* the odd primes, below B^N, of the fields

ASSUME ModuliAssumption ==
  \A p \in Moduli : p \in 3 .. B^N - 1 /\ \A d \in 2 .. p - 1 : p % d # 0

-----------------------------------------------------------------------------
(* `inv`: -MODULUS^-1 modulo a limb, by squaring and multiplying.           *)
InvOf(modulus) ==
  LET inv[i \in 0 .. LimbBits - 1] ==
        IF i = 0 THEN 1 ELSE (inv[i - 1] * inv[i - 1] * modulus[1]) % B
  IN  (B - inv[LimbBits - 1]) % B

(* The associated constants of FpParams: R and R2 are the remainders of the *)
(* greatest number of one and of two words, and one.                        *)
Field(p) ==
  LET modulus == FromVal(p)
      max     == Word(LAMBDA i : B - 1)
  IN  [ modulus |-> modulus,
        spare   |-> modulus[N] < B \div 2,
        inv     |-> InvOf(modulus),
        r  |-> checked_add(rem([lo |-> max, hi |-> Zero], modulus), One).word,
        r2 |-> checked_add(rem([lo |-> max, hi |-> max], modulus), One).word ]

Fields == [p \in Moduli |-> Field(p)]

-----------------------------------------------------------------------------
(* `subtract_modulus`, and `carrying_sub_modulus` for a sum or a product    *)
(* that may have left the words.                                            *)
Reduced(f, carry, a) ==
  IF (~f.spare /\ carry = 1) \/ ge(a, f.modulus)
    THEN checked_sub(a, f.modulus).word ELSE a

fp_add(f, a, b) == LET s == checked_add(a, b) IN Reduced(f, s.carry, s.word)

fp_double(f, a) == LET s == checked_mul2(a) IN Reduced(f, s.carry, s.word)

fp_sub(f, a, b) ==
  LET raised == IF cmp(b, a) = "greater" THEN checked_add(a, f.modulus).word ELSE a
  IN  checked_sub_assign(raised, b).word

fp_neg(f, a) == IF a = Zero THEN a ELSE checked_sub(f.modulus, a).word

(* `widening_montgomery_reduction`: each turn clears the lowest limb left.  *)
(* The turns share one more carry, which the next limb of hi takes in.      *)
widening_montgomery_reduction(f, lo, hi) ==
  LET Row(t, i) ==
        LET tmp == (t.limbs[i] * f.inv) % B
            cell[j \in 1..N] ==
              IF j = 1
                THEN [ limbs |-> t.limbs,
                       carry |-> mac(t.limbs[i], tmp, f.modulus[1]).carry ]
                ELSE LET c == cell[j - 1]
                         k == i + j - 1
                         m == carrying_mac(c.limbs[k], tmp, f.modulus[j], c.carry)
                     IN  [limbs |-> [c.limbs EXCEPT ![k] = m.limb], carry |-> m.carry]
            End(last, top) ==
              [limbs |-> [last.limbs EXCEPT ![i + N] = top.limb], carry2 |-> top.carry]
        IN  End(cell[N], adc(cell[N].limbs[i + N], cell[N].carry, t.carry2))
      rows[i \in 0..N] ==
        IF i = 0 THEN [limbs |-> lo \o hi, carry2 |-> 0] ELSE Row(rows[i - 1], i)
      High(all) == [carry |-> all.carry2, word |-> SubSeq(all.limbs, N + 1, 2 * N)]
  IN  High(rows[N])

fp_mul(f, a, b) ==
  LET Montgomery(w)  == widening_montgomery_reduction(f, w.lo, w.hi)
      LessModulus(t) == Reduced(f, t.carry, t.word)
  IN  LessModulus(Montgomery(widening_mul(a, b)))

(* `new` and `from_bigint`, of any number, and back with `into_bigint`: one *)
(* turn of the reduction writes over the limb it cleared.                   *)
from_bigint(f, num) == IF num = Zero THEN num ELSE fp_mul(f, num, f.r2)

into_bigint(f, a) ==
  LET Turn(limbs, i) ==
        LET k == (limbs[i] * f.inv) % B
            cell[j \in 1..N] ==
              IF j = 1
                THEN [limbs |-> limbs, carry |-> mac(limbs[i], k, f.modulus[1]).carry]
                ELSE LET c  == cell[j - 1]
                         at == ((i + j - 2) % N) + 1
                         m  == carrying_mac(c.limbs[at], k, f.modulus[j], c.carry)
                     IN  [limbs |-> [c.limbs EXCEPT ![at] = m.limb], carry |-> m.carry]
            last == cell[N]
        IN  [last.limbs EXCEPT ![i] = last.carry]
      turns[i \in 0..N] == IF i = 0 THEN a ELSE Turn(turns[i - 1], i)
  IN  turns[N]

(* `From` of signed integers goes through the absolute value.               *)
from_signed(f, n) ==
  LET Signed(m) == IF n > 0 THEN m ELSE fp_neg(f, m)
  IN  Signed(from_bigint(f, from_u128(IF n > 0 THEN n ELSE -n)))

-----------------------------------------------------------------------------
(* `inverse`, the binary algorithm of Euclid.  Halving a coefficient that   *)
(* is odd adds the modulus first; the carry of that sum is its top bit.     *)
HalveLosingCarry(f, a) ==  \* mutant: the carry of the sum is lost
  IF a[1] % 2 = 0 THEN div2(a) ELSE div2(checked_add(a, f.modulus).word)

Halve(f, a) ==
  LET sum == checked_add(a, f.modulus)
  IN  IF a[1] % 2 = 0
        THEN div2(a)
        ELSE IF ~f.spare /\ sum.carry = 1
               THEN [div2(sum.word) EXCEPT ![N] = @ + B \div 2]
               ELSE div2(sum.word)

EuclidStep(f, s) ==
  CASE s.u[1] % 2 = 0 -> [s EXCEPT !.u = div2(@), !.b = Halve(f, @)]
    [] s.u[1] % 2 = 1 /\ s.v[1] % 2 = 0 -> [s EXCEPT !.v = div2(@), !.c = Halve(f, @)]
    [] s.u[1] % 2 = 1 /\ s.v[1] % 2 = 1 /\ lt(s.v, s.u) ->
         [s EXCEPT !.u = checked_sub_assign(@, s.v).word, !.b = fp_sub(f, @, s.c)]
    [] OTHER ->
         [s EXCEPT !.v = checked_sub_assign(@, s.u).word, !.c = fp_sub(f, @, s.b)]

(* The loop ends when u or v is one, which it tests after a subtraction    *)
(* only: a u halved down to one lets v be halved first.  Of its turns here  *)
(* every second at least halves u or v.                                     *)
inverse(f, a) ==
  LET turns[n \in 0 .. 4 * BITS + 1] ==
        IF n = 0
          THEN [u |-> a, v |-> f.modulus, b |-> f.r2, c |-> Zero, test |-> TRUE]
          ELSE LET s == turns[n - 1]
               IN  IF s.test /\ One \in {s.u, s.v}
                     THEN s
                     ELSE [ EuclidStep(f, s) EXCEPT
                              !.test = s.u[1] % 2 = 1 /\ s.v[1] % 2 = 1 ]
      last == turns[4 * BITS + 1]
  IN  IF a = Zero THEN "None" ELSE IF last.u = One THEN last.b ELSE last.c

-----------------------------------------------------------------------------
(* What the curves and hashes use of a prime field                          *)
(* (lib/crypto/src/field/mod.rs, bits.rs and curve/mod.rs), on residues     *)
(* modulo p, with which the Montgomery forms above compute.                 *)

(* `Field::inverse` of a residue other than zero                            *)
Inverse(p, x) == CHOOSE y \in 1 .. p - 1 : (x * y) % p = 1

(* `bit_be_trimmed_iter`: the bits from the highest that is set             *)
BitsBE(n) ==
  LET width == CHOOSE w \in 0 .. n : n < 2^w /\ (w > 0 => n >= 2^(w - 1))
  IN  [i \in 1..width |-> (n \div 2^(width - i)) % 2 = 1]

(* `pow`: no product is formed before the first bit.                        *)
Pow(p, x, exp) ==
  LET bits == BitsBE(exp)
      res[i \in 1..Len(bits)] ==
        IF i = 1 THEN x
        ELSE LET square == (res[i - 1] * res[i - 1]) % p
             IN  IF bits[i] THEN (square * x) % p ELSE square
  IN  IF bits = <<>> THEN 1 ELSE res[Len(bits)]

SumOfProducts(p, a, b) ==
  LET sum[i \in 0..Len(a)] == IF i = 0 THEN 0 ELSE (sum[i - 1] + a[i] * b[i]) % p
  IN  sum[Len(a)]

(* `batch_inversion`: the products of the elements up to each, one inverse, *)
(* and back, multiplying the elements in again.  Zeros stay as they are and *)
(* are left out of both passes.                                             *)
BatchInversion(p, v) ==
  LET elems == SelectSeq(v, LAMBDA x : x # 0)
      prod[i \in 0..Len(elems)] == IF i = 0 THEN 1 ELSE (prod[i - 1] * elems[i]) % p
      tmp[i \in 0..Len(elems)] ==
        IF i = Len(elems) THEN Inverse(p, prod[i]) ELSE (tmp[i + 1] * elems[i + 1]) % p
      Rank(i) == Len(SelectSeq(SubSeq(v, 1, i), LAMBDA x : x # 0))
  IN  [ i \in DOMAIN v |->
          IF v[i] = 0 THEN 0 ELSE (tmp[Rank(i)] * prod[Rank(i) - 1]) % p ]

-----------------------------------------------------------------------------
(* The driver: one call of any function above or of `Math`, with any        *)
(* operands of the small widths, and its answer, against the integers.      *)
CONSTANTS
  Samples,   \* bound: the words given to `average` and `mul_div`
  MaxDigits  \* bound: the digits of a numeral

VARIABLES
  call,   \* the function and its operands
  answer  \* <<>> until it answers

arithmeticVars == <<call, answer>>

Numbers == 0 .. B^N - 1
Digits(radix) == UNION {[1..n -> 0 .. radix - 1] : n \in 0..MaxDigits}

Calls ==
  LET Unary   == [op : {"div2", "checked_mul2", "num_bits", "into_u128"}, a : Numbers]
      Binary  == [ op : {"checked_add", "checked_sub", "checked_sub_assign", "cmp", "ge",
                         "gt", "le", "lt", "widening_mul", "rem"},
                   a : Numbers, b : Numbers ]
      Shift   == [op : {"shl", "shr", "get_bit"}, a : Numbers, b : 0..BITS]
      Convert == [op : {"from_uint"}, a : Limbs, b : Numbers]
                   \cup [op : {"from_u128"}, a : 0 .. B * B - 1]
                   \cup [op : {"into_primitive"}, a : Numbers, b : Limbs]
      Parse   == [op : {"from_str_hex"}, digits : Digits(Half)]
                   \cup [op : {"from_str_radix"}, digits : Digits(B - 1)]
      InField(p) ==
        [op : {"fp_add", "fp_sub", "fp_mul"}, p : {p}, a : 0 .. p - 1, b : 0 .. p - 1]
          \cup [op : {"fp_double", "fp_neg", "inverse"}, p : {p}, a : 0 .. p - 1]
          \cup [op : {"from_bigint"}, p : {p}, a : Numbers]
          \cup [op : {"from_signed"}, p : {p}, a : 1 - B * B .. B * B - 1]
      Math    == [op : {"sqrt"}, a : 0..MaxWord]
                   \cup [op : {"average"}, a : Samples, b : Samples]
                   \cup [ op : {"mul_div"}, a : Samples, b : Samples, c : Samples,
                          rounding : {"Floor", "Ceil"} ]
  IN  Unary \cup Binary \cup Shift \cup Convert \cup Parse \cup UNION {InField(p) : p \in Moduli} \cup Math

ArithmeticInit == call \in Calls /\ answer = <<>>

-----------------------------------------------------------------------------
UintResult(c) ==
  LET a == FromVal(c.a) b == FromVal(c.b) IN
  CASE c.op = "div2"               -> div2(a)
    [] c.op = "checked_mul2"       -> checked_mul2(a)
    [] c.op = "num_bits"           -> num_bits(a)
    [] c.op = "checked_add"        -> checked_add(a, b)
    [] c.op = "checked_sub"        -> checked_sub(a, b)
    [] c.op = "checked_sub_assign" -> checked_sub_assign(a, b)
    [] c.op = "cmp"                -> cmp(a, b)
    [] c.op = "ge"                 -> ge(a, b)
    [] c.op = "gt"                 -> gt(a, b)
    [] c.op = "le"                 -> le(a, b)
    [] c.op = "lt"                 -> lt(a, b)
    [] c.op = "widening_mul"       -> widening_mul(a, b)
    [] c.op = "rem" -> {rem([lo |-> a, hi |-> b], FromVal(p)) : p \in Moduli}
    [] c.op = "shl"                -> shl(a, c.b)
    [] c.op = "shr"                -> shr(a, c.b)
    [] c.op = "get_bit"            -> get_bit(a, c.b)
    [] c.op = "from_uint" -> <<from_uint(Append(b, c.a)), from_uint(SubSeq(b, 1, N - 1))>>
    [] c.op = "from_u128"          -> from_u128(c.a)
    [] c.op = "into_u128"          -> into_u128(a)
    [] c.op = "into_primitive"     -> into_primitive(a, c.b)

(* The operands and the result are Montgomery forms; zero has no inverse.   *)
InMontgomeryForm(c, f, a, b) ==
  CASE c.op = "fp_add"      -> fp_add(f, a, b)
    [] c.op = "fp_sub"      -> fp_sub(f, a, b)
    [] c.op = "fp_mul"      -> fp_mul(f, a, b)
    [] c.op = "fp_double"   -> fp_double(f, a)
    [] c.op = "fp_neg"      -> fp_neg(f, a)
    [] c.op = "inverse"     -> inverse(f, a)
    [] c.op = "from_bigint" -> a
    [] c.op = "from_signed" -> from_signed(f, c.a)

FieldResult(c) ==
  LET Into(f, n)   == from_bigint(f, FromVal(n))
      From(f, w)   == IF c.op = "inverse" /\ c.a = 0 THEN w ELSE Val(into_bigint(f, w))
      Computed(f)  == From(f, InMontgomeryForm(c, f, Into(f, c.a), Into(f, c.b)))
  IN  Computed(Fields[c.p])

MathResult(c) ==
  CASE c.op = "from_str_hex"   -> from_str_hex(c.digits)
    [] c.op = "from_str_radix" -> from_str_radix(c.digits, B - 1)
    [] c.op = "sqrt"           -> Sqrt(c.a)
    [] c.op = "average"        -> Average(c.a, c.b)
    [] c.op = "mul_div"        -> MulDiv(c.a, c.b, c.c, c.rounding)

IsField(c) == "p" \in DOMAIN c
IsMath(c)  == c.op \in {"from_str_hex", "from_str_radix", "sqrt", "average", "mul_div"}

Respond ==
  /\ answer = <<>>
  /\ answer' = << IF IsField(call) THEN FieldResult(call)
                  ELSE IF IsMath(call) THEN MathResult(call) ELSE UintResult(call) >>
  /\ UNCHANGED call

-----------------------------------------------------------------------------
(* What the integers say.                                                   *)
Size == B^N

UintExpected(c) ==
  LET Carried(n) == [word |-> FromVal(n % Size), carry |-> IF n \in Numbers THEN 0 ELSE 1]
  IN
  CASE c.op = "div2"         -> FromVal(c.a \div 2)
    [] c.op = "checked_mul2" -> Carried(2 * c.a)
    [] c.op = "num_bits" ->
         IF c.a = 0 THEN 1 ELSE CHOOSE n \in 1..BITS : c.a < 2^n /\ c.a >= 2^(n - 1)
    [] c.op = "checked_add"  -> Carried(c.a + c.b)
    [] c.op \in {"checked_sub", "checked_sub_assign"} -> Carried(c.a - c.b)
    [] c.op = "cmp" ->
         IF c.a = c.b THEN "equal" ELSE IF c.a < c.b THEN "less" ELSE "greater"
    [] c.op = "ge"           -> c.a >= c.b
    [] c.op = "gt"           -> c.a > c.b
    [] c.op = "le"           -> c.a <= c.b
    [] c.op = "lt"           -> c.a < c.b
    [] c.op = "widening_mul" ->
         [lo |-> FromVal((c.a * c.b) % Size), hi |-> FromVal((c.a * c.b) \div Size)]
    [] c.op = "rem"          -> {FromVal((c.a + c.b * Size) % p) : p \in Moduli}
    [] c.op = "shl"          -> IF c.b = BITS THEN Panic ELSE FromVal((c.a * 2^c.b) % Size)
    [] c.op = "shr"          -> IF c.b = BITS THEN Panic ELSE FromVal(c.a \div 2^c.b)
    [] c.op = "get_bit"      -> (c.a \div 2^c.b) % 2
    [] c.op = "from_uint"    ->
         << IF c.a = 0 THEN FromVal(c.b) ELSE Panic, FromVal(c.b % B^(N - 1)) >>
    [] c.op = "from_u128"      -> FromVal(c.a)
    [] c.op = "into_u128"      -> IF c.a < B * B THEN c.a ELSE Panic
    [] c.op = "into_primitive" -> IF c.a <= c.b THEN c.a ELSE Panic

FieldExpected(c) ==
  CASE c.op = "fp_add"      -> (c.a + c.b) % c.p
    [] c.op = "fp_sub"      -> (c.a - c.b) % c.p
    [] c.op = "fp_mul"      -> (c.a * c.b) % c.p
    [] c.op = "fp_double"   -> (2 * c.a) % c.p
    [] c.op = "fp_neg"      -> (-c.a) % c.p
    [] c.op = "inverse" ->
         IF c.a = 0 THEN "None" ELSE CHOOSE b \in 0 .. c.p - 1 : (c.a * b) % c.p = 1
    [] c.op \in {"from_bigint", "from_signed"} -> c.a % c.p

(* A numeral panics when it is empty or its value does not fit; also, in    *)
(* the code, when the order of its highest digit does not fit, be the digit *)
(* zero or not, and a hexadecimal one when it is longer than any number.    *)
Numeral(digits, radix) ==
  LET value[n \in 0..Len(digits)] ==
        IF n = 0 THEN 0 ELSE value[n - 1] * radix + digits[n]
  IN  value[Len(digits)]

MathExpected(c) ==
  LET Quotient(round) == (c.a * c.b + round) \div c.c IN
  CASE c.op = "from_str_hex" ->
         IF Len(c.digits) \in 1 .. 2 * N THEN FromVal(Numeral(c.digits, Half)) ELSE Panic
    [] c.op = "from_str_radix" ->
         IF /\ c.digits # <<>>
            /\ (B - 1)^(Len(c.digits) - 1) < Size
            /\ Numeral(c.digits, B - 1) < Size
           THEN FromVal(Numeral(c.digits, B - 1)) ELSE Panic
    [] c.op = "sqrt"    -> CHOOSE r \in 0 .. 2^(WordBits \div 2) - 1 :
                             r * r <= c.a /\ c.a < (r + 1) * (r + 1)
    [] c.op = "average" -> (c.a + c.b) \div 2
    [] c.op = "mul_div" ->
         IF c.c = 0 THEN "panic"
         ELSE LET q == Quotient(IF c.rounding = "Ceil" THEN c.c - 1 ELSE 0)
              IN  IF q > MaxWord THEN "panic" ELSE q

Expected(c) ==
  IF IsField(c) THEN FieldExpected(c)
  ELSE IF IsMath(c) THEN MathExpected(c) ELSE UintExpected(c)

(* Every operation on limbs, on Montgomery forms and on words gives what it *)
(* gives on integers or residues, to the last carry: for the top limbs, for *)
(* moduli with a spare bit and without, and a panic only where there is no  *)
(* answer.                                                                  *)
ArithmeticIsExact == answer # <<>> => answer[1] = Expected(call)
=============================================================================
