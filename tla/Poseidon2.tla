-------------------------------- MODULE Poseidon2 --------------------------------
(***************************************************************************)
(* The Poseidon2 sponge (lib/crypto/src/poseidon2/mod.rs): its modes and   *)
(* its position in the state, and the permutation with the products by     *)
(* matrices that are never formed.                                         *)
(***************************************************************************)
EXTENDS Arithmetic, FiniteSets

CONSTANTS
  Modulus,           \* of the field F
  T, D, CAPACITY,    \* the constants of PoseidonParams
  ROUNDS_F, ROUNDS_P,
  ROUND_CONSTANTS,
  MAT_INTERNAL_DIAG_M_1,
  Elements,          \* bound: the elements absorbed
  MaxCalls           \* bound: the elements absorbed, and those squeezed

ASSUME PoseidonAssumption ==
  /\ CAPACITY \in 0 .. T - 1
  /\ ROUNDS_F % 2 = 0
  /\ Len(ROUND_CONSTANTS) = ROUNDS_F + ROUNDS_P

VARIABLES
  state, mode, index,  \* the sponge; state[i] of the code is state[i + 1]
  absorbed, squeezed   \* history: what went in and what came out

spongeVars == <<state, mode, index, absorbed, squeezed>>

-----------------------------------------------------------------------------
Tuple(n, elem(_)) ==
  LET upTo[i \in 0..n] == IF i = 0 THEN <<>> ELSE Append(upTo[i - 1], elem(i))
  IN  upTo[n]

SumOf(s) == SumOfProducts(Modulus, s, [i \in DOMAIN s |-> 1])

(* `matmul_m4`: the cheap matrix, on every four elements                    *)
MatmulM4(s) ==
  LET Four(a, b, c, d) ==
        LET t0 == a + b
            t1 == c + d
            t2 == 2 * b + t1
            t3 == 2 * d + t0
            t4 == 4 * t1 + t3
            t5 == 4 * t0 + t2
        IN  << t3 + t5, t5, t2 + t4, t4 >>
      At(k) == ((k - 1) \div 4) * 4
  IN  Tuple(Len(s), LAMBDA k :
        Four(s[At(k) + 1], s[At(k) + 2], s[At(k) + 3], s[At(k) + 4])
          [k - At(k)] % Modulus)

(* `matmul_external` for the sizes supported                                *)
MatmulExternal(s) ==
  LET t == Len(s)
      m == MatmulM4(s)
      Stored(l) == SumOf(Tuple(t \div 4, LAMBDA j : m[4 * (j - 1) + l]))
  IN  CASE t \in {2, 3} -> Tuple(t, LAMBDA i : (s[i] + SumOf(s)) % Modulus)
        [] t = 4 -> m
        [] OTHER ->
             Tuple(t, LAMBDA i : (m[i] + Stored(((i - 1) % 4) + 1)) % Modulus)

(* `matmul_internal`, with the diagonal given for t > 3                     *)
MatmulInternal(s) ==
  LET t == Len(s)
      Diag(i) == IF t \in {2, 3} THEN IF i = t THEN 2 ELSE 1
                                 ELSE MAT_INTERNAL_DIAG_M_1[i]
  IN  Tuple(t, LAMBDA i : (Diag(i) * s[i] + SumOf(s)) % Modulus)

ExternalRound(s, round) ==
  MatmulExternal(Tuple(T, LAMBDA i :
    Pow(Modulus, (s[i] + ROUND_CONSTANTS[round][i]) % Modulus, D)))

InternalRound(s, round) ==
  MatmulInternal([s EXCEPT ![1] =
    Pow(Modulus, (@ + ROUND_CONSTANTS[round][1]) % Modulus, D)])

(* `permute`: half of the full rounds, the partial ones, the other half     *)
Permute(s) ==
  LET start == ROUNDS_F \div 2
      end   == start + ROUNDS_P
      after[round \in 0 .. ROUNDS_F + ROUNDS_P] ==
        IF round = 0 THEN MatmulExternal(s)
        ELSE IF round - 1 \in start .. end - 1
               THEN InternalRound(after[round - 1], round)
               ELSE ExternalRound(after[round - 1], round)
  IN  after[ROUNDS_F + ROUNDS_P]

-----------------------------------------------------------------------------
Zeros == Tuple(T, LAMBDA i : 0)

SpongeInit == /\ state = Zeros
              /\ mode = "Absorbing"
              /\ index = CAPACITY
              /\ absorbed = <<>>
              /\ squeezed = <<>>

(* `absorb` panics while squeezing; a full state is permuted only when one  *)
(* more element comes.                                                      *)
Absorb(elem) ==
  /\ mode = "Absorbing"
  /\ Len(absorbed) < MaxCalls
  /\ LET full == index = T
         s    == IF full THEN Permute(state) ELSE state
         at   == IF full THEN CAPACITY ELSE index
     IN  /\ state' = [s EXCEPT ![at + 1] = (@ + elem) % Modulus]
         /\ index' = at + 1
  /\ absorbed' = Append(absorbed, elem)
  /\ UNCHANGED <<mode, squeezed>>

SqueezeOn ==        \* mutant: a full state is permuted only at the first squeeze
  /\ Len(squeezed) < MaxCalls
  /\ LET permute == mode = "Absorbing"
         s    == IF permute THEN Permute(state) ELSE state
         at   == IF permute \/ index = T THEN CAPACITY ELSE index
     IN  /\ state' = s
         /\ index' = at + 1
         /\ squeezed' = Append(squeezed, s[at + 1])
  /\ mode' = "Squeezing"
  /\ UNCHANGED absorbed

Squeeze ==
  /\ Len(squeezed) < MaxCalls
  /\ LET permute == mode = "Absorbing" \/ index = T
         s    == IF permute THEN Permute(state) ELSE state
         at   == IF permute THEN CAPACITY ELSE index
     IN  /\ state' = s
         /\ index' = at + 1
         /\ squeezed' = Append(squeezed, s[at + 1])
  /\ mode' = "Squeezing"
  /\ UNCHANGED absorbed

SpongeNext == Squeeze \/ \E elem \in Elements : Absorb(elem)

SpongeSpec == SpongeInit /\ [][SpongeNext]_spongeVars

-----------------------------------------------------------------------------
(* A sponge, by its definition: the input in blocks, each added to the      *)
(* permuted state of the blocks before, and the output in blocks of         *)
(* permutations of the last.                                                *)
Rate == T - CAPACITY

SpongeOutput(input, n) ==
  LET Block(k) == Tuple(T, LAMBDA i :
        IF i > CAPACITY /\ (k - 1) * Rate + i - CAPACITY <= Len(input)
          THEN input[(k - 1) * Rate + i - CAPACITY] ELSE 0)
      Plus(s, b) == Tuple(T, LAMBDA i : (s[i] + b[i]) % Modulus)
      last == (Len(input) + Rate - 1) \div Rate
      blocks[k \in 0..last] ==
        IF k = 0 THEN Zeros
        ELSE Plus(IF k = 1 THEN Zeros ELSE Permute(blocks[k - 1]), Block(k))
      out[k \in 0..n] == IF k = 0 THEN blocks[last] ELSE Permute(out[k - 1])
  IN  Tuple(n, LAMBDA j :
        out[(j - 1) \div Rate + 1][CAPACITY + ((j - 1) % Rate) + 1])

(* The matrices by their rows: the external one has the 4 x 4 matrix of     *)
(* Poseidon2 on the diagonal twice and everywhere else once, and the        *)
(* internal one, for small states as the code's comments write it, a        *)
(* diagonal added to ones.                                                  *)
M4 == << <<5, 7, 1, 3>>, <<4, 6, 1, 1>>, <<1, 3, 5, 7>>, <<1, 1, 4, 6>> >>

ExternalEntry(t, i, j) ==
  IF t \in {2, 3}
    THEN IF i = j THEN 2 ELSE 1
    ELSE M4[((i - 1) % 4) + 1][((j - 1) % 4) + 1]
           * (IF t > 4 /\ (i - 1) \div 4 = (j - 1) \div 4 THEN 2 ELSE 1)

InternalEntry(t, i, j) ==
  CASE t = 2 -> << <<2, 1>>, <<1, 3>> >>[i][j]
    [] t = 3 -> << <<2, 1, 1>>, <<1, 2, 1>>, <<1, 1, 3>> >>[i][j]
    [] OTHER -> IF i = j THEN MAT_INTERNAL_DIAG_M_1[i] + 1 ELSE 1

MatricesAreRight ==
  \A t \in {2, 3, 4, 8, 12} : \A j \in 1..t :
    LET unit == Tuple(t, LAMBDA i : IF i = j THEN 1 ELSE 0)
    IN  /\ MatmulExternal(unit) = Tuple(t, LAMBDA i : ExternalEntry(t, i, j) % Modulus)
        /\ t <= 4 => MatmulInternal(unit)
                       = Tuple(t, LAMBDA i : InternalEntry(t, i, j) % Modulus)

PermutationIsOne ==
  LET States == [1..T -> 0 .. Modulus - 1]
  IN  Cardinality({Permute(s) : s \in States}) = Cardinality(States)

(* The elements squeezed are those of a sponge over the elements absorbed,  *)
(* wherever the blocks end, and its permutation is one, with the matrices   *)
(* of Poseidon2.                                                            *)
SpongeIsExact ==
  /\ squeezed = SpongeOutput(absorbed, Len(squeezed))
  /\ MatricesAreRight
  /\ PermutationIsOne
=============================================================================
