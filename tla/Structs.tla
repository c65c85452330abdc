-------------------------------- MODULE Structs --------------------------------
(***************************************************************************)
(* The structures of contracts/src/utils/structs as values, and their      *)
(* methods on those values: the list of checkpoints of a `Trace`           *)
(* (checkpoints/mod.rs), the storage of an `EnumerableSet`                 *)
(* (enumerable_set/mod.rs), and a `BitMap` (bitmap.rs).                    *)
(***************************************************************************)
EXTENDS Integers, Sequences

CONSTANTS
  MaxKey,      \* S::Key::MAX of the trace
  Values,      \* S::Value
  ZeroValue,   \* S::Value::ZERO
  SetElements, \* T of the set
  Indices,     \* the indices used of the map
  W            \* the bits of a word of the map, 256 in the code

ASSUME MaxKeyAssumption == MaxKey \in Nat
ASSUME ValuesAssumption == ZeroValue \in Values
ASSUME WAssumption      == W \in Nat \ {0}

-----------------------------------------------------------------------------
(* Trace: a sequence of keys with values in the order of the keys.  The     *)
(* lookups are given here by what they answer; how the code finds the       *)
(* answer is the subject of module Checkpoints.                             *)
Keys       == 0..MaxKey
Checkpoint == [key : Keys, value : Values]

(* `latest_checkpoint`, of a trace that has one                             *)
Latest(t) == t[Len(t)]

(* `_insert` and `_unchecked_push`: keys never decrease, and a second value *)
(* for the last key replaces the first.                                     *)
CanInsert(t, k) == t # <<>> => Latest(t).key <= k

Insert(t, k, v) ==
  IF t # <<>> /\ Latest(t).key = k
    THEN [t EXCEPT ![Len(t)].value = v]
    ELSE Append(t, [key |-> k, value |-> v])

(* `lower_lookup`: the value of the oldest checkpoint at or above k         *)
IsOldestFrom(t, k, i) ==
  /\ t[i].key >= k
  /\ \A j \in 1 .. i-1 : t[j].key < k

LowerLookup(t, k) ==
  IF \E i \in DOMAIN t : IsOldestFrom(t, k, i)
    THEN t[CHOOSE i \in DOMAIN t : IsOldestFrom(t, k, i)].value
    ELSE ZeroValue

(* `upper_lookup` and `upper_lookup_recent`: the value of the most recent   *)
(* checkpoint at or below k                                                 *)
IsLatestUpTo(t, k, i) ==
  /\ t[i].key <= k
  /\ \A j \in i+1 .. Len(t) : t[j].key > k

UpperLookup(t, k) ==
  IF \E i \in DOMAIN t : IsLatestUpTo(t, k, i)
    THEN t[CHOOSE i \in DOMAIN t : IsLatestUpTo(t, k, i)].value
    ELSE ZeroValue

-----------------------------------------------------------------------------
(* EnumerableSet                                                            *)

(* A position counts from 1; 0 is that of an element not in the set.        *)
Stores == [ values : Seq(SetElements), positions : [SetElements -> Nat] ]

EmptyStore == [ values |-> <<>>, positions |-> [v \in SetElements |-> 0] ]

Contains(s, v) == s.positions[v] # 0

Add(s, v) ==
  IF Contains(s, v)
    THEN s
    ELSE [ values    |-> Append(s.values, v),
           positions |-> [s.positions EXCEPT ![v] = Len(s.values) + 1] ]

(* The last element takes the place of the one that is removed.             *)
RemoveKeepingIndex(s, v) ==  \* mutant: the moved element keeps its old position
  LET last == Len(s.values)
      spot == s.positions[v]
  IN  IF spot = 0
        THEN s
        ELSE [ values    |-> SubSeq([s.values EXCEPT ![spot] = s.values[last]],
                                    1, last - 1),
               positions |-> [s.positions EXCEPT ![v] = 0] ]

Remove(s, v) ==
  LET last == Len(s.values)
      spot == s.positions[v]
  IN  IF spot = 0
        THEN s
        ELSE [ values    |-> SubSeq([s.values EXCEPT ![spot] = s.values[last]],
                                    1, last - 1),
               positions |-> [s.positions EXCEPT ![s.values[last]] = spot,
                                                 ![v] = 0] ]

(* `clear`: the positions of what is listed, then the list                  *)
Clear(s) ==
  [ values    |-> <<>>,
    positions |-> [v \in SetElements |->
                     IF \E i \in DOMAIN s.values : s.values[i] = v
                       THEN 0 ELSE s.positions[v]] ]

(* `values_slice(start, end)`, both clamped; `values()` is the whole of it. *)
Lesser(x, y) == IF x < y THEN x ELSE y

ValuesSlice(s, start, end) ==
  LET to   == Lesser(end, Len(s.values))
      from == Lesser(start, to)
  IN  SubSeq(s.values, from + 1, to)

(* What every operation relies on: positions and values are inverse.        *)
IsCoherent(s) ==
  /\ \A i \in DOMAIN s.values : s.positions[s.values[i]] = i
  /\ \A v \in SetElements : Contains(s, v) =>
       s.positions[v] \in DOMAIN s.values /\ s.values[s.positions[v]] = v

(* Slices that meet make up the enumeration, without a gap or a repetition, *)
(* wherever it is cut and however far past its end the last slice reaches.  *)
SlicesMeet(s) ==
  \A cut, end \in 0 .. Len(s.values) + 1 :
    cut <= end =>
      ValuesSlice(s, 0, cut) \o ValuesSlice(s, cut, end)
        = SubSeq(s.values, 1, Lesser(end, Len(s.values)))

-----------------------------------------------------------------------------
(* BitMap.  A word is the set of the positions of its bits that are 1, so   *)
(* that the bit-wise "and", "or" and "not" are those of sets.               *)

Bucket(index) == index \div W
Mask(index)   == {index % W}

Buckets == {Bucket(i) : i \in Indices}
BitMaps == [Buckets -> SUBSET (0 .. W-1)]

EmptyBitMap == [b \in Buckets |-> {}]

GetBit(data, index) == data[Bucket(index)] \cap Mask(index) # {}

SetBitByToggling(data, index) ==  \* mutant: the word is xor-ed with the mask
  [data EXCEPT ![Bucket(index)] = (@ \ Mask(index)) \cup (Mask(index) \ @)]

SetBit(data, index)   == [data EXCEPT ![Bucket(index)] = @ \cup Mask(index)]
UnsetBit(data, index) == [data EXCEPT ![Bucket(index)] = @ \ Mask(index)]

SetBitTo(data, index, value) ==
  IF value THEN SetBit(data, index) ELSE UnsetBit(data, index)
=============================================================================
