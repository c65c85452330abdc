------------------------------ MODULE Checkpoints ------------------------------
(***************************************************************************)
(* A `Trace` of checkpoints (contracts/src/utils/structs/checkpoints):     *)
(* `push`, and the binary searches of the three lookups with one action    *)
(* per turn of their loops.  A lookup is part of one call of a contract,   *)
(* so no push comes between its turns.                                     *)
(***************************************************************************)
EXTENDS Structs

CONSTANTS
  None,
  Midpoint(_, _),  \* Math::average, as Arithmetic!Average computes it
  SquareRoot(_)    \* Math::sqrt, as Arithmetic!Sqrt computes it

ASSUME NoneAssumption == None \notin Values

(* What the searches need of the two: a position within the bounds, short   *)
(* of the upper one, and one within a list that is not short.  There are    *)
(* never more checkpoints than keys.                                        *)
ASSUME MidpointAssumption ==
  \A l, h \in 0 .. MaxKey + 1 : l < h => Midpoint(l, h) \in l .. h-1
ASSUME SquareRootAssumption ==
  \A n \in 6 .. MaxKey + 1 : SquareRoot(n) \in 1..n

VARIABLES
  checkpoints,  \* the stored list
  search,       \* which loop runs: "none", "lower" or "upper"
  key,          \* what it looks for
  low, high,    \* its bounds, positions counted from 0
  pushed        \* history: the last value pushed for each key, or None

locals == <<search, key, low, high>>
vars   == <<checkpoints, locals, pushed>>

Init == /\ checkpoints = <<>>
        /\ search = "none" /\ key = 0 /\ low = 0 /\ high = 0
        /\ pushed = [k \in Keys |-> None]

length  == Len(checkpoints)
At(pos) == checkpoints[pos + 1]

mid == Midpoint(low, high)

-----------------------------------------------------------------------------
Push(k, v) ==
  /\ search = "none"
  /\ CanInsert(checkpoints, k)
  /\ checkpoints' = Insert(checkpoints, k, v)
  /\ pushed' = [pushed EXCEPT ![k] = v]
  /\ UNCHANGED locals

Start(loop, k, from, to) ==
  /\ search = "none"
  /\ search' = loop
  /\ key' = k
  /\ low' = from
  /\ high' = to
  /\ UNCHANGED <<checkpoints, pushed>>

LowerLookupCall(k) == Start("lower", k, 0, length)
UpperLookupCall(k) == Start("upper", k, 0, length)

(* `upper_lookup_recent` first tries a position near the end.               *)
recent == length - SquareRoot(length)

UpperLookupRecentCall(k) ==
  IF length <= 5
    THEN Start("upper", k, 0, length)
    ELSE IF k < At(recent).key
           THEN Start("upper", k, 0, recent)
           ELSE Start("upper", k, recent + 1, length)

(* One turn of `_lower_binary_lookup`                                       *)
LowerStep ==
  /\ search = "lower"
  /\ low < high
  /\ IF At(mid).key < key
       THEN low' = mid + 1 /\ high' = high
       ELSE high' = mid /\ low' = low
  /\ UNCHANGED <<checkpoints, search, key, pushed>>

(* One turn of `_upper_binary_lookup`                                       *)
UpperStepStuck ==                 \* mutant: low does not pass the middle
  /\ search = "upper"
  /\ low < high
  /\ IF At(mid).key > key
       THEN high' = mid /\ low' = low
       ELSE low' = mid /\ high' = high
  /\ UNCHANGED <<checkpoints, search, key, pushed>>

UpperStepStrict ==                \* mutant: an equal key counts as above
  /\ search = "upper"
  /\ low < high
  /\ IF At(mid).key >= key
       THEN high' = mid /\ low' = low
       ELSE low' = mid + 1 /\ high' = high
  /\ UNCHANGED <<checkpoints, search, key, pushed>>

UpperStep ==
  /\ search = "upper"
  /\ low < high
  /\ IF At(mid).key > key
       THEN high' = mid /\ low' = low
       ELSE low' = mid + 1 /\ high' = high
  /\ UNCHANGED <<checkpoints, search, key, pushed>>

(* The loop has ended at position `high`, and the call with it.             *)
Found == search # "none" /\ low >= high

Answer ==
  IF search = "lower"
    THEN IF high = length THEN ZeroValue ELSE At(high).value
    ELSE IF high = 0 THEN ZeroValue ELSE At(high - 1).value

Return ==
  /\ Found
  /\ search' = "none" /\ key' = 0 /\ low' = 0 /\ high' = 0
  /\ UNCHANGED <<checkpoints, pushed>>

Next ==
  \/ \E k \in Keys : \/ LowerLookupCall(k)
                     \/ UpperLookupCall(k)
                     \/ UpperLookupRecentCall(k)
                     \/ \E v \in Values : Push(k, v)
  \/ LowerStep
  \/ UpperStep
  \/ Return

(* A call that has begun runs on: its steps are turns of a loop in one      *)
(* thread of execution.                                                     *)
CallsRunOn == WF_vars(LowerStep \/ UpperStep \/ Return)

Spec == Init /\ [][Next]_vars /\ CallsRunOn

-----------------------------------------------------------------------------
TypeOK ==
  /\ checkpoints \in Seq(Checkpoint)
  /\ search \in {"none", "lower", "upper"}
  /\ key \in Keys
  /\ low \in 0..length
  /\ high \in 0..length
  /\ pushed \in [Keys -> Values \cup {None}]

KeysIncrease ==
  \A i, j \in DOMAIN checkpoints :
    i < j => checkpoints[i].key < checkpoints[j].key

(* What a turn of either loop knows.                                        *)
SearchNarrows ==
  /\ search = "lower" =>
       /\ \A i \in 1..low : checkpoints[i].key < key
       /\ \A i \in high+1 .. length : checkpoints[i].key >= key
  /\ search = "upper" =>
       /\ \A i \in 1..low : checkpoints[i].key <= key
       /\ \A i \in high+1 .. length : checkpoints[i].key > key

(* What the pushes so far make the answer: the value the nearest key got    *)
(* last.                                                                    *)
PushedFrom(k) == {j \in Keys : j >= k /\ pushed[j] # None}
PushedUpTo(k) == {j \in Keys : j <= k /\ pushed[j] # None}

HistoryAnswers ==
  LET keys == IF search = "lower" THEN PushedFrom(key) ELSE PushedUpTo(key)
      nearest == CHOOSE j \in keys :
                   \A i \in keys : IF search = "lower" THEN j <= i ELSE j >= i
  IN  IF keys = {} THEN ZeroValue ELSE pushed[nearest]

(* A lookup answers from the whole history of pushes: with the value that   *)
(* the nearest key at or above, or at or below, got last, also after the    *)
(* shortcut of `upper_lookup_recent`.  The keys stay in the order on which  *)
(* the searches rely, and at every turn of a loop the checkpoints before    *)
(* `low` are on one side of the key and those from `high` on on the other.  *)
LookupsAreRight ==
  /\ TypeOK
  /\ KeysIncrease
  /\ SearchNarrows
  /\ Found => Answer = HistoryAnswers

(* Every lookup returns.                                                    *)
LookupsReturn == (search # "none") ~> (search = "none")
=============================================================================
