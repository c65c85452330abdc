--------------------------- MODULE CheckpointsProofs ---------------------------
(***************************************************************************)
(* The lookups of a trace of any length, over any keys and values, and for *)
(* any midpoint and any square root that stay within their bounds.         *)
(***************************************************************************)
EXTENDS Checkpoints, SequenceTheorems, TLAPS

(* The keys are those that were pushed, each with the value it got last,    *)
(* and from the first on no two are the same: so there are no more          *)
(* checkpoints than keys.                                                   *)
IsPushed(t, p) ==
  /\ \A i \in DOMAIN t : p[t[i].key] = t[i].value
  /\ \A k \in Keys : p[k] # None => \E i \in DOMAIN t : t[i].key = k

Increasing(t) == \A i, j \in DOMAIN t : i < j => t[i].key < t[j].key

Spaced(t) == \A i \in DOMAIN t : t[i].key >= i - 1

(* What holds of the list and of the history of pushes                      *)
TraceInv(t, p) ==
  /\ t \in Seq(Checkpoint)
  /\ p \in [Keys -> Values \cup {None}]
  /\ Increasing(t) /\ Spaced(t) /\ IsPushed(t, p)

(* and of the bounds of a search.                                           *)
Bounded ==
  /\ search \in {"none", "lower", "upper"}
  /\ key \in Keys
  /\ low \in 0..length /\ high \in 0..length
  /\ low <= high
  /\ search = "none" => key = 0 /\ low = 0 /\ high = 0

SearchInv == TraceInv(checkpoints, pushed) /\ Bounded /\ SearchNarrows

(* What a trace is made of.                                                 *)
LEMMA TraceTypes ==
  ASSUME NEW t \in Seq(Checkpoint)
  PROVE  /\ Len(t) \in Nat /\ DOMAIN t = 1..Len(t)
         /\ \A i \in 1..Len(t) : t[i] \in Checkpoint /\ t[i].key \in Keys /\ t[i].key \in Int
                                 /\ t[i].value \in Values
<1>1. Len(t) \in Nat /\ DOMAIN t = 1..Len(t) /\ \A i \in 1..Len(t) : t[i] \in Checkpoint
  OBVIOUS
<1>2. \A e \in Checkpoint : e.key \in Keys /\ e.key \in Int /\ e.value \in Values
  BY MaxKeyAssumption DEF Checkpoint, Keys
<1> QED
  BY <1>1, <1>2

-----------------------------------------------------------------------------
(* A list is no longer than there are keys.                                 *)
LEMMA TraceIsShort ==
  ASSUME NEW t \in Seq(Checkpoint), Spaced(t)
  PROVE  Len(t) \in 0 .. MaxKey + 1
<1>1. /\ Len(t) \in Nat /\ DOMAIN t = 1..Len(t)
      /\ \A i \in 1..Len(t) : t[i].key \in Keys
  BY TraceTypes
<1>2. Len(t) > 0 => t[Len(t)].key >= Len(t) - 1
  BY <1>1 DEF Spaced
<1>3. Len(t) > 0 => t[Len(t)].key \in Keys
  BY <1>1
<1> QED
  BY <1>1, <1>2, <1>3, MaxKeyAssumption DEF Keys

(* `push` appends above the last key or rewrites its value.                 *)
LEMMA PushKeeps ==
  ASSUME NEW t, NEW p, TraceInv(t, p), NEW k \in Keys, NEW v \in Values, CanInsert(t, k),
         NEW u, u = Insert(t, k, v), NEW q, q = [p EXCEPT ![k] = v]
  PROVE  TraceInv(u, q)
<1> DEFINE n == Len(t)
           e == [key |-> k, value |-> v]
<1>1. /\ t \in Seq(Checkpoint) /\ p \in [Keys -> Values \cup {None}]
      /\ n \in Nat /\ DOMAIN t = 1..n
      /\ \A i \in 1..n : t[i] \in Checkpoint /\ t[i].key \in Keys /\ t[i].key \in Int
                         /\ t[i].value \in Values
  BY TraceTypes DEF TraceInv
<1>2. q \in [Keys -> Values \cup {None}] /\ q[k] = v /\ \A j \in Keys : j # k => q[j] = p[j]
  BY <1>1
<1>3. e \in Checkpoint /\ e.key = k /\ e.value = v
  BY DEF Checkpoint
<1>4. /\ \A i, j \in 1..n : i < j => t[i].key < t[j].key
      /\ \A i \in 1..n : t[i].key >= i - 1 /\ p[t[i].key] = t[i].value
      /\ \A j \in Keys : p[j] # None => \E i \in 1..n : t[i].key = j
  BY <1>1 DEF TraceInv, Increasing, Spaced, IsPushed
<1>5. (t # <<>> <=> n > 0) /\ (n > 0 => t[n].key <= k) /\ k \in Int
  <2>1. t # <<>> <=> n > 0
    BY <1>1
  <2>2. t # <<>> => t[n].key <= k
    BY DEF CanInsert, Latest
  <2> QED
    BY <2>1, <2>2, MaxKeyAssumption DEF Keys
<1> HIDE DEF e
<1>6. CASE n > 0 /\ t[n].key = k
  <2>1. u = [t EXCEPT ![n] = e]
    <3>1. u = [t EXCEPT ![n].value = v]
      BY <1>5, <1>6 DEF Insert, Latest
    <3>2. [t[n] EXCEPT !.value = v] = e
      BY <1>1, <1>6 DEF Checkpoint, e
    <3> QED
      BY <3>1, <3>2
  <2>2. /\ u \in Seq(Checkpoint) /\ Len(u) = n /\ DOMAIN u = 1..n
        /\ \A i \in 1..n : u[i] = IF i = n THEN e ELSE t[i]
    <3>1. n \in 1..Len(t)
      BY <1>1, <1>6
    <3> HIDE DEF n
    <3> QED
      BY <1>1, <1>3, <2>1, <3>1, ExceptSeq DEF n
  <2>3. \A i \in 1..n : u[i].key = t[i].key /\ u[i].value = IF i = n THEN v ELSE t[i].value
    BY <1>3, <1>6, <2>2
  <2>4. \A i \in 1..n : i # n => t[i].key # k
    BY <1>1, <1>4, <1>6
  <2>5. Increasing(u) /\ Spaced(u)
    <3>1. \A i, j \in 1..n : i < j => u[i].key < u[j].key
      BY <1>4, <2>3
    <3>2. \A i \in 1..n : u[i].key >= i - 1
      BY <1>4, <2>3
    <3> QED
      BY <2>2, <3>1, <3>2 DEF Increasing, Spaced
  <2>6. ASSUME NEW i \in 1..n
        PROVE  q[u[i].key] = u[i].value
    <3>1. CASE i = n
      BY <1>2, <1>6, <2>3, <3>1
    <3>2. CASE i # n
      <4>1. u[i].key = t[i].key /\ u[i].value = t[i].value
        BY <2>3, <3>2
      <4>2. t[i].key \in Keys /\ t[i].key # k /\ p[t[i].key] = t[i].value
        BY <1>1, <1>4, <2>4, <3>2
      <4>3. q[t[i].key] = p[t[i].key]
        BY <1>2, <4>2
      <4> QED
        BY <4>1, <4>2, <4>3
    <3> QED
      BY <3>1, <3>2
  <2>7. \A j \in Keys : q[j] # None => \E i \in 1..n : u[i].key = j
    <3>1. ASSUME NEW j \in Keys, q[j] # None
          PROVE  \E i \in 1..n : t[i].key = j
      <4>1. CASE j = k
        BY <1>1, <1>6, <4>1
      <4>2. CASE j # k
        BY <1>2, <1>4, <3>1, <4>2
      <4> QED
        BY <4>1, <4>2
    <3> QED
      BY <2>3, <3>1
  <2> QED
    BY <1>2, <2>2, <2>5, <2>6, <2>7 DEF TraceInv, IsPushed
<1>7. CASE n = 0 \/ t[n].key # k
  <2>1. u = Append(t, e)
    BY <1>5, <1>7 DEF Insert, Latest, e
  <2>2. /\ u \in Seq(Checkpoint) /\ Len(u) = n + 1 /\ DOMAIN u = 1..n + 1
        /\ u[n + 1] = e /\ \A i \in 1..n : u[i] = t[i]
    BY <1>1, <1>3, <2>1, AppendProperties
  <2>3. n > 0 => t[n].key < k
    BY <1>1, <1>5, <1>7 DEF Latest
  <2>4. ASSUME NEW i \in 1..n
        PROVE  t[i].key < k
    <3>1. CASE i = n
      BY <1>1, <2>3, <3>1
    <3>2. CASE i < n
      <4>1. n \in 1..n /\ i \in 1..n /\ n > 0
        BY <1>1, <3>2
      <4>2. t[i].key < t[n].key
        BY <1>4, <3>2, <4>1
      <4>3. t[n].key < k
        BY <2>3, <4>1
      <4>4. t[i].key \in Int /\ t[n].key \in Int /\ k \in Int
        BY <1>1, <4>1, MaxKeyAssumption DEF Keys
      <4> QED
        BY <4>2, <4>3, <4>4
    <3>3. n \in Nat
      BY <1>1
    <3>4. i = n \/ i < n
      BY <3>3
    <3> QED
      BY <3>1, <3>2, <3>4
  <2>5. \A i \in 1..n + 1 : i \in 1..n \/ i = n + 1
    BY <1>1
  <2>6. Increasing(u)
    BY <1>1, <1>3, <1>4, <2>2, <2>4, <2>5 DEF Increasing
  <2>7. Spaced(u)
    <3>1. k >= n
      BY <1>1, <1>4, <2>3, MaxKeyAssumption DEF Keys
    <3> QED
      BY <1>1, <1>3, <1>4, <2>2, <2>5, <3>1 DEF Spaced
  <2>8. \A i \in 1..n + 1 : q[u[i].key] = u[i].value
    <3>1. \A i \in 1..n : t[i].key # k
      BY <1>1, <2>4
    <3> QED
      BY <1>1, <1>2, <1>3, <1>4, <2>2, <2>5, <3>1
  <2>9. \A j \in Keys : q[j] # None => \E i \in 1..n + 1 : u[i].key = j
    <3>1. ASSUME NEW j \in Keys, q[j] # None
          PROVE  \E i \in 1..n + 1 : u[i].key = j
      <4>1. CASE j = k
        BY <1>1, <1>3, <2>2, <4>1
      <4>2. CASE j # k
        <5>1. PICK i \in 1..n : t[i].key = j
          BY <1>2, <1>4, <3>1, <4>2
        <5> QED
          BY <1>1, <2>2, <5>1
      <4> QED
        BY <4>1, <4>2
    <3> QED
      BY <3>1
  <2> QED
    BY <1>2, <2>2, <2>6, <2>7, <2>8, <2>9 DEF TraceInv, IsPushed
<1> QED
  BY <1>1, <1>6, <1>7

-----------------------------------------------------------------------------
(* A turn of a loop: `mid` is one of the positions the bounds leave.        *)
LEMMA MidIsWithin ==
  ASSUME SearchInv, low < high
  PROVE  mid \in Int /\ low <= mid /\ mid < high
<1>1. length \in 0 .. MaxKey + 1
  BY TraceIsShort DEF SearchInv, TraceInv, length
<1>2. low \in 0 .. MaxKey + 1 /\ high \in 0 .. MaxKey + 1
  BY <1>1, MaxKeyAssumption DEF SearchInv, Bounded
<1>3. mid \in low .. high-1
  BY <1>2, MidpointAssumption DEF mid
<1> QED
  BY <1>2, <1>3

(* Before the middle keys are smaller, and after it they are larger.        *)
LEMMA SidesOf ==
  ASSUME SearchInv, NEW m \in Int, 0 <= m, m < length
  PROVE  /\ At(m).key \in Int
         /\ \A i \in 1 .. m+1 : checkpoints[i].key \in Int /\ checkpoints[i].key <= At(m).key
         /\ \A i \in m+1 .. length : checkpoints[i].key \in Int /\ checkpoints[i].key >= At(m).key
<1>1. /\ length \in Nat /\ DOMAIN checkpoints = 1..length
      /\ \A i \in 1..length : checkpoints[i].key \in Int
  BY TraceTypes DEF SearchInv, TraceInv, length
<1>2. \A i, j \in 1..length : i < j => checkpoints[i].key < checkpoints[j].key
  BY <1>1 DEF SearchInv, TraceInv, Increasing
<1>3. m + 1 \in 1..length
  BY <1>1
<1>4. ASSUME NEW i \in 1..length
      PROVE  /\ i <= m + 1 => checkpoints[i].key <= checkpoints[m + 1].key
             /\ i >= m + 1 => checkpoints[i].key >= checkpoints[m + 1].key
  BY <1>1, <1>2, <1>3
<1> QED
  BY <1>1, <1>3, <1>4 DEF At

(* So the half of the list that a turn of a loop leaves out is on its side  *)
(* of the key.                                                              *)
LEMMA TurnKeeps ==
  ASSUME SearchInv, LowerStep \/ UpperStep
  PROVE  SearchInv'
<1>1. /\ checkpoints' = checkpoints /\ search' = search /\ key' = key /\ pushed' = pushed
      /\ low < high /\ TraceInv(checkpoints', pushed') /\ length' = length
  BY DEF LowerStep, UpperStep, SearchInv, length
<1>2. /\ length \in Nat /\ key \in Int /\ low \in Int /\ high \in Int
      /\ 0 <= low /\ high <= length
  BY MaxKeyAssumption DEF SearchInv, Bounded, TraceInv, length, Keys
<1>3. mid \in Int /\ low <= mid /\ mid < high
  BY <1>1, MidIsWithin
<1>4. /\ At(mid).key \in Int
      /\ \A i \in 1 .. mid+1 : checkpoints[i].key \in Int /\ checkpoints[i].key <= At(mid).key
      /\ \A i \in mid+1 .. length :
           checkpoints[i].key \in Int /\ checkpoints[i].key >= At(mid).key
  BY <1>2, <1>3, SidesOf
<1>5. \/ low' = mid + 1 /\ high' = high
      \/ low' = low /\ high' = mid
  BY DEF LowerStep, UpperStep
<1>6. Bounded'
  BY <1>1, <1>2, <1>3, <1>5 DEF SearchInv, Bounded
<1>7. CASE LowerStep
  <2>1. /\ search = "lower"
        /\ \A i \in 1..low : checkpoints[i].key < key
        /\ \A i \in high+1 .. length : checkpoints[i].key >= key
    BY <1>7 DEF LowerStep, SearchInv, SearchNarrows
  <2>2. CASE At(mid).key < key
    <3>1. low' = mid + 1 /\ high' = high
      BY <1>7, <2>2 DEF LowerStep
    <3>2. \A i \in 1 .. mid+1 : checkpoints[i].key < key
      BY <1>2, <1>4, <2>2
    <3> QED
      BY <1>1, <1>6, <2>1, <3>1, <3>2 DEF SearchInv, SearchNarrows
  <2>3. CASE ~(At(mid).key < key)
    <3>1. high' = mid /\ low' = low
      BY <1>7, <2>3 DEF LowerStep
    <3>2. \A i \in mid+1 .. length : checkpoints[i].key >= key
      BY <1>2, <1>4, <2>3
    <3> QED
      BY <1>1, <1>6, <2>1, <3>1, <3>2 DEF SearchInv, SearchNarrows
  <2> QED
    BY <2>2, <2>3
<1>8. CASE UpperStep
  <2>1. /\ search = "upper"
        /\ \A i \in 1..low : checkpoints[i].key <= key
        /\ \A i \in high+1 .. length : checkpoints[i].key > key
    BY <1>8 DEF UpperStep, SearchInv, SearchNarrows
  <2>2. CASE At(mid).key > key
    <3>1. high' = mid /\ low' = low
      BY <1>8, <2>2 DEF UpperStep
    <3>2. \A i \in mid+1 .. length : checkpoints[i].key > key
      BY <1>2, <1>4, <2>2
    <3> QED
      BY <1>1, <1>6, <2>1, <3>1, <3>2 DEF SearchInv, SearchNarrows
  <2>3. CASE ~(At(mid).key > key)
    <3>1. low' = mid + 1 /\ high' = high
      BY <1>8, <2>3 DEF UpperStep
    <3>2. \A i \in 1 .. mid+1 : checkpoints[i].key <= key
      BY <1>2, <1>4, <2>3
    <3> QED
      BY <1>1, <1>6, <2>1, <3>1, <3>2 DEF SearchInv, SearchNarrows
  <2> QED
    BY <2>2, <2>3
<1> QED
  BY <1>7, <1>8

(* `upper_lookup_recent` leaves out the half that its first try tells it    *)
(* to, and the other calls nothing.                                         *)
LEMMA CallKeeps ==
  ASSUME SearchInv, NEW k \in Keys,
         LowerLookupCall(k) \/ UpperLookupCall(k) \/ UpperLookupRecentCall(k)
  PROVE  SearchInv'
<1>1. length \in 0 .. MaxKey + 1 /\ length \in Nat /\ k \in Int
  BY TraceIsShort, MaxKeyAssumption DEF SearchInv, TraceInv, length, Keys
<1>2. ASSUME NEW loop \in {"lower", "upper"}, NEW from \in Nat, NEW to \in Nat,
             Start(loop, k, from, to), from <= to, to <= length,
             loop = "lower" => from = 0 /\ to = length,
             \A i \in 1..from : checkpoints[i].key <= k,
             \A i \in to+1 .. length : checkpoints[i].key > k
      PROVE  SearchInv'
  <2>1. /\ checkpoints' = checkpoints /\ pushed' = pushed /\ length' = length
        /\ search' = loop /\ key' = k /\ low' = from /\ high' = to
    BY <1>2 DEF Start, length
  <2>2. Bounded'
    BY <1>1, <1>2, <2>1 DEF Bounded
  <2>3. SearchNarrows'
    BY <1>1, <1>2, <2>1 DEF SearchNarrows
  <2> QED
    BY <2>1, <2>2, <2>3 DEF SearchInv
<1>3. ASSUME NEW loop \in {"lower", "upper"}, Start(loop, k, 0, length)
      PROVE  SearchInv'
  BY <1>1, <1>2, <1>3
<1>4. CASE UpperLookupRecentCall(k) /\ length > 5
  <2>1. recent \in Int /\ 0 <= recent /\ recent < length
    BY <1>1, <1>4, SquareRootAssumption DEF recent
  <2>2. /\ At(recent).key \in Int
        /\ \A i \in 1 .. recent+1 :
             checkpoints[i].key \in Int /\ checkpoints[i].key <= At(recent).key
        /\ \A i \in recent+1 .. length :
             checkpoints[i].key \in Int /\ checkpoints[i].key >= At(recent).key
    BY <2>1, SidesOf
  <2>3. CASE k < At(recent).key
    <3>1. Start("upper", k, 0, recent)
      BY <1>1, <1>4, <2>3 DEF UpperLookupRecentCall
    <3>2. \A i \in recent+1 .. length : checkpoints[i].key > k
      BY <1>1, <2>2, <2>3
    <3> QED
      BY <1>1, <1>2, <2>1, <3>1, <3>2
  <2>4. CASE ~(k < At(recent).key)
    <3>1. Start("upper", k, recent + 1, length)
      BY <1>1, <1>4, <2>4 DEF UpperLookupRecentCall
    <3>2. \A i \in 1 .. recent+1 : checkpoints[i].key <= k
      BY <1>1, <2>2, <2>4
    <3> QED
      BY <1>1, <1>2, <2>1, <3>1, <3>2
  <2> QED
    BY <2>3, <2>4
<1> QED
  BY <1>1, <1>3, <1>4 DEF LowerLookupCall, UpperLookupCall, UpperLookupRecentCall

(* No search runs during a push, nor after its return.                      *)
LEMMA IdleKeeps ==
  ASSUME TraceInv(checkpoints, pushed)', search' = "none", key' = 0, low' = 0, high' = 0
  PROVE  SearchInv'
<1>1. length' \in Nat /\ 0 \in Keys
  BY MaxKeyAssumption DEF TraceInv, length, Keys
<1> QED
  BY <1>1 DEF SearchInv, Bounded, SearchNarrows

(* So every step keeps what is known of the list and of the search.         *)
LEMMA SearchStep ==
  ASSUME SearchInv, [Next]_vars
  PROVE  SearchInv'
<1>1. CASE \E k \in Keys, v \in Values : Push(k, v)
  <2>1. PICK k \in Keys, v \in Values : Push(k, v)
    BY <1>1
  <2>2. TraceInv(checkpoints', pushed')
    BY <2>1, PushKeeps DEF Push, SearchInv
  <2>3. search' = "none" /\ key' = 0 /\ low' = 0 /\ high' = 0
    BY <2>1 DEF Push, locals, SearchInv, Bounded
  <2> QED
    BY <2>2, <2>3, IdleKeeps
<1>2. CASE \E k \in Keys : LowerLookupCall(k) \/ UpperLookupCall(k) \/ UpperLookupRecentCall(k)
  BY <1>2, CallKeeps
<1>3. CASE LowerStep \/ UpperStep
  BY <1>3, TurnKeeps
<1>4. CASE Return
  BY <1>4, IdleKeeps DEF Return, SearchInv
<1>5. CASE UNCHANGED vars
  BY <1>5 DEF vars, locals, SearchInv, Bounded, SearchNarrows, length
<1> QED
  BY <1>1, <1>2, <1>3, <1>4, <1>5 DEF Next

(* The list of a new contract is empty.                                     *)
LEMMA SearchStarts ==
  ASSUME Init
  PROVE  SearchInv
<1>1. checkpoints \in Seq(Checkpoint) /\ length = 0 /\ DOMAIN checkpoints = {} /\ 0 \in Keys
  BY MaxKeyAssumption DEF Init, length, Keys
<1>2. TraceInv(checkpoints, pushed)
  BY <1>1 DEF Init, TraceInv, Increasing, Spaced, IsPushed
<1> QED
  BY <1>1, <1>2 DEF Init, SearchInv, Bounded, SearchNarrows

-----------------------------------------------------------------------------
(* When the bounds meet, the checkpoint there is the nearest: every key     *)
(* that was pushed is a checkpoint's.                                       *)
LEMMA AnswerIsRight ==
  ASSUME SearchInv, Found
  PROVE  Answer = HistoryAnswers
<1> DEFINE t == checkpoints
           n == length
<1>1. /\ n \in Nat /\ DOMAIN t = 1..n /\ key \in Keys /\ key \in Int
      /\ \A i \in 1..n : t[i].key \in Keys /\ t[i].key \in Int /\ t[i].value \in Values
  BY TraceTypes, MaxKeyAssumption DEF SearchInv, TraceInv, Bounded, length, Keys
<1>2. high \in 0..n /\ low = high /\ search \in {"lower", "upper"}
  BY <1>1 DEF Found, SearchInv, Bounded
<1>3. /\ \A i \in 1..n : pushed[t[i].key] = t[i].value /\ pushed[t[i].key] # None
      /\ \A k \in Keys : pushed[k] # None => \E i \in 1..n : t[i].key = k
  BY <1>1, NoneAssumption DEF SearchInv, TraceInv, IsPushed
<1>4. \A i, j \in 1..n : i < j => t[i].key < t[j].key
  BY <1>1 DEF SearchInv, TraceInv, Increasing
<1> HIDE DEF t, n
<1>5. CASE search = "lower"
  <2>1. /\ \A i \in 1..high : t[i].key < key
        /\ \A i \in high+1 .. n : t[i].key >= key
    BY <1>2, <1>5 DEF SearchInv, SearchNarrows, t, n
  <2>2. CASE high = n
    <3>1. ASSUME NEW k \in Keys, k >= key, pushed[k] # None
          PROVE  FALSE
      <4>1. PICK i \in 1..n : t[i].key = k
        BY <1>3, <3>1
      <4> QED
        BY <1>1, <2>1, <2>2, <3>1, <4>1
    <3>2. PushedFrom(key) = {}
      BY <3>1 DEF PushedFrom
    <3> QED
      BY <1>5, <2>2, <3>2 DEF Answer, HistoryAnswers, n
  <2>3. CASE high < n
    <3> DEFINE k == t[high + 1].key
    <3>1. high + 1 \in 1..n /\ high + 1 \in high+1 .. n
      BY <1>1, <1>2, <2>3
    <3>2. k \in Keys /\ k \in Int /\ k >= key /\ pushed[k] = t[high + 1].value /\ pushed[k] # None
      BY <1>1, <1>3, <2>1, <3>1
    <3>3. ASSUME NEW j \in Keys, j >= key, pushed[j] # None
          PROVE  j >= k
      <4>1. PICK i \in 1..n : t[i].key = j
        BY <1>3, <3>3
      <4>2. i >= high + 1
        BY <1>1, <1>2, <2>1, <3>3, <4>1
      <4> QED
        BY <1>1, <1>4, <3>1, <4>1, <4>2
    <3> DEFINE keys == PushedFrom(key)
               nearest == CHOOSE j \in keys : \A i \in keys :
                            IF search = "lower" THEN j <= i ELSE j >= i
    <3>4. k \in keys /\ \A i \in keys : i \in Int /\ k <= i
      <4>1. \A i \in Keys : i \in Int
        BY MaxKeyAssumption DEF Keys
      <4> HIDE DEF k
      <4> QED
        BY <3>2, <3>3, <4>1 DEF PushedFrom
    <3>5. HistoryAnswers = pushed[nearest]
      BY <1>5, <3>4 DEF HistoryAnswers
    <3>6. Answer = pushed[k]
      BY <1>5, <2>3, <1>1, <1>2, <3>2 DEF Answer, At, n, t
    <3> HIDE DEF k, keys
    <3>7. nearest \in keys /\ nearest <= k
      <4>1. \E j \in keys : \A i \in keys : IF search = "lower" THEN j <= i ELSE j >= i
        BY <1>5, <3>4
      <4>2. /\ nearest \in keys
            /\ \A i \in keys : IF search = "lower" THEN nearest <= i ELSE nearest >= i
        BY <4>1
      <4> QED
        BY <1>5, <3>4, <4>2
    <3>8. nearest = k
      BY <3>4, <3>7
    <3> QED
      BY <3>5, <3>6, <3>8
  <2> QED
    BY <1>1, <1>2, <2>2, <2>3
<1>6. CASE search = "upper"
  <2>1. /\ \A i \in 1..high : t[i].key <= key
        /\ \A i \in high+1 .. n : t[i].key > key
    BY <1>2, <1>6 DEF SearchInv, SearchNarrows, t, n
  <2>2. CASE high = 0
    <3>1. ASSUME NEW k \in Keys, k <= key, pushed[k] # None
          PROVE  FALSE
      <4>1. PICK i \in 1..n : t[i].key = k
        BY <1>3, <3>1
      <4> QED
        BY <1>1, <2>1, <2>2, <3>1, <4>1
    <3>2. PushedUpTo(key) = {}
      BY <3>1 DEF PushedUpTo
    <3> QED
      BY <1>6, <2>2, <3>2 DEF Answer, HistoryAnswers
  <2>3. CASE high > 0
    <3> DEFINE k == t[high].key
    <3>1. high \in 1..n /\ high \in 1..high
      BY <1>1, <1>2, <2>3
    <3>2. k \in Keys /\ k \in Int /\ k <= key /\ pushed[k] = t[high].value /\ pushed[k] # None
      BY <1>1, <1>3, <2>1, <3>1
    <3>3. ASSUME NEW j \in Keys, j <= key, pushed[j] # None
          PROVE  j <= k
      <4>1. PICK i \in 1..n : t[i].key = j
        BY <1>3, <3>3
      <4>2. i <= high
        BY <1>1, <1>2, <2>1, <3>3, <4>1
      <4> QED
        BY <1>1, <1>4, <3>1, <4>1, <4>2
    <3> DEFINE keys == PushedUpTo(key)
               nearest == CHOOSE j \in keys : \A i \in keys :
                            IF search = "lower" THEN j <= i ELSE j >= i
    <3>4. k \in keys /\ \A i \in keys : i \in Int /\ k >= i
      <4>1. \A i \in Keys : i \in Int
        BY MaxKeyAssumption DEF Keys
      <4> HIDE DEF k
      <4> QED
        BY <3>2, <3>3, <4>1 DEF PushedUpTo
    <3>5. HistoryAnswers = pushed[nearest]
      BY <1>6, <3>4 DEF HistoryAnswers
    <3>6. Answer = pushed[k]
      <4>1. high # 0 /\ (high - 1) + 1 = high
        BY <1>1, <1>2, <2>3
      <4> QED
        BY <1>6, <3>2, <4>1 DEF Answer, At, t
    <3> HIDE DEF k, keys
    <3>7. nearest \in keys /\ nearest >= k
      <4>1. \E j \in keys : \A i \in keys : IF search = "lower" THEN j <= i ELSE j >= i
        BY <1>6, <3>4
      <4>2. /\ nearest \in keys
            /\ \A i \in keys : IF search = "lower" THEN nearest <= i ELSE nearest >= i
        BY <4>1
      <4> QED
        BY <1>6, <3>4, <4>2
    <3>8. nearest = k
      BY <3>4, <3>7
    <3> QED
      BY <3>5, <3>6, <3>8
  <2> QED
    BY <1>1, <1>2, <2>2, <2>3
<1> QED
  BY <1>2, <1>5, <1>6

(* At every turn of every search, and in between, the list is in order, the *)
(* bounds enclose the answer, and what is answered is what the pushes so    *)
(* far make the answer: whatever midpoint is tried, and wherever            *)
(* `upper_lookup_recent` tries first.                                       *)
THEOREM Lookups == Spec => []LookupsAreRight
<1>1. SearchInv => LookupsAreRight
  <2>1. SearchInv => TypeOK /\ KeysIncrease
    BY DEF SearchInv, TraceInv, Bounded, Increasing, TypeOK, KeysIncrease
  <2> QED
    BY <2>1, AnswerIsRight DEF SearchInv, LookupsAreRight
<1> QED
  BY <1>1, SearchStarts, SearchStep, PTL DEF Spec
=============================================================================
