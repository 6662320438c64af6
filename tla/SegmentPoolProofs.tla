------------------------- MODULE SegmentPoolProofs -------------------------
(***************************************************************************)
(* Proofs about SegmentPool for any number of workers, segments and blocks *)
(* of any sizes, and any range, cache and limit.                           *)
(*                                                                         *)
(* What a command reports follows from who holds which slot: PoolInv says  *)
(* that every slot handed out has one worker or a result, that a worker's  *)
(* cancellation has a cause, and that the cache is within its limit after  *)
(* a write and, if it was from the start, always is what enforcing the     *)
(* limit once, over everything written so far, would have left.            *)
(***************************************************************************)
EXTENDS SegmentPool, FiniteSetTheorems, TLAPS

InputInv ==
    /\ command \in {"verify", "hydrate"}
    /\ from \in Nat /\ to \in Nat /\ limit \in Nat
    /\ 1 <= from /\ from <= to /\ to <= Segments * SegmentSize
    /\ before \subseteq Nat /\ IsFiniteSet(before)
    /\ intact \subseteq Slot

PoolTypes ==
    /\ closed \in BOOLEAN /\ cancelled \in BOOLEAN /\ ctxDone \in BOOLEAN
    /\ next \in Nat /\ slot \in Nat /\ height \in Nat
    /\ job \in [Worker -> Nat]
    /\ work \in [Worker -> {"idle", "got", "read", "failed"}]
    /\ result \in [Slot -> {"none", "ok", "bad", "cancelled"}]
    /\ main \in {"idle", "submit", "consume", "write", "wait", "done"}
    /\ outcome \in {"none", "ok", "bad", "cancelled"}

(* What a worker holds, and that no other one holds it.                    *)
WorkerInv ==
    /\ \A w \in Worker :
          /\ work[w] = "idle" => job[w] \in {0, Ended}
          /\ work[w] # "idle" => job[w] \in Relevant /\ job[w] < next
          /\ work[w] \in {"got", "read"} => result[job[w]] = "none"
          /\ work[w] = "failed" => result[job[w]] \in {"bad", "cancelled"}
          /\ job[w] = Ended => closed
    /\ \A v, w \in Worker :
          work[v] # "idle" /\ work[w] # "idle" /\ job[v] = job[w] => v = w

(* A slot that was handed out has a worker or a result.                    *)
SlotInv ==
    /\ \A s \in Slot : result[s] = "ok" => s \in intact
    /\ \A s \in Relevant : s < next /\ result[s] = "none" =>
          \E w \in Worker : work[w] # "idle" /\ job[w] = s
    /\ \A s \in Relevant : next <= s => result[s] = "none"
    /\ closed => next \notin Relevant \/ WorkerCtxDone

(* Verify's workers are cancelled because the caller's context ended or    *)
(* because of a segment that is bad.                                       *)
CancelInv ==
    command = "verify" /\ (cancelled \/ \E s \in Slot : result[s] = "cancelled")
        => ctxDone \/ \E s \in Slot : result[s] = "bad"

(* The heights asked for up to r.                                          *)
Asked(r) == {h \in from .. to : h <= r}

(* What enforcing the limit once, after all of them, would leave.          *)
Filled(r) == IF Asked(r) = {} THEN before ELSE enforceCacheLimit(before \cup Asked(r))

Fitted == limit = 0 \/ TotalBytes(before) <= limit

(* Cache c once they are written.                                          *)
IsFilled(c, r) ==
    /\ c \subseteq Nat /\ IsFiniteSet(c)
    /\ Fitted => c = Filled(r)
    /\ limit # 0 /\ Asked(r) # {} => TotalBytes(c) <= limit

Reached == IF main = "write" THEN height - 1 ELSE LastOf(slot - 1)

(* How far the command is.                                                 *)
CommandInv ==
    /\ main \in {"consume", "write"} => command = "hydrate"
    /\ main = "submit" => command = "verify"
    /\ \A s \in Relevant : s < slot => result[s] = "ok"
    /\ main = "write" => /\ slot \in Relevant /\ result[slot] = "ok"
                         /\ FirstOf(slot) <= height /\ height <= LastOf(slot)
    /\ main \in {"idle", "consume", "write"} => IsFilled(cache, Reached)

OutcomeInv ==
    /\ outcome = "ok" => /\ main \in {"wait", "done"}
                         /\ \A s \in Relevant : result[s] = "ok"
                         /\ command = "hydrate" => IsFilled(cache, to)
    /\ command = "verify" /\ outcome = "cancelled" => ctxDone
    /\ command = "verify" /\ main # "done" => outcome = "none"

(* Slots are handed out and consumed upwards from the first relevant one.  *)
RangeInv ==
    \E lo \in Relevant : /\ \A s \in Relevant : lo <= s
                         /\ lo <= next /\ lo <= slot
                         /\ next <= Ended /\ slot <= Ended

PoolInv ==
    /\ InputInv /\ PoolTypes /\ RangeInv /\ WorkerInv /\ SlotInv /\ CancelInv
    /\ CommandInv /\ OutcomeInv

----------------------------------------------------------------------------
(* The cache limit.                                                        *)

(* Every nonempty set of natural numbers has a least element.              *)
LEMMA LeastNat ==
    ASSUME NEW T, T \subseteq Nat, T # {}
    PROVE  \E x \in T : \A y \in T : x <= y
  <1>1. \E x \in T : \A y \in T : ~(<<y, x>> \in OpToRel(<, Nat))
    BY NatLessThanWellFounded, WFMin, Zenon
  <1>2. PICK x \in T : \A y \in T : ~(<<y, x>> \in OpToRel(<, Nat))
    BY <1>1, Zenon
  <1>3. ASSUME NEW y \in T PROVE x <= y
    <2>1. ~(<<y, x>> \in OpToRel(<, Nat))
      BY <1>2, Zenon
    <2>2. x \in Nat /\ y \in Nat
      OBVIOUS
    <2>. QED
      BY <2>1, <2>2 DEF OpToRel
  <1>. QED
    BY <1>2, <1>3, Zenon

(* A subset of a finite set is no larger.                                  *)
LEMMA SmallerSubset ==
    ASSUME NEW S, IsFiniteSet(S), NEW T, T \subseteq S
    PROVE  /\ IsFiniteSet(T) /\ Cardinality(T) \in Nat /\ Cardinality(S) \in Nat
           /\ Cardinality(T) <= Cardinality(S)
           /\ Cardinality(S) = Cardinality(T) => S = T
  BY FS_Subset, FS_CardinalityType

(* Fewer files take no more bytes.                                         *)
LEMMA FewerBytes ==
    ASSUME NEW S, IsFiniteSet(S), NEW T, T \subseteq S
    PROVE  /\ TotalBytes(T) \in Nat /\ TotalBytes(S) \in Nat
           /\ TotalBytes(T) <= TotalBytes(S)
  <1>. DEFINE All == S \X (1 .. MaxBlockBytes)
              B(R) == {b \in R \X (1 .. MaxBlockBytes) : b[2] <= BlockBytes[b[1]]}
  <1>1. IsFiniteSet(1 .. MaxBlockBytes)
    BY FS_Interval, PoolAssumption
  <1>2. IsFiniteSet(All)
    BY <1>1, FS_Product, Zenon
  <1>3. B(S) \subseteq All /\ B(T) \subseteq B(S)
    OBVIOUS
  <1>4. TotalBytes(S) = Cardinality(B(S)) /\ TotalBytes(T) = Cardinality(B(T))
    BY DEF TotalBytes
  <1>. HIDE DEF All, B
  <1>5. IsFiniteSet(B(S))
    BY <1>2, <1>3, SmallerSubset, Zenon
  <1>. QED
    BY <1>3, <1>4, <1>5, SmallerSubset, Zenon

(* What enforceCacheLimit leaves is a suffix, and within the limit.        *)
LEMMA FittingFits ==
    ASSUME NEW S, S \subseteq Nat, IsFiniteSet(S), limit \in Nat
    PROVE  /\ Fitting(S) \subseteq S /\ IsFiniteSet(Fitting(S))
           /\ TotalBytes(Fitting(S)) <= limit
  <1>1. Fitting(S) \subseteq S
    BY DEF Fitting
  <1>2. IsFiniteSet(Fitting(S))
    BY <1>1, SmallerSubset, Zenon
  <1>3. CASE Fitting(S) = {}
    <2>1. TotalBytes({}) = 0
      <3>1. {b \in {} \X (1 .. MaxBlockBytes) : b[2] <= BlockBytes[b[1]]} = {}
        OBVIOUS
      <3>. QED
        BY <3>1, FS_EmptySet, Zenon DEF TotalBytes
    <2>. QED
      BY <1>1, <1>2, <1>3, <2>1
  <1>4. CASE Fitting(S) # {}
    <2>1. PICK x \in Fitting(S) : \A y \in Fitting(S) : x <= y
      BY <1>1, <1>4, LeastNat, Zenon
    <2>2. x \in S /\ TotalBytes(From(S, x)) <= limit
      BY <2>1, Zenon DEF Fitting
    <2>3. Fitting(S) \subseteq From(S, x) /\ From(S, x) \subseteq S
      BY <1>1, <2>1, <2>2 DEF From
    <2>4. IsFiniteSet(From(S, x))
      BY <2>3, SmallerSubset, Zenon
    <2>5. /\ TotalBytes(Fitting(S)) \in Nat /\ TotalBytes(From(S, x)) \in Nat
          /\ TotalBytes(Fitting(S)) <= TotalBytes(From(S, x))
      BY <2>3, <2>4, FewerBytes, Zenon
    <2>. QED
      BY <1>1, <1>2, <2>2, <2>5
  <1>. QED
    BY <1>3, <1>4

(* Enforcing the limit before a block is added changes nothing about what  *)
(* enforcing it afterwards leaves, provided the higher blocks all fit.     *)
LEMMA FittingOfFitting ==
    ASSUME NEW S, S \subseteq Nat, IsFiniteSet(S), NEW x \in Nat, limit \in Nat,
           \A g \in S : g > x => g \in Fitting(S)
    PROVE  Fitting(Fitting(S) \cup {x}) = Fitting(S \cup {x})
  <1>. DEFINE T == Fitting(S)
              U == S \cup {x}
              V == T \cup {x}
  <1>1. /\ T \subseteq S /\ V \subseteq U /\ U \subseteq Nat
        /\ \A h \in S : h \in T <=> TotalBytes(From(S, h)) <= limit
        /\ \A h : h \in Fitting(U) <=> h \in U /\ TotalBytes(From(U, h)) <= limit
        /\ \A h : h \in Fitting(V) <=> h \in V /\ TotalBytes(From(V, h)) <= limit
        /\ \A g \in S : g > x => g \in T
    BY DEF Fitting
  <1>2. IsFiniteSet(U)
    BY FS_AddElement
  <1>. HIDE DEF T
  <1>3. \A h : /\ From(U, h) \subseteq U /\ From(S, h) \subseteq From(U, h)
               /\ From(V, h) \subseteq From(U, h)
    BY <1>1, Zenon DEF From
  <1>. HIDE DEF U, V
  <1>4. \A h : IsFiniteSet(From(U, h))
    BY <1>2, <1>3, SmallerSubset, Zenon
  <1>5. \A h : /\ TotalBytes(From(U, h)) \in Nat
               /\ TotalBytes(From(S, h)) \in Nat /\ TotalBytes(From(V, h)) \in Nat
               /\ TotalBytes(From(S, h)) <= TotalBytes(From(U, h))
               /\ TotalBytes(From(V, h)) <= TotalBytes(From(U, h))
    BY <1>3, <1>4, FewerBytes, Zenon
  <1>6. ASSUME NEW h \in Fitting(U) PROVE h \in Fitting(V)
    <2>1. h \in U /\ TotalBytes(From(U, h)) <= limit
      BY <1>1, <1>6, Zenon
    <2>2. TotalBytes(From(S, h)) <= limit /\ TotalBytes(From(V, h)) <= limit
      BY <1>5, <2>1
    <2>3. h \in V
      BY <1>1, <2>1, <2>2, Zenon DEF U, V
    <2>. QED
      BY <1>1, <2>2, <2>3, Zenon
  <1>7. ASSUME NEW h \in Fitting(V) PROVE h \in Fitting(U)
    <2>1. h \in V /\ h \in U /\ h \in Nat /\ TotalBytes(From(V, h)) <= limit
      BY <1>1, <1>7, Zenon
    <2>2. ASSUME NEW g \in S, g >= h PROVE g \in V
      <3>1. CASE h \in T
        <4>1. From(S, g) \subseteq From(S, h) /\ From(S, h) \subseteq S
          <5>1. \A k \in S : k >= g => k >= h
            BY <2>1, <2>2
          <5>. QED
            BY <5>1, Zenon DEF From
        <4>2. IsFiniteSet(From(S, h))
          BY <4>1, SmallerSubset, Zenon
        <4>3. TotalBytes(From(S, g)) <= TotalBytes(From(S, h))
          BY <4>1, <4>2, FewerBytes, Zenon
        <4>4. TotalBytes(From(S, h)) <= limit
          BY <1>1, <3>1, Zenon
        <4>5. TotalBytes(From(S, g)) <= limit
          BY <1>5, <4>3, <4>4
        <4>. QED
          BY <1>1, <4>5, Zenon DEF V
      <3>2. CASE h = x
        <4>1. g = x \/ g > x
          BY <2>2, <3>2
        <4>. QED
          BY <1>1, <4>1, Zenon DEF V
      <3>. QED
        BY <2>1, <3>1, <3>2, Zenon DEF V
    <2>3. From(U, h) \subseteq From(V, h)
      BY <2>2, Zenon DEF From, U, V
    <2>4. From(U, h) = From(V, h)
      BY <1>3, <2>3, Zenon
    <2>. QED
      BY <1>1, <2>1, <2>4, Zenon
  <1>8. Fitting(U) = Fitting(V)
    BY <1>6, <1>7, Zenon
  <1>. QED
    BY <1>8 DEF T, U, V

----------------------------------------------------------------------------
(* Segments and ranges.                                                    *)

(* The constants, in the form arithmetic steps cite.                       *)
LEMMA PoolConstants ==
    /\ Segments \in Nat /\ Segments > 0 /\ SegmentSize \in Nat /\ SegmentSize > 0
    /\ Worker # {}
    /\ Slot = 1 .. Segments /\ Ended = Segments + 1
  BY PoolAssumption DEF Slot, Ended

(* Multiplying keeps the order.                                            *)
LEMMA TimesMonotone ==
    ASSUME NEW a \in Nat, NEW b \in Nat, a <= b, NEW c \in Nat
    PROVE  a * c <= b * c
  <1>1. PICK d \in Nat : b = a + d
    <2>1. b - a \in Nat /\ b = a + (b - a)
      OBVIOUS
    <2>. QED
      BY <2>1
  <1>2. b * c = a * c + d * c /\ d * c \in Nat /\ a * c \in Nat
    BY <1>1
  <1>. QED
    BY <1>2

(* Each segment begins where the one before it ends.                       *)
LEMMA SegmentBounds ==
    /\ LastOf(0) = 0 /\ LastOf(Segments) = Segments * SegmentSize
    /\ \A s \in Nat : LastOf(s) \in Nat /\ FirstOf(s) = LastOf(s - 1) + 1
    /\ \A s \in Nat : s > 0 => FirstOf(s) <= LastOf(s)
    /\ \A s, t \in Nat : s <= t => LastOf(s) <= LastOf(t)
  <1>0. SegmentSize \in Nat /\ SegmentSize > 0 /\ Segments \in Nat
    BY PoolConstants
  <1>1. LastOf(0) = 0 /\ LastOf(Segments) = Segments * SegmentSize
    BY <1>0 DEF LastOf
  <1>2. \A s \in Nat : LastOf(s) \in Nat /\ FirstOf(s) = LastOf(s - 1) + 1
    BY <1>0 DEF LastOf, FirstOf
  <1>3. ASSUME NEW s \in Nat, s > 0 PROVE FirstOf(s) <= LastOf(s)
    <2>1. s * SegmentSize = (s - 1) * SegmentSize + SegmentSize
             /\ (s - 1) * SegmentSize \in Int
      BY <1>0, <1>3
    <2>. QED
      BY <1>0, <2>1 DEF FirstOf, LastOf
  <1>4. \A s, t \in Nat : s <= t => LastOf(s) <= LastOf(t)
    BY <1>0, TimesMonotone DEF LastOf
  <1>. QED
    BY <1>1, <1>2, <1>3, <1>4

(* A slot is a number from 1 to Segments.                                  *)
LEMMA RelevantSlot ==
    \A s \in Relevant : /\ s \in Slot /\ s \in Nat /\ s > 0 /\ s <= Segments
                        /\ s # Ended /\ s + 1 <= Ended
                        /\ FirstOf(s) <= to /\ from <= LastOf(s)
  BY PoolConstants DEF Relevant

(* Whatever range is asked for, some segment holds its first block, and no *)
(* relevant segment comes before that one.                                 *)
LEMMA FirstRelevant ==
    ASSUME InputInv
    PROVE  /\ Min(Relevant) \in Relevant
           /\ \A s \in Relevant : Min(Relevant) <= s
           /\ LastOf(Min(Relevant) - 1) < from
  <1>. DEFINE T == {s \in Slot : from <= LastOf(s)}
  <1>1. Segments \in T /\ T \subseteq Nat
    BY PoolConstants, SegmentBounds DEF InputInv
  <1>2. PICK lo \in T : \A s \in T : lo <= s
    BY <1>1, LeastNat, Zenon
  <1>3. lo \in Nat /\ lo > 0 /\ lo - 1 \in Nat /\ lo <= Segments
    BY <1>2, PoolConstants
  <1>4. LastOf(lo - 1) < from
    <2>1. CASE lo = 1
      BY <2>1, SegmentBounds DEF InputInv
    <2>2. CASE lo # 1
      <3>1. lo - 1 \in Slot /\ ~(lo <= lo - 1)
        BY <1>3, <2>2, PoolConstants
      <3>2. ~(from <= LastOf(lo - 1))
        BY <1>2, <3>1
      <3>. QED
        BY <1>3, <3>2, SegmentBounds DEF InputInv
    <2>. QED
      BY <2>1, <2>2
  <1>5. lo \in Relevant
    BY <1>2, <1>3, <1>4, SegmentBounds DEF Relevant, InputInv
  <1>6. \A s \in Relevant : lo <= s
    BY <1>2 DEF Relevant
  <1>7. Min(Relevant) \in Relevant /\ \A s \in Relevant : Min(Relevant) <= s
    <2>. HIDE DEF T
    <2>. QED
      BY <1>5, <1>6 DEF Min
  <1>8. Min(Relevant) = lo
    <2>. DEFINE m == Min(Relevant)
    <2>. HIDE DEF m
    <2>1. m \in Relevant /\ m <= lo
      BY <1>5, <1>7 DEF m
    <2>2. m \in Nat /\ lo <= m
      BY <1>6, <2>1, RelevantSlot
    <2>. QED
      BY <1>3, <2>1, <2>2 DEF m
  <1>. QED
    BY <1>4, <1>7, <1>8

(* A slot at or above the first relevant one that is not relevant itself   *)
(* is beyond the range, and beyond every relevant one.                     *)
LEMMA BeyondRange ==
    ASSUME InputInv, NEW lo \in Relevant, NEW t \in Nat, lo <= t, t <= Ended,
           t \notin Relevant
    PROVE  to <= LastOf(t - 1) /\ \A s \in Relevant : s < t
  <1>1. lo \in Nat /\ lo > 0 /\ from <= LastOf(lo) /\ t > 0 /\ t - 1 \in Nat
    BY RelevantSlot
  <1>2. to <= LastOf(t - 1)
    <2>1. CASE t = Ended
      BY <2>1, PoolConstants, SegmentBounds DEF InputInv
    <2>2. CASE t # Ended
      <3>1. t \in Slot
        BY <1>1, <2>2, PoolConstants
      <3>2. from <= LastOf(t)
        BY <1>1, SegmentBounds DEF InputInv
      <3>3. ~(FirstOf(t) <= to)
        BY <3>1, <3>2 DEF Relevant
      <3>. QED
        BY <1>1, <3>3, SegmentBounds DEF InputInv
    <2>. QED
      BY <2>1, <2>2
  <1>3. ASSUME NEW s \in Relevant PROVE s < t
    <2>1. s \in Nat /\ s - 1 \in Nat /\ FirstOf(s) <= to
             /\ FirstOf(s) = LastOf(s - 1) + 1
      BY RelevantSlot, SegmentBounds
    <2>2. LastOf(s - 1) \in Nat /\ LastOf(t - 1) \in Nat
      BY <1>1, <2>1, SegmentBounds
    <2>3. ~(LastOf(t - 1) <= LastOf(s - 1))
      BY <1>2, <2>1, <2>2 DEF InputInv
    <2>4. ~(t - 1 <= s - 1)
      BY <1>1, <2>1, <2>3, SegmentBounds
    <2>. QED
      BY <2>1, <2>4
  <1>. QED
    BY <1>2, <1>3

----------------------------------------------------------------------------
(* The inputs never change, and with them the range.                       *)
LEMMA InputFrame ==
    ASSUME InputInv, UNCHANGED inputs
    PROVE  /\ InputInv' /\ Relevant' = Relevant /\ command' = command
           /\ intact' = intact /\ to' = to
           /\ \A c, r : IsFilled(c, r)' <=> IsFilled(c, r)
  <1>1. /\ command' = command /\ from' = from /\ to' = to /\ limit' = limit
        /\ intact' = intact /\ before' = before
    BY DEF inputs
  <1>2. InputInv' /\ Relevant' = Relevant
    BY <1>1 DEF InputInv, Relevant
  <1>3. \A c, r : IsFilled(c, r)' <=> IsFilled(c, r)
    <2>1. \A S : /\ Fitting(S)' = Fitting(S) /\ enforceCacheLimit(S)' = enforceCacheLimit(S)
                 /\ TotalBytes(S)' = TotalBytes(S)
      BY <1>1 DEF Fitting, enforceCacheLimit, From, TotalBytes
    <2>2. \A r : Asked(r)' = Asked(r)
      BY <1>1 DEF Asked
    <2>3. Fitted' <=> Fitted
      BY <1>1 DEF Fitted, TotalBytes
    <2>4. \A r : Filled(r)' = Filled(r)
      BY <1>1, <2>2 DEF Filled, enforceCacheLimit, Fitting, From, TotalBytes
    <2>. QED
      BY <1>1, <2>1, <2>2, <2>3, <2>4 DEF IsFilled
  <1>. QED
    BY <1>1, <1>2, <1>3

(* Steps of the submitter and the workers leave the command where it is;   *)
(* results that were good stay good.                                       *)
LEMMA WorkerSide ==
    ASSUME PoolInv, UNCHANGED <<inputs, ctxDone, main, slot, height, cache, outcome>>,
           \A s \in Slot : result[s] = "ok" => result'[s] = "ok"
    PROVE  InputInv' /\ Relevant' = Relevant /\ CommandInv' /\ OutcomeInv'
  <1>1. /\ InputInv' /\ Relevant' = Relevant /\ command' = command /\ to' = to
        /\ \A c, r : IsFilled(c, r)' <=> IsFilled(c, r)
    BY InputFrame DEF PoolInv
  <1>2. \A s \in Relevant : result[s] = "ok" => result'[s] = "ok"
    BY DEF Relevant
  <1>3. Reached' = Reached
    BY DEF Reached
  <1>4. CommandInv'
    BY <1>1, <1>2, <1>3 DEF PoolInv, CommandInv
  <1>5. OutcomeInv'
    BY <1>1, <1>2 DEF PoolInv, OutcomeInv
  <1>. QED
    BY <1>1, <1>4, <1>5

(* Steps of the command leave the pool alone; a context that ended does    *)
(* not come back.                                                          *)
LEMMA CommandSide ==
    ASSUME PoolInv, UNCHANGED <<inputs, pool>>,
           WorkerCtxDone => WorkerCtxDone'
    PROVE  /\ InputInv' /\ Relevant' = Relevant /\ WorkerInv' /\ SlotInv'
           /\ UNCHANGED <<next, closed, job, work, result>>
  <1>1. InputInv' /\ Relevant' = Relevant /\ intact' = intact
    BY InputFrame DEF PoolInv
  <1>2. /\ next' = next /\ closed' = closed /\ job' = job /\ work' = work
        /\ result' = result
    BY DEF pool
  <1>3. WorkerInv'
    BY <1>1, <1>2 DEF PoolInv, WorkerInv
  <1>4. SlotInv'
    BY <1>1, <1>2 DEF PoolInv, SlotInv
  <1>. QED
    BY <1>1, <1>2, <1>3, <1>4

(* A slot's range of positions stays as it is when they do not move.       *)
LEMMA RangeFrame ==
    ASSUME RangeInv, Relevant' = Relevant, next' = next, slot' = slot
    PROVE  RangeInv'
  BY DEF RangeInv

----------------------------------------------------------------------------
(* The submitter.                                                          *)

(* The submitter hands the next segment to an idle worker.                 *)
LEMMA SubmitInv ==
    ASSUME PoolInv, NEW u \in Worker, Submit(u)
    PROVE  PoolInv'
  <1>1. /\ next \in Relevant /\ ~closed /\ job[u] = 0
        /\ job' = [job EXCEPT ![u] = next] /\ work' = [work EXCEPT ![u] = "got"]
        /\ next' = next + 1
        /\ UNCHANGED <<inputs, closed, result, cancelled, ctxDone, main, slot,
                       height, cache, outcome>>
    BY DEF Submit
  <1>2. InputInv' /\ Relevant' = Relevant /\ CommandInv' /\ OutcomeInv'
    BY <1>1, WorkerSide
  <1>3. next \in Slot /\ next \in Nat /\ next # Ended /\ next # 0 /\ next + 1 <= Ended
    BY <1>1, RelevantSlot
  <1>4. PoolTypes'
    BY <1>1, <1>3 DEF PoolInv, PoolTypes
  <1>5. RangeInv'
    BY <1>1, <1>2, <1>3, RelevantSlot DEF PoolInv, RangeInv
  <1>6. /\ work'[u] = "got" /\ job'[u] = next /\ result[next] = "none"
        /\ \A w \in Worker : w # u => work'[w] = work[w] /\ job'[w] = job[w]
    BY <1>1, <1>3 DEF PoolInv, PoolTypes, SlotInv
  <1>7. work[u] = "idle"
    BY <1>1, RelevantSlot DEF PoolInv, WorkerInv, PoolTypes
  <1>8. WorkerInv'
    <2>1. ASSUME NEW w \in Worker
          PROVE  /\ work'[w] = "idle" => job'[w] \in {0, Ended}
                 /\ work'[w] # "idle" => job'[w] \in Relevant /\ job'[w] < next'
                 /\ work'[w] \in {"got", "read"} => result[job'[w]] = "none"
                 /\ work'[w] = "failed" => result[job'[w]] \in {"bad", "cancelled"}
                 /\ job'[w] = Ended => closed
      <3>1. CASE w = u
        BY <1>1, <1>3, <1>6, <3>1
      <3>2. CASE w # u
        <4>1. work[w] # "idle" => job[w] \in Nat
          BY RelevantSlot DEF PoolInv, WorkerInv
        <4>. QED
          BY <1>1, <1>3, <1>6, <3>2, <4>1 DEF PoolInv, WorkerInv
      <3>. QED
        BY <3>1, <3>2
    <2>2. ASSUME NEW v \in Worker, NEW w \in Worker, work'[v] # "idle",
                 work'[w] # "idle", job'[v] = job'[w]
          PROVE  v = w
      <3>1. \A y \in Worker : y # u /\ work'[y] # "idle" => job'[y] # next
        BY <1>3, <1>6, RelevantSlot DEF PoolInv, WorkerInv
      <3>. QED
        BY <1>6, <2>2, <3>1 DEF PoolInv, WorkerInv
    <2>. QED
      BY <1>1, <1>2, <2>1, <2>2 DEF WorkerInv
  <1>9. SlotInv'
    <2>1. ASSUME NEW s \in Relevant, s < next + 1, result[s] = "none"
          PROVE  \E w \in Worker : work'[w] # "idle" /\ job'[w] = s
      <3>1. CASE s = next
        BY <1>6, <3>1
      <3>2. CASE s # next
        <4>1. s < next
          BY <1>3, <2>1, <3>2, RelevantSlot
        <4>2. PICK w \in Worker : work[w] # "idle" /\ job[w] = s
          BY <2>1, <4>1 DEF PoolInv, SlotInv
        <4>. QED
          BY <1>6, <1>7, <4>2
      <3>. QED
        BY <3>1, <3>2
    <2>2. \A s \in Relevant : next + 1 <= s => next <= s
      BY <1>3, RelevantSlot
    <2>3. intact' = intact
      BY <1>1 DEF inputs
    <2>. QED
      BY <1>1, <1>2, <2>1, <2>2, <2>3 DEF PoolInv, SlotInv
  <1>10. CancelInv'
    BY <1>1 DEF PoolInv, CancelInv, inputs
  <1>. QED
    BY <1>2, <1>4, <1>5, <1>8, <1>9, <1>10 DEF PoolInv

(* The submitter stops: no segment left, or the context is done.           *)
LEMMA CloseJobsInv ==
    ASSUME PoolInv, CloseJobs
    PROVE  PoolInv'
  <1>1. /\ main \notin {"idle", "done"}
        /\ next \notin Relevant \/ WorkerCtxDone
        /\ closed' = TRUE
        /\ main' = main \/ (command = "verify" /\ main' = "wait")
        /\ UNCHANGED <<inputs, next, job, work, result, cancelled, ctxDone, slot,
                       height, cache, outcome>>
    BY DEF CloseJobs, AfterSubmit
  <1>2. /\ InputInv' /\ Relevant' = Relevant /\ command' = command /\ to' = to
        /\ intact' = intact /\ \A c, r : IsFilled(c, r)' <=> IsFilled(c, r)
    BY <1>1, InputFrame DEF PoolInv
  <1>3. PoolTypes' /\ RangeInv'
    BY <1>1, <1>2 DEF PoolInv, PoolTypes, RangeInv
  <1>4. WorkerInv'
    BY <1>1, <1>2 DEF PoolInv, WorkerInv
  <1>5. SlotInv'
    BY <1>1, <1>2 DEF PoolInv, SlotInv, WorkerCtxDone
  <1>6. CancelInv'
    BY <1>1, <1>2 DEF PoolInv, CancelInv
  <1>7. CommandInv'
    <2>1. CASE main' = main
      <3>1. Reached' = Reached
        BY <1>1, <2>1 DEF Reached
      <3>. QED
        BY <1>1, <1>2, <2>1, <3>1 DEF PoolInv, CommandInv
    <2>2. CASE main' = "wait"
      BY <1>1, <1>2, <2>2 DEF PoolInv, CommandInv
    <2>. QED
      BY <1>1, <2>1, <2>2
  <1>8. OutcomeInv'
    BY <1>1, <1>2 DEF PoolInv, OutcomeInv
  <1>. QED
    BY <1>2, <1>3, <1>4, <1>5, <1>6, <1>7, <1>8 DEF PoolInv

----------------------------------------------------------------------------
(* The workers.                                                            *)

(* A worker that finds its context alive goes on to read.                  *)
LEMMA CheckContextInv ==
    ASSUME PoolInv, NEW u \in Worker, CheckContext(u)
    PROVE  PoolInv'
  <1>1. /\ work[u] = "got" /\ work' = [work EXCEPT ![u] = "read"]
        /\ UNCHANGED <<inputs, next, closed, job, result, cancelled, ctxDone,
                       main, slot, height, cache, outcome>>
    BY DEF CheckContext
  <1>2. InputInv' /\ Relevant' = Relevant /\ CommandInv' /\ OutcomeInv'
    BY <1>1, WorkerSide
  <1>3. PoolTypes' /\ RangeInv'
    BY <1>1, <1>2, RangeFrame DEF PoolInv, PoolTypes
  <1>4. work'[u] = "read" /\ \A w \in Worker : w # u => work'[w] = work[w]
    BY <1>1 DEF PoolInv, PoolTypes
  <1>5. \A w \in Worker : /\ work'[w] = "idle" <=> work[w] = "idle"
                          /\ work'[w] \in {"got", "read"} => work[w] \in {"got", "read"}
                          /\ work'[w] = "failed" => work[w] = "failed"
    BY <1>1, <1>4
  <1>6. WorkerInv'
    BY <1>1, <1>2, <1>5 DEF PoolInv, WorkerInv
  <1>7. SlotInv'
    <2>1. intact' = intact
      BY <1>1 DEF inputs
    <2>. QED
      BY <1>1, <1>2, <1>5, <2>1, Zenon DEF PoolInv, SlotInv, WorkerCtxDone
  <1>8. CancelInv'
    BY <1>1 DEF PoolInv, CancelInv, inputs
  <1>. QED
    BY <1>2, <1>3, <1>6, <1>7, <1>8 DEF PoolInv

(* A worker writes the result of the slot it alone holds.                  *)
LEMMA FinishInv ==
    ASSUME PoolInv, NEW u \in Worker, Finish(u)
    PROVE  PoolInv'
  <1>. DEFINE k == job[u]
  <1>1. /\ work[u] \in {"got", "read"}
        /\ UNCHANGED <<inputs, next, closed, cancelled, ctxDone, main, slot,
                       height, cache, outcome>>
    BY DEF Finish
  <1>2. PICK r \in ReadResults(u) :
           /\ result' = [result EXCEPT ![k] = r]
           /\ \/ /\ r # "ok" /\ work' = [work EXCEPT ![u] = "failed"]
                 /\ job' = job
              \/ /\ work' = [work EXCEPT ![u] = "idle"]
                 /\ job' = [job EXCEPT ![u] = 0]
    BY Zenon DEF Finish
  <1>3. /\ r \in {"ok", "bad", "cancelled"}
        /\ r = "ok" => k \in intact
        /\ r = "cancelled" => WorkerCtxDone
    BY <1>2 DEF ReadResults, Finish
  <1>4. /\ k \in Relevant /\ k \in Slot /\ k < next /\ result[k] = "none"
    BY <1>1, RelevantSlot DEF PoolInv, WorkerInv
  <1>. HIDE DEF k
  <1>5. result'[k] = r /\ \A s \in Slot : s # k => result'[s] = result[s]
    BY <1>2, <1>4 DEF PoolInv, PoolTypes
  <1>6. \A s \in Slot : result[s] # "none" => result'[s] = result[s]
    BY <1>4, <1>5
  <1>7. InputInv' /\ Relevant' = Relevant /\ CommandInv' /\ OutcomeInv'
    BY <1>1, <1>6, WorkerSide
  <1>8. /\ \A w \in Worker : w # u => work'[w] = work[w] /\ job'[w] = job[w]
        /\ \/ work'[u] = "failed" /\ job'[u] = k /\ r # "ok"
           \/ work'[u] = "idle" /\ job'[u] = 0
    BY <1>2 DEF PoolInv, PoolTypes, k
  <1>9. PoolTypes'
    <2>1. result' \in [Slot -> {"none", "ok", "bad", "cancelled"}]
      BY <1>2, <1>3, Zenon DEF PoolInv, PoolTypes
    <2>2. work' \in [Worker -> {"idle", "got", "read", "failed"}]
      BY <1>2 DEF PoolInv, PoolTypes
    <2>3. job' \in [Worker -> Nat]
      BY <1>2 DEF PoolInv, PoolTypes
    <2>. QED
      BY <1>1, <2>1, <2>2, <2>3 DEF PoolInv, PoolTypes
  <1>10. RangeInv'
    BY <1>1, <1>7, RangeFrame DEF PoolInv
  <1>11. WorkerInv'
    <2>1. ASSUME NEW w \in Worker
          PROVE  /\ work'[w] = "idle" => job'[w] \in {0, Ended}
                 /\ work'[w] # "idle" => job'[w] \in Relevant /\ job'[w] < next
                 /\ work'[w] \in {"got", "read"} => result'[job'[w]] = "none"
                 /\ work'[w] = "failed" => result'[job'[w]] \in {"bad", "cancelled"}
                 /\ job'[w] = Ended => closed
      <3>1. CASE w = u
        <4>1. k # Ended /\ 0 # Ended
          BY <1>4, RelevantSlot, PoolConstants
        <4>. QED
          BY <1>3, <1>4, <1>5, <1>8, <3>1, <4>1
      <3>2. CASE w # u
        <4>1. work[w] # "idle" => job[w] # k /\ job[w] \in Slot
          BY <1>1, <3>2, RelevantSlot DEF PoolInv, WorkerInv, k
        <4>. QED
          BY <1>5, <1>8, <3>2, <4>1 DEF PoolInv, WorkerInv
      <3>. QED
        BY <3>1, <3>2
    <2>2. ASSUME NEW v \in Worker, NEW w \in Worker, work'[v] # "idle",
                 work'[w] # "idle", job'[v] = job'[w]
          PROVE  v = w
      <3>1. \A y \in Worker : work'[y] # "idle" => work[y] # "idle" /\ job'[y] = job[y]
        BY <1>1, <1>8 DEF k
      <3>. QED
        BY <2>2, <3>1 DEF PoolInv, WorkerInv
    <2>. QED
      BY <1>1, <1>7, <2>1, <2>2 DEF WorkerInv
  <1>12. SlotInv'
    <2>1. intact' = intact
      BY <1>1 DEF inputs
    <2>2. \A s \in Slot : result'[s] = "ok" => s \in intact
      BY <1>3, <1>5 DEF PoolInv, SlotInv
    <2>3. ASSUME NEW s \in Relevant, s < next, result'[s] = "none"
          PROVE  \E w \in Worker : work'[w] # "idle" /\ job'[w] = s
      <3>1. s \in Slot /\ s # k /\ result[s] = "none"
        BY <1>3, <1>5, <2>3, RelevantSlot
      <3>2. PICK w \in Worker : work[w] # "idle" /\ job[w] = s
        BY <2>3, <3>1 DEF PoolInv, SlotInv
      <3>. QED
        BY <1>8, <3>1, <3>2 DEF k
    <2>4. \A s \in Relevant : next <= s => result'[s] = "none"
      BY <1>4, <1>5, RelevantSlot DEF PoolInv, SlotInv, PoolTypes
    <2>5. closed => next \notin Relevant \/ WorkerCtxDone
      BY DEF PoolInv, SlotInv
    <2>. QED
      BY <1>1, <1>7, <2>1, <2>2, <2>3, <2>4, <2>5 DEF SlotInv, WorkerCtxDone
  <1>13. CancelInv'
    <2>1. SUFFICES ASSUME command = "verify",
                          cancelled \/ \E s \in Slot : result'[s] = "cancelled"
                   PROVE  ctxDone \/ \E s \in Slot : result'[s] = "bad"
      BY <1>1 DEF CancelInv, inputs
    <2>2. cancelled \/ ctxDone \/ \E s \in Slot : result[s] = "cancelled"
      BY <1>3, <1>5, <2>1 DEF WorkerCtxDone
    <2>3. ctxDone \/ \E s \in Slot : result[s] = "bad"
      BY <2>1, <2>2 DEF PoolInv, CancelInv
    <2>. QED
      BY <1>6, <2>3
  <1>. QED
    BY <1>7, <1>9, <1>10, <1>11, <1>12, <1>13 DEF PoolInv

(* The worker that cancels the others has a result that says why.          *)
LEMMA WorkerCancelInv ==
    ASSUME PoolInv, NEW u \in Worker, Cancel(u)
    PROVE  PoolInv'
  <1>1. /\ work[u] = "failed" /\ cancelled' = TRUE
        /\ work' = [work EXCEPT ![u] = "idle"] /\ job' = [job EXCEPT ![u] = 0]
        /\ UNCHANGED <<inputs, next, closed, result, ctxDone, main, slot, height,
                       cache, outcome>>
    BY DEF Cancel
  <1>2. InputInv' /\ Relevant' = Relevant /\ CommandInv' /\ OutcomeInv'
    BY <1>1, WorkerSide
  <1>3. PoolTypes' /\ RangeInv'
    BY <1>1, <1>2, RangeFrame DEF PoolInv, PoolTypes
  <1>4. /\ work'[u] = "idle" /\ job'[u] = 0
        /\ \A w \in Worker : w # u => work'[w] = work[w] /\ job'[w] = job[w]
    BY <1>1 DEF PoolInv, PoolTypes
  <1>5. /\ job[u] \in Slot /\ result[job[u]] \in {"bad", "cancelled"}
    BY <1>1, RelevantSlot DEF PoolInv, WorkerInv
  <1>6. WorkerInv'
    BY <1>1, <1>2, <1>4, PoolConstants DEF PoolInv, WorkerInv
  <1>7. SlotInv'
    <2>1. intact' = intact
      BY <1>1 DEF inputs
    <2>2. ASSUME NEW s \in Relevant, s < next, result[s] = "none"
          PROVE  \E w \in Worker : work'[w] # "idle" /\ job'[w] = s
      <3>1. PICK w \in Worker : work[w] # "idle" /\ job[w] = s
        BY <2>2 DEF PoolInv, SlotInv
      <3>2. w # u
        BY <1>5, <2>2, <3>1
      <3>. QED
        BY <1>4, <3>1, <3>2
    <2>. QED
      BY <1>1, <1>2, <2>1, <2>2 DEF PoolInv, SlotInv, WorkerCtxDone
  <1>8. CancelInv'
    BY <1>1, <1>5 DEF PoolInv, CancelInv, inputs
  <1>. QED
    BY <1>2, <1>3, <1>6, <1>7, <1>8 DEF PoolInv

(* A worker leaves once the job channel is closed.                         *)
LEMMA EndInv ==
    ASSUME PoolInv, NEW u \in Worker, End(u)
    PROVE  PoolInv'
  <1>1. /\ closed /\ job[u] = 0 /\ job' = [job EXCEPT ![u] = Ended]
        /\ UNCHANGED <<inputs, next, closed, work, result, cancelled, ctxDone,
                       main, slot, height, cache, outcome>>
    BY DEF End
  <1>2. InputInv' /\ Relevant' = Relevant /\ CommandInv' /\ OutcomeInv'
    BY <1>1, WorkerSide
  <1>3. PoolTypes' /\ RangeInv'
    BY <1>1, <1>2, RangeFrame, PoolConstants DEF PoolInv, PoolTypes
  <1>4. /\ job'[u] = Ended
        /\ \A w \in Worker : w # u => job'[w] = job[w]
    BY <1>1 DEF PoolInv, PoolTypes
  <1>5. work[u] = "idle"
    BY <1>1, RelevantSlot DEF PoolInv, WorkerInv, PoolTypes
  <1>6. WorkerInv'
    BY <1>1, <1>2, <1>4, <1>5 DEF PoolInv, WorkerInv
  <1>7. SlotInv'
    <2>1. intact' = intact
      BY <1>1 DEF inputs
    <2>2. \A w \in Worker : work[w] # "idle" => job'[w] = job[w]
      BY <1>4, <1>5
    <2>. QED
      BY <1>1, <1>2, <2>1, <2>2 DEF PoolInv, SlotInv, WorkerCtxDone
  <1>8. CancelInv'
    BY <1>1 DEF PoolInv, CancelInv, inputs
  <1>. QED
    BY <1>2, <1>3, <1>6, <1>7, <1>8 DEF PoolInv

----------------------------------------------------------------------------
(* The command.                                                            *)

(* Begin.                                                                  *)
LEMMA BeginInv ==
    ASSUME PoolInv, Begin
    PROVE  PoolInv'
  <1>1. /\ main = "idle"
        /\ UNCHANGED <<inputs, pool, cancelled, ctxDone, slot, height, cache>>
        /\ \/ ctxDone /\ main' = "done" /\ outcome' = "cancelled"
           \/ main' = "submit" /\ command = "verify" /\ outcome' = outcome
           \/ main' = "consume" /\ command # "verify" /\ outcome' = outcome
    BY DEF Begin
  <1>2. /\ InputInv' /\ Relevant' = Relevant /\ WorkerInv' /\ SlotInv'
        /\ UNCHANGED <<next, closed, job, work, result>>
    BY <1>1, CommandSide DEF WorkerCtxDone
  <1>3. /\ command' = command /\ to' = to /\ \A c, r : IsFilled(c, r)' <=> IsFilled(c, r)
    BY <1>1, InputFrame DEF PoolInv
  <1>4. PoolTypes' /\ RangeInv'
    BY <1>1, <1>2, RangeFrame DEF PoolInv, PoolTypes
  <1>5. CancelInv'
    BY <1>1, <1>2, <1>3 DEF PoolInv, CancelInv
  <1>6. CommandInv'
    <2>1. main' # "write" /\ Reached' = Reached
      BY <1>1 DEF Reached
    <2>2. command \in {"verify", "hydrate"}
      BY DEF PoolInv, InputInv
    <2>. QED
      BY <1>1, <1>2, <1>3, <2>1, <2>2 DEF PoolInv, CommandInv
  <1>7. OutcomeInv'
    <2>1. outcome # "ok" /\ (command = "verify" => outcome = "none")
      BY <1>1 DEF PoolInv, OutcomeInv
    <2>. QED
      BY <1>1, <1>2, <1>3, <2>1 DEF OutcomeInv
  <1>. QED
    BY <1>2, <1>4, <1>5, <1>6, <1>7 DEF PoolInv

(* The cache depends on the heights asked for alone.                       *)
LEMMA FilledSame ==
    ASSUME NEW r, NEW q, Asked(r) = Asked(q)
    PROVE  Filled(r) = Filled(q) /\ \A c : IsFilled(c, r) <=> IsFilled(c, q)
  BY DEF Filled, IsFilled

(* Hydrate ends for any reason: the workers are cancelled.                 *)
LEMMA StopInv ==
    ASSUME PoolInv, command = "hydrate", main \in {"consume", "write"},
           NEW a \in {"ok", "bad", "cancelled"}, Stop(a),
           UNCHANGED <<inputs, pool, ctxDone, slot, height>>,
           a = "ok" => /\ \A s \in Relevant : result[s] = "ok"
                       /\ IsFilled(cache', to)
    PROVE  PoolInv'
  <1>1. main' = "wait" /\ outcome' = a /\ cancelled' = TRUE
    BY DEF Stop
  <1>2. /\ InputInv' /\ Relevant' = Relevant /\ WorkerInv' /\ SlotInv'
        /\ UNCHANGED <<next, closed, job, work, result>>
    BY <1>1, CommandSide DEF WorkerCtxDone
  <1>3. /\ command' = command /\ to' = to /\ \A c, r : IsFilled(c, r)' <=> IsFilled(c, r)
    BY InputFrame DEF PoolInv
  <1>4. PoolTypes' /\ RangeInv'
    BY <1>1, <1>2, RangeFrame DEF PoolInv, PoolTypes
  <1>5. CancelInv'
    BY <1>3 DEF CancelInv
  <1>6. CommandInv'
    BY <1>1, <1>2 DEF PoolInv, CommandInv
  <1>7. OutcomeInv'
    BY <1>1, <1>2, <1>3 DEF OutcomeInv
  <1>. QED
    BY <1>2, <1>4, <1>5, <1>6, <1>7 DEF PoolInv

(* Consume: when no slot is left, every result was good and every block    *)
(* asked for was written.                                                  *)
LEMMA ConsumeInv ==
    ASSUME PoolInv, Consume
    PROVE  PoolInv'
  <1>1. /\ main = "consume" /\ command = "hydrate"
        /\ UNCHANGED <<inputs, pool, ctxDone, slot, cache>>
    BY DEF Consume, PoolInv, CommandInv
  <1>2. CASE slot \notin Relevant /\ Stop("ok") /\ UNCHANGED height
    <2>1. PICK lo \in Relevant : lo <= slot /\ slot <= Ended
      BY DEF PoolInv, RangeInv
    <2>2. to <= LastOf(slot - 1) /\ \A s \in Relevant : s < slot
      BY <1>2, <2>1, BeyondRange DEF PoolInv, PoolTypes
    <2>3. \A s \in Relevant : result[s] = "ok"
      BY <2>2 DEF PoolInv, CommandInv
    <2>4. IsFilled(cache, LastOf(slot - 1))
      BY <1>1 DEF PoolInv, CommandInv, Reached
    <2>5. slot > 0
      BY <2>1, RelevantSlot DEF PoolInv, PoolTypes
    <2>6. LastOf(slot - 1) \in Nat
      BY <2>5, SegmentBounds DEF PoolInv, PoolTypes
    <2>7. Asked(LastOf(slot - 1)) = Asked(to)
      BY <2>2, <2>6 DEF Asked, PoolInv, InputInv
    <2>8. IsFilled(cache, to)
      BY <2>4, <2>7, FilledSame
    <2>. QED
      BY <1>1, <1>2, <2>3, <2>8, StopInv
  <1>3. CASE slot \in Relevant /\ ctxDone /\ Stop("cancelled") /\ UNCHANGED height
    BY <1>1, <1>3, StopInv
  <1>4. CASE /\ slot \in Relevant /\ result[slot] \in {"bad", "cancelled"}
             /\ Stop(result[slot]) /\ UNCHANGED height
    <2>. DEFINE a == result[slot]
    <2>1. a \in {"ok", "bad", "cancelled"} /\ a # "ok" /\ Stop(a)
      BY <1>4
    <2>. HIDE DEF a
    <2>. QED
      BY <1>1, <1>4, <2>1, StopInv
  <1>5. CASE /\ slot \in Relevant /\ result[slot] = "ok"
             /\ main' = "write" /\ height' = FirstOf(slot)
             /\ UNCHANGED <<cancelled, outcome>>
    <2>1. /\ InputInv' /\ Relevant' = Relevant /\ WorkerInv' /\ SlotInv'
          /\ UNCHANGED <<next, closed, job, work, result>>
      BY <1>1, <1>5, CommandSide DEF WorkerCtxDone
    <2>2. /\ command' = command /\ to' = to /\ \A c, r : IsFilled(c, r)' <=> IsFilled(c, r)
      BY <1>1, InputFrame DEF PoolInv
    <2>3. slot \in Nat /\ slot > 0 /\ slot - 1 \in Nat
      BY <1>5, RelevantSlot
    <2>4. /\ FirstOf(slot) = LastOf(slot - 1) + 1 /\ LastOf(slot - 1) \in Nat
          /\ FirstOf(slot) <= LastOf(slot)
      BY <2>3, SegmentBounds
    <2>5. PoolTypes' /\ RangeInv'
      BY <1>1, <1>5, <2>1, <2>4, RangeFrame DEF PoolInv, PoolTypes
    <2>6. CancelInv'
      BY <1>1, <1>5, <2>1, <2>2 DEF PoolInv, CancelInv
    <2>7. Reached' = LastOf(slot - 1) /\ Reached = LastOf(slot - 1)
      BY <1>1, <1>5, <2>4 DEF Reached
    <2>8. IsFilled(cache, Reached)'
      BY <1>1, <2>2, <2>7 DEF PoolInv, CommandInv
    <2>9. /\ \A s \in Relevant' : s < slot' => result'[s] = "ok"
          /\ slot' \in Relevant' /\ result'[slot'] = "ok"
      BY <1>1, <1>5, <2>1 DEF PoolInv, CommandInv
    <2>10. FirstOf(slot)' <= height' /\ height' <= LastOf(slot)'
      BY <1>1, <1>5, <2>4 DEF FirstOf, LastOf
    <2>11. CommandInv'
      BY <1>1, <1>5, <2>2, <2>8, <2>9, <2>10 DEF CommandInv
    <2>12. OutcomeInv'
      BY <1>1, <1>5, <2>2 DEF PoolInv, OutcomeInv
    <2>. QED
      BY <2>1, <2>5, <2>6, <2>11, <2>12 DEF PoolInv
  <1>. QED
    BY <1>2, <1>3, <1>4, <1>5 DEF Consume

(* Writing one more block and enforcing the limit leaves what one          *)
(* enforcement over all of them would: the files above the new one were    *)
(* there before and fit.                                                   *)
LEMMA FilledNext ==
    ASSUME InputInv, Fitted, NEW h \in Nat, h > 0
    PROVE  Filled(h) = IF h \in from .. to THEN enforceCacheLimit(Filled(h - 1) \cup {h})
                       ELSE Filled(h - 1)
  <1>0. from \in Nat /\ to \in Nat /\ h - 1 \in Nat
    BY DEF InputInv
  <1>1. CASE h \notin from .. to
    <2>1. Asked(h) = Asked(h - 1)
      BY <1>0, <1>1 DEF Asked
    <2>. QED
      BY <1>1, <2>1, FilledSame
  <1>2. CASE h \in from .. to
    <2>. DEFINE A == Asked(h - 1)
                S == before \cup A
    <2>1. Asked(h) = A \cup {h}
      BY <1>0, <1>2 DEF Asked
    <2>2. A \subseteq from .. to
      BY DEF Asked
    <2>3. IsFiniteSet(from .. to)
      BY <1>0, FS_Interval
    <2>4. IsFiniteSet(A) /\ A \subseteq Nat
      BY <1>0, <2>2, <2>3, FS_Subset
    <2>. HIDE DEF A
    <2>5. IsFiniteSet(S) /\ S \subseteq Nat
      BY <2>4, FS_Union, Zenon DEF InputInv
    <2>6. /\ Filled(h) = enforceCacheLimit(S \cup {h})
          /\ Filled(h - 1) = IF A = {} THEN before ELSE enforceCacheLimit(S)
      <3>1. before \cup (A \cup {h}) = S \cup {h} /\ A \cup {h} # {}
        OBVIOUS
      <3>. QED
        BY <2>1, <3>1 DEF Filled, A
    <2>7. CASE A = {}
      <3>1. S = before
        BY <2>7
      <3>. QED
        BY <1>2, <2>6, <2>7, <3>1
    <2>. HIDE DEF S
    <2>8. CASE A # {} /\ limit = 0
      BY <1>2, <2>6, <2>8 DEF enforceCacheLimit
    <2>9. CASE A # {} /\ limit # 0
      <3>1. limit \in Nat
        BY DEF InputInv
      <3>2. ASSUME NEW g \in S, g > h PROVE g \in Fitting(S)
        <4>1. From(S, g) \subseteq before
          <5>1. \A k \in A : k \in Nat /\ ~(k >= g)
            BY <1>0, <2>4, <2>5, <3>2 DEF A, Asked
          <5>. QED
            BY <5>1 DEF From, S
        <4>2. /\ TotalBytes(From(S, g)) \in Nat /\ TotalBytes(before) \in Nat
              /\ TotalBytes(From(S, g)) <= TotalBytes(before)
          BY <4>1, FewerBytes, Zenon DEF InputInv
        <4>3. TotalBytes(From(S, g)) <= limit
          BY <2>9, <3>1, <4>2 DEF Fitted
        <4>. QED
          BY <4>3, Zenon DEF Fitting
      <3>3. Fitting(Fitting(S) \cup {h}) = Fitting(S \cup {h})
        BY <2>5, <3>1, <3>2, FittingOfFitting, ZenonT(30)
      <3>. QED
        BY <1>2, <2>6, <2>9, <3>3 DEF enforceCacheLimit
    <2>. QED
      BY <2>7, <2>8, <2>9
  <1>. QED
    BY <1>1, <1>2

(* Writing block h and enforcing the limit fills the cache up to h.        *)
LEMMA IsFilledNext ==
    ASSUME InputInv, NEW h \in Nat, h > 0, NEW c, IsFilled(c, h - 1)
    PROVE  IsFilled(IF h \in from .. to THEN enforceCacheLimit(c \cup {h}) ELSE c, h)
  <1>0. from \in Nat /\ to \in Nat /\ limit \in Nat
    BY DEF InputInv
  <1>1. CASE h \notin from .. to
    <2>1. Asked(h) = Asked(h - 1)
      BY <1>0, <1>1 DEF Asked
    <2>. QED
      BY <1>1, <2>1, FilledSame
  <1>2. CASE h \in from .. to
    <2>. DEFINE d == enforceCacheLimit(c \cup {h})
    <2>1. c \cup {h} \subseteq Nat /\ IsFiniteSet(c \cup {h})
      BY FS_AddElement DEF IsFilled
    <2>2. /\ d \subseteq Nat /\ IsFiniteSet(d)
          /\ limit # 0 => TotalBytes(d) <= limit
      <3>1. CASE limit = 0
        BY <2>1, <3>1 DEF enforceCacheLimit
      <3>2. CASE limit # 0
        <4>1. d = Fitting(c \cup {h})
          BY <3>2 DEF enforceCacheLimit
        <4>2. /\ Fitting(c \cup {h}) \subseteq c \cup {h}
              /\ IsFiniteSet(Fitting(c \cup {h}))
              /\ TotalBytes(Fitting(c \cup {h})) <= limit
          BY <1>0, <2>1, FittingFits
        <4>. QED
          BY <2>1, <4>1, <4>2
      <3>. QED
        BY <3>1, <3>2
    <2>3. Fitted => d = Filled(h)
      <3>1. Fitted => Filled(h) = enforceCacheLimit(Filled(h - 1) \cup {h})
        BY <1>2, FilledNext
      <3>. QED
        BY <3>1 DEF IsFilled
    <2>. HIDE DEF d
    <2>4. IsFilled(d, h)
      BY <2>2, <2>3 DEF IsFilled
    <2>. QED
      BY <1>2, <2>4 DEF d
  <1>. QED
    BY <1>1, <1>2

(* WriteBlock.                                                             *)
LEMMA WriteBlockInv ==
    ASSUME PoolInv, WriteBlock
    PROVE  PoolInv'
  <1>1. /\ main = "write" /\ command = "hydrate"
        /\ UNCHANGED <<inputs, pool, ctxDone>>
    BY DEF WriteBlock, PoolInv, CommandInv
  <1>2. CASE ctxDone /\ Stop("cancelled") /\ UNCHANGED <<slot, height, cache>>
    BY <1>1, <1>2, StopInv
  <1>3. CASE Stop("bad") /\ UNCHANGED <<slot, height>>
    BY <1>1, <1>3, StopInv
  <1>4. CASE /\ cache' = IF height \in from .. to
                         THEN enforceCacheLimit(cache \cup {height}) ELSE cache
             /\ IF height = LastOf(slot)
                THEN main' = "consume" /\ slot' = slot + 1
                ELSE UNCHANGED <<main, slot>>
             /\ height' = height + 1
             /\ UNCHANGED <<cancelled, outcome>>
    <2>1. /\ InputInv' /\ Relevant' = Relevant /\ WorkerInv' /\ SlotInv'
          /\ UNCHANGED <<next, closed, job, work, result>>
      BY <1>1, <1>4, CommandSide DEF WorkerCtxDone
    <2>2. /\ command' = command /\ to' = to /\ \A c, r : IsFilled(c, r)' <=> IsFilled(c, r)
      BY <1>1, InputFrame DEF PoolInv
    <2>3. /\ slot \in Relevant /\ result[slot] = "ok"
          /\ FirstOf(slot) <= height /\ height <= LastOf(slot)
          /\ IsFilled(cache, height - 1)
      BY <1>1 DEF PoolInv, CommandInv, Reached
    <2>4. slot \in Nat /\ slot > 0 /\ slot - 1 \in Nat /\ slot + 1 <= Ended
      BY <2>3, RelevantSlot
    <2>5. /\ FirstOf(slot) = LastOf(slot - 1) + 1 /\ LastOf(slot - 1) \in Nat
          /\ LastOf(slot) \in Nat
      BY <2>4, SegmentBounds
    <2>6. height \in Nat /\ height > 0
      BY <2>3, <2>5 DEF PoolInv, PoolTypes
    <2>7. IsFilled(cache', height)
      BY <1>4, <2>3, <2>6, IsFilledNext DEF PoolInv
    <2>8. slot' \in Nat /\ slot <= slot' /\ slot' <= Ended
      BY <1>4, <2>4, PoolConstants
    <2>9. PoolTypes'
      BY <1>1, <1>4, <2>1, <2>6, <2>8 DEF PoolInv, PoolTypes
    <2>10. RangeInv'
      <3>1. PICK lo \in Relevant : /\ \A s \in Relevant : lo <= s
                                   /\ lo <= next /\ lo <= slot /\ next <= Ended
        BY DEF PoolInv, RangeInv
      <3>2. lo \in Nat /\ lo <= slot'
        BY <2>4, <2>8, <3>1, RelevantSlot
      <3>. QED
        BY <2>1, <2>8, <3>1, <3>2, Zenon DEF RangeInv
    <2>11. CancelInv'
      BY <1>1, <1>4, <2>1, <2>2 DEF PoolInv, CancelInv
    <2>12. Reached' = height
      <3>1. CASE height = LastOf(slot)
        <4>1. main' = "consume" /\ slot' - 1 = slot
          BY <1>4, <2>4, <3>1
        <4>. QED
          BY <3>1, <4>1 DEF Reached, LastOf
      <3>2. CASE height # LastOf(slot)
        BY <1>1, <1>4, <2>6, <3>2 DEF Reached
      <3>. QED
        BY <3>1, <3>2
    <2>13. \A s \in Relevant' : s < slot' => result'[s] = "ok"
      <3>1. \A s \in Relevant : s < slot' => s < slot \/ s = slot
        BY <1>4, <2>4, RelevantSlot
      <3>. QED
        BY <2>1, <2>3, <3>1 DEF PoolInv, CommandInv
    <2>14. main' = "write" => /\ slot' \in Relevant' /\ result'[slot'] = "ok"
                              /\ FirstOf(slot)' <= height' /\ height' <= LastOf(slot)'
      <3>1. SUFFICES ASSUME main' = "write"
                     PROVE  /\ slot' \in Relevant' /\ result'[slot'] = "ok"
                            /\ FirstOf(slot)' <= height' /\ height' <= LastOf(slot)'
        OBVIOUS
      <3>2. slot' = slot /\ height # LastOf(slot)
        BY <1>4, <3>1
      <3>3. FirstOf(slot)' = FirstOf(slot) /\ LastOf(slot)' = LastOf(slot)
        BY <3>2 DEF FirstOf, LastOf
      <3>4. FirstOf(slot) <= height + 1 /\ height + 1 <= LastOf(slot)
        BY <2>3, <2>5, <2>6, <3>2
      <3>. QED
        BY <1>4, <2>1, <2>3, <3>2, <3>3, <3>4
    <2>15. CommandInv'
      <3>1. main' \in {"write", "consume"}
        BY <1>1, <1>4
      <3>2. IsFilled(cache, Reached)'
        BY <2>2, <2>7, <2>12
      <3>. QED
        BY <1>1, <2>2, <2>13, <2>14, <3>1, <3>2 DEF CommandInv
    <2>16. OutcomeInv'
      <3>1. outcome # "ok"
        BY <1>1 DEF PoolInv, OutcomeInv
      <3>. QED
        BY <1>1, <1>4, <2>2, <3>1 DEF OutcomeInv
    <2>. QED
      BY <2>1, <2>9, <2>10, <2>11, <2>15, <2>16 DEF PoolInv
  <1>. QED
    BY <1>2, <1>3, <1>4 DEF WriteBlock

(* When the workers have returned and nothing but good results is there,   *)
(* every slot was handed out.                                              *)
LEMMA AllHandedOut ==
    ASSUME PoolInv, command = "verify", main = "wait",
           \A w \in Worker : job[w] = Ended, firstSegmentError = "ok"
    PROVE  \A s \in Relevant : result[s] = "ok"
  <1>1. /\ ~ctxDone
        /\ \A s \in Slot : result[s] # "bad" /\ result[s] # "cancelled"
    BY DEF firstSegmentError
  <1>2. ~cancelled
    BY <1>1 DEF PoolInv, CancelInv
  <1>3. closed /\ \A w \in Worker : work[w] = "idle"
    <2>1. closed
      BY PoolConstants DEF PoolInv, WorkerInv
    <2>2. \A w \in Worker : job[w] \notin Relevant
      BY RelevantSlot
    <2>. QED
      BY <2>1, <2>2 DEF PoolInv, WorkerInv
  <1>4. next \notin Relevant
    BY <1>1, <1>2, <1>3 DEF PoolInv, SlotInv, WorkerCtxDone
  <1>5. PICK lo \in Relevant : lo <= next /\ next <= Ended
    BY DEF PoolInv, RangeInv
  <1>6. \A s \in Relevant : s < next
    BY <1>4, <1>5, BeyondRange DEF PoolInv, PoolTypes
  <1>7. \A s \in Relevant : result[s] # "none"
    BY <1>3, <1>6 DEF PoolInv, SlotInv
  <1>. QED
    BY <1>1, <1>7, RelevantSlot DEF PoolInv, PoolTypes

(* CommandEnds.                                                            *)
LEMMA CommandEndsInv ==
    ASSUME PoolInv, CommandEnds
    PROVE  PoolInv'
  <1>1. /\ main = "wait" /\ main' = "done" /\ \A w \in Worker : job[w] = Ended
        /\ outcome' = IF command = "verify" THEN firstSegmentError ELSE outcome
        /\ UNCHANGED <<inputs, pool, cancelled, ctxDone, slot, height, cache>>
    BY DEF CommandEnds
  <1>2. /\ InputInv' /\ Relevant' = Relevant /\ WorkerInv' /\ SlotInv'
        /\ UNCHANGED <<next, closed, job, work, result>>
    BY <1>1, CommandSide DEF WorkerCtxDone
  <1>3. /\ command' = command /\ to' = to /\ \A c, r : IsFilled(c, r)' <=> IsFilled(c, r)
    BY <1>1, InputFrame DEF PoolInv
  <1>4. outcome' \in {"none", "ok", "bad", "cancelled"}
    BY <1>1 DEF PoolInv, PoolTypes, firstSegmentError
  <1>5. PoolTypes' /\ RangeInv'
    BY <1>1, <1>2, <1>4, RangeFrame DEF PoolInv, PoolTypes
  <1>6. CancelInv'
    BY <1>1, <1>2, <1>3 DEF PoolInv, CancelInv
  <1>7. CommandInv'
    BY <1>1, <1>2, <1>3 DEF PoolInv, CommandInv
  <1>8. OutcomeInv'
    <2>1. CASE command = "verify"
      <3>1. outcome' = "ok" => \A s \in Relevant : result[s] = "ok"
        BY <1>1, <2>1, AllHandedOut
      <3>2. outcome' = "cancelled" => ctxDone
        BY <1>1, <2>1 DEF firstSegmentError, PoolInv, CancelInv
      <3>. QED
        BY <1>1, <1>2, <1>3, <2>1, <3>1, <3>2 DEF OutcomeInv
    <2>2. CASE command # "verify"
      BY <1>1, <1>2, <1>3, <2>2 DEF PoolInv, OutcomeInv
    <2>. QED
      BY <2>1, <2>2
  <1>. QED
    BY <1>2, <1>5, <1>6, <1>7, <1>8 DEF PoolInv

(* ContextEnds.                                                            *)
LEMMA ContextEndsInv ==
    ASSUME PoolInv, ContextEnds
    PROVE  PoolInv'
  <1>1. /\ ctxDone' = TRUE
        /\ UNCHANGED <<inputs, pool, cancelled, main, slot, height, cache, outcome>>
    BY DEF ContextEnds
  <1>2. /\ InputInv' /\ Relevant' = Relevant /\ WorkerInv' /\ SlotInv'
        /\ UNCHANGED <<next, closed, job, work, result>>
    BY <1>1, CommandSide DEF WorkerCtxDone
  <1>3. /\ command' = command /\ to' = to /\ \A c, r : IsFilled(c, r)' <=> IsFilled(c, r)
    BY <1>1, InputFrame DEF PoolInv
  <1>4. PoolTypes' /\ RangeInv'
    BY <1>1, <1>2, RangeFrame DEF PoolInv, PoolTypes
  <1>5. CancelInv'
    BY <1>1 DEF CancelInv
  <1>6. Reached' = Reached
    BY <1>1 DEF Reached
  <1>7. CommandInv'
    BY <1>1, <1>2, <1>3, <1>6 DEF PoolInv, CommandInv
  <1>8. OutcomeInv'
    BY <1>1, <1>2, <1>3 DEF PoolInv, OutcomeInv
  <1>. QED
    BY <1>2, <1>4, <1>5, <1>7, <1>8 DEF PoolInv

----------------------------------------------------------------------------
(* The command has not begun: no slot is handed out, the cache is as found. *)
LEMMA PoolInitInv ==
    ASSUME PoolInit
    PROVE  PoolInv
  <1>1. InputInv
    <2>1. command \in {"verify", "hydrate"} /\ intact \subseteq Slot
      BY PoolAssumption DEF PoolInit
    <2>2. CASE command = "verify"
      <3>1. from = 1 /\ to = Segments * SegmentSize /\ limit = 0 /\ before = {}
        BY <2>2 DEF PoolInit
      <3>2. to = LastOf(Segments) /\ LastOf(Segments) >= FirstOf(Segments)
        BY <3>1, SegmentBounds, PoolConstants
      <3>3. to \in Nat /\ 1 <= to
        <4>1. Segments - 1 \in Nat /\ FirstOf(Segments) = LastOf(Segments - 1) + 1
          BY SegmentBounds, PoolConstants
        <4>. QED
          BY <3>2, <4>1, SegmentBounds, PoolConstants
      <3>. QED
        BY <2>1, <3>1, <3>3, FS_EmptySet DEF InputInv
    <2>3. CASE command # "verify"
      <3>1. PICK r \in Hydrations :
               from = r.from /\ to = r.to /\ limit = r.limit /\ before = r.cache
        BY <2>3 DEF PoolInit
      <3>2. /\ from \in 1 .. Segments * SegmentSize
            /\ to \in from .. Segments * SegmentSize
            /\ limit \in Nat /\ before \subseteq Nat /\ IsFiniteSet(before)
        BY <3>1, PoolAssumption
      <3>3. Segments * SegmentSize \in Nat
        BY PoolConstants
      <3>. QED
        BY <2>1, <3>2, <3>3 DEF InputInv
    <2>. QED
      BY <2>2, <2>3
  <1>. DEFINE lo == Min(Relevant)
  <1>2. /\ lo \in Relevant /\ \A s \in Relevant : lo <= s
        /\ LastOf(lo - 1) < from
    BY <1>1, FirstRelevant
  <1>3. /\ next = lo /\ slot = lo /\ closed = FALSE
        /\ job = [w \in Worker |-> 0] /\ work = [w \in Worker |-> "idle"]
        /\ result = [s \in Slot |-> "none"]
        /\ cancelled = FALSE /\ ctxDone = FALSE /\ main = "idle" /\ height = 0
        /\ cache = before /\ outcome = "none"
    BY DEF PoolInit
  <1>. HIDE DEF lo
  <1>4. lo \in Nat /\ lo > 0 /\ lo <= Ended /\ lo - 1 \in Nat
    BY <1>2, RelevantSlot, PoolConstants
  <1>5. PoolTypes
    BY <1>3, <1>4, Zenon DEF PoolTypes
  <1>6. RangeInv
    BY <1>2, <1>3, <1>4 DEF RangeInv
  <1>7. WorkerInv
    BY <1>3, PoolConstants DEF WorkerInv
  <1>8. SlotInv
    <2>1. \A s \in Relevant : ~(s < next) /\ s \in Slot
      BY <1>2, <1>3, <1>4, RelevantSlot
    <2>. QED
      BY <1>3, <2>1 DEF SlotInv
  <1>9. CancelInv
    BY <1>3 DEF CancelInv
  <1>10. CommandInv
    <2>1. \A s \in Relevant : ~(s < slot)
      BY <1>2, <1>3, <1>4, RelevantSlot
    <2>2. Reached = LastOf(lo - 1)
      BY <1>3 DEF Reached
    <2>3. LastOf(lo - 1) \in Nat
      BY <1>4, SegmentBounds
    <2>4. Asked(LastOf(lo - 1)) = {}
      BY <1>1, <1>2, <2>3 DEF Asked, InputInv
    <2>5. IsFilled(cache, Reached)
      BY <1>1, <1>3, <2>2, <2>4 DEF IsFilled, Filled, InputInv
    <2>. QED
      BY <1>3, <2>1, <2>5 DEF CommandInv
  <1>11. OutcomeInv
    BY <1>3 DEF OutcomeInv
  <1>. QED
    BY <1>1, <1>5, <1>6, <1>7, <1>8, <1>9, <1>10, <1>11 DEF PoolInv

(* Every step keeps PoolInv.                                               *)
LEMMA PoolNextInv ==
    ASSUME PoolInv, [PoolNext]_poolVars
    PROVE  PoolInv'
  <1>1. CASE Begin
    BY <1>1, BeginInv
  <1>2. ASSUME NEW w \in Worker, Submit(w) PROVE PoolInv'
    BY <1>2, SubmitInv
  <1>3. CASE CloseJobs
    BY <1>3, CloseJobsInv
  <1>4. CASE Consume
    BY <1>4, ConsumeInv
  <1>5. CASE WriteBlock
    BY <1>5, WriteBlockInv
  <1>6. CASE CommandEnds
    BY <1>6, CommandEndsInv
  <1>7. CASE ContextEnds
    BY <1>7, ContextEndsInv
  <1>8. ASSUME NEW w \in Worker, CheckContext(w) PROVE PoolInv'
    BY <1>8, CheckContextInv
  <1>9. ASSUME NEW w \in Worker, Finish(w) PROVE PoolInv'
    BY <1>9, FinishInv
  <1>10. ASSUME NEW w \in Worker, Cancel(w) PROVE PoolInv'
    BY <1>10, WorkerCancelInv
  <1>11. ASSUME NEW w \in Worker, End(w) PROVE PoolInv'
    BY <1>11, EndInv
  <1>12. CASE UNCHANGED poolVars
    <2>1. UNCHANGED <<inputs, pool, cancelled, ctxDone, main, slot, height, cache,
                      outcome>>
      BY <1>12 DEF poolVars
    <2>2. /\ InputInv' /\ Relevant' = Relevant /\ WorkerInv' /\ SlotInv'
          /\ UNCHANGED <<next, closed, job, work, result>>
      BY <2>1, CommandSide DEF WorkerCtxDone
    <2>3. CommandInv' /\ OutcomeInv'
      BY <2>1, <2>2, WorkerSide
    <2>4. PoolTypes' /\ RangeInv'
      BY <2>1, <2>2, RangeFrame DEF PoolInv, PoolTypes
    <2>5. CancelInv'
      BY <2>1, <2>2, InputFrame DEF PoolInv, CancelInv
    <2>. QED
      BY <2>2, <2>3, <2>4, <2>5 DEF PoolInv
  <1>. QED
    BY <1>1, <1>2, <1>3, <1>4, <1>5, <1>6, <1>7, <1>8, <1>9, <1>10, <1>11, <1>12
       DEF PoolNext, SubmitStep, CommandStep, WorkerStep

(* PoolInv holds throughout, for any number of workers, segments and       *)
(* blocks, whatever fails and whenever the context ends.                   *)
THEOREM PoolInvariance == PoolSpec => []PoolInv
  <1>1. PoolInit => PoolInv
    BY PoolInitInv
  <1>2. PoolInv /\ [PoolNext]_poolVars => PoolInv'
    BY PoolNextInv
  <1>. QED
    BY <1>1, <1>2, PTL DEF PoolSpec

(* verifySegments and Hydrate report success only after every segment of   *)
(* the range was read intact; a verification is reported as cancelled only *)
(* when the caller's context ended.                                        *)
THEOREM PoolNoFalseSuccess == PoolSpec => []NoFalseSuccess
  <1>1. PoolInv => NoFalseSuccess
    <2>1. SUFFICES ASSUME PoolInv, main = "done"
                   PROVE  /\ outcome = "ok" =>
                                \A s \in Relevant : s \in intact /\ result[s] = "ok"
                          /\ command = "verify" /\ outcome = "cancelled" => ctxDone
      BY DEF NoFalseSuccess
    <2>. QED
      BY <2>1, RelevantSlot DEF PoolInv, OutcomeInv, SlotInv
  <1>. QED
    BY <1>1, PoolInvariance, PTL

(* After a hydration that succeeded the cache is within its limit, and if  *)
(* it was before, it holds the newest blocks that fit, for files of any    *)
(* sizes, although enforceCacheLimit ran after every single write.         *)
THEOREM PoolCacheIsNewest == PoolSpec => []CacheIsNewest
  <1>1. PoolInv => CacheIsNewest
    <2>. DEFINE all == before \cup from .. to
    <2>1. SUFFICES ASSUME PoolInv, main = "done", command = "hydrate", outcome = "ok"
                   PROVE  /\ limit # 0 => TotalBytes(cache) <= limit
                          /\ limit = 0 => cache = all
                          /\ limit # 0 /\ TotalBytes(before) <= limit =>
                                cache = {h \in all : TotalBytes(From(all, h)) <= limit}
      BY DEF CacheIsNewest
    <2>2. IsFilled(cache, to)
      BY <2>1 DEF PoolInv, OutcomeInv
    <2>3. Asked(to) = from .. to /\ from .. to # {}
      BY <2>1 DEF Asked, PoolInv, InputInv
    <2>4. limit # 0 => TotalBytes(cache) <= limit
      BY <2>2, <2>3 DEF IsFilled
    <2>5. Fitted => cache = enforceCacheLimit(all)
      BY <2>2, <2>3 DEF IsFilled, Filled
    <2>. HIDE DEF all
    <2>6. limit = 0 => cache = all
      BY <2>5 DEF Fitted, enforceCacheLimit
    <2>7. limit # 0 /\ TotalBytes(before) <= limit =>
              cache = {h \in all : TotalBytes(From(all, h)) <= limit}
      BY <2>5 DEF Fitted, enforceCacheLimit, Fitting
    <2>. QED
      BY <2>4, <2>6, <2>7
  <1>. QED
    BY <1>1, PoolInvariance, PTL

============================================================================
