-------------------------- MODULE ColdServeProofs --------------------------
(***************************************************************************)
(* Proofs about ColdServe for any number of workers, refreshes, clients,   *)
(* slots and heights.                                                      *)
(*                                                                         *)
(* What a goroutine reads under the lock is old when it is used.  ServeInv *)
(* says what stays true of it: a manifest read earlier names segments of   *)
(* the chain within the range of the published one, a segment chosen       *)
(* from it covers the height that is wanted, and two reads of one segment  *)
(* never go on at once.                                                    *)
(***************************************************************************)
EXTENDS ColdServe, FiniteSetTheorems, SequenceTheorems, TLAPS

(* Every segment anyone archives is cut from the one chain.                *)
SourceSegments == {SegmentOf(f, l, MainChain) : f, l \in Heights}

(* A manifest that was published once, none, or a failed load.             *)
Past(m) ==
    /\ m.revision \in Int
    /\ m.segments \subseteq SourceSegments
    /\ m.revision > 0 => /\ m.first \in Int /\ m.last \in Int
                         /\ manifest.first <= m.first
                         /\ 1 <= m.last /\ m.last <= manifest.last

ArchiveInv ==
    /\ IsManifest(manifest) /\ Validate(manifest)
    /\ manifest.segments \subseteq SourceSegments
    /\ manifest.revision > 0 => manifest.segments # {}

(* What is advertised of the archive is within the published range.        *)
ReactorInv ==
    /\ hot = [base |-> hot.base, height |-> hot.height]
    /\ hot.base \in 0 .. MaxHeight /\ hot.height \in 0 .. MaxHeight
    /\ coldWork \in Seq(Heights)
    /\ cachedRange.base \in Int /\ cachedRange.height \in Int
    /\ cachedRange.height > 0 =>
          /\ manifest.first <= cachedRange.base
          /\ cachedRange.height <= manifest.last

Entries == {[key |-> g, records |-> g.blocks] : g \in SourceSegments}

CacheInv == Past(cached) /\ segmentLRU \in Seq(Entries)

Labels == HoldsSlot \cup {"idle", "manifest", "mRead", "mDone", "mWait", "use",
                          "segment", "sWait", "slotWait", "send", "noBlock"}

ThreadInv ==
    /\ step \in [Thread -> Labels]
    /\ want \in [Thread -> 0 .. MaxHeight]
    /\ phase = [t \in Thread |-> phase[t]]
    /\ loaded = [t \in Thread |-> loaded[t]]
    /\ target = [t \in Thread |-> target[t]]
    /\ records = [t \in Thread |-> records[t]]
    /\ \A t \in Thread : Past(loaded[t])

(* From the choice of the segment on it covers the height that is wanted.  *)
Chosen == {"segment", "sWait", "sRead", "slotWait", "slotTaken", "releaseSend",
           "send"}

TargetInv ==
    \A t \in Thread :
        /\ step[t] \in Chosen =>
              target[t] \in SourceSegments /\ Covers(target[t], want[t])
        /\ step[t] \in {"send", "releaseSend"} => records[t] = target[t].blocks

NotCached(s) == \A i \in 1 .. Len(segmentLRU) : segmentLRU[i].key # s

FlightInv ==
    \A t \in Thread : step[t] = "sRead" =>
        /\ NotCached(target[t])
        /\ \A u \in Thread : step[u] = "sRead" /\ target[u] = target[t] => u = t

Holders == {t \in Thread : step[t] \in HoldsSlot}

SlotInv == fetchSlots = Cardinality(Holders)

ServeInv ==
    /\ ArchiveInv /\ ReactorInv /\ CacheInv /\ ThreadInv
    /\ TargetInv /\ FlightInv /\ SlotInv

----------------------------------------------------------------------------
(* Numbers, segments and sequences.                                        *)

(* What the assumptions say of heights and goroutines.                     *)
LEMMA ServeFacts ==
    /\ MaxHeight \in Nat /\ Heights = 1 .. MaxHeight
    /\ NoBlock \notin Block /\ IsFiniteSet(Thread)
    /\ \A h \in Heights : MainChain[h] \in Block /\ MainChain[h] # NoBlock
                          /\ HeightOf[MainChain[h]] = h
  BY ChainAssumption, ServeAssumption DEF Heights, Thread

(* A segment of the chain holds the chain's block at every height it covers.*)
LEMMA SourceBlocks ==
    ASSUME NEW g \in SourceSegments, NEW h \in 0 .. MaxHeight, Covers(g, h)
    PROVE  /\ g.first \in Heights /\ g.last \in Heights /\ h \in Heights
           /\ g.first <= g.last
           /\ g.blocks[h] = MainChain[h]
  <1>1. PICK f \in Heights, l \in Heights :
           g = [first |-> f, last |-> l,
                blocks |-> [k \in f .. l |-> MainChain[k]]]
    BY DEF SourceSegments, SegmentOf
  <1>2. f <= h /\ h <= l /\ f \in 1 .. MaxHeight /\ l \in 1 .. MaxHeight
    BY <1>1, ServeFacts DEF Covers
  <1>3. h \in f .. l
    BY <1>2, ServeFacts
  <1> QED  BY <1>1, <1>2, <1>3, ServeFacts

(* A segment cut from the chain is well formed.                            *)
LEMMA SourceSegment ==
    ASSUME NEW f \in Heights, NEW l \in Heights, f <= l
    PROVE  LET g == SegmentOf(f, l, MainChain)
           IN  /\ g \in SourceSegments /\ IsSegment(g)
               /\ g.first = f /\ g.last = l
  <1>1. SegmentOf(f, l, MainChain) \in SourceSegments
    BY DEF SourceSegments
  <1>2. \A h \in f .. l : h \in Heights
    BY ServeFacts
  <1> QED  BY <1>1, <1>2, ServeFacts DEF SegmentOf, IsSegment

(* A bounded set of natural numbers that is not empty has its maximum.     *)
LEMMA MaxBounded ==
    ASSUME NEW n \in Nat, NEW S \in SUBSET (0 .. n), S # {}
    PROVE  Max(S) \in S
  <1> DEFINE T == {n - k : k \in S}
             R == OpToRel(<, Nat)
  <1>1. T \subseteq Nat /\ T # {}
    <2>1. \A k \in S : k \in 0 .. n /\ n - k \in Nat
      OBVIOUS
    <2>2. PICK k : k \in S
      OBVIOUS
    <2>3. n - k \in T
      BY <2>2
    <2> QED  BY <2>1, <2>3
  <1>2. PICK x \in T : \A y \in T : ~(<<y, x>> \in R)
    BY <1>1, WFMin, NatLessThanWellFounded, Zenon
  <1>3. \A y \in T : x <= y
    <2>1. ASSUME NEW y \in T, y < x PROVE FALSE
      <3>1. <<y, x>> \in Nat \X Nat /\ <<y, x>>[1] < <<y, x>>[2]
        BY <1>1, <1>2, <2>1, Zenon
      <3>2. <<y, x>> \in R
        BY <3>1 DEF OpToRel
      <3> QED  BY <1>2, <3>2, Zenon
    <2> HIDE DEF T
    <2> QED  BY <1>1, <2>1
  <1>4. PICK k \in S : x = n - k
    OBVIOUS
  <1>5. ASSUME NEW j \in S PROVE k >= j
    <2>1. n - j \in T /\ j \in Int /\ k \in Int
      OBVIOUS
    <2>2. n - k <= n - j
      BY <1>3, <1>4, <2>1, Zenon
    <2> QED  BY <2>1, <2>2
  <1> QED  BY <1>5, Zenon DEF Max

(* The entries after a hit are the entries before it.                      *)
LEMMA MovedEntries ==
    ASSUME segmentLRU \in Seq(Entries), NEW i \in 1 .. Len(segmentLRU)
    PROVE  /\ MoveToFront(i) \in Seq(Entries)
           /\ \A s : NotCached(s) =>
                 \A j \in 1 .. Len(MoveToFront(i)) : MoveToFront(i)[j].key # s
  <1> DEFINE L == segmentLRU
             a == <<L[i]>>
             b == SubSeq(L, 1, i - 1)
             c == SubSeq(L, i + 1, Len(L))
             K(s) == {e \in Entries : e.key # s}
  <1>1. Len(L) \in Nat /\ \A j \in 1 .. Len(L) : L[j] \in Entries
    BY ElementOfSeq, LenProperties
  <1>2. ASSUME NEW S, \A j \in 1 .. Len(L) : L[j] \in S
        PROVE  MoveToFront(i) \in Seq(S)
    <2>1. a \in Seq(S)
      BY <1>2
    <2>2. b \in Seq(S)
      BY <1>1, <1>2, SubSeqProperties
    <2>3. c \in Seq(S)
      BY <1>1, <1>2, SubSeqProperties
    <2> QED  BY <2>1, <2>2, <2>3, ConcatProperties DEF MoveToFront
  <1>3. MoveToFront(i) \in Seq(Entries)
    BY <1>1, <1>2
  <1>4. ASSUME NEW s, NotCached(s)
        PROVE  \A j \in 1 .. Len(MoveToFront(i)) : MoveToFront(i)[j].key # s
    <2>1. \A j \in 1 .. Len(L) : L[j] \in K(s)
      BY <1>1, <1>4 DEF NotCached
    <2>2. MoveToFront(i) \in Seq(K(s))
      BY <1>2, <2>1
    <2>3. \A j \in 1 .. Len(MoveToFront(i)) : MoveToFront(i)[j] \in K(s)
      BY <2>2, ElementOfSeq
    <2> QED  BY <2>3
  <1> QED  BY <1>3, <1>4

(* Caching a segment adds its entry and may evict others.                  *)
LEMMA CachedEntries ==
    ASSUME segmentLRU \in Seq(Entries), NEW g \in SourceSegments
    PROVE  /\ CacheSegment(g) \in Seq(Entries)
           /\ \A s : s # g /\ NotCached(s) =>
                 \A j \in 1 .. Len(CacheSegment(g)) : CacheSegment(g)[j].key # s
  <1> DEFINE L == segmentLRU
             entry == <<[key |-> DescriptorKey(g), records |-> g.blocks]>>
             fitting == {k \in 0 .. Len(L) :
                            Size(entry \o SubSeq(L, 1, k)) <= CacheBlocks}
             K(s) == {e \in Entries : e.key # s}
  <1>1. Len(L) \in Nat /\ \A j \in 1 .. Len(L) : L[j] \in Entries
    BY ElementOfSeq, LenProperties
  <1>2. CacheSegment(g) =
           IF fitting = {} THEN L ELSE entry \o SubSeq(L, 1, Max(fitting))
    BY DEF CacheSegment
  <1>3. fitting # {} => Max(fitting) \in 0 .. Len(L)
    <2>1. fitting \in SUBSET (0 .. Len(L))
      OBVIOUS
    <2> HIDE DEF fitting
    <2> QED  BY <1>1, <2>1, MaxBounded, Zenon
  <1> DEFINE top == Max(fitting)
  <1> HIDE DEF fitting, top
  <1>4. ASSUME NEW S, \A j \in 1 .. Len(L) : L[j] \in S,
               [key |-> g, records |-> g.blocks] \in S
        PROVE  CacheSegment(g) \in Seq(S)
    <2>1. L \in Seq(S)
      BY <1>4, <1>1, SubSeqProperties, IsASeq
    <2>2. entry \in Seq(S)
      BY <1>4 DEF DescriptorKey
    <2>3. fitting # {} => SubSeq(L, 1, top) \in Seq(S)
      BY <1>1, <1>3, <1>4, SubSeqProperties DEF top
    <2> QED  BY <1>2, <2>1, <2>2, <2>3, ConcatProperties DEF top
  <1>5. CacheSegment(g) \in Seq(Entries)
    BY <1>1, <1>4 DEF Entries
  <1>6. ASSUME NEW s, s # g, NotCached(s)
        PROVE  \A j \in 1 .. Len(CacheSegment(g)) : CacheSegment(g)[j].key # s
    <2>1. \A j \in 1 .. Len(L) : L[j] \in K(s)
      BY <1>1, <1>6 DEF NotCached
    <2>2. [key |-> g, records |-> g.blocks] \in K(s)
      BY <1>6 DEF Entries
    <2>3. CacheSegment(g) \in Seq(K(s))
      BY <1>4, <2>1, <2>2
    <2>4. \A j \in 1 .. Len(CacheSegment(g)) : CacheSegment(g)[j] \in K(s)
      BY <2>3, ElementOfSeq
    <2> QED  BY <2>4
  <1> QED  BY <1>5, <1>6

----------------------------------------------------------------------------
(* Initially nothing is archived, cached or under way.                     *)
LEMMA ServeInitInv == ServeInit => ServeInv
  <1> SUFFICES ASSUME ServeInit PROVE ServeInv
    OBVIOUS
  <1>1. ArchiveInv
    BY ServeFacts DEF ServeInit, ArchiveInv, EmptyManifest, IsManifest, Validate
  <1>2. ReactorInv
    BY ServeFacts, EmptySeq DEF ServeInit, ReactorInv, NoRange
  <1>3. Past(EmptyManifest)
    BY DEF Past, EmptyManifest
  <1>4. CacheInv
    BY <1>3, EmptySeq DEF ServeInit, CacheInv
  <1>5. ThreadInv
    BY <1>3, ServeFacts DEF ServeInit, ThreadInv, Labels, NoRequest
  <1>6. TargetInv /\ FlightInv
    BY DEF ServeInit, TargetInv, FlightInv, Chosen
  <1>7. SlotInv
    <2>1. Holders = {}
      BY DEF ServeInit, Holders, HoldsSlot
    <2> QED  BY <2>1, FS_EmptySet DEF ServeInit, SlotInv
  <1> QED  BY <1>1, <1>2, <1>4, <1>5, <1>6, <1>7 DEF ServeInv

----------------------------------------------------------------------------
(* The archiving side: what was read of the archive stays within it.       *)

(* When only the archive and the hot store change, and the archive still   *)
(* holds what it held, what was read of it before stays true.              *)
LEMMA ArchiveChanges ==
    ASSUME ServeInv, ArchiveInv', manifest.last <= manifest'.last,
           manifest.last > 0 => manifest'.first = manifest.first,
           hot' = [base |-> hot'.base, height |-> hot'.height],
           hot'.base \in 0 .. MaxHeight, hot'.height \in 0 .. MaxHeight,
           UNCHANGED <<reactorVars, sourceVars, threadVars>>
    PROVE  ServeInv'
  <1> USE DEF reactorVars, sourceVars, threadVars, loadVars
  <1>1. /\ manifest.last \in Int /\ manifest'.last \in Int
        /\ manifest.first \in Int /\ manifest'.first \in Int
    BY ServeFacts DEF ServeInv, ArchiveInv, IsManifest
  <1>2. ASSUME NEW m, Past(m) PROVE Past(m)'
    BY <1>1, <1>2 DEF Past
  <1>3. ReactorInv'
    BY <1>1 DEF ServeInv, ReactorInv
  <1>4. CacheInv'
    BY <1>2 DEF ServeInv, CacheInv, Past
  <1>5. ThreadInv'
    <2>1. \A t \in Thread : Past(loaded[t])'
      BY <1>2 DEF ServeInv, ThreadInv, Past
    <2> QED  BY <2>1 DEF ServeInv, ThreadInv
  <1>6. TargetInv' /\ FlightInv' /\ SlotInv'
    BY DEF ServeInv, TargetInv, FlightInv, NotCached, SlotInv, Holders
  <1> QED  BY <1>3, <1>4, <1>5, <1>6 DEF ServeInv

(* A segment that continues a valid manifest keeps it valid.               *)
LEMMA AppendValid ==
    ASSUME NEW M, IsManifest(M), Validate(M), NEW g, IsSegment(g), CanAppend(M, g)
    PROVE  LET a == WithRevision(AppendSegmentInPlace(M, g), M.revision + 1)
           IN  /\ IsManifest(a) /\ Validate(a)
               /\ a.revision = M.revision + 1
               /\ a.segments = M.segments \cup {g}
               /\ a.first = IF M.segments = {} THEN g.first ELSE M.first
               /\ a.last = g.last
  <1> DEFINE a == WithRevision(AppendSegmentInPlace(M, g), M.revision + 1)
  <1>1. a = [revision |-> M.revision + 1,
             first |-> IF M.segments = {} THEN g.first ELSE M.first,
             last |-> g.last, segments |-> M.segments \cup {g}]
    BY DEF WithRevision, AppendSegmentInPlace
  <1> HIDE DEF a
  <1>2. /\ g.first \in 1 .. MaxHeight /\ g.last \in 1 .. MaxHeight
        /\ g.first <= g.last /\ MaxHeight \in Nat
        /\ M.first \in 0 .. MaxHeight /\ M.last \in 0 .. MaxHeight
        /\ M.revision \in Nat
        /\ \A s \in M.segments :
              /\ s.first \in 1 .. MaxHeight /\ s.last \in 1 .. MaxHeight
              /\ s.first <= s.last
    BY ServeFacts DEF IsSegment, IsManifest
  <1>3. IsManifest(a)
    BY <1>1, <1>2 DEF IsManifest
  <1>4. CASE M.segments = {}
    <2>1. a.segments = {g} /\ a.first = g.first /\ a.last = g.last
      BY <1>1, <1>4
    <2>2. Validate(a)
      BY <1>2, <2>1 DEF Validate, Covers
    <2> QED  BY <1>1, <1>3, <2>2 DEF a
  <1>5. CASE M.segments # {}
    <2>1. /\ a.segments = M.segments \cup {g} /\ a.first = M.first
          /\ a.last = g.last /\ g.first = M.last + 1
      BY <1>1, <1>5 DEF CanAppend
    <2>2. /\ 0 < M.first /\ M.first <= M.last
          /\ \A s \in M.segments : M.first <= s.first /\ s.last <= M.last
          /\ \A h \in M.first .. M.last : \E s \in M.segments : Covers(s, h)
          /\ \A s, t \in M.segments :
                (\E h \in Heights : Covers(s, h) /\ Covers(t, h)) => s = t
      BY <1>5 DEF Validate
    <2>3. \A s \in a.segments : a.first <= s.first /\ s.last <= a.last
      BY <1>2, <2>1, <2>2
    <2>4. \A h \in a.first .. a.last : \E s \in a.segments : Covers(s, h)
      BY <1>2, <2>1, <2>2 DEF Covers
    <2>5. \A s, t \in a.segments :
             (\E h \in Heights : Covers(s, h) /\ Covers(t, h)) => s = t
      <3>1. \A s \in M.segments, h \in Heights : ~(Covers(s, h) /\ Covers(g, h))
        BY <1>2, <2>1, <2>2, ServeFacts DEF Covers
      <3> QED  BY <2>1, <2>2, <3>1
    <2>6. 0 < a.first /\ a.first <= a.last /\ a.segments # {}
      BY <1>2, <2>1, <2>2
    <2>7. Validate(a)
      BY <2>3, <2>4, <2>5, <2>6 DEF Validate
    <2> QED  BY <1>1, <1>3, <2>7 DEF a
  <1> QED  BY <1>4, <1>5

(* This peer or another one extends the archive.                           *)
LEMMA ArchiveGrowsInv ==
    ASSUME ServeInv, ArchiveGrows
    PROVE  ServeInv'
  <1>1. PICK first \in IF manifest.segments = {} THEN Starts
                       ELSE {manifest.last + 1} \cap Heights,
             last \in Nat :
           /\ first <= last /\ last <= MaxHeight
           /\ manifest' = WithRevision(
                 AppendSegmentInPlace(manifest, SegmentOf(first, last, MainChain)),
                 manifest.revision + 1)
    <2>1. Starts \subseteq Heights
      BY ServeAssumption
    <2> QED  BY <2>1, ServeFacts DEF ArchiveGrows
  <1> DEFINE g == SegmentOf(first, last, MainChain)
  <1>2. IsManifest(manifest) /\ Validate(manifest)
        /\ manifest.segments \subseteq SourceSegments
    BY DEF ServeInv, ArchiveInv
  <1>3. /\ manifest.last \in 0 .. MaxHeight
        /\ first \in Heights /\ last \in Heights /\ first <= last
        /\ IF manifest.segments = {} THEN manifest.last = 0
           ELSE first = manifest.last + 1
    BY <1>1, <1>2, ServeFacts, ServeAssumption DEF IsManifest, Validate
  <1>4. g \in SourceSegments /\ IsSegment(g) /\ g.first = first /\ g.last = last
    BY <1>3, SourceSegment
  <1>5. manifest' = WithRevision(AppendSegmentInPlace(manifest, g),
                                 manifest.revision + 1)
    BY <1>1
  <1> HIDE DEF g
  <1>6. /\ IsManifest(manifest') /\ Validate(manifest')
        /\ manifest'.segments = manifest.segments \cup {g}
        /\ manifest'.first = IF manifest.segments = {} THEN g.first
                             ELSE manifest.first
        /\ manifest'.last = last
    BY <1>2, <1>3, <1>4, <1>5, AppendValid DEF CanAppend
  <1>7. /\ manifest.last <= manifest'.last
        /\ manifest.last > 0 => manifest'.first = manifest.first
    BY <1>3, <1>6, ServeFacts
  <1>8. ArchiveInv'
    BY <1>2, <1>4, <1>6 DEF ArchiveInv
  <1> QED  BY <1>7, <1>8, ArchiveChanges, ServeFacts
              DEF ArchiveGrows, ServeInv, ReactorInv

(* A migration publishes the same range again in other segments.           *)
LEMMA ResegmentedInv ==
    ASSUME ServeInv, Resegmented
    PROVE  ServeInv'
  <1> DEFINE S == {SegmentOf(h, h, MainChain) :
                      h \in manifest.first .. manifest.last}
  <1>1. /\ manifest' = [revision |-> manifest.revision + 1,
                        first |-> manifest.first, last |-> manifest.last,
                        segments |-> S]
        /\ manifest.first < manifest.last
    BY DEF Resegmented
  <1>2. /\ manifest.first \in 0 .. MaxHeight /\ manifest.last \in 0 .. MaxHeight
        /\ manifest.revision \in Nat /\ Validate(manifest)
    BY DEF ServeInv, ArchiveInv, IsManifest
  <1>3. manifest.first \in 1 .. MaxHeight /\ manifest.last \in 1 .. MaxHeight
    BY <1>1, <1>2, ServeFacts DEF Validate, ServeInv, ArchiveInv
  <1>4. ASSUME NEW h \in manifest.first .. manifest.last
        PROVE  LET g == SegmentOf(h, h, MainChain)
               IN  /\ g \in S /\ g \in SourceSegments /\ IsSegment(g)
                   /\ g.first = h /\ g.last = h
    BY <1>3, SourceSegment, ServeFacts
  <1>5. \A g \in S : \E h \in manifest.first .. manifest.last :
           g = SegmentOf(h, h, MainChain)
    OBVIOUS
  <1> HIDE DEF S
  <1>6. \A g \in S : /\ g \in SourceSegments /\ IsSegment(g) /\ g.first = g.last
                     /\ g.first \in manifest.first .. manifest.last
                     /\ g = SegmentOf(g.first, g.first, MainChain)
    BY <1>4, <1>5
  <1>7. \A h \in manifest.first .. manifest.last : \E g \in S : Covers(g, h)
    BY <1>3, <1>4, ServeFacts DEF Covers
  <1>8. S # {}
    BY <1>1, <1>3, <1>7, ServeFacts
  <1>9. \A g, f \in S : (\E h \in Heights : Covers(g, h) /\ Covers(f, h)) => g = f
    <2> SUFFICES ASSUME NEW g \in S, NEW f \in S, NEW h \in Heights,
                        Covers(g, h), Covers(f, h)
                 PROVE  g = f
      OBVIOUS
    <2>1. g.first = h /\ f.first = h
      BY <1>3, <1>6, ServeFacts DEF Covers
    <2> QED  BY <1>6, <2>1
  <1>10. ArchiveInv'
    <2>1. IsManifest(manifest')
      BY <1>1, <1>2, <1>6 DEF IsManifest
    <2>2. Validate(manifest')
      BY <1>1, <1>3, <1>6, <1>7, <1>8, <1>9, ServeFacts DEF Validate
    <2> QED  BY <1>1, <1>3, <1>6, <1>8, <2>1, <2>2 DEF ArchiveInv
  <1> QED  BY <1>1, <1>2, <1>10, ArchiveChanges, ServeFacts
              DEF Resegmented, ServeInv, ReactorInv

(* The hot store grows, or loses blocks that are archived.                 *)
LEMMA HotChangesInv ==
    ASSUME ServeInv, HotGrows \/ HotPruned
    PROVE  ServeInv'
  <1>1. ArchiveInv' /\ manifest' = manifest /\ manifest.last \in Int
    BY ServeFacts DEF HotGrows, HotPruned, ServeInv, ArchiveInv, IsManifest
  <1>2. /\ hot' = [base |-> hot'.base, height |-> hot'.height]
        /\ hot'.base \in 0 .. MaxHeight /\ hot'.height \in 0 .. MaxHeight
    BY ServeFacts, ServeAssumption DEF HotGrows, HotPruned, ServeInv, ReactorInv
  <1> QED  BY <1>1, <1>2, ArchiveChanges DEF HotGrows, HotPruned

----------------------------------------------------------------------------
(* Frames.                                                                 *)

(* The archive is as it was.                                               *)
LEMMA SameArchive ==
    ASSUME ServeInv, UNCHANGED manifest
    PROVE  ArchiveInv'
  BY DEF ServeInv, ArchiveInv

(* The reactor is as it was.                                               *)
LEMMA SameReactor ==
    ASSUME ServeInv, UNCHANGED <<manifest, hot, coldWork, cachedRange>>
    PROVE  ReactorInv'
  BY DEF ServeInv, ReactorInv

(* The caches are as they were.                                            *)
LEMMA SameCache ==
    ASSUME ServeInv, UNCHANGED <<manifest, cached, segmentLRU>>
    PROVE  CacheInv' /\ \A s : NotCached(s) => NotCached(s)'
  BY DEF ServeInv, CacheInv, Past, NotCached

(* The goroutines are as they were.                                        *)
LEMMA SameThreads ==
    ASSUME ServeInv, UNCHANGED <<manifest, threadVars, fetchSlots, segmentLRU>>
    PROVE  ThreadInv' /\ TargetInv' /\ FlightInv' /\ SlotInv'
  <1> USE DEF threadVars, loadVars
  <1>1. ThreadInv'
    BY DEF ServeInv, ThreadInv, Past
  <1>2. TargetInv' /\ FlightInv' /\ SlotInv'
    BY DEF ServeInv, TargetInv, FlightInv, NotCached, SlotInv, Holders
  <1> QED  BY <1>1, <1>2

(* A goroutine moves on, holding a slot afterwards if it held one before,  *)
(* and begins no read.                                                     *)
LEMMA MovesOn ==
    ASSUME ServeInv, NEW t \in Thread, step' \in [Thread -> Labels],
           \A u \in Thread \ {t} : step'[u] = step[u] /\ target'[u] = target[u],
           step'[t] # "sRead",
           step[t] \in HoldsSlot <=> step'[t] \in HoldsSlot,
           UNCHANGED fetchSlots,
           \A s : NotCached(s) => NotCached(s)'
    PROVE  FlightInv' /\ SlotInv'
  <1>1. FlightInv'
    <2> SUFFICES ASSUME NEW u \in Thread, step'[u] = "sRead"
                 PROVE  /\ NotCached(target[u])'
                        /\ \A v \in Thread :
                              step'[v] = "sRead" /\ target'[v] = target'[u] => v = u
      BY DEF FlightInv
    <2>1. u # t /\ step[u] = "sRead" /\ target'[u] = target[u]
      OBVIOUS
    <2>2. NotCached(target[u])
      BY <2>1 DEF ServeInv, FlightInv
    <2>3. NotCached(target[u])'
      BY <2>1, <2>2, Zenon DEF NotCached
    <2>4. ASSUME NEW v \in Thread, step'[v] = "sRead", target'[v] = target'[u]
          PROVE  v = u
      <3>1. v # t
        BY <2>4
      <3>2. step[v] = "sRead" /\ target[v] = target[u]
        BY <2>1, <2>4, <3>1
      <3> QED  BY <2>1, <3>2 DEF ServeInv, FlightInv
    <2> QED  BY <2>3, <2>4
  <1>2. Holders' = Holders
    BY DEF Holders
  <1> QED  BY <1>1, <1>2 DEF ServeInv, SlotInv

----------------------------------------------------------------------------
(* Requests and budgets touch no goroutine.                                *)
LEMMA RequestsInv ==
    ASSUME ServeInv, Requests
    PROVE  ServeInv'
  <1>1. /\ UNCHANGED <<manifest, hot, cachedRange, sourceVars, threadVars>>
        /\ coldWork' = coldWork
              \/ \E h \in Heights : coldWork' = Append(coldWork, h)
    BY Zenon DEF Requests, enqueueColdBlockRequest, RefillBudget, RemoveClient
  <1>2. coldWork' \in Seq(Heights)
    <2>1. coldWork \in Seq(Heights)
      BY DEF ServeInv, ReactorInv
    <2> QED  BY <1>1, <2>1, AppendProperties
  <1>3. ReactorInv'
    BY <1>1, <1>2 DEF ServeInv, ReactorInv
  <1> QED  BY <1>1, <1>3, SameArchive, SameCache, SameThreads
              DEF ServeInv, sourceVars

(* The cached manifest is older than the TTL.                              *)
LEMMA CacheExpiresInv ==
    ASSUME ServeInv, CacheExpires
    PROVE  ServeInv'
  <1>1. UNCHANGED <<manifest, hot, reactorVars, cached, segmentLRU, fetchSlots,
                    threadVars>>
    BY DEF CacheExpires
  <1> QED  BY <1>1, SameArchive, SameReactor, SameCache, SameThreads
              DEF ServeInv, reactorVars

(* A goroutine moves on and changes nothing but what it knows itself.      *)
LEMMA ThreadMoves ==
    ASSUME ServeInv, NEW t \in Thread, step' \in [Thread -> Labels],
           \A u \in Thread \ {t} : /\ step'[u] = step[u] /\ want'[u] = want[u]
                                   /\ target'[u] = target[u]
                                   /\ records'[u] = records[u]
                                   /\ loaded'[u] = loaded[u],
           step'[t] # "sRead",
           step[t] \in HoldsSlot <=> step'[t] \in HoldsSlot,
           want' \in [Thread -> 0 .. MaxHeight],
           phase' = [u \in Thread |-> phase'[u]],
           loaded' = [u \in Thread |-> loaded'[u]],
           target' = [u \in Thread |-> target'[u]],
           records' = [u \in Thread |-> records'[u]],
           Past(loaded'[t]),
           step'[t] \in Chosen =>
               target'[t] \in SourceSegments /\ Covers(target'[t], want'[t]),
           step'[t] \in {"send", "releaseSend"} =>
               records'[t] = target'[t].blocks,
           UNCHANGED <<manifest, hot, fetchSlots>>,
           ReactorInv', CacheInv', \A s : NotCached(s) => NotCached(s)'
    PROVE  ServeInv'
  <1>1. FlightInv' /\ SlotInv'
    BY MovesOn
  <1>2. ThreadInv'
    <2>1. ASSUME NEW u \in Thread PROVE Past(loaded[u])'
      <3>1. Past(loaded'[u])
        BY DEF ServeInv, ThreadInv
      <3> QED  BY <3>1 DEF Past
    <2> QED  BY <2>1 DEF ThreadInv
  <1>3. TargetInv'
    BY DEF ServeInv, TargetInv
  <1> QED  BY <1>1, <1>2, <1>3, SameArchive DEF ServeInv

(* loadManifest: the cached manifest, a wait, or a read.                   *)
LEMMA loadManifestInv ==
    ASSUME ServeInv, NEW t \in Thread, loadManifest(t)
    PROVE  ServeInv'
  <1> USE DEF loadVars
  <1>1. /\ step' \in [Thread -> Labels] /\ want' \in [Thread -> 0 .. MaxHeight]
        /\ phase' = [u \in Thread |-> phase'[u]]
        /\ loaded' = [u \in Thread |-> loaded'[u]]
        /\ target' = [u \in Thread |-> target'[u]]
        /\ records' = [u \in Thread |-> records'[u]]
    BY ServeFacts, Zenon
       DEF loadManifest, Goto, ServeInv, ThreadInv, Labels, NoRequest
  <1>2. \A u \in Thread \ {t} :
           /\ step'[u] = step[u] /\ want'[u] = want[u] /\ target'[u] = target[u]
           /\ records'[u] = records[u] /\ loaded'[u] = loaded[u]
    BY DEF loadManifest, Goto, ServeInv, ThreadInv
  <1>3. /\ step[t] \notin HoldsSlot /\ step'[t] \notin HoldsSlot \cup Chosen
        /\ UNCHANGED <<manifest, hot, coldWork, cachedRange, cached, segmentLRU,
                       fetchSlots>>
    BY DEF loadManifest, Goto, ServeInv, ThreadInv, HoldsSlot, Chosen, reactorVars,
           sourceVars
  <1>4. Past(loaded'[t])
    BY DEF loadManifest, Goto, ServeInv, ThreadInv, CacheInv
  <1> QED  BY <1>1, <1>2, <1>3, <1>4, SameReactor, SameCache, ThreadMoves
              DEF HoldsSlot, Chosen

(* ReadManifest: what is read is the published manifest, or nothing.       *)
LEMMA ReadManifestInv ==
    ASSUME ServeInv, NEW t \in Thread, ReadManifest(t)
    PROVE  ServeInv'
  <1> USE DEF loadVars
  <1>1. /\ step' \in [Thread -> Labels] /\ want' \in [Thread -> 0 .. MaxHeight]
        /\ phase' = [u \in Thread |-> phase'[u]]
        /\ loaded' = [u \in Thread |-> loaded'[u]]
        /\ target' = [u \in Thread |-> target'[u]]
        /\ records' = [u \in Thread |-> records'[u]]
    BY ServeFacts DEF ReadManifest, Goto, ServeInv, ThreadInv, Labels, NoRequest
  <1>2. \A u \in Thread \ {t} :
           /\ step'[u] = step[u] /\ want'[u] = want[u] /\ target'[u] = target[u]
           /\ records'[u] = records[u] /\ loaded'[u] = loaded[u]
    BY DEF ReadManifest, Goto, ServeInv, ThreadInv
  <1>3. /\ step[t] \notin HoldsSlot /\ step'[t] \notin HoldsSlot \cup Chosen
        /\ UNCHANGED <<manifest, hot, coldWork, cachedRange, cached, segmentLRU,
                       fetchSlots>>
    BY DEF ReadManifest, Goto, ServeInv, ThreadInv, HoldsSlot, Chosen, reactorVars,
           sourceVars
  <1>4. Past(loaded'[t])
    <2>1. Past(manifest)
      <3>1. manifest.revision > 0 => 1 <= manifest.last
        BY ServeFacts DEF ServeInv, ArchiveInv, IsManifest, Validate
      <3> QED  BY <3>1, ServeFacts DEF ServeInv, ArchiveInv, IsManifest, Past
    <2>2. Past(LoadFailed)
      BY DEF LoadFailed, WithRevision, EmptyManifest, Past
    <2> QED  BY <2>1, <2>2 DEF ReadManifest, ServeInv, ThreadInv
  <1> QED  BY <1>1, <1>2, <1>3, <1>4, SameReactor, SameCache, ThreadMoves
              DEF HoldsSlot, Chosen

(* StartRefresh: a refresh begins.                                         *)
LEMMA StartRefreshInv ==
    ASSUME ServeInv, NEW t \in Thread, StartRefresh(t)
    PROVE  ServeInv'
  <1> USE DEF loadVars
  <1>1. /\ step' \in [Thread -> Labels] /\ want' \in [Thread -> 0 .. MaxHeight]
        /\ phase' = [u \in Thread |-> phase'[u]]
        /\ loaded' = [u \in Thread |-> loaded'[u]]
        /\ target' = [u \in Thread |-> target'[u]]
        /\ records' = [u \in Thread |-> records'[u]]
    BY ServeFacts, Zenon
       DEF StartRefresh, Goto, ServeInv, ThreadInv, Labels, NoRequest
  <1>2. \A u \in Thread \ {t} :
           /\ step'[u] = step[u] /\ want'[u] = want[u] /\ target'[u] = target[u]
           /\ records'[u] = records[u] /\ loaded'[u] = loaded[u]
    BY DEF StartRefresh, Goto, ServeInv, ThreadInv
  <1>3. /\ step[t] \notin HoldsSlot /\ step'[t] \notin HoldsSlot \cup Chosen
        /\ UNCHANGED <<manifest, hot, coldWork, cachedRange, cached, segmentLRU,
                       fetchSlots>>
    BY DEF StartRefresh, Goto, ServeInv, ThreadInv, HoldsSlot, Chosen, reactorVars,
           sourceVars
  <1>4. Past(loaded'[t])
    BY DEF StartRefresh, ServeInv, ThreadInv
  <1> QED  BY <1>1, <1>2, <1>3, <1>4, SameReactor, SameCache, ThreadMoves
              DEF HoldsSlot, Chosen

(* CheckRange: a height outside the range is not looked for.               *)
LEMMA CheckRangeInv ==
    ASSUME ServeInv, NEW t \in Thread, CheckRange(t)
    PROVE  ServeInv'
  <1> USE DEF loadVars
  <1>1. /\ step' \in [Thread -> Labels] /\ want' \in [Thread -> 0 .. MaxHeight]
        /\ phase' = [u \in Thread |-> phase'[u]]
        /\ loaded' = [u \in Thread |-> loaded'[u]]
        /\ target' = [u \in Thread |-> target'[u]]
        /\ records' = [u \in Thread |-> records'[u]]
    BY ServeFacts DEF CheckRange, Goto, ServeInv, ThreadInv, Labels, NoRequest
  <1>2. \A u \in Thread \ {t} :
           /\ step'[u] = step[u] /\ want'[u] = want[u] /\ target'[u] = target[u]
           /\ records'[u] = records[u] /\ loaded'[u] = loaded[u]
    BY DEF CheckRange, Goto, ServeInv, ThreadInv
  <1>3. /\ step[t] \notin HoldsSlot /\ step'[t] \notin HoldsSlot \cup Chosen
        /\ UNCHANGED <<manifest, hot, coldWork, cachedRange, cached, segmentLRU,
                       fetchSlots>>
    BY DEF CheckRange, Goto, ServeInv, ThreadInv, HoldsSlot, Chosen, reactorVars,
           sourceVars
  <1>4. Past(loaded'[t])
    <2>1. Past(EmptyManifest)
      BY DEF EmptyManifest, Past
    <2> QED  BY <2>1 DEF CheckRange, ServeInv, ThreadInv
  <1> QED  BY <1>1, <1>2, <1>3, <1>4, SameReactor, SameCache, ThreadMoves
              DEF HoldsSlot, Chosen

(* ContextDone: whoever waited holds nothing.                              *)
LEMMA ContextDoneInv ==
    ASSUME ServeInv, NEW t \in Thread, ContextDone(t)
    PROVE  ServeInv'
  <1> USE DEF loadVars
  <1>1. /\ step' \in [Thread -> Labels] /\ want' \in [Thread -> 0 .. MaxHeight]
        /\ phase' = [u \in Thread |-> phase'[u]]
        /\ loaded' = [u \in Thread |-> loaded'[u]]
        /\ target' = [u \in Thread |-> target'[u]]
        /\ records' = [u \in Thread |-> records'[u]]
    BY ServeFacts DEF ContextDone, Goto, ServeInv, ThreadInv, Labels, NoRequest
  <1>2. \A u \in Thread \ {t} :
           /\ step'[u] = step[u] /\ want'[u] = want[u] /\ target'[u] = target[u]
           /\ records'[u] = records[u] /\ loaded'[u] = loaded[u]
    BY DEF ContextDone, Goto, ServeInv, ThreadInv
  <1>3. /\ step[t] \notin HoldsSlot /\ step'[t] \notin HoldsSlot \cup Chosen
        /\ UNCHANGED <<manifest, hot, coldWork, cachedRange, cached, segmentLRU,
                       fetchSlots>>
    BY DEF ContextDone, Goto, ServeInv, ThreadInv, HoldsSlot, Chosen, reactorVars,
           sourceVars
  <1>4. Past(loaded'[t])
    <2>1. Past(LoadFailed)
      BY DEF LoadFailed, WithRevision, EmptyManifest, Past
    <2> QED  BY <2>1 DEF ContextDone, ServeInv, ThreadInv
  <1> QED  BY <1>1, <1>2, <1>3, <1>4, SameReactor, SameCache, ThreadMoves
              DEF HoldsSlot, Chosen

(* Reply: the goroutine forgets the request.                               *)
LEMMA ReplyInv ==
    ASSUME ServeInv, NEW t \in Thread, Reply(t)
    PROVE  ServeInv'
  <1> USE DEF loadVars
  <1>1. /\ step' \in [Thread -> Labels] /\ want' \in [Thread -> 0 .. MaxHeight]
        /\ phase' = [u \in Thread |-> phase'[u]]
        /\ loaded' = [u \in Thread |-> loaded'[u]]
        /\ target' = [u \in Thread |-> target'[u]]
        /\ records' = [u \in Thread |-> records'[u]]
    <2>1. 0 \in 0 .. MaxHeight
      BY ServeFacts
    <2>2. want' \in [Thread -> 0 .. MaxHeight]
      BY <2>1 DEF Reply, ServeInv, ThreadInv, NoRequest
    <2>3. step' \in [Thread -> Labels]
      BY DEF Reply, Goto, ServeInv, ThreadInv, Labels
    <2> QED  BY <2>2, <2>3, Zenon DEF Reply, ServeInv, ThreadInv
  <1>2. \A u \in Thread \ {t} :
           /\ step'[u] = step[u] /\ want'[u] = want[u] /\ target'[u] = target[u]
           /\ records'[u] = records[u] /\ loaded'[u] = loaded[u]
    BY Zenon DEF Reply, Goto, ServeInv, ThreadInv
  <1>3. /\ step[t] \notin HoldsSlot /\ step'[t] \notin HoldsSlot \cup Chosen
        /\ UNCHANGED <<manifest, hot, coldWork, cachedRange, cached, segmentLRU,
                       fetchSlots>>
    BY DEF Reply, Goto, ServeInv, ThreadInv, HoldsSlot, Chosen, reactorVars,
           sourceVars
  <1>4. Past(loaded'[t])
    <2>1. Past(EmptyManifest)
      BY DEF EmptyManifest, Past
    <2> QED  BY <2>1 DEF Reply, ServeInv, ThreadInv
  <1> QED  BY <1>1, <1>2, <1>3, <1>4, SameReactor, SameCache, ThreadMoves
              DEF HoldsSlot, Chosen

(* refreshAdvertisedRange: an old range lies within the newer one.         *)
LEMMA refreshAdvertisedRangeInv ==
    ASSUME ServeInv, NEW t \in Thread, refreshAdvertisedRange(t)
    PROVE  ServeInv'
  <1>1. /\ step' \in [Thread -> Labels] /\ want' \in [Thread -> 0 .. MaxHeight]
        /\ phase' = [u \in Thread |-> phase'[u]]
        /\ loaded' = [u \in Thread |-> loaded'[u]]
        /\ target' = [u \in Thread |-> target'[u]]
        /\ records' = [u \in Thread |-> records'[u]]
    BY DEF refreshAdvertisedRange, Goto, ServeInv, ThreadInv, Labels
  <1>2. \A u \in Thread \ {t} :
           /\ step'[u] = step[u] /\ want'[u] = want[u] /\ target'[u] = target[u]
           /\ records'[u] = records[u] /\ loaded'[u] = loaded[u]
    BY DEF refreshAdvertisedRange, Goto, ServeInv, ThreadInv
  <1>3. /\ step[t] = "use" /\ step'[t] = "idle"
        /\ UNCHANGED <<manifest, hot, coldWork, cached, segmentLRU, fetchSlots>>
    BY DEF refreshAdvertisedRange, Goto, ServeInv, ThreadInv, sourceVars
  <1>4. Past(loaded'[t])
    <2>1. Past(EmptyManifest)
      BY DEF EmptyManifest, Past
    <2> QED  BY <2>1 DEF refreshAdvertisedRange, ServeInv, ThreadInv
  <1>5. ReactorInv'
    <2>1. Past(loaded[t])
      BY DEF ServeInv, ThreadInv
    <2>2. cachedRange' = cachedRange \/ cachedRange' = AdvertisedRange(loaded[t])
      BY DEF refreshAdvertisedRange
    <2> QED  BY <1>3, <2>1, <2>2
                DEF ServeInv, ReactorInv, Past, AdvertisedRange, NoRange
  <1> QED  BY <1>1, <1>2, <1>3, <1>4, <1>5, SameCache, ThreadMoves
              DEF HoldsSlot, Chosen

(* coldBlockWorker: the height at the head of the queue.                   *)
LEMMA coldBlockWorkerInv ==
    ASSUME ServeInv, NEW t \in Thread, coldBlockWorker(t)
    PROVE  ServeInv'
  <1> USE DEF loadVars
  <1>1. Head(coldWork) \in 0 .. MaxHeight /\ coldWork' \in Seq(Heights)
    <2>1. coldWork \in Seq(Heights) /\ coldWork # <<>> /\ coldWork' = Tail(coldWork)
      BY DEF coldBlockWorker, ServeInv, ReactorInv
    <2>2. Head(coldWork) \in Heights /\ Tail(coldWork) \in Seq(Heights)
      BY <2>1, HeadTailProperties
    <2> QED  BY <2>1, <2>2, ServeFacts
  <1>2. /\ step' \in [Thread -> Labels] /\ want' \in [Thread -> 0 .. MaxHeight]
        /\ phase' = [u \in Thread |-> phase'[u]]
        /\ loaded' = [u \in Thread |-> loaded'[u]]
        /\ target' = [u \in Thread |-> target'[u]]
        /\ records' = [u \in Thread |-> records'[u]]
    BY <1>1, Zenon DEF coldBlockWorker, Goto, ServeInv, ThreadInv, Labels
  <1>3. \A u \in Thread \ {t} :
           /\ step'[u] = step[u] /\ want'[u] = want[u] /\ target'[u] = target[u]
           /\ records'[u] = records[u] /\ loaded'[u] = loaded[u]
    BY DEF coldBlockWorker, Goto, ServeInv, ThreadInv
  <1>4. /\ step[t] = "idle" /\ step'[t] = "manifest" /\ loaded'[t] = loaded[t]
        /\ UNCHANGED <<manifest, hot, cachedRange, cached, segmentLRU, fetchSlots>>
    BY DEF coldBlockWorker, Goto, ServeInv, ThreadInv, sourceVars
  <1>5. ReactorInv'
    BY <1>1, <1>4 DEF ServeInv, ReactorInv
  <1>6. Past(loaded'[t])
    BY <1>4 DEF ServeInv, ThreadInv
  <1> QED  BY <1>2, <1>3, <1>4, <1>5, <1>6, SameCache, ThreadMoves
              DEF HoldsSlot, Chosen

(* SelectSegment: a segment of the manifest that covers the height.        *)
LEMMA SelectSegmentInv ==
    ASSUME ServeInv, NEW t \in Thread, SelectSegment(t)
    PROVE  ServeInv'
  <1>1. /\ step' \in [Thread -> Labels] /\ want' \in [Thread -> 0 .. MaxHeight]
        /\ phase' = [u \in Thread |-> phase'[u]]
        /\ loaded' = [u \in Thread |-> loaded'[u]]
        /\ target' = [u \in Thread |-> target'[u]]
        /\ records' = [u \in Thread |-> records'[u]]
    BY DEF SelectSegment, Goto, ServeInv, ThreadInv, Labels
  <1>2. \A u \in Thread \ {t} :
           /\ step'[u] = step[u] /\ want'[u] = want[u] /\ target'[u] = target[u]
           /\ records'[u] = records[u] /\ loaded'[u] = loaded[u]
    BY DEF SelectSegment, Goto, ServeInv, ThreadInv
  <1>3. /\ step[t] = "use" /\ step'[t] \in {"noBlock", "segment"}
        /\ UNCHANGED <<manifest, hot, coldWork, cachedRange, cached, segmentLRU,
                       fetchSlots>>
    BY DEF SelectSegment, Goto, ServeInv, ThreadInv, reactorVars, sourceVars
  <1>4. Past(loaded'[t])
    <2>1. Past(EmptyManifest)
      BY DEF EmptyManifest, Past
    <2> QED  BY <2>1 DEF SelectSegment, ServeInv, ThreadInv
  <1>5. step'[t] = "segment" =>
           target'[t] \in SourceSegments /\ Covers(target'[t], want'[t])
    <2>1. loaded[t].segments \subseteq SourceSegments /\ want'[t] = want[t]
      BY DEF SelectSegment, ServeInv, ThreadInv, Past
    <2>2. step'[t] = "segment" =>
             \E g \in loaded[t].segments : Covers(g, want[t]) /\ target'[t] = g
      BY DEF SelectSegment, Goto, ServeInv, ThreadInv, segmentForHeight
    <2> QED  BY <2>1, <2>2, Zenon
  <1> QED  BY <1>1, <1>2, <1>3, <1>4, <1>5, SameReactor, SameCache, ThreadMoves
              DEF HoldsSlot, Chosen

----------------------------------------------------------------------------
(* Slots and reads.                                                        *)

(* A goroutine takes a slot.                                               *)
LEMMA SlotTaken ==
    ASSUME ServeInv, NEW t \in Thread,
           \A u \in Thread \ {t} : step'[u] = step[u],
           step[t] \notin HoldsSlot, step'[t] \in HoldsSlot,
           fetchSlots' = fetchSlots + 1
    PROVE  SlotInv'
  <1>1. Holders' = Holders \cup {t} /\ t \notin Holders
    BY DEF Holders
  <1>2. IsFiniteSet(Holders)
    BY ServeFacts, FS_Subset DEF Holders
  <1>3. Cardinality(Holders \cup {t}) = Cardinality(Holders) + 1
    BY <1>1, <1>2, FS_AddElement, Zenon
  <1> QED  BY <1>1, <1>3 DEF ServeInv, SlotInv

(* A goroutine puts its slot back.                                         *)
LEMMA SlotReleased ==
    ASSUME ServeInv, NEW t \in Thread,
           \A u \in Thread \ {t} : step'[u] = step[u],
           step[t] \in HoldsSlot, step'[t] \notin HoldsSlot,
           fetchSlots' = fetchSlots - 1
    PROVE  SlotInv'
  <1>1. Holders' = Holders \ {t} /\ t \in Holders
    BY DEF Holders
  <1>2. IsFiniteSet(Holders)
    BY ServeFacts, FS_Subset DEF Holders
  <1>3. Cardinality(Holders \ {t}) = Cardinality(Holders) - 1
    BY <1>1, <1>2, FS_RemoveElement, Zenon
  <1> QED  BY <1>1, <1>3 DEF ServeInv, SlotInv

(* Goroutines move on with what they know.                                 *)
LEMMA SameKnowledge ==
    ASSUME ServeInv, step' \in [Thread -> Labels],
           UNCHANGED <<manifest, want, phase, loaded, target, records>>,
           \A u \in Thread :
              /\ step'[u] \in Chosen => step[u] \in Chosen
              /\ step'[u] \in {"send", "releaseSend"} =>
                    step[u] \in {"send", "releaseSend"}
    PROVE  ThreadInv' /\ TargetInv'
  <1>1. ThreadInv'
    BY DEF ServeInv, ThreadInv, Past
  <1>2. TargetInv'
    BY DEF ServeInv, TargetInv
  <1> QED  BY <1>1, <1>2

(* No read begins that was not going on.                                   *)
LEMMA NoNewRead ==
    ASSUME ServeInv,
           \A u \in Thread : step'[u] = "sRead" =>
              step[u] = "sRead" /\ target'[u] = target[u] /\ NotCached(target[u])'
    PROVE  FlightInv'
  BY DEF ServeInv, FlightInv

(* loadSegment: a hit, a wait, or the only read of that segment.           *)
LEMMA loadSegmentInv ==
    ASSUME ServeInv, NEW t \in Thread, loadSegment(t)
    PROVE  ServeInv'
  <1>1. /\ step[t] = "segment" /\ step' \in [Thread -> Labels]
        /\ \A u \in Thread \ {t} : step'[u] = step[u]
        /\ UNCHANGED <<manifest, hot, coldWork, cachedRange, cached, want, phase,
                       loaded, target>>
    BY DEF loadSegment, Goto, ServeInv, ThreadInv, Labels, HoldsSlot, reactorVars
  <1>2. ArchiveInv' /\ ReactorInv'
    BY <1>1, SameArchive, SameReactor
  <1>3. /\ target[t] \in SourceSegments /\ Covers(target[t], want[t])
        /\ segmentLRU \in Seq(Entries) /\ Past(cached)
    BY <1>1 DEF ServeInv, TargetInv, CacheInv, Chosen
  <1>4. ASSUME NEW i \in Hits(target[t]), segmentLRU' = MoveToFront(i),
               records' = [records EXCEPT ![t] = segmentLRU[i].records],
               Goto(t, "send"), UNCHANGED fetchSlots
        PROVE  ServeInv'
    <2>1. i \in 1 .. Len(segmentLRU) /\ segmentLRU[i].key = target[t]
      BY <1>4 DEF Hits, DescriptorKey
    <2>2. segmentLRU[i] \in Entries
      BY <1>3, <2>1, ElementOfSeq
    <2>3. segmentLRU[i].records = target[t].blocks
      <3>1. PICK g \in SourceSegments :
               segmentLRU[i] = [key |-> g, records |-> g.blocks]
        BY <2>2 DEF Entries
      <3>2. segmentLRU[i].key = g /\ segmentLRU[i].records = g.blocks
        BY <3>1
      <3> QED  BY <2>1, <3>2
    <2>4. CacheInv'
      <3>1. segmentLRU' \in Seq(Entries)
        BY <1>3, <1>4, <2>1, MovedEntries, Zenon
      <3> QED  BY <1>1, <1>3, <3>1 DEF CacheInv, Past
    <2>5. ASSUME NEW s, NotCached(s) PROVE NotCached(s)'
      BY <1>3, <1>4, <2>1, <2>5, MovedEntries, Zenon DEF NotCached
    <2>6. step'[t] = "send" /\ records'[t] = target[t].blocks
          /\ records' = [u \in Thread |-> records'[u]]
          /\ \A u \in Thread \ {t} : records'[u] = records[u]
      BY <1>4, <2>3 DEF Goto, ServeInv, ThreadInv
    <2>7. Past(loaded'[t]) /\ want' \in [Thread -> 0 .. MaxHeight]
          /\ phase' = [u \in Thread |-> phase'[u]]
          /\ loaded' = [u \in Thread |-> loaded'[u]]
          /\ target' = [u \in Thread |-> target'[u]]
      BY <1>1 DEF ServeInv, ThreadInv
    <2> QED  BY <1>1, <1>2, <1>3, <1>4, <2>4, <2>5, <2>6, <2>7,
                ThreadMoves, Zenon
                DEF HoldsSlot
  <1>5. ASSUME Hits(target[t]) = {}, UNCHANGED <<segmentLRU, records>>,
               Goto(t, "sWait") \/ Goto(t, "slotWait"), UNCHANGED fetchSlots
        PROVE  ServeInv'
    <2>1. step'[t] \in {"sWait", "slotWait"}
      BY <1>5 DEF Goto, ServeInv, ThreadInv
    <2>2. ThreadInv' /\ TargetInv'
      BY <1>1, <1>5, <2>1, SameKnowledge DEF Chosen
    <2>3. CacheInv' /\ \A s : NotCached(s) => NotCached(s)'
      BY <1>1, <1>5, SameCache, Zenon
    <2>4. FlightInv' /\ SlotInv'
      BY <1>1, <1>5, <2>1, <2>3, MovesOn, Zenon DEF HoldsSlot
    <2> QED  BY <1>2, <2>2, <2>3, <2>4 DEF ServeInv
  <1>6. ASSUME Hits(target[t]) = {}, SegmentFlight(target[t]) = {},
               UNCHANGED <<segmentLRU, records>>, Goto(t, "sRead"),
               fetchSlots' = fetchSlots + 1
        PROVE  ServeInv'
    <2>1. step'[t] = "sRead"
      BY <1>6 DEF Goto, ServeInv, ThreadInv
    <2>2. ThreadInv' /\ TargetInv'
      BY <1>1, <1>6, <2>1, SameKnowledge, Zenon DEF Chosen
    <2>3. CacheInv'
      BY <1>1, <1>6, SameCache, Zenon
    <2>4. SlotInv'
      BY <1>1, <1>6, <2>1, SlotTaken, Zenon DEF HoldsSlot
    <2>5. NotCached(target[t]) /\ \A u \in Thread : step[u] = "sRead" =>
                                     target[u] # target[t]
      BY <1>6 DEF NotCached, Hits, SegmentFlight, DescriptorKey
    <2>6. FlightInv'
      <3> SUFFICES ASSUME NEW u \in Thread, step'[u] = "sRead"
                   PROVE  /\ NotCached(target[u])'
                          /\ \A v \in Thread :
                                step'[v] = "sRead" /\ target'[v] = target'[u]
                                   => v = u
        BY DEF FlightInv
      <3>1. NotCached(target[u])
        BY <1>1, <2>5 DEF ServeInv, FlightInv
      <3>2. NotCached(target[u])'
        BY <1>1, <1>6, <3>1 DEF NotCached
      <3>3. ASSUME NEW v \in Thread, step'[v] = "sRead", target'[v] = target'[u]
            PROVE  v = u
        <4>1. target[v] = target[u] /\ (v # t => step[v] = "sRead")
              /\ (u # t => step[u] = "sRead")
          BY <1>1, <3>3
        <4>2. CASE u = t \/ v = t
          BY <2>5, <4>1, <4>2
        <4>3. CASE u # t /\ v # t
          BY <4>1, <4>3 DEF ServeInv, FlightInv
        <4> QED  BY <4>2, <4>3
      <3> QED  BY <3>2, <3>3
    <2> QED  BY <1>2, <2>2, <2>3, <2>4, <2>6 DEF ServeInv
  <1> QED  BY <1>4, <1>5, <1>6 DEF loadSegment

(* WaitForSlot: the slot is taken and put back before looking again.       *)
LEMMA WaitForSlotInv ==
    ASSUME ServeInv, NEW t \in Thread, WaitForSlot(t)
    PROVE  ServeInv'
  <1> USE DEF loadVars
  <1>1. /\ step' \in [Thread -> Labels]
        /\ \A u \in Thread \ {t} : step'[u] = step[u]
        /\ UNCHANGED <<manifest, hot, coldWork, cachedRange, cached, segmentLRU,
                       want, phase, loaded, target, records>>
        /\ \/ /\ step[t] = "slotWait" /\ step'[t] = "slotTaken"
              /\ fetchSlots' = fetchSlots + 1
           \/ /\ step[t] = "slotTaken" /\ step'[t] = "segment"
              /\ fetchSlots' = fetchSlots - 1
    BY DEF WaitForSlot, Goto, ServeInv, ThreadInv, Labels, HoldsSlot, reactorVars
  <1>2. ArchiveInv' /\ ReactorInv' /\ CacheInv'
    BY <1>1, SameArchive, SameReactor, SameCache
  <1>3. ThreadInv' /\ TargetInv'
    BY <1>1, SameKnowledge DEF Chosen
  <1>4. SlotInv'
    BY <1>1, SlotTaken, SlotReleased DEF HoldsSlot
  <1>5. FlightInv'
    <2>1. ASSUME NEW u \in Thread, step'[u] = "sRead"
          PROVE  step[u] = "sRead" /\ target'[u] = target[u]
                 /\ NotCached(target[u])'
      <3>1. step[u] = "sRead" /\ target'[u] = target[u]
        BY <1>1, <2>1
      <3>2. NotCached(target[u])
        BY <3>1 DEF ServeInv, FlightInv
      <3> QED  BY <1>1, <3>1, <3>2 DEF NotCached
    <2> QED  BY <2>1, NoNewRead
  <1> QED  BY <1>2, <1>3, <1>4, <1>5 DEF ServeInv

(* ReleaseSlot: the read is over, the slot goes back.                      *)
LEMMA ReleaseSlotInv ==
    ASSUME ServeInv, NEW t \in Thread, ReleaseSlot(t)
    PROVE  ServeInv'
  <1> USE DEF loadVars
  <1>1. /\ step' \in [Thread -> Labels]
        /\ \A u \in Thread \ {t} : step'[u] = step[u]
        /\ UNCHANGED <<manifest, hot, coldWork, cachedRange, cached, segmentLRU,
                       want, phase, loaded, target, records>>
        /\ \/ step[t] = "releaseSend" /\ step'[t] = "send"
           \/ step[t] = "releaseFail" /\ step'[t] = "noBlock"
        /\ fetchSlots' = fetchSlots - 1
    BY DEF ReleaseSlot, Goto, ServeInv, ThreadInv, Labels, HoldsSlot, reactorVars
  <1>2. ArchiveInv' /\ ReactorInv' /\ CacheInv'
    BY <1>1, SameArchive, SameReactor, SameCache
  <1>3. ThreadInv' /\ TargetInv'
    BY <1>1, SameKnowledge DEF Chosen
  <1>4. SlotInv'
    BY <1>1, SlotReleased DEF HoldsSlot
  <1>5. FlightInv'
    <2>1. ASSUME NEW u \in Thread, step'[u] = "sRead"
          PROVE  step[u] = "sRead" /\ target'[u] = target[u]
                 /\ NotCached(target[u])'
      <3>1. step[u] = "sRead" /\ target'[u] = target[u]
        BY <1>1, <2>1
      <3>2. NotCached(target[u])
        BY <3>1 DEF ServeInv, FlightInv
      <3> QED  BY <1>1, <3>1, <3>2 DEF NotCached
    <2> QED  BY <2>1, NoNewRead
  <1> QED  BY <1>2, <1>3, <1>4, <1>5 DEF ServeInv

(* FinishManifest: everyone who waited gets what the leader read.          *)
LEMMA FinishManifestInv ==
    ASSUME ServeInv, NEW t \in Thread, FinishManifest(t)
    PROVE  ServeInv'
  <1> DEFINE served == {t} \cup {u \in Thread : step[u] = "mWait"}
  <1>1. /\ step[t] = "mDone"
        /\ step' = [u \in Thread |-> IF u \in served THEN "use" ELSE step[u]]
        /\ loaded' = [u \in Thread |-> IF u \in served THEN loaded[t]
                                       ELSE loaded[u]]
        /\ cached' = loaded[t] \/ cached' = cached
        /\ UNCHANGED <<manifest, hot, coldWork, cachedRange, segmentLRU,
                       fetchSlots, want, phase, target, records>>
    BY DEF FinishManifest, reactorVars
  <1>2. ArchiveInv' /\ ReactorInv'
    BY <1>1, SameArchive, SameReactor, Zenon
  <1>3. \A u \in Thread : Past(loaded[u])
    BY DEF ServeInv, ThreadInv
  <1>4. CacheInv'
    <2>1. Past(cached')
      BY <1>1, <1>3 DEF ServeInv, CacheInv
    <2> QED  BY <1>1, <2>1 DEF ServeInv, CacheInv, Past
  <1>5. \A u \in Thread : \/ step'[u] = step[u]
                          \/ step[u] \in {"mDone", "mWait"} /\ step'[u] = "use"
    BY <1>1
  <1>6. ThreadInv'
    <2>1. step' \in [Thread -> Labels]
      BY <1>1 DEF ServeInv, ThreadInv, Labels
    <2>2. ASSUME NEW u \in Thread PROVE Past(loaded[u])'
      <3>1. Past(loaded'[u])
        BY <1>1, <1>3
      <3> QED  BY <1>1, <3>1, Zenon DEF Past
    <2>3. loaded' = [u \in Thread |-> loaded'[u]]
      BY <1>1
    <2> QED  BY <1>1, <2>1, <2>2, <2>3 DEF ServeInv, ThreadInv
  <1>7. TargetInv'
    BY <1>1, <1>5 DEF ServeInv, TargetInv, Chosen
  <1>8. FlightInv'
    <2>1. ASSUME NEW u \in Thread, step'[u] = "sRead"
          PROVE  step[u] = "sRead" /\ target'[u] = target[u]
                 /\ NotCached(target[u])'
      <3>1. step[u] = "sRead" /\ target'[u] = target[u]
        BY <1>1, <1>5, <2>1, Zenon
      <3>2. NotCached(target[u])
        BY <3>1 DEF ServeInv, FlightInv
      <3> QED  BY <1>1, <3>1, <3>2, Zenon DEF NotCached
    <2> QED  BY <2>1, NoNewRead
  <1>9. SlotInv'
    <2>1. Holders' = Holders
      BY <1>5 DEF Holders, HoldsSlot
    <2> QED  BY <1>1, <2>1 DEF ServeInv, SlotInv
  <1> QED  BY <1>2, <1>4, <1>6, <1>7, <1>8, <1>9 DEF ServeInv

(* FinishSegment: the records of a segment go to everyone who waits for    *)
(* that very segment, and into the cache.                                  *)
LEMMA FinishSegmentInv ==
    ASSUME ServeInv, NEW t \in Thread, FinishSegment(t)
    PROVE  ServeInv'
  <1> DEFINE F == Followers(t)
  <1>1. /\ step[t] = "sRead" /\ t \notin F
        /\ \A u \in F : u \in Thread /\ step[u] = "sWait" /\ target[u] = target[t]
        /\ UNCHANGED <<manifest, hot, coldWork, cachedRange, cached, fetchSlots,
                       want, phase, loaded, target>>
    BY DEF FinishSegment, Followers, DescriptorKey, reactorVars
  <1>2. ArchiveInv' /\ ReactorInv'
    BY <1>1, SameArchive, SameReactor
  <1>3. /\ target[t] \in SourceSegments /\ segmentLRU \in Seq(Entries)
        /\ Past(cached)
        /\ \A u \in Thread : step[u] = "sRead" /\ u # t => target[u] # target[t]
        /\ \A u \in Thread : step[u] = "sRead" => NotCached(target[u])
    BY <1>1 DEF ServeInv, TargetInv, CacheInv, Chosen, FlightInv
  <1>4. CASE /\ segmentLRU' = CacheSegment(target[t])
             /\ records' = [u \in Thread |-> IF u \in F \cup {t}
                                             THEN target[t].blocks ELSE records[u]]
             /\ step' = [u \in Thread |-> IF u = t THEN "releaseSend"
                                          ELSE IF u \in F THEN "send" ELSE step[u]]
    <2>1. CacheInv'
      <3>1. segmentLRU' \in Seq(Entries)
        BY <1>3, <1>4, CachedEntries
      <3> QED  BY <1>1, <1>3, <3>1 DEF CacheInv, Past
    <2>2. ThreadInv'
      <3>1. step' \in [Thread -> Labels]
        BY <1>4 DEF ServeInv, ThreadInv, Labels, HoldsSlot
      <3>2. records' = [u \in Thread |-> records'[u]]
        BY <1>4
      <3> QED  BY <1>1, <3>1, <3>2 DEF ServeInv, ThreadInv, Past
    <2>3. TargetInv'
      <3> SUFFICES ASSUME NEW u \in Thread
                   PROVE  /\ step'[u] \in Chosen =>
                                target'[u] \in SourceSegments
                                   /\ Covers(target'[u], want'[u])
                          /\ step'[u] \in {"send", "releaseSend"} =>
                                records'[u] = target'[u].blocks
        BY DEF TargetInv
      <3>1. step'[u] \in Chosen => step[u] \in Chosen
        BY <1>1, <1>4 DEF Chosen
      <3>2. CASE u \in F \cup {t}
        BY <1>1, <1>4, <3>1, <3>2, Zenon DEF ServeInv, TargetInv
      <3>3. CASE u \notin F \cup {t}
        BY <1>1, <1>4, <3>1, <3>3, Zenon DEF ServeInv, TargetInv
      <3> QED  BY <3>2, <3>3
    <2>4. FlightInv'
      <3>1. ASSUME NEW u \in Thread, step'[u] = "sRead"
            PROVE  step[u] = "sRead" /\ target'[u] = target[u]
                   /\ NotCached(target[u])'
        <4>1. u # t /\ step[u] = "sRead" /\ target'[u] = target[u]
          BY <1>1, <1>4, <3>1, Zenon
        <4>2. target[u] # target[t] /\ NotCached(target[u])
          BY <1>3, <4>1
        <4>3. \A j \in 1 .. Len(segmentLRU') : segmentLRU'[j].key # target[u]
          BY <1>3, <1>4, <4>2, CachedEntries, Zenon
        <4> QED  BY <4>1, <4>3 DEF NotCached
      <3> QED  BY <3>1, NoNewRead
    <2>5. SlotInv'
      <3>1. Holders' = Holders
        BY <1>1, <1>4, Zenon DEF Holders, HoldsSlot
      <3> QED  BY <1>1, <3>1, Zenon DEF ServeInv, SlotInv
    <2> QED  BY <1>2, <2>1, <2>2, <2>3, <2>4, <2>5 DEF ServeInv
  <1>5. CASE /\ UNCHANGED <<segmentLRU, records>>
             /\ step' = [u \in Thread |-> IF u = t THEN "releaseFail"
                                          ELSE IF u \in F THEN "noBlock"
                                          ELSE step[u]]
    <2>1. CacheInv'
      BY <1>1, <1>5, SameCache, Zenon
    <2>2. step' \in [Thread -> Labels]
      BY <1>5 DEF ServeInv, ThreadInv, Labels, HoldsSlot
    <2>3. ThreadInv' /\ TargetInv'
      <3>1. \A u \in Thread : /\ step'[u] \in Chosen => step[u] \in Chosen
                              /\ step'[u] \in {"send", "releaseSend"} =>
                                    step[u] \in {"send", "releaseSend"}
        BY <1>5 DEF Chosen
      <3> QED  BY <1>1, <1>5, <2>2, <3>1, SameKnowledge, Zenon
    <2>4. FlightInv'
      <3>1. ASSUME NEW u \in Thread, step'[u] = "sRead"
            PROVE  step[u] = "sRead" /\ target'[u] = target[u]
                   /\ NotCached(target[u])'
        <4>1. step[u] = "sRead" /\ target'[u] = target[u]
          BY <1>1, <1>5, <3>1, Zenon
        <4>2. NotCached(target[u])
          BY <1>3, <4>1
        <4> QED  BY <1>5, <4>1, <4>2 DEF NotCached
      <3> QED  BY <3>1, NoNewRead
    <2>5. SlotInv'
      <3>1. Holders' = Holders
        BY <1>1, <1>5 DEF Holders, HoldsSlot
      <3> QED  BY <1>1, <3>1 DEF ServeInv, SlotInv
    <2> QED  BY <1>2, <2>1, <2>3, <2>4, <2>5 DEF ServeInv
  <1> QED  BY <1>4, <1>5 DEF FinishSegment

----------------------------------------------------------------------------
(* Every action keeps the invariant.                                       *)
LEMMA ServeNextInv == ServeInv /\ [ServeNext]_serveVars => ServeInv'
  <1> SUFFICES ASSUME ServeInv, [ServeNext]_serveVars PROVE ServeInv'
    OBVIOUS
  <1>1. CASE UNCHANGED serveVars
    <2>1. UNCHANGED <<manifest, hot, reactorVars, sourceVars, threadVars>>
      BY <1>1 DEF serveVars
    <2> QED  BY <2>1, SameArchive, SameReactor, SameCache, SameThreads
                DEF ServeInv, reactorVars, sourceVars
  <1>2. CASE Archiving
    BY <1>2, ArchiveGrowsInv, ResegmentedInv, HotChangesInv DEF Archiving
  <1>3. ASSUME NEW t \in Thread, coldBlockWorker(t) \/ StartRefresh(t)
                                    \/ LoadSteps(t) \/ ContextDone(t)
        PROVE  ServeInv'
    BY <1>3, coldBlockWorkerInv, StartRefreshInv, ContextDoneInv,
       loadManifestInv, ReadManifestInv, FinishManifestInv, CheckRangeInv,
       SelectSegmentInv, refreshAdvertisedRangeInv, loadSegmentInv,
       WaitForSlotInv, FinishSegmentInv, ReleaseSlotInv, ReplyInv
       DEF LoadSteps
  <1> QED  BY <1>1, <1>2, <1>3, RequestsInv, CacheExpiresInv DEF ServeNext

(* What the goroutines of cold_source.go know is true whenever they use it.*)
THEOREM ServeInvariance == ServeSpec => []ServeInv
  BY ServeInitInv, ServeNextInv, PTL DEF ServeSpec

(* A cold answer carries the block of the requested height, from the very  *)
(* segment the worker's manifest names (loadSegment, LoadBlock).           *)
THEOREM ColdAnswersRight == ServeSpec => []ServedBlock
  <1>1. ServeInv => ServedBlock
    <2> SUFFICES ASSUME ServeInv, NEW t \in Thread,
                        step[t] \in {"send", "releaseSend"}
                 PROVE  /\ records[t] = target[t].blocks
                        /\ records[t][want[t]] = MainChain[want[t]]
      BY DEF ServedBlock
    <2>1. /\ records[t] = target[t].blocks /\ target[t] \in SourceSegments
          /\ Covers(target[t], want[t]) /\ want[t] \in 0 .. MaxHeight
      BY DEF ServeInv, TargetInv, ThreadInv, Chosen
    <2>2. target[t].blocks[want[t]] = MainChain[want[t]]
      BY <2>1, SourceBlocks
    <2> QED  BY <2>1, <2>2
  <1> QED  BY <1>1, ServeInvariance, PTL

(* No slot leaks and none is given out twice (loadSegment).                *)
THEOREM ColdSlotsAccounted == ServeSpec => []SlotsAccounted
  <1>1. ServeInv => SlotsAccounted
    BY DEF ServeInv, SlotInv, Holders, SlotsAccounted
  <1> QED  BY <1>1, ServeInvariance, PTL

(* Concurrent requests share one read of a segment, and a cached segment   *)
(* is not read again (loadSegment).                                        *)
THEOREM ColdSharedLoad == ServeSpec => []SharedLoad
  <1>1. ServeInv => SharedLoad
    <2> SUFFICES ASSUME ServeInv, NEW t \in Thread, step[t] = "sRead"
                 PROVE  SegmentFlight(target[t]) = {t} /\ Hits(target[t]) = {}
      BY DEF SharedLoad
    <2>1. NotCached(target[t]) /\ \A u \in Thread :
             step[u] = "sRead" /\ target[u] = target[t] => u = t
      BY DEF ServeInv, FlightInv
    <2> QED  BY <2>1 DEF SegmentFlight, Hits, NotCached, DescriptorKey
  <1> QED  BY <1>1, ServeInvariance, PTL

(* Merged ranges hold nothing that neither range holds.                    *)
LEMMA MergedRanges ==
    ASSUME NEW c, NEW w, c.base \in Int, c.height \in Int,
           w.base \in Int, w.height \in Int, NEW h \in Int,
           Contains(mergeAdvertisedRanges(c, w), h)
    PROVE  Contains(c, h) \/ Contains(w, h)
  <1> DEFINE a == mergeAdvertisedRanges(c, w)
             b == IF c.base < w.base THEN c.base ELSE w.base
             l == IF c.height > w.height THEN c.height ELSE w.height
  <1>1. \/ a = w \/ a = c
        \/ /\ a = [base |-> b, height |-> l]
           /\ ~(c.height + 1 < w.base \/ w.height + 1 < c.base)
    BY DEF mergeAdvertisedRanges
  <1>2. CASE a = w \/ a = c
    BY <1>2
  <1>3. CASE /\ a = [base |-> b, height |-> l]
             /\ ~(c.height + 1 < w.base \/ w.height + 1 < c.base)
    <2>1. a.base = b /\ a.height = l
      BY <1>3
    <2>2. b <= h /\ h <= l
      BY <2>1 DEF Contains
    <2> QED  BY <1>3, <2>2 DEF Contains
  <1> QED  BY <1>1, <1>2, <1>3

(* Everything a status message advertises is stored, in the hot store or   *)
(* in the published archive (cachedAdvertisedRange).                       *)
THEOREM ColdAdvertisedServable == ServeSpec => []AdvertisedServable
  <1>1. ServeInv => AdvertisedServable
    <2> SUFFICES ASSUME ServeInv, NEW h \in Heights,
                        Contains(cachedAdvertisedRange, h), ~Contains(hot, h)
                 PROVE  ArchivedBlock(manifest, h) # NoBlock
      BY DEF AdvertisedServable
    <2>1. h \in 1 .. MaxHeight /\ MaxHeight \in Nat
      BY ServeFacts
    <2>2. /\ cachedRange.base \in Int /\ cachedRange.height \in Int
          /\ hot.base \in 0 .. MaxHeight /\ hot.height \in 0 .. MaxHeight
          /\ cachedRange.height > 0 => /\ manifest.first <= cachedRange.base
                                       /\ cachedRange.height <= manifest.last
      BY DEF ServeInv, ReactorInv
    <2>3. Contains(cachedRange, h)
      <3>1. Contains(mergeAdvertisedRanges(cachedRange, hot), h)
        BY DEF cachedAdvertisedRange
      <3> QED  BY <2>1, <2>2, <3>1, MergedRanges
    <2>4. /\ manifest.first <= h /\ h <= manifest.last
          /\ manifest.first \in 0 .. MaxHeight /\ manifest.last \in 0 .. MaxHeight
      BY <2>1, <2>2, <2>3 DEF Contains, ServeInv, ArchiveInv, IsManifest
    <2>5. manifest.segments # {}
      <3>1. Validate(manifest)
        BY DEF ServeInv, ArchiveInv
      <3>2. manifest.segments = {} => manifest.last = 0
        BY <3>1 DEF Validate
      <3> QED  BY <2>1, <2>4, <3>2
    <2>6. \E g \in manifest.segments : Covers(g, h)
      BY <2>1, <2>4, <2>5 DEF ServeInv, ArchiveInv, Validate
    <2> DEFINE c == CHOOSE g \in manifest.segments : Covers(g, h)
    <2>7. c \in manifest.segments /\ Covers(c, h)
          /\ ArchivedBlock(manifest, h) = c.blocks[h]
      BY <2>6 DEF ArchivedBlock
    <2> HIDE DEF c
    <2>8. c \in SourceSegments /\ h \in 0 .. MaxHeight
      BY <2>1, <2>7 DEF ServeInv, ArchiveInv
    <2> QED  BY <2>7, <2>8, SourceBlocks, ServeFacts
  <1> QED  BY <1>1, ServeInvariance, PTL

----------------------------------------------------------------------------
(* The limits: budgets, the queue, the segment cache, the slots.           *)

BoundsInv ==
    /\ budgets \in [Client -> 0 .. NoBudget]
    /\ Len(coldWork) <= QueueLimit
    /\ Size(segmentLRU) <= CacheBlocks
    /\ fetchSlots \in 0 .. FetchSlots
    /\ errs \in 0 .. MaxErrors

(* The limits are natural numbers, and the burst is not zero.              *)
LEMMA LimitFacts ==
    /\ Burst \in Nat /\ Burst > 0 /\ NoBudget = Burst + 1
    /\ QueueLimit \in Nat /\ FetchSlots \in Nat /\ CacheBlocks \in Nat
    /\ MaxErrors \in Nat
  BY ServeAssumption DEF NoBudget

(* The cached blocks can be counted.                                       *)
LEMMA CachedFinite ==
    ASSUME NEW E, Len(E) \in Nat
    PROVE  IsFiniteSet(CachedBlocks(E)) /\ Size(E) \in Nat
  <1>1. IsFiniteSet(1 .. Len(E)) /\ IsFiniteSet(Heights)
    BY ServeFacts, FS_Interval
  <1>2. IsFiniteSet((1 .. Len(E)) \X Heights)
    BY <1>1, FS_Product
  <1>3. CachedBlocks(E) \subseteq (1 .. Len(E)) \X Heights
    BY DEF CachedBlocks
  <1>. QED
    BY <1>2, <1>3, FS_Subset, FS_CardinalityType DEF Size

(* Moving an entry to the front permutes the cache.                        *)
LEMMA MovedWhere ==
    ASSUME NEW E, segmentLRU \in Seq(E), NEW i \in 1 .. Len(segmentLRU)
    PROVE  /\ Len(MoveToFront(i)) = Len(segmentLRU)
           /\ \A j \in 1 .. Len(segmentLRU) :
                 MoveToFront(i)[j] =
                    segmentLRU[IF j = 1 THEN i ELSE IF j <= i THEN j - 1 ELSE j]
  <1>. DEFINE L == segmentLRU
              a == <<L[i]>>
              b == SubSeq(L, 1, i - 1)
              c == SubSeq(L, i + 1, Len(L))
  <1>1. Len(L) \in Nat /\ \A j \in 1 .. Len(L) : L[j] \in E
    BY ElementOfSeq, LenProperties
  <1>2. a \in Seq(E) /\ Len(a) = 1 /\ a[1] = L[i]
    BY <1>1
  <1>3. /\ b \in Seq(E) /\ Len(b) = i - 1
        /\ \A k \in 1 .. i - 1 : b[k] = L[k]
    <2>1. \A k \in 1 .. i - 1 : L[k] \in E
      BY <1>1
    <2>2. /\ b \in Seq(E)
          /\ Len(b) = IF 1 <= i - 1 THEN i - 1 - 1 + 1 ELSE 0
          /\ \A k \in 1 .. i - 1 - 1 + 1 : b[k] = L[1 + k - 1]
      BY <1>1, <2>1, SubSeqProperties
    <2>. QED
      BY <1>1, <2>2
  <1>4. /\ c \in Seq(E) /\ Len(c) = Len(L) - i
        /\ \A k \in 1 .. Len(L) - i : c[k] = L[i + k]
    <2>1. \A k \in i + 1 .. Len(L) : L[k] \in E
      BY <1>1
    <2>2. /\ c \in Seq(E)
          /\ Len(c) = IF i + 1 <= Len(L) THEN Len(L) - (i + 1) + 1 ELSE 0
          /\ \A k \in 1 .. Len(L) - (i + 1) + 1 : c[k] = L[i + 1 + k - 1]
      BY <1>1, <2>1, SubSeqProperties
    <2>. QED
      BY <1>1, <2>2
  <1>. HIDE DEF L, a, b, c
  <1>5. /\ a \o b \in Seq(E) /\ Len(a \o b) = i
        /\ \A k \in 1 .. i : (a \o b)[k] = IF k <= 1 THEN a[k] ELSE b[k - 1]
    <2>1. /\ a \o b \in Seq(E) /\ Len(a \o b) = Len(a) + Len(b)
          /\ \A k \in 1 .. Len(a) + Len(b) :
                (a \o b)[k] = IF k <= Len(a) THEN a[k] ELSE b[k - Len(a)]
      BY <1>2, <1>3, ConcatProperties, Zenon
    <2>2. Len(a) + Len(b) = i
      BY <1>2, <1>3 DEF L
    <2>. QED
      BY <1>2, <2>1, <2>2
  <1>. DEFINE d == a \o b
  <1>. HIDE DEF d
  <1>6. /\ Len(d \o c) = Len(L)
        /\ \A k \in 1 .. Len(L) : (d \o c)[k] = IF k <= i THEN d[k] ELSE c[k - i]
    <2>1. /\ Len(d \o c) = Len(d) + Len(c)
          /\ \A k \in 1 .. Len(d) + Len(c) :
                (d \o c)[k] = IF k <= Len(d) THEN d[k] ELSE c[k - Len(d)]
      <3>1. d \in Seq(E) /\ c \in Seq(E)
        BY <1>4, <1>5 DEF d
      <3>. QED
        BY <3>1, ConcatProperties
    <2>2. Len(d) = i /\ Len(d) + Len(c) = Len(L)
      BY <1>1, <1>4, <1>5 DEF d, L
    <2>. QED
      BY <2>1, <2>2
  <1>7. MoveToFront(i) = d \o c
    BY DEF MoveToFront, d, a, b, c, L
  <1>8. ASSUME NEW j \in 1 .. Len(L)
        PROVE  (d \o c)[j] = L[IF j = 1 THEN i ELSE IF j <= i THEN j - 1 ELSE j]
    <2>1. CASE j = 1
      <3>1. 1 <= i /\ 1 \in 1 .. Len(L)
        BY <1>1, <2>1
      <3>2. (d \o c)[1] = d[1]
        BY <1>6, <3>1
      <3>. QED
        BY <1>2, <1>5, <2>1, <3>2 DEF d, L
    <2>2. CASE j # 1 /\ j <= i
      <3>1. j \in 1 .. i /\ j - 1 \in 1 .. i - 1 /\ ~(j <= 1)
        BY <1>1, <2>2
      <3>2. (d \o c)[j] = d[j] /\ d[j] = b[j - 1]
        BY <1>5, <1>6, <2>2, <3>1, Zenon DEF d
      <3>. QED
        BY <1>3, <2>2, <3>1, <3>2
    <2>3. CASE ~(j <= i)
      <3>1. j - i \in 1 .. Len(L) - i /\ i + (j - i) = j /\ j # 1
        BY <1>1, <2>3 DEF L
      <3>2. (d \o c)[j] = c[j - i]
        BY <1>6, <2>3
      <3>. QED
        BY <1>4, <2>3, <3>1, <3>2
    <2>. QED
      BY <2>1, <2>2, <2>3, Zenon
  <1>. QED
    BY <1>6, <1>7, <1>8 DEF L

(* A hit leaves the size of the cache as it is.                            *)
LEMMA MovedSize ==
    ASSUME NEW E, segmentLRU \in Seq(E), NEW i \in 1 .. Len(segmentLRU)
    PROVE  Size(MoveToFront(i)) <= Size(segmentLRU)
  <1>. DEFINE L == segmentLRU
              M == MoveToFront(i)
              at(j) == IF j = 1 THEN i ELSE IF j <= i THEN j - 1 ELSE j
              S == CachedBlocks(M)
              T == CachedBlocks(L)
              f == [p \in S |-> <<at(p[1]), p[2]>>]
  <1>1. Len(L) \in Nat /\ Len(M) = Len(L)
    BY MovedWhere, LenProperties
  <1>2. \A j \in 1 .. Len(L) : M[j] = L[at(j)]
    BY MovedWhere
  <1>3. \A j \in 1 .. Len(L) : at(j) \in 1 .. Len(L)
    BY <1>1
  <1>4. \A j, k \in 1 .. Len(L) : at(j) = at(k) => j = k
    BY <1>1
  <1>5. \A p \in S : /\ p[1] \in 1 .. Len(L) /\ p[2] \in Heights /\ p = <<p[1], p[2]>>
                     /\ p[2] \in DOMAIN M[p[1]].records
    BY <1>1 DEF CachedBlocks
  <1>. HIDE DEF at, L, M
  <1>6. \A p \in S : <<at(p[1]), p[2]>> \in T
    <2>1. SUFFICES ASSUME NEW p \in S PROVE <<at(p[1]), p[2]>> \in T
      OBVIOUS
    <2>. DEFINE j == at(p[1])
    <2>2. j \in 1 .. Len(L) /\ p[2] \in Heights /\ p[2] \in DOMAIN L[j].records
      BY <1>2, <1>3, <1>5
    <2>. HIDE DEF j
    <2>. QED
      BY <2>2 DEF CachedBlocks, j
  <1>. HIDE DEF S, T
  <1>7. f \in [S -> T]
    BY <1>6
  <1>8. \A p, q \in S : f[p] = f[q] => p = q
    <2>1. SUFFICES ASSUME NEW p \in S, NEW q \in S, f[p] = f[q] PROVE p = q
      OBVIOUS
    <2>2. at(p[1]) = at(q[1]) /\ p[2] = q[2]
      BY <2>1
    <2>3. p[1] = q[1]
      BY <1>4, <1>5, <2>2
    <2>. QED
      BY <1>5, <2>2, <2>3
  <1>9. f \in Injection(S, T)
    <2>1. DOMAIN f = S
      OBVIOUS
    <2>. HIDE DEF f
    <2>. QED
      BY <1>7, <1>8, <2>1 DEF Injection, IsInjective
  <1>10. IsFiniteSet(T)
    BY <1>1, CachedFinite DEF T
  <1>11. Cardinality(S) <= Cardinality(T)
    BY <1>9, <1>10, FS_Injection
  <1>. QED
    BY <1>11 DEF S, T, M, L, Size

(* Caching a segment evicts until it fits, or does not cache it.           *)
LEMMA CachedSize ==
    ASSUME Len(segmentLRU) \in Nat, Size(segmentLRU) <= CacheBlocks, NEW g
    PROVE  Size(CacheSegment(g)) <= CacheBlocks
  <1>. DEFINE L == segmentLRU
              entry == <<[key |-> DescriptorKey(g), records |-> g.blocks]>>
              fits(k) == Size(entry \o SubSeq(L, 1, k)) <= CacheBlocks
              fitting == {k \in 0 .. Len(L) : fits(k)}
  <1>1. CacheSegment(g) =
           IF fitting = {} THEN L ELSE entry \o SubSeq(L, 1, Max(fitting))
    BY DEF CacheSegment
  <1>2. fitting \in SUBSET (0 .. Len(L)) /\ \A k \in fitting : fits(k)
    BY Zenon
  <1>. DEFINE top == Max(fitting)
  <1>. HIDE DEF fitting, top
  <1>3. fitting # {} => top \in fitting
    BY <1>2, MaxBounded, Zenon DEF top
  <1>4. CASE fitting = {}
    BY <1>1, <1>4
  <1>5. CASE fitting # {}
    <2>1. fits(top)
      BY <1>2, <1>3, <1>5, Zenon
    <2>. QED
      BY <1>1, <1>5, <2>1 DEF top
  <1>. QED
    BY <1>4, <1>5

(* Who takes a slot finds one, who returns one holds it.                   *)
LEMMA SlotsPositive ==
    ASSUME ServeInv, NEW t \in Thread, step[t] \in HoldsSlot
    PROVE  fetchSlots \in Nat /\ fetchSlots > 0
  <1>1. t \in Holders /\ Holders \subseteq Thread
    BY DEF Holders
  <1>2. IsFiniteSet(Holders)
    BY <1>1, ServeFacts, FS_Subset
  <1>3. Cardinality(Holders) \in Nat /\ Cardinality(Holders) # 0
    BY <1>1, <1>2, FS_CardinalityType, FS_EmptySet
  <1>. QED
    BY <1>3 DEF ServeInv, SlotInv

(* Requests: a budget is spent, refilled to its burst or deleted, and what *)
(* the queue has no room for is dropped.                                   *)
LEMMA RequestsBounded ==
    ASSUME ServeInv, BoundsInv, Requests
    PROVE  BoundsInv'
  <1>0. coldWork \in Seq(Heights) /\ Len(coldWork) \in Nat
    BY LenProperties DEF ServeInv, ReactorInv
  <1>1. PICK c \in Client :
           \/ \E h \in Heights : enqueueColdBlockRequest(c, h)
           \/ RefillBudget(c) \/ RemoveClient(c)
    BY DEF Requests
  <1>2. budgets \in [Client -> 0 .. NoBudget] /\ budgets[c] \in 0 .. Burst + 1
    BY LimitFacts DEF BoundsInv
  <1>3. UNCHANGED <<segmentLRU, fetchSlots, errs>>
    BY <1>1, Zenon
       DEF enqueueColdBlockRequest, RefillBudget, RemoveClient, sourceVars
  <1>4. \E b \in 0 .. NoBudget : budgets' = [budgets EXCEPT ![c] = b]
    <2>1. ASSUME NEW h \in Heights, enqueueColdBlockRequest(c, h)
          PROVE  \E b \in 0 .. NoBudget : budgets' = [budgets EXCEPT ![c] = b]
      <3>. DEFINE tokens == IF budgets[c] = NoBudget THEN Burst ELSE budgets[c]
      <3>1. \/ tokens = 0 /\ budgets' = budgets
            \/ tokens # 0 /\ budgets' = [budgets EXCEPT ![c] = tokens - 1]
        BY <2>1 DEF enqueueColdBlockRequest
      <3>2. tokens \in 0 .. Burst
        BY <1>2, LimitFacts
      <3>. HIDE DEF tokens
      <3>3. CASE tokens = 0 /\ budgets' = budgets
        <4>1. budgets' = [budgets EXCEPT ![c] = budgets[c]]
          BY <1>2, <3>3
        <4>. QED
          BY <1>2, <4>1, LimitFacts, Zenon
      <3>4. CASE tokens # 0 /\ budgets' = [budgets EXCEPT ![c] = tokens - 1]
        <4>1. tokens - 1 \in 0 .. NoBudget
          BY <3>2, <3>4, LimitFacts
        <4>. QED
          BY <3>4, <4>1, Zenon
      <3>. QED
        BY <3>1, <3>3, <3>4
    <2>2. CASE RefillBudget(c)
      <3>1. budgets' = [budgets EXCEPT ![c] = budgets[c] + 1] /\ budgets[c] < Burst
        BY <2>2 DEF RefillBudget
      <3>2. budgets[c] + 1 \in 0 .. NoBudget
        BY <1>2, <3>1, LimitFacts
      <3>. QED
        BY <3>1, <3>2, Zenon
    <2>3. CASE RemoveClient(c)
      <3>1. budgets' = [budgets EXCEPT ![c] = NoBudget]
        BY <2>3 DEF RemoveClient
      <3>2. NoBudget \in 0 .. NoBudget
        BY LimitFacts
      <3>. QED
        BY <3>1, <3>2, Zenon
    <2>. QED
      BY <1>1, <2>1, <2>2, <2>3
  <1>5. Len(coldWork') <= QueueLimit
    <2>1. ASSUME NEW h \in Heights, enqueueColdBlockRequest(c, h)
          PROVE  \/ coldWork' = coldWork
                 \/ Len(coldWork) < QueueLimit /\ coldWork' = Append(coldWork, h)
      BY <2>1 DEF enqueueColdBlockRequest
    <2>2. \A h \in Heights : Len(Append(coldWork, h)) = Len(coldWork) + 1
      BY <1>0, AppendProperties
    <2>. QED
      BY <1>0, <1>1, <2>1, <2>2, LimitFacts
         DEF RefillBudget, RemoveClient, BoundsInv
  <1>6. budgets' \in [Client -> 0 .. NoBudget]
    BY <1>2, <1>4
  <1>. QED
    BY <1>3, <1>5, <1>6 DEF BoundsInv

(* Reads that fail are counted.                                            *)
LEMMA FailsBounded ==
    ASSUME BoundsInv, NEW kind, Fails(kind)
    PROVE  errs' \in 0 .. MaxErrors
  BY LimitFacts DEF BoundsInv, Fails

(* loadSegment and the goroutines that wait for a slot or release one.     *)
LEMMA SlotsBounded ==
    ASSUME ServeInv, BoundsInv, NEW t \in Thread,
           loadSegment(t) \/ WaitForSlot(t) \/ ReleaseSlot(t)
    PROVE  BoundsInv'
  <1>0. fetchSlots \in 0 .. FetchSlots /\ FetchSlots \in Nat /\ CacheBlocks \in Nat
    BY LimitFacts DEF BoundsInv
  <1>1. UNCHANGED <<budgets, coldWork, errs>>
    BY Zenon DEF loadSegment, WaitForSlot, ReleaseSlot, reactorVars
  <1>2. fetchSlots' \in 0 .. FetchSlots
    <2>1. CASE loadSegment(t)
      <3>1. \/ fetchSlots' = fetchSlots
            \/ fetchSlots < FetchSlots /\ fetchSlots' = fetchSlots + 1
        BY <2>1, Zenon DEF loadSegment
      <3>. QED
        BY <1>0, <3>1
    <2>2. CASE WaitForSlot(t)
      <3>1. step[t] = "slotTaken" => fetchSlots > 0
        BY SlotsPositive DEF HoldsSlot
      <3>. QED
        BY <1>0, <2>2, <3>1 DEF WaitForSlot
    <2>3. CASE ReleaseSlot(t)
      <3>1. fetchSlots > 0
        BY <2>3, SlotsPositive DEF HoldsSlot, ReleaseSlot
      <3>. QED
        BY <1>0, <2>3, <3>1 DEF ReleaseSlot
    <2>. QED
      BY <2>1, <2>2, <2>3
  <1>3. Size(segmentLRU') <= CacheBlocks
    <2>1. CASE segmentLRU' = segmentLRU
      BY <2>1 DEF BoundsInv
    <2>2. ASSUME NEW i \in Hits(target[t]), segmentLRU' = MoveToFront(i)
          PROVE  Size(segmentLRU') <= CacheBlocks
      <3>1. segmentLRU \in Seq(Entries) /\ Len(segmentLRU) \in Nat
        BY LenProperties DEF ServeInv, CacheInv
      <3>2. i \in 1 .. Len(segmentLRU)
        BY <2>2 DEF Hits
      <3>3. Size(MoveToFront(i)) <= Size(segmentLRU)
        BY <3>1, <3>2, MovedSize
      <3>4. Len(MoveToFront(i)) \in Nat
        BY <3>1, <3>2, MovedWhere, Zenon
      <3>5. Size(MoveToFront(i)) \in Nat /\ Size(segmentLRU) \in Nat
        BY <3>1, <3>4, CachedFinite
      <3>. QED
        BY <1>0, <2>2, <3>3, <3>5 DEF BoundsInv
    <2>. QED
      BY <2>1, <2>2, Zenon DEF loadSegment, WaitForSlot, ReleaseSlot
  <1>. QED
    BY <1>1, <1>2, <1>3 DEF BoundsInv

(* The segment cache when a read is over.                                  *)
LEMMA FinishSegmentBounded ==
    ASSUME ServeInv, BoundsInv, NEW t \in Thread, FinishSegment(t)
    PROVE  BoundsInv'
  <1>1. UNCHANGED <<budgets, coldWork, fetchSlots>>
    BY Zenon DEF FinishSegment, reactorVars
  <1>2. errs' \in 0 .. MaxErrors
    <2>1. errs' = errs \/ Fails("segment")
      BY Zenon DEF FinishSegment
    <2>. QED
      BY <2>1, FailsBounded DEF BoundsInv
  <1>3. segmentLRU' = CacheSegment(target[t]) \/ segmentLRU' = segmentLRU
    BY Zenon DEF FinishSegment
  <1>4. Len(segmentLRU) \in Nat /\ Size(segmentLRU) <= CacheBlocks
    BY LenProperties DEF ServeInv, CacheInv, BoundsInv
  <1>5. Size(segmentLRU') <= CacheBlocks
    BY <1>3, <1>4, CachedSize
  <1>. QED
    BY <1>1, <1>2, <1>5 DEF BoundsInv

(* Every step keeps the limits.                                            *)
LEMMA ServeNextBounded ==
    ASSUME ServeInv, BoundsInv, [ServeNext]_serveVars
    PROVE  BoundsInv'
  <1>1. ASSUME UNCHANGED <<budgets, coldWork, segmentLRU, fetchSlots, errs>>
        PROVE  BoundsInv'
    BY <1>1 DEF BoundsInv
  <1>2. CASE Archiving
    BY <1>1, <1>2, Zenon
       DEF Archiving, HotGrows, ArchiveGrows, HotPruned, Resegmented,
                      reactorVars, sourceVars
  <1>3. CASE Requests
    BY <1>3, RequestsBounded
  <1>4. CASE CacheExpires
    BY <1>1, <1>4 DEF CacheExpires, reactorVars
  <1>5. ASSUME NEW t \in Thread, coldBlockWorker(t) PROVE BoundsInv'
    <2>1. /\ UNCHANGED <<budgets, segmentLRU, fetchSlots, errs>>
          /\ coldWork # <<>> /\ coldWork' = Tail(coldWork)
      BY <1>5 DEF coldBlockWorker, sourceVars
    <2>2. coldWork \in Seq(Heights) /\ Len(coldWork) \in Nat
      BY LenProperties DEF ServeInv, ReactorInv
    <2>3. Len(Tail(coldWork)) = Len(coldWork) - 1
      BY <2>1, <2>2, HeadTailProperties
    <2>. QED
      BY <2>1, <2>2, <2>3, LimitFacts DEF BoundsInv
  <1>6. ASSUME NEW t \in Thread, StartRefresh(t) \/ ContextDone(t) PROVE BoundsInv'
    BY <1>1, <1>6 DEF StartRefresh, ContextDone, reactorVars, sourceVars
  <1>7. ASSUME NEW t \in Thread,
               \/ loadManifest(t) \/ FinishManifest(t) \/ CheckRange(t)
               \/ SelectSegment(t) \/ refreshAdvertisedRange(t) \/ Reply(t)
        PROVE  BoundsInv'
    BY <1>1, <1>7, Zenon
       DEF loadManifest, FinishManifest, CheckRange, SelectSegment,
                      refreshAdvertisedRange, Reply, reactorVars, sourceVars
  <1>8. ASSUME NEW t \in Thread, ReadManifest(t) PROVE BoundsInv'
    <2>1. /\ UNCHANGED <<budgets, coldWork, segmentLRU, fetchSlots>>
          /\ errs' = errs \/ Fails("manifest")
      BY <1>8 DEF ReadManifest, reactorVars, sourceVars
    <2>2. errs' \in 0 .. MaxErrors
      BY <2>1, FailsBounded DEF BoundsInv
    <2>. QED
      BY <2>1, <2>2 DEF BoundsInv
  <1>9. ASSUME NEW t \in Thread, loadSegment(t) \/ WaitForSlot(t) \/ ReleaseSlot(t)
        PROVE  BoundsInv'
    BY <1>9, SlotsBounded
  <1>10. ASSUME NEW t \in Thread, FinishSegment(t) PROVE BoundsInv'
    BY <1>10, FinishSegmentBounded
  <1>11. CASE UNCHANGED serveVars
    BY <1>1, <1>11 DEF serveVars, reactorVars, sourceVars
  <1>. QED
    BY <1>2, <1>3, <1>4, <1>5, <1>6, <1>7, <1>8, <1>9, <1>10, <1>11
       DEF ServeNext, LoadSteps

(* Every limit of the serving side holds for good: the request queue, the  *)
(* decoded-segment cache, the read slots, the budgets; and what is         *)
(* published stays valid (enqueueColdBlockRequest, loadSegment).           *)
THEOREM ColdTypeCorrect == ServeSpec => []ServeTypeOK
  <1>1. ServeInit => BoundsInv
    <2>. SUFFICES ASSUME ServeInit PROVE BoundsInv
      OBVIOUS
    <2>1. Size(<<>>) = 0
      <3>1. Len(<<>>) = 0
        BY EmptySeq
      <3>2. CachedBlocks(<<>>) = {}
        BY <3>1 DEF CachedBlocks
      <3>. QED
        BY <3>2, FS_EmptySet DEF Size
    <2>2. Len(coldWork) = 0
      BY EmptySeq DEF ServeInit
    <2>. QED
      BY <2>1, <2>2, LimitFacts DEF ServeInit, BoundsInv
  <1>2. ServeInv /\ BoundsInv /\ [ServeNext]_serveVars => BoundsInv'
    BY ServeNextBounded
  <1>3. ServeInv /\ BoundsInv => ServeTypeOK
    BY DEF ServeInv, ArchiveInv, ReactorInv, ThreadInv, Labels, BoundsInv, ServeTypeOK
  <1>. QED
    BY <1>1, <1>2, <1>3, ServeInvariance, PTL DEF ServeSpec

============================================================================
