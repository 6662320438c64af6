----------------------------- MODULE ColdServe -----------------------------
(***************************************************************************)
(* The serving side of an archive peer: block requests are answered from   *)
(* the hot store or, by a pool of workers, from the archive through a      *)
(* cached manifest and a cache of decoded segments; the status loop        *)
(* advertises what both can serve.                                         *)
(* (internal/blocksyncarchive/reactor.go and cold_source.go)               *)
(*                                                                         *)
(* ArchiveBlockSource.mu guards the caches and the tables of loads in      *)
(* progress; it is released around every read of the object store and      *)
(* around every wait.  Each locked section and each read is one step.      *)
(***************************************************************************)
EXTENDS Manifest, Sequences, FiniteSetsExt

CONSTANTS
    MainChain,      \* the chain being archived: height -> block
    Starts,         \* heights an empty hot store or archive may start at
    Worker,         \* cold workers
    Refresher,      \* callers of refreshAdvertisedRange
    Client,         \* peers that request blocks
    Burst,          \* coldPeerBurst
    MaxBudgets,     \* maxColdPeerBudgets
    QueueLimit,     \* capacity of coldWork: opts.RequestLimit
    FetchSlots,     \* capacity of fetchSlots
    CacheBlocks,    \* segmentCacheLimit, counted in blocks
    Errors,         \* what may fail: reads of a "manifest" or a "segment",
                    \* requests whose context ends ("ctx")
    MaxErrors       \* bound: how many reads fail

ASSUME ServeAssumption ==
    /\ MainChain \in [Heights -> Block]
    /\ \A h \in Heights : HeightOf[MainChain[h]] = h
    /\ Starts \subseteq Heights
    /\ Worker \cap Refresher = {} /\ IsFiniteSet(Worker \cup Refresher)
    /\ {Burst, MaxBudgets, QueueLimit, FetchSlots, CacheBlocks} \subseteq Nat \ {0}
    /\ MaxErrors \in Nat

VARIABLES
    (* the rest of the system *)
    manifest,       \* the published manifest
    hot,            \* range of the hot store
    (* the reactor *)
    budgets,        \* coldBudgets: client -> tokens, NoBudget if no entry
    coldWork,       \* queued requests, by height
    cachedRange,    \* last known cold range
    (* ArchiveBlockSource *)
    cached,         \* cachedManifest
    fresh,          \* ... and it is younger than the TTL
    segmentLRU,     \* cached segments, most recently used first
    fetchSlots,     \* tokens taken from the channel
    (* each goroutine *)
    step,           \* where it is
    want,           \* the height it serves
    phase,          \* for what it loads the manifest
    loaded,         \* the manifest loadManifest returned
    target,         \* the segment it loads
    records,        \* the blocks loadSegment returned
    errs            \* failed reads so far

reactorVars == <<budgets, coldWork, cachedRange>>
sourceVars == <<cached, fresh, segmentLRU, fetchSlots>>
loadVars == <<loaded, target, records>>
threadVars == <<step, want, phase, loadVars>>
serveVars == <<manifest, hot, reactorVars, sourceVars, threadVars, errs>>

Thread == Worker \cup Refresher
NoBudget == Burst + 1
NoRequest == 0
LoadFailed == WithRevision(EmptyManifest, -1)
NoRange == [base |-> 0, height |-> 0]

Contains(r, h) == r.base <= h /\ h <= r.height

Goto(t, label) == step' = [step EXCEPT ![t] = label]

Fails(kind) ==
    /\ kind \in Errors
    /\ errs < MaxErrors
    /\ errs' = errs + 1

----------------------------------------------------------------------------
(* The archiving side, as ArchivePromise allows it: hot store and archive  *)
(* each start anywhere and grow, the archive by this peer or another one,  *)
(* archived blocks are pruned unless the archive starts above them, and a  *)
(* migration of the archived range may publish it again in other segments. *)

HotGrows ==
    /\ \E h \in IF hot.base = 0 THEN Starts ELSE {hot.height + 1} \cap Heights :
          hot' = [base |-> IF hot.base = 0 THEN h ELSE hot.base, height |-> h]
    /\ UNCHANGED <<manifest, reactorVars, sourceVars, threadVars, errs>>

ArchiveGrows ==
    /\ \E first \in IF manifest.segments = {} THEN Starts
                     ELSE {manifest.last + 1} \cap Heights :
          \E last \in first .. MaxHeight :
              manifest' = WithRevision(
                  AppendSegmentInPlace(manifest, SegmentOf(first, last, MainChain)),
                  manifest.revision + 1)
    /\ UNCHANGED <<hot, reactorVars, sourceVars, threadVars, errs>>

HotPruned ==
    /\ hot.base > 0 /\ hot.base < hot.height
    /\ Contains([base |-> manifest.first, height |-> manifest.last], hot.base)
    /\ hot' = [base |-> hot.base + 1, height |-> hot.height]
    /\ UNCHANGED <<manifest, reactorVars, sourceVars, threadVars, errs>>

Resegmented ==
    /\ Cardinality(manifest.segments) = 1
    /\ manifest.first < manifest.last
    /\ manifest' = [revision |-> manifest.revision + 1,
                    first |-> manifest.first, last |-> manifest.last,
                    segments |-> {SegmentOf(h, h, MainChain) :
                                     h \in manifest.first .. manifest.last}]
    /\ UNCHANGED <<hot, reactorVars, sourceVars, threadVars, errs>>

----------------------------------------------------------------------------
(* respondToBlockRequest for a block the hot store does not hold (one it   *)
(* holds is sent at once), and enqueueColdBlockRequest: a request over     *)
(* budget, or one the queue has no room for, is dropped without an answer. *)
enqueueColdBlockRequest(c, h) ==
    LET tokens == IF budgets[c] = NoBudget THEN Burst ELSE budgets[c]
        entries == {d \in Client : budgets[d] # NoBudget}
    IN
    /\ ~Contains(hot, h)
    /\ budgets[c] # NoBudget \/ Cardinality(entries) < MaxBudgets
    /\ IF tokens = 0
       THEN UNCHANGED <<budgets, coldWork>>
       ELSE /\ budgets' = [budgets EXCEPT ![c] = tokens - 1]
            /\ coldWork' = IF Len(coldWork) < QueueLimit
                           THEN Append(coldWork, h) ELSE coldWork
    /\ UNCHANGED <<manifest, hot, cachedRange, sourceVars, threadVars, errs>>

(* Time refills a budget; a disconnect deletes it.                         *)
RefillBudget(c) ==
    /\ budgets[c] < Burst
    /\ budgets' = [budgets EXCEPT ![c] = @ + 1]
    /\ UNCHANGED <<manifest, hot, coldWork, cachedRange, sourceVars, threadVars,
                   errs>>

RemoveClient(c) ==
    /\ budgets[c] # NoBudget
    /\ budgets' = [budgets EXCEPT ![c] = NoBudget]
    /\ UNCHANGED <<manifest, hot, coldWork, cachedRange, sourceVars, threadVars,
                   errs>>

----------------------------------------------------------------------------
(* loadManifest: the cached manifest while it is fresh; else join the load *)
(* in progress; else start one.                                            *)
ManifestFlight == {t \in Thread : step[t] \in {"mRead", "mDone"}}

loadManifest(t) ==
    /\ step[t] = "manifest"
    /\ IF fresh THEN Goto(t, "use") /\ loaded' = [loaded EXCEPT ![t] = cached]
       ELSE /\ Goto(t, IF ManifestFlight # {} THEN "mWait" ELSE "mRead")
            /\ UNCHANGED loaded
    /\ UNCHANGED <<manifest, hot, reactorVars, sourceVars, want, phase, target,
                   records, errs>>

ReadManifest(t) ==
    /\ step[t] = "mRead"
    /\ \/ loaded' = [loaded EXCEPT ![t] = manifest] /\ UNCHANGED errs
       \/ loaded' = [loaded EXCEPT ![t] = LoadFailed] /\ Fails("manifest")
    /\ Goto(t, "mDone")
    /\ UNCHANGED <<manifest, hot, reactorVars, sourceVars, want, phase, target,
                   records>>

(* The leader publishes its result, an error included, to everyone who     *)
(* waits; a manifest that was found becomes the cached one.                *)
FinishManifest(t) ==
    LET served == {t} \cup {u \in Thread : step[u] = "mWait"}
    IN
    /\ step[t] = "mDone"
    /\ IF loaded[t].revision > 0
       THEN cached' = loaded[t] /\ fresh' = TRUE
       ELSE UNCHANGED <<cached, fresh>>
    /\ step' = [u \in Thread |-> IF u \in served THEN "use" ELSE step[u]]
    /\ loaded' = [u \in Thread |-> IF u \in served THEN loaded[t] ELSE loaded[u]]
    /\ UNCHANGED <<manifest, hot, reactorVars, segmentLRU, fetchSlots, want,
                   phase, target, records, errs>>

CacheExpires ==
    /\ fresh
    /\ fresh' = FALSE
    /\ UNCHANGED <<manifest, hot, reactorVars, cached, segmentLRU, fetchSlots,
                   threadVars, errs>>

----------------------------------------------------------------------------
(* refreshAdvertisedRange keeps the last known range when the load failed. *)
AdvertisedRange(m) ==
    IF m.revision > 0 THEN [base |-> m.first, height |-> m.last] ELSE NoRange

StartRefresh(t) ==
    /\ t \in Refresher /\ step[t] = "idle"
    /\ phase' = [phase EXCEPT ![t] = "refresh"]
    /\ Goto(t, "manifest")
    /\ UNCHANGED <<manifest, hot, reactorVars, sourceVars, want, loadVars, errs>>

refreshAdvertisedRange(t) ==
    /\ step[t] = "use" /\ phase[t] = "refresh"
    /\ cachedRange' = IF loaded[t] = LoadFailed THEN cachedRange
                      ELSE AdvertisedRange(loaded[t])
    /\ Goto(t, "idle")
    /\ loaded' = [loaded EXCEPT ![t] = EmptyManifest]
    /\ UNCHANGED <<manifest, hot, budgets, coldWork, sourceVars, want, phase,
                   target, records, errs>>

(* Mutant: ranges that do not touch are merged as well.                    *)
MergeAcrossGap(cold, warm) ==
    IF cold.height = 0 THEN warm
    ELSE IF warm.height = 0 THEN cold
    ELSE [base |-> IF cold.base < warm.base THEN cold.base ELSE warm.base,
          height |-> IF cold.height > warm.height THEN cold.height
                     ELSE warm.height]

(* What a status message says: cachedAdvertisedRange.  One range cannot    *)
(* describe two that do not touch.                                         *)
mergeAdvertisedRanges(cold, warm) ==
    IF cold.height = 0 THEN warm
    ELSE IF warm.height = 0 THEN cold
    ELSE IF cold.height + 1 < warm.base \/ warm.height + 1 < cold.base
         THEN IF warm.height >= cold.height THEN warm ELSE cold
    ELSE [base |-> IF cold.base < warm.base THEN cold.base ELSE warm.base,
          height |-> IF cold.height > warm.height THEN cold.height
                     ELSE warm.height]

cachedAdvertisedRange == mergeAdvertisedRanges(cachedRange, hot)

----------------------------------------------------------------------------
(* respondToColdBlockRequest: the range check, then LoadBlock, each with a *)
(* manifest of its own.                                                    *)
coldBlockWorker(t) ==
    /\ t \in Worker /\ step[t] = "idle" /\ coldWork # <<>>
    /\ want' = [want EXCEPT ![t] = Head(coldWork)]
    /\ coldWork' = Tail(coldWork)
    /\ phase' = [phase EXCEPT ![t] = "range"]
    /\ Goto(t, "manifest")
    /\ UNCHANGED <<manifest, hot, budgets, cachedRange, sourceVars, loadVars,
                   errs>>

CheckRange(t) ==
    /\ step[t] = "use" /\ phase[t] = "range"
    /\ IF Contains(AdvertisedRange(loaded[t]), want[t])
       THEN Goto(t, "manifest") /\ phase' = [phase EXCEPT ![t] = "block"]
       ELSE Goto(t, "noBlock") /\ UNCHANGED phase
    /\ loaded' = [loaded EXCEPT ![t] = EmptyManifest]
    /\ UNCHANGED <<manifest, hot, reactorVars, sourceVars, want, target, records,
                   errs>>

segmentForHeight(m, h) == {s \in m.segments : Covers(s, h)}

SelectSegment(t) ==
    /\ step[t] = "use" /\ phase[t] = "block"
    /\ IF segmentForHeight(loaded[t], want[t]) = {}
       THEN Goto(t, "noBlock") /\ UNCHANGED target
       ELSE /\ Goto(t, "segment")
            /\ \E s \in segmentForHeight(loaded[t], want[t]) :
                  target' = [target EXCEPT ![t] = s]
    /\ loaded' = [loaded EXCEPT ![t] = EmptyManifest]
    /\ UNCHANGED <<manifest, hot, reactorVars, sourceVars, want, phase, records,
                   errs>>

----------------------------------------------------------------------------
(* Mutant: segments are cached by their first height alone.                *)
KeyByHeight(s) == s.first

(* loadSegment.  The cache and the loads in progress are keyed by the      *)
(* whole descriptor.                                                       *)
DescriptorKey(s) == s

Hits(s) == {i \in 1 .. Len(segmentLRU) : segmentLRU[i].key = DescriptorKey(s)}

SegmentFlight(s) ==
    {u \in Thread : step[u] = "sRead" /\ DescriptorKey(target[u]) = DescriptorKey(s)}

MoveToFront(i) ==
    <<segmentLRU[i]>> \o SubSeq(segmentLRU, 1, i - 1)
        \o SubSeq(segmentLRU, i + 1, Len(segmentLRU))

loadSegment(t) ==
    /\ step[t] = "segment"
    /\ \/ \E i \in Hits(target[t]) :
             /\ segmentLRU' = MoveToFront(i)
             /\ records' = [records EXCEPT ![t] = segmentLRU[i].records]
             /\ Goto(t, "send")
             /\ UNCHANGED fetchSlots
       \/ /\ Hits(target[t]) = {}
          /\ IF SegmentFlight(target[t]) # {}
             THEN Goto(t, "sWait") /\ UNCHANGED fetchSlots
             ELSE IF fetchSlots < FetchSlots
             THEN Goto(t, "sRead") /\ fetchSlots' = fetchSlots + 1
             ELSE Goto(t, "slotWait") /\ UNCHANGED fetchSlots
          /\ UNCHANGED <<segmentLRU, records>>
    /\ UNCHANGED <<manifest, hot, reactorVars, cached, fresh, want, phase, loaded,
                   target, errs>>

(* Mutant: the slot taken while waiting is not put back.                   *)
KeepSlot(t) ==
    /\ step[t] = "slotWait" /\ fetchSlots < FetchSlots
    /\ fetchSlots' = fetchSlots + 1
    /\ Goto(t, "segment")
    /\ UNCHANGED <<manifest, hot, reactorVars, cached, fresh, segmentLRU, want,
                   phase, loadVars, errs>>

(* Mutant: with the slot in hand, nobody looks again.                      *)
ReadWithoutLooking(t) ==
    /\ step[t] = "slotWait" /\ fetchSlots < FetchSlots
    /\ fetchSlots' = fetchSlots + 1
    /\ Goto(t, "sRead")
    /\ UNCHANGED <<manifest, hot, reactorVars, cached, fresh, segmentLRU, want,
                   phase, loadVars, errs>>

(* Without a free slot: wait until one can be taken, put it back and look  *)
(* again, since the segment may have been loaded meanwhile.                *)
WaitForSlot(t) ==
    /\ \/ /\ step[t] = "slotWait" /\ fetchSlots < FetchSlots
          /\ fetchSlots' = fetchSlots + 1
          /\ Goto(t, "slotTaken")
       \/ /\ step[t] = "slotTaken"
          /\ fetchSlots' = fetchSlots - 1
          /\ Goto(t, "segment")
    /\ UNCHANGED <<manifest, hot, reactorVars, cached, fresh, segmentLRU, want,
                   phase, loadVars, errs>>

(* The leader's Get and DecodeSegment are over: cache the records, evicting*)
(* from the back until they fit (records that never fit are not cached),   *)
(* and pass records or error on to everyone who waits.                     *)
CachedBlocks(entries) ==
    {p \in (1 .. Len(entries)) \X Heights : p[2] \in DOMAIN entries[p[1]].records}

Size(entries) == Cardinality(CachedBlocks(entries))

(* Mutant: nothing is evicted.                                             *)
CacheForEver(s) ==
    <<[key |-> DescriptorKey(s), records |-> s.blocks]>> \o segmentLRU

CacheSegment(s) ==
    LET entry == <<[key |-> DescriptorKey(s), records |-> s.blocks]>>
        fitting == {k \in 0 .. Len(segmentLRU) :
                       Size(entry \o SubSeq(segmentLRU, 1, k)) <= CacheBlocks}
    IN  IF fitting = {} THEN segmentLRU
        ELSE entry \o SubSeq(segmentLRU, 1, Max(fitting))

Followers(t) ==
    {u \in Thread : /\ step[u] = "sWait"
                    /\ DescriptorKey(target[u]) = DescriptorKey(target[t])}

FinishSegment(t) ==
    /\ step[t] = "sRead"
    /\ \/ /\ segmentLRU' = CacheSegment(target[t])
          /\ records' = [u \in Thread |-> IF u \in Followers(t) \cup {t}
                                          THEN target[t].blocks ELSE records[u]]
          /\ step' = [u \in Thread |-> IF u = t THEN "releaseSend"
                                       ELSE IF u \in Followers(t) THEN "send"
                                       ELSE step[u]]
          /\ UNCHANGED errs
       \/ /\ Fails("segment")
          /\ step' = [u \in Thread |-> IF u = t THEN "releaseFail"
                                       ELSE IF u \in Followers(t) THEN "noBlock"
                                       ELSE step[u]]
          /\ UNCHANGED <<segmentLRU, records>>
    /\ UNCHANGED <<manifest, hot, reactorVars, cached, fresh, fetchSlots, want,
                   phase, loaded, target>>

ReleaseSlot(t) ==
    /\ step[t] \in {"releaseSend", "releaseFail"}
    /\ fetchSlots' = fetchSlots - 1
    /\ Goto(t, IF step[t] = "releaseSend" THEN "send" ELSE "noBlock")
    /\ UNCHANGED <<manifest, hot, reactorVars, cached, fresh, segmentLRU, want,
                   phase, loadVars, errs>>

(* Mutant: the context is not looked at while waiting for a slot.          *)
ContextIgnored(t) ==
    /\ "ctx" \in Errors
    /\ \/ /\ step[t] = "mWait"
          /\ loaded' = [loaded EXCEPT ![t] = LoadFailed]
          /\ Goto(t, "use")
       \/ /\ step[t] = "sWait"
          /\ Goto(t, "noBlock")
          /\ UNCHANGED loaded
    /\ UNCHANGED <<manifest, hot, reactorVars, sourceVars, want, phase, target,
                   records, errs>>

(* The context of the request ends while the goroutine waits.              *)
ContextDone(t) ==
    /\ "ctx" \in Errors
    /\ \/ /\ step[t] = "mWait"
          /\ loaded' = [loaded EXCEPT ![t] = LoadFailed]
          /\ Goto(t, "use")
       \/ /\ step[t] \in {"sWait", "slotWait"}
          /\ Goto(t, "noBlock")
          /\ UNCHANGED loaded
    /\ UNCHANGED <<manifest, hot, reactorVars, sourceVars, want, phase, target,
                   records, errs>>

(* The answer is sent and the worker takes the next request.               *)
Reply(t) ==
    /\ step[t] \in {"send", "noBlock"}
    /\ Goto(t, "idle")
    /\ want' = [want EXCEPT ![t] = NoRequest]
    /\ phase' = [phase EXCEPT ![t] = "range"]
    /\ loaded' = [loaded EXCEPT ![t] = EmptyManifest]
    /\ target' = [target EXCEPT ![t] = NoSegment]
    /\ records' = [records EXCEPT ![t] = <<>>]
    /\ UNCHANGED <<manifest, hot, reactorVars, sourceVars, errs>>

----------------------------------------------------------------------------
ServeInit ==
    /\ manifest = EmptyManifest
    /\ hot = NoRange
    /\ budgets = [c \in Client |-> NoBudget]
    /\ coldWork = <<>>
    /\ cachedRange = NoRange
    /\ cached = EmptyManifest /\ fresh = FALSE
    /\ segmentLRU = <<>>
    /\ fetchSlots = 0
    /\ step = [t \in Thread |-> "idle"]
    /\ want = [t \in Thread |-> NoRequest]
    /\ phase = [t \in Thread |-> "range"]
    /\ loaded = [t \in Thread |-> EmptyManifest]
    /\ target = [t \in Thread |-> NoSegment]
    /\ records = [t \in Thread |-> <<>>]
    /\ errs = 0

Archiving == HotGrows \/ ArchiveGrows \/ HotPruned \/ Resegmented

Requests ==
    \E c \in Client :
        \/ \E h \in Heights : enqueueColdBlockRequest(c, h)
        \/ RefillBudget(c) \/ RemoveClient(c)

LoadSteps(t) ==
    \/ loadManifest(t) \/ ReadManifest(t) \/ FinishManifest(t)
    \/ CheckRange(t) \/ SelectSegment(t) \/ refreshAdvertisedRange(t)
    \/ loadSegment(t) \/ WaitForSlot(t) \/ FinishSegment(t) \/ ReleaseSlot(t)
    \/ Reply(t)

ServeNext ==
    \/ Archiving \/ Requests \/ CacheExpires
    \/ \E t \in Thread :
          coldBlockWorker(t) \/ StartRefresh(t) \/ LoadSteps(t) \/ ContextDone(t)

ServeSpec == ServeInit /\ [][ServeNext]_serveVars

----------------------------------------------------------------------------
HoldsSlot == {"sRead", "releaseSend", "releaseFail", "slotTaken"}

ServeTypeOK ==
    /\ IsManifest(manifest) /\ Validate(manifest)
    /\ hot.base \in 0 .. MaxHeight /\ hot.height \in 0 .. MaxHeight
    /\ budgets \in [Client -> 0 .. NoBudget]
    /\ Len(coldWork) <= QueueLimit
    /\ Size(segmentLRU) <= CacheBlocks
    /\ fetchSlots \in 0 .. FetchSlots
    /\ step \in [Thread -> HoldsSlot \cup {"idle", "manifest", "mRead", "mDone",
                     "mWait", "use", "segment", "sWait", "slotWait", "send",
                     "noBlock"}]
    /\ errs \in 0 .. MaxErrors

(* A cold answer carries the block of the requested height, from the very  *)
(* segment the worker's manifest names, whatever was cached or loaded      *)
(* under an earlier manifest (loadSegment, LoadBlock).                     *)
ServedBlock ==
    \A t \in Thread : step[t] \in {"send", "releaseSend"} =>
        /\ records[t] = target[t].blocks
        /\ records[t][want[t]] = MainChain[want[t]]

(* No slot leaks and none is given out twice: those taken are held by the  *)
(* goroutines that read or briefly hold one, so reads are bounded for good *)
(* (loadSegment).                                                          *)
SlotsAccounted == fetchSlots = Cardinality({t \in Thread : step[t] \in HoldsSlot})

(* Concurrent requests share one read of a segment, and a cached segment   *)
(* is not read again (loadSegment).                                        *)
SharedLoad ==
    \A t \in Thread : step[t] = "sRead" =>
        SegmentFlight(target[t]) = {t} /\ Hits(target[t]) = {}

(* Everything a status message advertises is stored: in the hot store or   *)
(* in the published archive (cachedAdvertisedRange, mergeAdvertisedRanges).*)
AdvertisedServable ==
    \A h \in Heights : Contains(cachedAdvertisedRange, h) =>
        Contains(hot, h) \/ ArchivedBlock(manifest, h) # NoBlock

----------------------------------------------------------------------------
(* Goroutines go on, reads return, and a request's context ends in the     *)
(* end.  Without the last one two goroutines could wait for a slot for     *)
(* ever, each holding it briefly just when the other tries.                *)
ServeFairness(T) ==
    \A t \in T : WF_serveVars(LoadSteps(t)) /\ SF_serveVars(ContextDone(t))

(* No worker stays busy for ever: whoever waits for a manifest, a segment  *)
(* or a slot is woken or gives up (loadManifest, loadSegment).             *)
WorkersReturn == \A t \in Worker : []<>(step[t] = "idle")

============================================================================
