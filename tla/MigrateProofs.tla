-------------------------- MODULE MigrateProofs ----------------------------
(***************************************************************************)
(* Proofs about Migrate for any number of commands, ranges, segment sizes  *)
(* and failures, next to a live archive peer.                              *)
(*                                                                         *)
(* A command acts on copies: of the revision of the manifest it found when *)
(* it began and of the migration state.  MigrateInv says what the copies   *)
(* are worth: under an unchanged revision the saved progress is part of    *)
(* the command's own, and the archive is empty or has the command's range. *)
(***************************************************************************)
EXTENDS Migrate, TLAPS

Labels == {"idle", "manifest", "state", "build", "put", "readback", "save",
           "verify", "publish"}
Loaded == Labels \ {"idle", "manifest", "state"}

(* Segments that were stored intact and hold the blocks of the source.     *)
OfSource(g) == \A h \in g.first .. g.last : g.blocks[h] = MainChain[h]
Honest(segments) ==
    /\ segments \subseteq intact \cup decayed
    /\ \A g \in segments : OfSource(g)

IsStateRecord(s) ==
    /\ IsState(s)
    /\ s = [revision |-> s.revision, start |-> s.start, end |-> s.end,
            next |-> s.next, segments |-> s.segments]

FunInv ==
    /\ sourceHeight \in SourceBase .. MaxHeight
    /\ pc \in [Migrator -> Labels]
    /\ range = [m \in Migrator |-> range[m]]
    /\ existing \in [Migrator -> Nat]
    /\ state = [m \in Migrator |-> state[m]]
    /\ segment = [m \in Migrator |-> segment[m]]
    /\ checked = [m \in Migrator |-> checked[m]]
    /\ faults \in 0 .. MaxFaults

ObjectInv ==
    /\ \A s \in Stored : IsSegment(s)
    /\ IsManifest(manifest) /\ Validate(manifest)
    /\ \A g \in manifest.segments : OfSource(g)
    /\ IsStateRecord(saved)
    /\ saved.revision > 0 => validateMigrationState(saved) /\ Honest(saved.segments)
    /\ IsStateRecord(legacy) /\ Honest(legacy.segments)

RangeInv(m) ==
    /\ range[m] = [start |-> range[m].start, end |-> range[m].end]
    /\ range[m].start \in 0 .. sourceHeight /\ range[m].end \in 0 .. sourceHeight
    /\ pc[m] # "idle" => SourceBase <= range[m].start /\ range[m].start <= range[m].end

(* The copy of the state: true, for this range, and not behind the saved   *)
(* one unless that has another revision.                                   *)
StateInv(m) ==
    /\ IsStateRecord(state[m])
    /\ pc[m] \in Loaded =>
          /\ validateMigrationState(state[m]) /\ Honest(state[m].segments)
          /\ SameRange(state[m], range[m])
          /\ state[m].revision <= saved.revision
          /\ state[m].revision = saved.revision /\ saved.revision > 0 =>
                /\ saved.next <= state[m].next
                /\ saved.segments \subseteq state[m].segments

SegmentInv(m) ==
    /\ segment[m] = NoSegment \/ IsSegment(segment[m])
    /\ pc[m] \in {"put", "readback"} =>
          /\ IsSegment(segment[m]) /\ OfSource(segment[m])
          /\ segment[m].first = state[m].next /\ segment[m].last <= range[m].end

(* The archive found at the start, unless it has changed since.            *)
ExistingInv(m) ==
    pc[m] \in Loaded \cup {"state"} =>
        /\ existing[m] <= manifest.revision
        /\ existing[m] = manifest.revision /\ manifest.segments # {} =>
              manifest.first = range[m].start /\ manifest.last = range[m].end

CheckedInv(m) ==
    /\ checked[m] \subseteq intact \cup decayed
    /\ pc[m] \in {"verify", "publish"} => state[m].next = range[m].end + 1
    /\ pc[m] = "publish" => state[m].segments \subseteq checked[m]

RunInv(m) ==
    RangeInv(m) /\ StateInv(m) /\ SegmentInv(m) /\ ExistingInv(m) /\ CheckedInv(m)

MigrateInv == FunInv /\ ObjectInv /\ \A m \in Migrator : RunInv(m)

----------------------------------------------------------------------------
(* Numbers and segments.                                                   *)

(* What the assumptions say of heights and bounds.                         *)
LEMMA HeightFacts ==
    /\ MaxHeight \in Nat /\ Heights = 1 .. MaxHeight
    /\ SourceBase \in 1 .. MaxHeight /\ MaxFaults \in Nat
    /\ NoBlock \notin Block
  BY ChainAssumption, MigrateAssumption DEF Heights

(* The least element is the minimum.                                       *)
LEMMA MinIs ==
    ASSUME NEW S \in SUBSET Int, NEW x \in S, \A y \in S : x <= y
    PROVE  Min(S) = x
  <1>1. \A z \in S : (\A y \in S : z <= y) => z = x
    OBVIOUS
  <1> QED  BY <1>1, Zenon DEF Min

(* The greatest element is the maximum.                                    *)
LEMMA MaxIs ==
    ASSUME NEW S \in SUBSET Int, NEW x \in S, \A y \in S : x >= y
    PROVE  Max(S) = x
  <1>1. \A z \in S : (\A y \in S : z >= y) => z = x
    OBVIOUS
  <1> QED  BY <1>1, Zenon DEF Max

(* The end of the next segment: Migrate takes the smaller of two heights.  *)
LEMMA MinTwo ==
    ASSUME NEW a \in Int, NEW b \in Int
    PROVE  Min({a, b}) = IF a <= b THEN a ELSE b
  <1>1. CASE a <= b
    BY <1>1, MinIs
  <1>2. CASE ~(a <= b)
    BY <1>2, MinIs
  <1> QED  BY <1>1, <1>2

(* A segment built from the source is valid and holds its blocks.          *)
LEMMA SourceSegment ==
    ASSUME NEW first \in Heights, NEW last \in Heights, first <= last
    PROVE  LET g == SegmentOf(first, last, MainChain)
           IN  g.first = first /\ g.last = last /\ IsSegment(g) /\ OfSource(g)
  BY HeightFacts, MigrateAssumption DEF SegmentOf, IsSegment, OfSource

(* A state extended by a segment that begins where it ends.                *)
LEMMA AppendProgress ==
    ASSUME NEW s, NEW g, IsStateRecord(s), validateMigrationState(s),
           IsSegment(g), g.first = s.next, g.last <= s.end
    PROVE  LET u == [revision |-> s.revision, start |-> s.start, end |-> s.end,
                    next |-> g.last + 1, segments |-> appendSegment(s.segments, g)]
           IN  /\ IsStateRecord(u) /\ validateMigrationState(u)
               /\ u.revision = s.revision /\ u.start = s.start /\ u.end = s.end
               /\ u.segments = s.segments \cup {g}
               /\ s.next <= u.next
  <1> DEFINE u == [revision |-> s.revision, start |-> s.start, end |-> s.end,
                   next |-> g.last + 1, segments |-> appendSegment(s.segments, g)]
  <1>1. /\ g.first \in 1 .. MaxHeight /\ g.last \in 1 .. MaxHeight
        /\ g.first <= g.last /\ MaxHeight \in Nat
    BY HeightFacts DEF IsSegment
  <1>2. /\ s.start \in 0 .. MaxHeight /\ s.end \in 0 .. MaxHeight
        /\ s.next \in 0 .. MaxHeight + 1 /\ s.revision \in Nat
    BY DEF IsStateRecord, IsState
  <1>3. \A f \in s.segments :
           /\ IsSegment(f) /\ s.start <= f.first /\ f.last < s.next
           /\ f.first \in Nat /\ f.last \in Nat /\ f.first <= f.last
    BY HeightFacts DEF validateMigrationState, IsSegment
  <1>4. appendSegment(s.segments, g) = s.segments \cup {g}
    BY <1>1, <1>2, <1>3 DEF appendSegment
  <1>5. u = [revision |-> s.revision, start |-> s.start, end |-> s.end,
             next |-> g.last + 1, segments |-> s.segments \cup {g}]
    BY <1>4
  <1>6. IsStateRecord(u)
    BY <1>1, <1>2, <1>3, <1>5 DEF IsStateRecord, IsState
  <1>7. validateMigrationState(u)
    <2>1. /\ 0 < s.start /\ s.start <= s.end
          /\ s.start <= s.next /\ s.next <= s.end + 1
          /\ \A h \in s.start .. s.next - 1 :
                \E f \in s.segments :
                   /\ Covers(f, h)
                   /\ \A e \in s.segments : Covers(e, h) => e = f
      BY DEF validateMigrationState
    <2>2. \A f \in u.segments :
             IsSegment(f) /\ u.start <= f.first /\ f.last < u.next
      BY <1>1, <1>2, <1>3, <1>5, <2>1
    <2>3. ASSUME NEW h \in u.start .. u.next - 1
          PROVE  \E f \in u.segments :
                    Covers(f, h) /\ \A e \in u.segments : Covers(e, h) => e = f
      <3>1. CASE h < s.next
        <4>1. PICK f \in s.segments :
                 Covers(f, h) /\ \A e \in s.segments : Covers(e, h) => e = f
          BY <1>1, <1>2, <1>5, <2>1, <3>1
        <4>2. ~Covers(g, h)
          BY <1>1, <1>2, <1>5, <3>1 DEF Covers
        <4> QED  BY <1>5, <4>1, <4>2
      <3>2. CASE ~(h < s.next)
        <4>1. Covers(g, h)
          BY <1>1, <1>2, <1>5, <3>2 DEF Covers
        <4>2. \A e \in s.segments : ~Covers(e, h)
          BY <1>1, <1>2, <1>3, <1>5, <3>2 DEF Covers
        <4> QED  BY <1>5, <4>1, <4>2
      <3> QED  BY <3>1, <3>2
    <2> QED  BY <1>1, <1>2, <1>5, <2>1, <2>2, <2>3 DEF validateMigrationState
  <1> QED  BY <1>1, <1>2, <1>5, <1>6, <1>7

(* The manifest of a complete state spans exactly its range.               *)
LEMMA CompleteManifest ==
    ASSUME NEW s, IsStateRecord(s), validateMigrationState(s),
           s.next = s.end + 1
    PROVE  NewManifest(s.segments) = [revision |-> 0, first |-> s.start,
                                      last |-> s.end, segments |-> s.segments]
  <1>1. /\ s.start \in 1 .. MaxHeight /\ s.end \in 1 .. MaxHeight
        /\ s.start <= s.end /\ MaxHeight \in Nat
    BY HeightFacts DEF IsStateRecord, IsState, validateMigrationState
  <1>2. \A f \in s.segments :
           /\ s.start <= f.first /\ f.last <= s.end
           /\ f.first \in Nat /\ f.last \in Nat
    BY <1>1, HeightFacts DEF validateMigrationState, IsSegment
  <1>3. \E f \in s.segments : f.first = s.start
    <2>1. PICK f \in s.segments : Covers(f, s.start)
      BY <1>1 DEF validateMigrationState
    <2> QED  BY <1>1, <1>2, <2>1 DEF Covers
  <1>4. \E f \in s.segments : f.last = s.end
    <2>1. PICK f \in s.segments : Covers(f, s.end)
      BY <1>1 DEF validateMigrationState
    <2> QED  BY <1>1, <1>2, <2>1 DEF Covers
  <1>5. Min({f.first : f \in s.segments}) = s.start
    <2> DEFINE S == {f.first : f \in s.segments}
    <2>1. S \in SUBSET Int /\ s.start \in S /\ \A y \in S : s.start <= y
      BY <1>2, <1>3
    <2> HIDE DEF S
    <2>2. Min(S) = s.start
      BY <2>1, MinIs, Zenon
    <2> QED  BY <2>2 DEF S
  <1>6. Max({f.last : f \in s.segments}) = s.end
    <2> DEFINE S == {f.last : f \in s.segments}
    <2>1. S \in SUBSET Int /\ s.end \in S /\ \A y \in S : s.end >= y
      BY <1>1, <1>2, <1>4
    <2> HIDE DEF S
    <2>2. Max(S) = s.end
      BY <2>1, MaxIs, Zenon
    <2> QED  BY <2>2 DEF S
  <1> QED  BY <1>5, <1>6 DEF NewManifest

----------------------------------------------------------------------------
(* What a command knows stays true while others act: objects stay stored,  *)
(* the source grows, and whoever writes state or manifest makes a newer    *)
(* revision.                                                               *)
OthersAct ==
    /\ sourceHeight' \in sourceHeight .. MaxHeight
    /\ intact \cup decayed \subseteq intact' \cup decayed'
    /\ saved' = saved \/ saved'.revision = saved.revision + 1
    /\ manifest' = manifest \/ manifest'.revision = manifest.revision + 1

SameRun(m) ==
    /\ pc'[m] = pc[m] /\ range'[m] = range[m] /\ existing'[m] = existing[m]
    /\ state'[m] = state[m] /\ segment'[m] = segment[m]
    /\ checked'[m] = checked[m]

(* The frame: a run that does not act keeps what it knows.                 *)
LEMMA RunFrame ==
    ASSUME NEW m \in Migrator, FunInv, ObjectInv, RunInv(m), OthersAct, SameRun(m)
    PROVE  RunInv(m)'
  <1> USE DEF RunInv, SameRun
  <1>1. RangeInv(m)'
    BY HeightFacts DEF RangeInv, OthersAct, FunInv
  <1>2. StateInv(m)'
    <2>1. state[m].revision \in Nat /\ saved.revision \in Nat
      BY DEF StateInv, ObjectInv, IsStateRecord, IsState
    <2>2. Honest(state[m].segments) => Honest(state[m].segments)'
      BY DEF Honest, OthersAct, OfSource
    <2> QED  BY <2>1, <2>2 DEF StateInv, OthersAct, IsStateRecord, IsState,
                validateMigrationState, SameRange, Honest
  <1>3. SegmentInv(m)'
    BY DEF SegmentInv, OfSource
  <1>4. ExistingInv(m)'
    <2>1. existing[m] \in Nat /\ manifest.revision \in Nat
      BY DEF FunInv, ObjectInv, IsManifest
    <2> QED  BY <2>1 DEF ExistingInv, OthersAct
  <1>5. CheckedInv(m)'
    BY DEF CheckedInv, OthersAct
  <1> QED  BY <1>1, <1>2, <1>3, <1>4, <1>5

(* A step of one run: only that run has to be looked at again.             *)
LEMMA OneRuns ==
    ASSUME MigrateInv, NEW m \in Migrator, OthersAct,
           \A d \in Migrator \ {m} : SameRun(d),
           FunInv', ObjectInv', RunInv(m)'
    PROVE  MigrateInv'
  <1>1. ASSUME NEW d \in Migrator PROVE RunInv(d)'
    <2>1. CASE d = m
      BY <2>1
    <2>2. CASE d # m
      BY <2>2, RunFrame DEF MigrateInv
    <2> QED  BY <2>1, <2>2
  <1> QED  BY <1>1 DEF MigrateInv

(* A step that leaves the object store and the source alone.               *)
LEMMA ObjectsSame ==
    ASSUME MigrateInv, UNCHANGED <<sourceHeight, objectVars>>
    PROVE  ObjectInv' /\ OthersAct
  <1>1. ObjectInv'
    BY DEF MigrateInv, ObjectInv, objectVars, Stored, Honest, OfSource
  <1>2. OthersAct
    BY HeightFacts DEF MigrateInv, FunInv, OthersAct, objectVars
  <1> QED  BY <1>1, <1>2

(* Whatever ended a run, nothing is left of it.                            *)
LEMMA RunEnds ==
    ASSUME MigrateInv, NEW m \in Migrator, EndRun(m), OthersAct, ObjectInv',
           UNCHANGED sourceHeight, faults' \in 0 .. MaxFaults
    PROVE  MigrateInv'
  <1>1. FunInv'
    BY HeightFacts, Zenon DEF MigrateInv, FunInv, EndRun, Labels
  <1>2. \A d \in Migrator \ {m} : SameRun(d)
    BY Zenon DEF MigrateInv, FunInv, EndRun, SameRun
  <1>3. /\ pc'[m] = "idle" /\ range'[m] = NoRange /\ existing'[m] = 0
        /\ state'[m] = NoState /\ segment'[m] = NoSegment /\ checked'[m] = {}
    BY DEF MigrateInv, FunInv, EndRun
  <1>4. RunInv(m)'
    <2>1. RangeInv(m)'
      BY <1>3, HeightFacts DEF RangeInv, NoRange, MigrateInv, FunInv
    <2>2. StateInv(m)'
      BY <1>3, HeightFacts
         DEF StateInv, NoState, NewState, NoRange, IsStateRecord, IsState, Loaded
    <2> QED  BY <1>3, <2>1, <2>2
                DEF RunInv, SegmentInv, ExistingInv, CheckedInv, Loaded
  <1> QED  BY <1>1, <1>2, <1>4, OneRuns

----------------------------------------------------------------------------
(* The initial states.                                                     *)
LEMMA MigrateInitInv == MigrateInit => MigrateInv
  <1> SUFFICES ASSUME MigrateInit PROVE MigrateInv
    OBVIOUS
  <1>1. FunInv
    BY HeightFacts DEF MigrateInit, FunInv, Labels
  <1>2. NoState = [revision |-> 0, start |-> 0, end |-> 0, next |-> 0,
                   segments |-> {}] /\ IsStateRecord(NoState)
    BY HeightFacts DEF NoState, NewState, NoRange, IsStateRecord, IsState
  <1>3. IsStateRecord(legacy) /\ \A g \in legacy.segments : OfSource(g)
    <2>1. CASE legacy = NoState
      BY <1>2, <2>1
    <2>2. CASE legacy \in LegacyStates
      <3>1. PICK e \in LegacyEnds, k \in SourceBase .. MaxHeight :
               legacy = [revision |-> 1, start |-> SourceBase, end |-> e,
                         next |-> k + 1,
                         segments |-> {SegmentOf(SourceBase, k, MainChain)}]
        BY <2>2 DEF LegacyStates
      <3>2. /\ e \in SourceBase .. MaxHeight
            /\ IsSegment(SegmentOf(SourceBase, k, MainChain))
            /\ OfSource(SegmentOf(SourceBase, k, MainChain))
        BY SourceSegment, HeightFacts, MigrateAssumption
      <3> QED  BY <3>1, <3>2, HeightFacts DEF IsStateRecord, IsState
    <2> QED  BY <2>1, <2>2 DEF MigrateInit
  <1>4. ObjectInv
    BY <1>2, <1>3, HeightFacts
       DEF MigrateInit, ObjectInv, Stored, Honest, EmptyManifest, IsManifest,
           Validate, IsStateRecord, IsState
  <1>5. ASSUME NEW m \in Migrator PROVE RunInv(m)
    BY <1>2, HeightFacts
       DEF MigrateInit, RunInv, RangeInv, StateInv, SegmentInv, ExistingInv,
           CheckedInv, NoRange, Loaded
  <1> QED  BY <1>1, <1>4, <1>5 DEF MigrateInv

(* Migrate: ClampRange gives a range of the source.                        *)
LEMMA MigrateStepInv ==
    ASSUME MigrateInv, NEW m \in Migrator, Migrate(m)
    PROVE  MigrateInv'
  <1> DEFINE r == ClampRange(m)
  <1>1. FunInv'
    BY Zenon DEF Migrate, MigrateInv, FunInv, Goto, Labels
  <1>2. ObjectInv' /\ OthersAct
    BY ObjectsSame DEF Migrate
  <1>3. \A d \in Migrator \ {m} : SameRun(d)
    BY DEF Migrate, MigrateInv, FunInv, Goto, SameRun
  <1>4. /\ pc'[m] = "manifest" /\ range'[m] = r /\ existing'[m] = existing[m]
        /\ state'[m] = state[m] /\ segment'[m] = segment[m]
        /\ checked'[m] = checked[m]
        /\ UNCHANGED <<sourceHeight, intact, decayed>>
    BY DEF Migrate, MigrateInv, FunInv, Goto, objectVars
  <1>5. RangeInv(m)'
    <2>1. /\ r = [start |-> r.start, end |-> r.end]
          /\ r.start \in Nat /\ r.end \in Nat
      BY HeightFacts, MigrateAssumption DEF ClampRange, MigrateInv, FunInv
    <2>2. SourceBase <= r.start /\ r.start <= r.end /\ r.end <= sourceHeight
      BY DEF Migrate, InSource
    <2> HIDE DEF r
    <2> QED  BY <1>4, <2>1, <2>2, HeightFacts DEF RangeInv, MigrateInv, FunInv
  <1>6. RunInv(m)'
    BY <1>4, <1>5
       DEF MigrateInv, RunInv, StateInv, SegmentInv, ExistingInv, CheckedInv,
           Loaded, IsStateRecord, IsState
  <1> QED  BY <1>1, <1>2, <1>3, <1>6, OneRuns

(* LoadExisting: the archive is empty or has the range of the run.         *)
LEMMA LoadExistingInv ==
    ASSUME MigrateInv, NEW m \in Migrator, LoadExisting(m)
    PROVE  MigrateInv'
  <1>1. ObjectInv' /\ OthersAct
    BY ObjectsSame DEF LoadExisting
  <1>2. CASE \/ manifest.last = 0
             \/ manifest.first = range[m].start /\ manifest.last = range[m].end
    <2>1. FunInv'
      BY <1>2 DEF LoadExisting, MigrateInv, FunInv, ObjectInv, IsManifest, Goto,
                  Labels
    <2>2. \A d \in Migrator \ {m} : SameRun(d)
      BY <1>2 DEF LoadExisting, MigrateInv, FunInv, Goto, SameRun
    <2>3. /\ pc[m] = "manifest" /\ pc'[m] = "state" /\ range'[m] = range[m]
          /\ existing'[m] = manifest.revision /\ state'[m] = state[m]
          /\ segment'[m] = segment[m] /\ checked'[m] = checked[m]
          /\ UNCHANGED <<sourceHeight, manifest, intact, decayed>>
      BY <1>2 DEF LoadExisting, MigrateInv, FunInv, Goto, objectVars
    <2>4. manifest.segments # {} => manifest.last # 0
      BY HeightFacts DEF MigrateInv, ObjectInv, IsManifest, Validate
    <2>5. ExistingInv(m)'
      BY <1>2, <2>3, <2>4 DEF ExistingInv, MigrateInv, ObjectInv, IsManifest
    <2>6. RunInv(m)'
      BY <2>3, <2>5
         DEF MigrateInv, RunInv, RangeInv, StateInv, SegmentInv, CheckedInv,
             Loaded, IsStateRecord, IsState
    <2> QED  BY <1>1, <2>1, <2>2, <2>6, OneRuns
  <1>3. CASE ~(\/ manifest.last = 0
               \/ manifest.first = range[m].start /\ manifest.last = range[m].end)
    BY <1>1, <1>3, RunEnds DEF LoadExisting, MigrateInv, FunInv
  <1> QED  BY <1>2, <1>3

(* LoadState: the copy is the saved state, or nothing is saved yet.        *)
LEMMA LoadStateInv ==
    ASSUME MigrateInv, NEW m \in Migrator, LoadState(m)
    PROVE  MigrateInv'
  <1> DEFINE f == FoundState(m)
  <1>1. ObjectInv' /\ OthersAct
    BY ObjectsSame, Zenon DEF LoadState
  <1>2. CASE validateMigrationState(f) /\ SameRange(f, range[m])
    <2>1. FunInv'
      BY <1>2 DEF LoadState, MigrateInv, FunInv, Goto, Labels
    <2>2. \A d \in Migrator \ {m} : SameRun(d)
      BY <1>2 DEF LoadState, MigrateInv, FunInv, Goto, SameRun
    <2>3. /\ pc[m] = "state" /\ pc'[m] \in {"save", "build"}
          /\ range'[m] = range[m] /\ existing'[m] = existing[m]
          /\ state'[m] = f
          /\ segment'[m] = segment[m] /\ checked'[m] = checked[m]
          /\ UNCHANGED <<sourceHeight, manifest, saved, intact, decayed>>
      BY <1>2 DEF LoadState, MigrateInv, FunInv, Goto, objectVars
    <2>4. /\ IsStateRecord(f) /\ Honest(f.segments)
          /\ f.revision = saved.revision
          /\ saved.revision > 0 => f = saved
      <3>1. saved.revision \in Nat /\ legacy.revision \in Nat
        BY DEF MigrateInv, ObjectInv, IsStateRecord, IsState
      <3>2. CASE saved.revision > 0
        BY <3>2 DEF FoundState, MigrateInv, ObjectInv
      <3>3. CASE saved.revision = 0 /\ legacy.revision > 0
        <4>1. f = [revision |-> 0, start |-> legacy.start, end |-> legacy.end,
                   next |-> legacy.next, segments |-> legacy.segments]
          BY <3>1, <3>3 DEF FoundState, AtRevision, MigrateInv, ObjectInv, IsStateRecord
        <4> HIDE DEF f
        <4> QED  BY <3>3, <4>1 DEF MigrateInv, ObjectInv, IsStateRecord, IsState
      <3>4. CASE saved.revision = 0 /\ ~(legacy.revision > 0)
        <4>1. f = [revision |-> 0, start |-> range[m].start, end |-> range[m].end,
                   next |-> range[m].start, segments |-> {}]
          BY <3>1, <3>4 DEF FoundState, NewState
        <4>2. range[m].start \in 0 .. MaxHeight /\ range[m].end \in 0 .. MaxHeight
          BY HeightFacts DEF MigrateInv, FunInv, RunInv, RangeInv
        <4> HIDE DEF f
        <4> QED  BY <3>4, <4>1, <4>2, HeightFacts DEF Honest, IsStateRecord, IsState
      <3> QED  BY <3>1, <3>2, <3>3, <3>4
    <2> HIDE DEF f
    <2>5. StateInv(m)'
      <3>1. saved.revision \in Nat /\ saved.next \in Nat
        BY HeightFacts DEF MigrateInv, ObjectInv, IsStateRecord, IsState
      <3>2. IsStateRecord(state[m])' /\ validateMigrationState(state[m])'
        BY <1>2, <2>3, <2>4 DEF IsStateRecord, IsState, validateMigrationState
      <3>3. Honest(state[m].segments)' /\ SameRange(state[m], range[m])'
        BY <1>2, <2>3, <2>4 DEF Honest, OfSource, SameRange
      <3>4. saved' = saved /\ (saved.revision > 0 => state'[m] = saved)
            /\ state'[m].revision = saved.revision
        BY <2>3, <2>4
      <3> QED  BY <3>1, <3>2, <3>3, <3>4 DEF StateInv
    <2>6. ExistingInv(m)'
      BY <2>3 DEF ExistingInv, MigrateInv, RunInv, Loaded, Labels
    <2>7. RunInv(m)'
      BY <2>3, <2>5, <2>6, Zenon
         DEF MigrateInv, RunInv, RangeInv, SegmentInv, CheckedInv
    <2> QED  BY <1>1, <2>1, <2>2, <2>7, OneRuns
  <1>3. CASE ~(validateMigrationState(f) /\ SameRange(f, range[m]))
    BY <1>1, <1>3, RunEnds DEF LoadState, MigrateInv, FunInv
  <1> QED  BY <1>2, <1>3

(* buildSegment: the next segment begins where the state ends.             *)
LEMMA buildSegmentInv ==
    ASSUME MigrateInv, NEW m \in Migrator, buildSegment(m)
    PROVE  MigrateInv'
  <1>1. ObjectInv' /\ OthersAct
    BY ObjectsSame, Zenon DEF buildSegment
  <1>2. FunInv'
    BY DEF buildSegment, MigrateInv, FunInv, Goto, Labels
  <1>3. \A d \in Migrator \ {m} : SameRun(d)
    BY DEF buildSegment, MigrateInv, FunInv, Goto, SameRun
  <1>4. /\ pc[m] = "build" /\ pc'[m] \in {"verify", "put"}
        /\ range'[m] = range[m] /\ existing'[m] = existing[m]
        /\ state'[m] = state[m] /\ checked'[m] = checked[m]
        /\ UNCHANGED <<sourceHeight, manifest, saved, intact, decayed>>
    BY DEF buildSegment, MigrateInv, FunInv, Goto, objectVars
  <1>5. /\ validateMigrationState(state[m]) /\ SameRange(state[m], range[m])
        /\ range[m].start \in 0 .. sourceHeight /\ range[m].end \in 0 .. sourceHeight
        /\ sourceHeight \in 1 .. MaxHeight
        /\ state[m].next \in 0 .. MaxHeight + 1
    <2>1. FunInv /\ RangeInv(m) /\ StateInv(m) /\ pc[m] \in Loaded
      BY <1>4, Zenon DEF MigrateInv, RunInv, Loaded, Labels
    <2>2. sourceHeight \in 1 .. MaxHeight
      BY <2>1, HeightFacts DEF FunInv
    <2> QED  BY <2>1, <2>2, Zenon
                DEF RangeInv, StateInv, IsStateRecord, IsState
  <1>6. 0 < state[m].next /\ state[m].next <= range[m].end + 1
    BY <1>5, HeightFacts DEF validateMigrationState, SameRange
  <1>7. SegmentInv(m)' /\ (pc'[m] = "verify" => state[m].next = range[m].end + 1)
    <2>1. CASE state[m].next > range[m].end
      <3>1. pc'[m] = "verify" /\ segment'[m] = segment[m]
        BY <2>1, Zenon DEF buildSegment, MigrateInv, FunInv, Goto
      <3>2. state[m].next = range[m].end + 1
        BY <1>5, <1>6, <2>1, HeightFacts
      <3>3. segment[m] = NoSegment \/ IsSegment(segment[m])
        BY DEF MigrateInv, RunInv, SegmentInv
      <3>4. SegmentInv(m)'
        BY <3>1, <3>3 DEF SegmentInv
      <3> QED  BY <3>2, <3>4
    <2>2. CASE ~(state[m].next > range[m].end)
      <3> DEFINE g == SegmentOf(state[m].next, SegmentLast(m), MainChain)
      <3>1. pc'[m] = "put" /\ segment'[m] = g
        BY <2>2 DEF buildSegment, MigrateInv, FunInv, Goto
      <3>2. /\ SegmentLast(m) \in state[m].next .. range[m].end
            /\ state[m].next \in Heights /\ SegmentLast(m) \in Heights
        <4>1. SegmentBlocks[m] \in Nat \ {0}
          BY MigrateAssumption
        <4>2. SegmentLast(m) =
                 LET a == state[m].next + SegmentBlocks[m] - 1
                 IN  IF a <= range[m].end THEN a ELSE range[m].end
          <5>1. state[m].next + SegmentBlocks[m] - 1 \in Int /\ range[m].end \in Int
            BY <1>5, <4>1, HeightFacts
          <5> QED  BY <5>1, MinTwo DEF SegmentLast
        <4>3. SegmentLast(m) \in Int
              /\ state[m].next <= SegmentLast(m) /\ SegmentLast(m) <= range[m].end
          BY <1>5, <1>6, <2>2, <4>1, <4>2, HeightFacts
        <4> QED  BY <1>5, <1>6, <4>3, HeightFacts
      <3>3. g.first = state[m].next /\ g.last = SegmentLast(m) /\ IsSegment(g)
            /\ OfSource(g)
        BY <3>2, SourceSegment, HeightFacts
      <3> HIDE DEF g
      <3>4. g.first = state'[m].next /\ g.last <= range'[m].end
        <4>1. g.last <= range[m].end
          BY <3>2, <3>3
        <4> QED  BY <1>4, <3>3, <4>1
      <3>5. SegmentInv(m)'
        BY <3>1, <3>3, <3>4 DEF SegmentInv
      <3> QED  BY <3>1, <3>5
    <2> QED  BY <2>1, <2>2
  <1>8. RunInv(m)'
    <2>1. RunInv(m) /\ pc[m] \in Loaded /\ pc'[m] # "publish"
      BY <1>4 DEF MigrateInv, Loaded, Labels
    <2>2. RangeInv(m)'
      BY <1>4, <2>1 DEF RunInv, RangeInv
    <2>3. StateInv(m)'
      BY <1>4, <2>1 DEF RunInv, StateInv, Honest
    <2>4. ExistingInv(m)'
      BY <1>4, <2>1 DEF RunInv, ExistingInv
    <2>5. CheckedInv(m)'
      BY <1>4, <1>7, <2>1 DEF RunInv, CheckedInv
    <2> QED  BY <1>7, <2>2, <2>3, <2>4, <2>5 DEF RunInv
  <1> QED  BY <1>1, <1>2, <1>3, <1>8, OneRuns

(* Objects may be added and damaged as long as what was stored stays known. *)
LEMMA ObjectsGrow ==
    ASSUME MigrateInv, UNCHANGED <<sourceHeight, manifest, saved, legacy>>,
           \A s \in Stored' : IsSegment(s),
           intact \cup decayed \subseteq intact' \cup decayed'
    PROVE  ObjectInv' /\ OthersAct
  <1>1. ASSUME NEW S, Honest(S) PROVE Honest(S)'
    BY <1>1 DEF Honest, OfSource
  <1>2. Honest(legacy.segments)'
    BY <1>1 DEF MigrateInv, ObjectInv, Honest
  <1>3. saved.revision > 0 => Honest(saved.segments)'
    BY <1>1 DEF MigrateInv, ObjectInv, Honest
  <1>4. ObjectInv'
    BY <1>2, <1>3 DEF MigrateInv, ObjectInv, OfSource
  <1>5. OthersAct
    BY HeightFacts DEF MigrateInv, FunInv, OthersAct
  <1> QED  BY <1>4, <1>5

(* The state after an upload goes on from the state before it.              *)
LEMMA UploadedState ==
    ASSUME MigrateInv, NEW m \in Migrator, pc[m] \in {"put", "readback"}
    PROVE  LET u == Uploaded(m)
           IN  /\ IsStateRecord(u) /\ validateMigrationState(u)
               /\ u.revision = state[m].revision
               /\ SameRange(u, range[m])
               /\ u.segments = state[m].segments \cup {segment[m]}
               /\ state[m].next <= u.next
  <1>1. StateInv(m) /\ SegmentInv(m) /\ pc[m] \in Loaded
    BY DEF MigrateInv, RunInv, Loaded, Labels
  <1>2. /\ IsStateRecord(state[m]) /\ validateMigrationState(state[m])
        /\ SameRange(state[m], range[m])
        /\ IsSegment(segment[m]) /\ segment[m].first = state[m].next
        /\ segment[m].last <= state[m].end
    BY <1>1, Zenon DEF StateInv, SegmentInv, SameRange
  <1> QED  BY <1>2, AppendProgress, Zenon DEF Uploaded, SameRange

(* A run notes a segment that is stored intact.                            *)
LEMMA SegmentUploaded ==
    ASSUME MigrateInv, NEW m \in Migrator, pc[m] \in {"put", "readback"},
           state' = [state EXCEPT ![m] = Uploaded(m)], Goto(m, "save"),
           segment[m] \in intact',
           UNCHANGED <<sourceHeight, manifest, saved, range, existing, segment,
                       checked, faults>>,
           ObjectInv', OthersAct
    PROVE  MigrateInv'
  <1> DEFINE u == Uploaded(m)
  <1>1. FunInv'
    BY DEF MigrateInv, FunInv, Goto, Labels
  <1>2. \A d \in Migrator \ {m} : SameRun(d)
    BY DEF MigrateInv, FunInv, Goto, SameRun
  <1>3. pc'[m] = "save" /\ state'[m] = u
    BY DEF MigrateInv, FunInv, Goto
  <1>4. /\ IsStateRecord(u) /\ validateMigrationState(u)
        /\ u.revision = state[m].revision /\ SameRange(u, range[m])
        /\ u.segments = state[m].segments \cup {segment[m]}
        /\ state[m].next <= u.next
    BY UploadedState
  <1> HIDE DEF u
  <1>5. RunInv(m) /\ pc[m] \in Loaded
    BY DEF MigrateInv, Loaded, Labels
  <1>6. Honest(state[m].segments)'
    <2>1. u.segments \subseteq intact' \cup decayed'
      BY <1>4, <1>5 DEF RunInv, StateInv, Honest, OthersAct
    <2>2. \A g \in u.segments : OfSource(g)
      BY <1>4, <1>5, Zenon DEF RunInv, StateInv, SegmentInv, Honest
    <2>3. state'[m].segments = u.segments
      BY <1>3
    <2> QED  BY <2>1, <2>2, <2>3 DEF Honest, OfSource
  <1>7. StateInv(m)'
    <2>1. state[m].revision \in Nat /\ saved.revision \in Nat
          /\ state[m].next \in Nat /\ saved.next \in Nat /\ u.next \in Nat
      <3>1. IsStateRecord(state[m]) /\ IsStateRecord(saved) /\ IsStateRecord(u)
        BY <1>4, <1>5, Zenon DEF RunInv, StateInv, MigrateInv, ObjectInv
      <3> QED  BY <3>1, HeightFacts DEF IsStateRecord, IsState
    <2>2. IsStateRecord(state[m])' /\ validateMigrationState(state[m])'
      BY <1>3, <1>4 DEF IsStateRecord, IsState, validateMigrationState
    <2>3. SameRange(state[m], range[m])'
      BY <1>3, <1>4 DEF SameRange
    <2>4. /\ state'[m].revision = state[m].revision
          /\ state'[m].segments = state[m].segments \cup {segment[m]}
          /\ state'[m].next = u.next /\ saved' = saved
      BY <1>3, <1>4, Zenon
    <2>5. /\ state[m].revision <= saved.revision
          /\ state[m].revision = saved.revision /\ saved.revision > 0 =>
                /\ saved.next <= state[m].next
                /\ saved.segments \subseteq state[m].segments
      BY <1>5, Zenon DEF RunInv, StateInv
    <2>6. saved.next <= state[m].next => saved.next <= u.next
      <3>1. state[m].next <= u.next
        BY <1>4, Zenon
      <3> QED  BY <2>1, <3>1
    <2>7. /\ state'[m].revision <= saved'.revision
          /\ state'[m].revision = saved'.revision /\ saved'.revision > 0 =>
                /\ saved'.next <= state'[m].next
                /\ saved'.segments \subseteq state'[m].segments
      BY <2>4, <2>5, <2>6
    <2> QED  BY <1>6, <2>2, <2>3, <2>7, Zenon DEF StateInv
  <1>8. RunInv(m)'
    <2>1. RangeInv(m)'
      BY <1>3, <1>5, Zenon DEF RunInv, RangeInv, Loaded
    <2>2. SegmentInv(m)' /\ ExistingInv(m)'
      BY <1>3, <1>5, Zenon DEF RunInv, SegmentInv, ExistingInv
    <2>3. CheckedInv(m)'
      BY <1>3, <1>5, Zenon DEF RunInv, CheckedInv, OthersAct
    <2> QED  BY <1>7, <2>1, <2>2, <2>3 DEF RunInv
  <1> QED  BY <1>1, <1>2, <1>8, OneRuns

(* A run that only moves on between put and readback.                      *)
LEMMA SegmentPending ==
    ASSUME MigrateInv, NEW m \in Migrator, pc[m] = "put", Goto(m, "readback"),
           UNCHANGED <<sourceHeight, manifest, saved, range, existing, state,
                       segment, checked>>,
           faults' \in 0 .. MaxFaults, ObjectInv', OthersAct
    PROVE  MigrateInv'
  <1>1. FunInv'
    BY DEF MigrateInv, FunInv, Goto, Labels
  <1>2. \A d \in Migrator \ {m} : SameRun(d)
    BY DEF MigrateInv, FunInv, Goto, SameRun
  <1>3. pc'[m] = "readback"
    BY DEF MigrateInv, FunInv, Goto
  <1>4. RunInv(m) /\ pc[m] \in Loaded
    BY DEF MigrateInv, Loaded, Labels
  <1>5. StateInv(m)'
    <2>1. Honest(state[m].segments)'
      BY <1>4, Zenon DEF RunInv, StateInv, Honest, OfSource, OthersAct
    <2> QED  BY <1>3, <1>4, <2>1, Zenon
                DEF RunInv, StateInv, IsStateRecord, IsState,
                    validateMigrationState, SameRange
  <1>6. RunInv(m)'
    <2>1. RangeInv(m)'
      BY <1>3, <1>4, Zenon DEF RunInv, RangeInv
    <2>2. SegmentInv(m)' /\ ExistingInv(m)'
      BY <1>3, <1>4, Zenon DEF RunInv, SegmentInv, ExistingInv, OfSource
    <2>3. CheckedInv(m)'
      BY <1>3, <1>4 DEF RunInv, CheckedInv, OthersAct
    <2> QED  BY <1>5, <2>1, <2>2, <2>3 DEF RunInv
  <1> QED  BY <1>1, <1>2, <1>6, OneRuns

(* PutSegment: stored and proved, stored and to be read back, or torn.     *)
LEMMA PutSegmentInv ==
    ASSUME MigrateInv, NEW m \in Migrator, PutSegment(m)
    PROVE  MigrateInv'
  <1>1. pc[m] = "put" /\ IsSegment(segment[m])
    BY Zenon DEF PutSegment, MigrateInv, RunInv, SegmentInv
  <1>2. ObjectInv' /\ OthersAct
    <2>1. \A s \in Stored : IsSegment(s)
      BY DEF MigrateInv, ObjectInv
    <2>2. /\ Stored' \subseteq Stored \cup {segment[m]}
          /\ intact \cup decayed \subseteq intact' \cup decayed'
          /\ UNCHANGED <<sourceHeight, manifest, saved, legacy>>
      BY DEF PutSegment, Stored
    <2> QED  BY <1>1, <2>1, <2>2, ObjectsGrow
  <1>3. /\ faults' \in 0 .. MaxFaults
        /\ UNCHANGED <<sourceHeight, manifest, saved, range, existing, segment,
                       checked>>
    BY HeightFacts DEF PutSegment, Fault, MigrateInv, FunInv
  <1>4. CASE Goto(m, "save") /\ state' = [state EXCEPT ![m] = Uploaded(m)]
             /\ segment[m] \in intact' /\ UNCHANGED faults
    BY <1>1, <1>2, <1>3, <1>4, SegmentUploaded, Zenon
  <1>5. CASE Goto(m, "readback") /\ UNCHANGED state
    BY <1>1, <1>2, <1>3, <1>5, SegmentPending, Zenon
  <1> QED  BY <1>4, <1>5, Zenon DEF PutSegment

(* verifyStoredSegment: only what reads back intact is noted.              *)
LEMMA verifyStoredSegmentInv ==
    ASSUME MigrateInv, NEW m \in Migrator, verifyStoredSegment(m)
    PROVE  MigrateInv'
  <1>1. ObjectInv' /\ OthersAct
    BY ObjectsSame DEF verifyStoredSegment
  <1>2. /\ pc[m] = "readback"
        /\ UNCHANGED <<sourceHeight, intact, manifest, saved, faults>>
    BY Zenon DEF verifyStoredSegment, objectVars
  <1>3. CASE segment[m] \in intact
    BY <1>1, <1>2, <1>3, SegmentUploaded, Zenon DEF verifyStoredSegment
  <1>4. CASE segment[m] \notin intact
    BY <1>1, <1>2, <1>4, RunEnds DEF verifyStoredSegment, MigrateInv, FunInv
  <1> QED  BY <1>3, <1>4

(* Writing the state of a run: nobody else's progress is lost.             *)
LEMMA StateSaved ==
    ASSUME MigrateInv, NEW m \in Migrator, pc[m] = "save", CanSave(m),
           saved' = SavedNext(m),
           UNCHANGED <<sourceHeight, intact, torn, decayed, manifest, legacy>>
    PROVE  /\ ObjectInv' /\ OthersAct
           /\ IsStateRecord(saved') /\ validateMigrationState(saved')
           /\ saved'.segments = state[m].segments /\ saved'.next = state[m].next
           /\ saved'.start = state[m].start /\ saved'.end = state[m].end
           /\ saved'.revision = saved.revision + 1
           /\ saved.revision > 0 => /\ saved.next <= saved'.next
                                    /\ saved.segments \subseteq saved'.segments
  <1>1. StateInv(m) /\ pc[m] \in Loaded /\ IsStateRecord(saved)
    BY Zenon DEF MigrateInv, RunInv, ObjectInv, Loaded, Labels
  <1>2. /\ IsStateRecord(state[m]) /\ validateMigrationState(state[m])
        /\ Honest(state[m].segments)
        /\ saved.revision > 0 => /\ saved.next <= state[m].next
                                 /\ saved.segments \subseteq state[m].segments
    BY <1>1, Zenon DEF StateInv, CanSave
  <1>3. saved' = [revision |-> saved.revision + 1, start |-> state[m].start,
                  end |-> state[m].end, next |-> state[m].next,
                  segments |-> state[m].segments]
    BY Zenon DEF SavedNext, AtRevision
  <1>4. saved.revision + 1 \in Nat
    BY <1>1 DEF IsStateRecord, IsState
  <1>5. IsStateRecord(saved') /\ validateMigrationState(saved')
    <2>1. /\ saved'.revision = saved.revision + 1 /\ saved'.start = state[m].start
          /\ saved'.end = state[m].end /\ saved'.next = state[m].next
          /\ saved'.segments = state[m].segments
      BY <1>3
    <2>2. IsState(saved')
      BY <1>2, <1>4, <2>1 DEF IsStateRecord, IsState
    <2>3. validateMigrationState(saved')
      BY <1>2, <2>1, Zenon DEF validateMigrationState
    <2>4. IsStateRecord(saved')
      BY <1>3, <2>1, <2>2, Zenon DEF IsStateRecord
    <2> QED  BY <2>3, <2>4
  <1>6. Honest(saved.segments)'
    <2>1. saved'.segments = state[m].segments
      BY <1>3
    <2> QED  BY <1>2, <2>1, Zenon DEF Honest
  <1>7. ObjectInv'
    <2>1. Honest(legacy.segments)'
      BY DEF MigrateInv, ObjectInv, Honest, OfSource
    <2>2. \A s \in Stored' : IsSegment(s)
      BY Zenon DEF MigrateInv, ObjectInv, Stored
    <2>3. \A g \in manifest'.segments : OfSource(g)
      BY DEF MigrateInv, ObjectInv
    <2> QED  BY <1>5, <1>6, <2>1, <2>2, <2>3 DEF MigrateInv, ObjectInv
  <1>8. OthersAct
    BY <1>3, HeightFacts DEF MigrateInv, FunInv, OthersAct
  <1> QED  BY <1>2, <1>3, <1>5, <1>7, <1>8

(* saveMigrationState: the copy and the saved state are the same again.    *)
LEMMA saveMigrationStateInv ==
    ASSUME MigrateInv, NEW m \in Migrator, saveMigrationState(m)
    PROVE  MigrateInv'
  <1>1. CASE CanSave(m)
    <2>1. /\ pc[m] = "save" /\ saved' = SavedNext(m)
          /\ UNCHANGED <<sourceHeight, intact, torn, decayed, manifest, legacy,
                         range, existing, checked, faults>>
      BY <1>1 DEF saveMigrationState
    <2>2. /\ ObjectInv' /\ OthersAct
          /\ IsStateRecord(saved') /\ validateMigrationState(saved')
          /\ saved'.segments = state[m].segments
          /\ saved'.start = state[m].start /\ saved'.end = state[m].end
      BY <1>1, <2>1, StateSaved
    <2>3. FunInv'
      BY <1>1 DEF saveMigrationState, MigrateInv, FunInv, Goto, Labels
    <2>4. \A d \in Migrator \ {m} : SameRun(d)
      BY <1>1 DEF saveMigrationState, MigrateInv, FunInv, Goto, SameRun
    <2>5. pc'[m] = "build" /\ state'[m] = saved' /\ segment'[m] = NoSegment
      BY <1>1 DEF saveMigrationState, MigrateInv, FunInv, Goto
    <2>6. RunInv(m) /\ pc[m] \in Loaded
      BY <2>1 DEF MigrateInv, Loaded, Labels
    <2>7. StateInv(m)'
      <3>1. Honest(state[m].segments)'
        BY <2>1, <2>2, <2>5, <2>6, Zenon DEF RunInv, StateInv, Honest, OfSource
      <3>2. SameRange(state[m], range[m])'
        BY <2>1, <2>2, <2>5, <2>6, Zenon DEF RunInv, StateInv, SameRange
      <3>3. saved'.revision \in Nat /\ saved'.next \in Nat
        BY <2>2, HeightFacts DEF IsStateRecord, IsState
      <3>4. IsStateRecord(state[m])' /\ validateMigrationState(state[m])'
        BY <2>2, <2>5 DEF IsStateRecord, IsState, validateMigrationState
      <3>5. /\ state'[m].revision <= saved'.revision
            /\ saved'.next <= state'[m].next
            /\ saved'.segments \subseteq state'[m].segments
        BY <2>5, <3>3
      <3> QED  BY <3>1, <3>2, <3>4, <3>5, Zenon DEF StateInv
    <2>8. RangeInv(m)' /\ SegmentInv(m)' /\ ExistingInv(m)' /\ CheckedInv(m)'
      BY <2>1, <2>5, <2>6, Zenon
         DEF RunInv, RangeInv, SegmentInv, ExistingInv, CheckedInv
    <2> QED  BY <2>2, <2>3, <2>4, <2>7, <2>8, OneRuns, Zenon DEF RunInv
  <1>2. CASE ~CanSave(m)
    <2>1. UNCHANGED <<sourceHeight, objectVars>> /\ EndRun(m) /\ UNCHANGED faults
      BY <1>2 DEF saveMigrationState, objectVars
    <2> QED  BY <2>1, ObjectsSame, RunEnds DEF MigrateInv, FunInv
  <1> QED  BY <1>1, <1>2

----------------------------------------------------------------------------

(* verifyCompletedMigrationSegments: publish comes after every segment.    *)
LEMMA verifyCompletedInv ==
    ASSUME MigrateInv, NEW m \in Migrator, verifyCompletedMigrationSegments(m)
    PROVE  MigrateInv'
  <1>1. ObjectInv' /\ OthersAct
    BY ObjectsSame, Zenon DEF verifyCompletedMigrationSegments
  <1>2. CASE EndRun(m)
    BY <1>1, <1>2, RunEnds
       DEF verifyCompletedMigrationSegments, MigrateInv, FunInv
  <1>3. CASE ~EndRun(m)
    <2>1. /\ pc[m] = "verify" /\ pc'[m] \in {"verify", "publish"}
          /\ checked[m] \subseteq checked'[m] /\ checked'[m] \subseteq checked[m] \cup intact
          /\ pc'[m] = "publish" => state[m].segments \subseteq checked'[m]
          /\ \A d \in Migrator \ {m} :
                pc'[d] = pc[d] /\ checked'[d] = checked[d]
          /\ pc' \in [Migrator -> Labels]
          /\ checked' = [d \in Migrator |-> checked'[d]]
          /\ UNCHANGED <<sourceHeight, manifest, saved, intact, decayed, range,
                         existing, state, segment, faults>>
      BY <1>3 DEF verifyCompletedMigrationSegments, objectVars, Goto, MigrateInv,
                  FunInv, Labels
    <2>2. FunInv'
      BY <2>1 DEF MigrateInv, FunInv
    <2>3. \A d \in Migrator \ {m} : SameRun(d)
      BY <2>1 DEF SameRun
    <2>4. RunInv(m) /\ pc[m] \in Loaded
      BY <2>1 DEF MigrateInv, Loaded, Labels
    <2>5. StateInv(m)'
      BY <2>1, <2>4, Zenon
         DEF RunInv, StateInv, IsStateRecord, IsState, validateMigrationState,
             SameRange, Honest, OfSource
    <2>6. RangeInv(m)' /\ SegmentInv(m)' /\ ExistingInv(m)'
      BY <2>1, <2>4 DEF RunInv, RangeInv, SegmentInv, ExistingInv
    <2>7. CheckedInv(m)'
      BY <2>1, <2>4 DEF RunInv, CheckedInv
    <2> QED  BY <1>1, <2>2, <2>3, <2>5, <2>6, <2>7, OneRuns DEF RunInv
  <1> QED  BY <1>2, <1>3

(* The fields of the manifest a run publishes.                             *)
LEMMA PublishedFields ==
    ASSUME NEW m \in Migrator,
           NewManifest(state[m].segments) =
               [revision |-> 0, first |-> range[m].start, last |-> range[m].end,
                segments |-> state[m].segments]
    PROVE  /\ Published(m) = [revision |-> manifest.revision + 1,
                              first |-> range[m].start, last |-> range[m].end,
                              segments |-> state[m].segments]
           /\ Published(m).revision = manifest.revision + 1
           /\ Published(m).first = range[m].start
           /\ Published(m).last = range[m].end
           /\ Published(m).segments = state[m].segments
  BY DEF Published, WithRevision

(* Publishing a complete state over the archive that was found.            *)
LEMMA ManifestPublished ==
    ASSUME MigrateInv, NEW m \in Migrator, pc[m] = "publish", CanPublish(m),
           manifest' = Published(m),
           UNCHANGED <<sourceHeight, intact, torn, decayed, saved, legacy>>
    PROVE  /\ ObjectInv' /\ OthersAct
           /\ manifest' = [revision |-> manifest.revision + 1,
                           first |-> range[m].start, last |-> range[m].end,
                           segments |-> state[m].segments]
           /\ manifest.segments # {} =>
                 /\ manifest.first = range[m].start
                 /\ manifest.last = range[m].end
           /\ state[m].segments \subseteq checked[m]
           /\ range[m].start \in Heights /\ range[m].end \in Heights
           /\ range[m].start <= range[m].end
  <1>1. /\ RangeInv(m) /\ StateInv(m) /\ ExistingInv(m) /\ CheckedInv(m)
        /\ pc[m] \in Loaded
    BY DEF MigrateInv, RunInv, Loaded, Labels
  <1>2. /\ IsStateRecord(state[m]) /\ validateMigrationState(state[m])
        /\ Honest(state[m].segments) /\ SameRange(state[m], range[m])
        /\ state[m].next = state[m].end + 1
        /\ state[m].segments \subseteq checked[m]
    BY <1>1, Zenon DEF StateInv, CheckedInv, SameRange
  <1>3. NewManifest(state[m].segments) =
           [revision |-> 0, first |-> range[m].start, last |-> range[m].end,
            segments |-> state[m].segments]
    BY <1>2, CompleteManifest, Zenon DEF SameRange
  <1>4. manifest' = [revision |-> manifest.revision + 1,
                     first |-> range[m].start, last |-> range[m].end,
                     segments |-> state[m].segments]
    BY <1>3, PublishedFields, Zenon
  <1>5. /\ manifest'.revision = manifest.revision + 1
        /\ manifest'.first = range[m].start /\ manifest'.last = range[m].end
        /\ manifest'.segments = state[m].segments
    BY <1>3, PublishedFields, Zenon
  <1>6. manifest.segments # {} =>
           manifest.first = range[m].start /\ manifest.last = range[m].end
    BY <1>1, Zenon DEF ExistingInv, CanPublish
  <1>7. /\ range[m].start \in Heights /\ range[m].end \in Heights
        /\ range[m].start <= range[m].end
    BY <1>1, HeightFacts DEF RangeInv, MigrateInv, FunInv
  <1>8. IsManifest(manifest') /\ manifest.revision \in Nat
    <2>1. manifest.revision \in Nat
      BY DEF MigrateInv, ObjectInv, IsManifest
    <2>2. \A g \in state[m].segments : IsSegment(g)
      BY <1>2, Zenon DEF validateMigrationState
    <2>3. range[m].start \in 0 .. MaxHeight /\ range[m].end \in 0 .. MaxHeight
      BY <1>7, HeightFacts
    <2>4. /\ manifest'.revision \in Nat
          /\ manifest'.first \in 0 .. MaxHeight /\ manifest'.last \in 0 .. MaxHeight
      BY <1>5, <2>1, <2>3
    <2>5. manifest' = [revision |-> manifest'.revision, first |-> manifest'.first,
                       last |-> manifest'.last, segments |-> manifest'.segments]
      BY <1>4, <1>5, Zenon
    <2> QED  BY <1>5, <2>1, <2>2, <2>4, <2>5 DEF IsManifest
  <1>9. Validate(manifest')
    <2>1. Validate([revision |-> 0, first |-> range[m].start,
                    last |-> range[m].end, segments |-> state[m].segments])
      BY <1>3, Zenon DEF CanPublish
    <2> QED  BY <1>5, <2>1, Zenon DEF Validate
  <1>10. ObjectInv'
    <2>1. \A s \in Stored' : IsSegment(s)
      BY Zenon DEF MigrateInv, ObjectInv, Stored
    <2>2. \A g \in manifest'.segments : OfSource(g)
      BY <1>2, <1>5, Zenon DEF Honest
    <2>3. Honest(legacy.segments)'
      BY Zenon DEF MigrateInv, ObjectInv, Honest, OfSource
    <2>4. saved'.revision > 0 => Honest(saved.segments)'
      BY Zenon DEF MigrateInv, ObjectInv, Honest, OfSource
    <2> QED  BY <1>8, <1>9, <2>1, <2>2, <2>3, <2>4, Zenon
                DEF MigrateInv, ObjectInv
  <1>11. OthersAct
    BY <1>4, HeightFacts DEF MigrateInv, FunInv, OthersAct
  <1> QED  BY <1>2, <1>4, <1>6, <1>7, <1>10, <1>11, Zenon

(* PublishMigration: the manifest is replaced or left, the run is over.    *)
LEMMA PublishMigrationInv ==
    ASSUME MigrateInv, NEW m \in Migrator, PublishMigration(m)
    PROVE  MigrateInv'
  <1>1. /\ pc[m] = "publish" /\ EndRun(m)
        /\ UNCHANGED <<sourceHeight, intact, torn, decayed, saved, legacy, faults>>
    BY DEF PublishMigration
  <1>2. CASE CanPublish(m)
    BY <1>1, <1>2, ManifestPublished, RunEnds
       DEF PublishMigration, MigrateInv, FunInv
  <1>3. CASE ~CanPublish(m)
    BY <1>1, <1>3, ObjectsSame, RunEnds
       DEF PublishMigration, MigrateInv, FunInv, objectVars
  <1> QED  BY <1>2, <1>3

(* Interrupt: whether or not the last write was applied.                   *)
LEMMA InterruptInv ==
    ASSUME MigrateInv, NEW m \in Migrator, Interrupt(m)
    PROVE  MigrateInv'
  <1>1. /\ EndRun(m) /\ faults' \in 0 .. MaxFaults
        /\ UNCHANGED <<sourceHeight, torn, decayed, legacy>>
    BY HeightFacts DEF Interrupt, Fault, MigrateInv, FunInv
  <1>2. CASE UNCHANGED <<intact, saved, manifest>>
    BY <1>1, <1>2, ObjectsSame, RunEnds DEF objectVars
  <1>3. CASE /\ pc[m] = "put" /\ intact' = intact \cup {segment[m]}
             /\ UNCHANGED <<saved, manifest>>
    <2>1. \A s \in Stored' : IsSegment(s)
      <3>1. IsSegment(segment[m]) /\ \A s \in Stored : IsSegment(s)
        BY <1>3, Zenon DEF MigrateInv, RunInv, SegmentInv, ObjectInv
      <3> QED  BY <1>1, <1>3, <3>1 DEF Stored
    <2> QED  BY <1>1, <1>3, <2>1, ObjectsGrow, RunEnds
  <1>4. CASE /\ pc[m] = "save" /\ CanSave(m) /\ saved' = SavedNext(m)
             /\ UNCHANGED <<intact, manifest>>
    BY <1>1, <1>4, StateSaved, RunEnds, Zenon
  <1>5. CASE /\ pc[m] = "publish" /\ CanPublish(m) /\ manifest' = Published(m)
             /\ UNCHANGED <<intact, saved>>
    BY <1>1, <1>5, ManifestPublished, RunEnds, Zenon
  <1> QED  BY <1>2, <1>3, <1>4, <1>5, Zenon DEF Interrupt

(* No command acts; each one's knowledge stays true.                       *)
LEMMA NoneRuns ==
    ASSUME MigrateInv, UNCHANGED runVars, OthersAct, ObjectInv',
           sourceHeight' \in SourceBase .. MaxHeight, faults' \in 0 .. MaxFaults
    PROVE  MigrateInv'
  <1>1. FunInv'
    BY DEF MigrateInv, FunInv, runVars
  <1>2. ASSUME NEW m \in Migrator PROVE RunInv(m)'
    <2>1. SameRun(m)
      BY DEF SameRun, runVars
    <2> QED  BY <2>1, RunFrame DEF MigrateInv
  <1> QED  BY <1>1, <1>2 DEF MigrateInv

(* Decay: a damaged object was stored once.                                *)
LEMMA DecayInv ==
    ASSUME MigrateInv, NEW s \in intact, Decay(s)
    PROVE  MigrateInv'
  <1>1. \A g \in Stored' : IsSegment(g)
    BY DEF Decay, MigrateInv, ObjectInv, Stored
  <1>2. /\ intact \cup decayed \subseteq intact' \cup decayed'
        /\ UNCHANGED <<sourceHeight, manifest, saved, legacy, runVars>>
        /\ sourceHeight' \in SourceBase .. MaxHeight
        /\ faults' \in 0 .. MaxFaults
    BY HeightFacts DEF Decay, Fault, MigrateInv, FunInv
  <1> QED  BY <1>1, <1>2, ObjectsGrow, NoneRuns

(* SourceGrows: ranges stay inside the source.                             *)
LEMMA SourceGrowsInv ==
    ASSUME MigrateInv, SourceGrows
    PROVE  MigrateInv'
  <1>1. OthersAct /\ sourceHeight' \in SourceBase .. MaxHeight
        /\ faults' \in 0 .. MaxFaults /\ UNCHANGED runVars
    BY HeightFacts DEF SourceGrows, MigrateInv, FunInv, OthersAct, objectVars
  <1>2. ObjectInv'
    BY DEF SourceGrows, MigrateInv, ObjectInv, objectVars, Stored, Honest, OfSource
  <1> QED  BY <1>1, <1>2, NoneRuns

(* A segment of one block appended to a valid manifest.                    *)
LEMMA AppendValid ==
    ASSUME NEW M, IsManifest(M), Validate(M), NEW g, IsSegment(g), CanAppend(M, g)
    PROVE  LET a == WithRevision(AppendSegmentInPlace(M, g), M.revision + 1)
           IN  /\ IsManifest(a) /\ Validate(a)
               /\ a.revision = M.revision + 1
               /\ a.segments = M.segments \cup {g}
               /\ a.first = IF M.segments = {} THEN g.first ELSE M.first
               /\ a.last = g.last
  <1> DEFINE a == WithRevision(AppendSegmentInPlace(M, g), M.revision + 1)
  <1>1. a = [revision |-> M.revision + 1,
             first |-> IF M.segments = {} THEN g.first ELSE M.first,
             last |-> g.last, segments |-> M.segments \cup {g}]
    BY DEF WithRevision, AppendSegmentInPlace
  <1> HIDE DEF a
  <1>2. /\ g.first \in 1 .. MaxHeight /\ g.last \in 1 .. MaxHeight
        /\ g.first <= g.last /\ MaxHeight \in Nat
        /\ M.first \in 0 .. MaxHeight /\ M.last \in 0 .. MaxHeight
        /\ M.revision \in Nat
        /\ \A s \in M.segments :
              /\ s.first \in 1 .. MaxHeight /\ s.last \in 1 .. MaxHeight
              /\ s.first <= s.last
    BY HeightFacts DEF IsSegment, IsManifest
  <1>3. IsManifest(a)
    BY <1>1, <1>2 DEF IsManifest
  <1>4. CASE M.segments = {}
    <2>1. a.segments = {g} /\ a.first = g.first /\ a.last = g.last
      BY <1>1, <1>4, Zenon
    <2>2. Validate(a)
      BY <1>2, <2>1 DEF Validate, Covers
    <2> QED  BY <1>1, <1>3, <2>2 DEF a
  <1>5. CASE M.segments # {}
    <2>1. a.segments = M.segments \cup {g} /\ a.first = M.first /\ a.last = g.last
          /\ g.first = M.last + 1
      BY <1>1, <1>5 DEF CanAppend
    <2>2. /\ 0 < M.first /\ M.first <= M.last
          /\ \A s \in M.segments : M.first <= s.first /\ s.last <= M.last
          /\ \A h \in M.first .. M.last : \E s \in M.segments : Covers(s, h)
          /\ \A s, t \in M.segments :
                (\E h \in Heights : Covers(s, h) /\ Covers(t, h)) => s = t
      BY <1>5 DEF Validate
    <2>3. \A s \in a.segments : a.first <= s.first /\ s.last <= a.last
      BY <1>2, <2>1, <2>2
    <2>4. \A h \in a.first .. a.last : \E s \in a.segments : Covers(s, h)
      BY <1>2, <2>1, <2>2 DEF Covers
    <2>5. \A s, t \in a.segments :
             (\E h \in Heights : Covers(s, h) /\ Covers(t, h)) => s = t
      <3>1. \A s \in M.segments, h \in Heights : ~(Covers(s, h) /\ Covers(g, h))
        BY <1>2, <2>1, <2>2, HeightFacts DEF Covers
      <3> QED  BY <2>1, <2>2, <3>1
    <2>6. 0 < a.first /\ a.first <= a.last /\ a.segments # {}
      <3>1. 0 < M.first /\ M.first <= M.last
        BY <2>2, Zenon
      <3> QED  BY <1>2, <2>1, <3>1
    <2>7. Validate(a)
      BY <2>3, <2>4, <2>5, <2>6 DEF Validate
    <2> QED  BY <1>1, <1>3, <2>7 DEF a
  <1> QED  BY <1>4, <1>5, Zenon

(* LivePublishes: the runs that found the older manifest can tell.         *)
LEMMA LivePublishesInv ==
    ASSUME MigrateInv, LivePublishes
    PROVE  MigrateInv'
  <1>1. PICK h \in LiveHeights :
           LET g == SegmentOf(h, h, MainChain)
           IN  /\ CanAppend(manifest, g) /\ intact' = intact \cup {g}
               /\ manifest' = WithRevision(AppendSegmentInPlace(manifest, g),
                                           manifest.revision + 1)
    BY DEF LivePublishes
  <1> DEFINE g == SegmentOf(h, h, MainChain)
  <1>2. IsSegment(g) /\ OfSource(g)
    BY SourceSegment, HeightFacts, MigrateAssumption
  <1>3. CanAppend(manifest, g) /\ intact' = intact \cup {g}
        /\ manifest' = WithRevision(AppendSegmentInPlace(manifest, g),
                                    manifest.revision + 1)
    BY <1>1
  <1> HIDE DEF g
  <1>4. UNCHANGED <<sourceHeight, torn, decayed, saved, legacy, runVars, faults>>
    BY DEF LivePublishes
  <1>5. /\ IsManifest(manifest') /\ Validate(manifest')
        /\ manifest'.revision = manifest.revision + 1
        /\ manifest'.segments = manifest.segments \cup {g}
    BY <1>2, <1>3, AppendValid, Zenon DEF MigrateInv, ObjectInv
  <1>6. ObjectInv'
    <2>1. \A s \in Stored' : IsSegment(s)
      BY <1>2, <1>3, <1>4, Zenon DEF MigrateInv, ObjectInv, Stored
    <2>2. \A s \in manifest'.segments : OfSource(s)
      BY <1>2, <1>5 DEF MigrateInv, ObjectInv
    <2>3. Honest(legacy.segments)'
      BY <1>3, <1>4 DEF MigrateInv, ObjectInv, Honest, OfSource
    <2>4. saved'.revision > 0 => Honest(saved.segments)'
      BY <1>3, <1>4, Zenon DEF MigrateInv, ObjectInv, Honest, OfSource
    <2> QED  BY <1>4, <1>5, <2>1, <2>2, <2>3, <2>4, Zenon
                DEF MigrateInv, ObjectInv
  <1>7. OthersAct
    BY <1>3, <1>4, <1>5, HeightFacts DEF MigrateInv, FunInv, OthersAct
  <1> QED  BY <1>4, <1>6, <1>7, NoneRuns DEF MigrateInv, FunInv

(* Every action keeps the invariant.                                       *)
LEMMA MigrateNextInv == MigrateInv /\ [MigrateNext]_migrateVars => MigrateInv'
  <1> SUFFICES ASSUME MigrateInv, [MigrateNext]_migrateVars PROVE MigrateInv'
    OBVIOUS
  <1>1. CASE UNCHANGED migrateVars
    <2>1. UNCHANGED <<sourceHeight, objectVars, runVars, faults>>
      BY <1>1 DEF migrateVars
    <2> QED  BY <2>1, ObjectsSame, NoneRuns DEF MigrateInv, FunInv
  <1>2. ASSUME NEW m \in Migrator, Migrate(m) \/ Step(m) \/ Interrupt(m)
        PROVE  MigrateInv'
    BY <1>2, MigrateStepInv, LoadExistingInv, LoadStateInv, buildSegmentInv,
       PutSegmentInv, verifyStoredSegmentInv, saveMigrationStateInv,
       verifyCompletedInv, PublishMigrationInv, InterruptInv
       DEF Step
  <1>3. ASSUME NEW s \in intact, Decay(s) PROVE MigrateInv'
    BY <1>3, DecayInv
  <1> QED  BY <1>1, <1>2, <1>3, SourceGrowsInv, LivePublishesInv DEF MigrateNext

(* What a run of migrate.go knows is true in every reachable state.        *)
THEOREM MigrateInvariance == MigrateSpec => []MigrateInv
  BY MigrateInitInv, MigrateNextInv, PTL DEF MigrateSpec

(* The variables of migrate.go keep their types, whatever runs and fails.  *)
THEOREM MigrateTypeCorrect == MigrateSpec => []MigrateTypeOK
  <1>1. MigrateInv => MigrateTypeOK
    <2> SUFFICES ASSUME MigrateInv PROVE MigrateTypeOK
      OBVIOUS
    <2>1. ASSUME NEW m \in Migrator
          PROVE  /\ {range[m].start, range[m].end} \subseteq 0 .. sourceHeight
                 /\ existing[m] \in Nat /\ IsState(state[m])
                 /\ segment[m] = NoSegment \/ IsSegment(segment[m])
                 /\ checked[m] \subseteq intact \cup decayed
      BY <2>1 DEF MigrateInv, FunInv, RunInv, RangeInv, StateInv, SegmentInv,
                  CheckedInv, IsStateRecord
    <2> QED  BY <2>1 DEF MigrateInv, MigrateTypeOK, FunInv, ObjectInv, Stored,
                         Labels, IsStateRecord
  <1> QED  BY <1>1, MigrateInvariance, PTL

(* What a later run resumes from is true (saveMigrationState comes after   *)
(* buildAndUploadSegment).                                                 *)
THEOREM SavedProgressStored == MigrateSpec => []ProgressStored
  <1>1. MigrateInv => ProgressStored
    BY Zenon DEF MigrateInv, ObjectInv, ProgressStored, Honest, OfSource
  <1> QED  BY <1>1, MigrateInvariance, PTL

----------------------------------------------------------------------------
(* What a step does to the state and the manifest.                         *)

(* Only saving, or an interruption during it, writes the state.            *)
LEMMA SavedStep ==
    ASSUME MigrateInv, [MigrateNext]_migrateVars, saved' # saved
    PROVE  \E m \in Migrator :
              /\ pc[m] = "save" /\ CanSave(m) /\ saved' = SavedNext(m)
              /\ UNCHANGED <<sourceHeight, intact, torn, decayed, manifest, legacy>>
  BY Zenon
     DEF MigrateNext, migrateVars, objectVars, Migrate, Step, LoadExisting,
         LoadState, buildSegment, PutSegment, verifyStoredSegment,
         saveMigrationState, verifyCompletedMigrationSegments, PublishMigration,
         Interrupt, Decay, SourceGrows, LivePublishes

(* Only a live peer, publishing, or an interruption during it, writes the  *)
(* manifest.                                                               *)
LEMMA ManifestStep ==
    ASSUME MigrateInv, [MigrateNext]_migrateVars, manifest' # manifest
    PROVE  \/ LivePublishes
           \/ \E m \in Migrator :
                 /\ pc[m] = "publish" /\ CanPublish(m) /\ manifest' = Published(m)
                 /\ EndRun(m)
                 /\ UNCHANGED <<sourceHeight, intact, torn, decayed, saved, legacy>>
  BY Zenon
     DEF MigrateNext, migrateVars, objectVars, Migrate, Step, LoadExisting,
         LoadState, buildSegment, PutSegment, verifyStoredSegment,
         saveMigrationState, verifyCompletedMigrationSegments, PublishMigration,
         Interrupt, Decay, SourceGrows

(* Two runs never undo each other's progress (saveMigrationState).         *)
THEOREM SavedProgressNeverLost == MigrateSpec => ProgressNeverLost
  <1>1. MigrateInv /\ [MigrateNext]_migrateVars =>
           [saved.revision > 0 => /\ saved.next <= saved'.next
                                  /\ saved.segments \subseteq saved'.segments]_migrateVars
    <2> SUFFICES ASSUME MigrateInv, [MigrateNext]_migrateVars, saved.revision > 0
                 PROVE  /\ saved.next <= saved'.next
                        /\ saved.segments \subseteq saved'.segments
      BY Zenon
    <2>1. CASE saved' = saved
      BY <2>1, HeightFacts DEF MigrateInv, ObjectInv, IsStateRecord, IsState
    <2>2. CASE saved' # saved
      BY <2>2, SavedStep, StateSaved, Zenon
    <2> QED  BY <2>1, <2>2, Zenon
  <1> QED  BY <1>1, MigrateInvariance, PTL DEF MigrateSpec, ProgressNeverLost

(* A migration publishes only segments that this very run read back        *)
(* (verifyCompletedMigrationSegments before SaveManifest).                 *)
THEOREM MigrationPublishVerified == MigrateSpec => PublishVerified
  <1> DEFINE Verified ==
        \A m \in Migrator :
           pc[m] = "publish" /\ pc'[m] # "publish" /\ manifest' # manifest =>
               manifest'.segments \subseteq checked[m]
  <1>1. MigrateInv /\ [MigrateNext]_migrateVars => [Verified]_migrateVars
    <2> SUFFICES ASSUME MigrateInv, [MigrateNext]_migrateVars, NEW m \in Migrator,
                        pc[m] = "publish", pc'[m] # "publish",
                        manifest' # manifest
                 PROVE  manifest'.segments \subseteq checked[m]
      OBVIOUS
    <2>1. ~LivePublishes
      BY DEF LivePublishes, runVars
    <2>2. PICK d \in Migrator :
             /\ pc[d] = "publish" /\ CanPublish(d) /\ manifest' = Published(d)
             /\ EndRun(d)
             /\ UNCHANGED <<sourceHeight, intact, torn, decayed, saved, legacy>>
      BY <2>1, ManifestStep
    <2>3. d = m
      BY <2>2 DEF EndRun, MigrateInv, FunInv
    <2> QED  BY <2>2, <2>3, ManifestPublished
  <1> QED  BY <1>1, MigrateInvariance, PTL DEF MigrateSpec, PublishVerified

----------------------------------------------------------------------------
(* The archive's promise.                                                  *)

Archived == [h \in Heights |-> ArchivedBlock(manifest, h)]

(* A valid manifest of source segments archives its range of the source.   *)
LEMMA ArchivedIs ==
    ASSUME NEW M, IsManifest(M), Validate(M), \A g \in M.segments : OfSource(g),
           NEW h \in Heights
    PROVE  ArchivedBlock(M, h) =
              IF M.segments # {} /\ M.first <= h /\ h <= M.last
              THEN MainChain[h] ELSE NoBlock
  <1>1. /\ h \in Int /\ M.first \in Int /\ M.last \in Int
        /\ \A g \in M.segments : g.first \in Int /\ g.last \in Int
    BY HeightFacts DEF IsManifest, IsSegment
  <1>2. CASE \E g \in M.segments : Covers(g, h)
    <2> DEFINE c == CHOOSE g \in M.segments : Covers(g, h)
    <2>1. c \in M.segments /\ Covers(c, h)
      BY <1>2, Zenon
    <2>2. ArchivedBlock(M, h) = c.blocks[h]
      BY <1>2, Zenon DEF ArchivedBlock
    <2> HIDE DEF c
    <2>3. h \in c.first .. c.last
      <3>1. c.first \in Int /\ c.last \in Int
        BY <1>1, <2>1, Zenon
      <3>2. c.first <= h /\ h <= c.last
        BY <2>1, Zenon DEF Covers
      <3> QED  BY <1>1, <3>1, <3>2
    <2>4. c.blocks[h] = MainChain[h]
      BY <2>1, <2>3, Zenon DEF OfSource
    <2>5. M.first <= h /\ h <= M.last
      <3>1. /\ M.first <= c.first /\ c.last <= M.last
            /\ c.first <= h /\ h <= c.last
        BY <2>1, Zenon DEF Validate, Covers
      <3> QED  BY <1>1, <2>1, <3>1
    <2> QED  BY <2>1, <2>2, <2>4, <2>5, Zenon
  <1>3. CASE ~\E g \in M.segments : Covers(g, h)
    <2>1. ~(M.segments # {} /\ M.first <= h /\ h <= M.last)
      <3>1. M.first <= h /\ h <= M.last => h \in M.first .. M.last
        BY <1>1
      <3> QED  BY <1>3, <3>1, Zenon DEF Validate
    <2> QED  BY <1>3, <2>1 DEF ArchivedBlock
  <1> QED  BY <1>2, <1>3

(* The source's blocks first .. last, put behind the archive's own.        *)
LEMMA ArchiveExtended ==
    ASSUME MigrateInv, MigrateInv', NEW first \in Heights, NEW last \in Heights,
           first <= last, manifest'.segments # {}, manifest'.last = last,
           manifest'.first =
               IF manifest.segments = {} THEN first ELSE manifest.first,
           manifest.segments # {} => first = manifest.last + 1
    PROVE  Promise!Extend(first, last)
  <1>1. /\ IsManifest(manifest) /\ Validate(manifest)
        /\ \A g \in manifest.segments : OfSource(g)
        /\ IsManifest(manifest') /\ Validate(manifest')
        /\ \A g \in manifest'.segments : OfSource(g)
    BY Zenon DEF MigrateInv, ObjectInv, OfSource
  <1>2. \A h \in Heights :
           Archived[h] = IF manifest.segments # {} /\ manifest.first <= h
                             /\ h <= manifest.last
                         THEN MainChain[h] ELSE NoBlock
    BY <1>1, ArchivedIs, Zenon DEF Archived
  <1>3. \A h \in Heights :
           Archived'[h] = IF manifest'.first <= h /\ h <= last
                          THEN MainChain[h] ELSE NoBlock
    BY <1>1, ArchivedIs, Zenon DEF Archived
  <1>4. /\ first \in 1 .. MaxHeight /\ last \in 1 .. MaxHeight /\ MaxHeight \in Nat
        /\ manifest.first \in 0 .. MaxHeight /\ manifest.last \in 0 .. MaxHeight
        /\ manifest.segments # {} => 0 < manifest.first
                                     /\ manifest.first <= manifest.last
    BY <1>1, HeightFacts DEF IsManifest, Validate
  <1>5. \A h \in Heights : /\ MainChain[h] \in Block /\ MainChain[h] # NoBlock
                           /\ HeightOf[MainChain[h]] = h /\ h \in 1 .. MaxHeight
    BY HeightFacts, MigrateAssumption
  <1>6. ASSUME NEW h \in Heights
        PROVE  IF first <= h /\ h <= last
               THEN Archived'[h] # NoBlock /\ HeightOf[Archived'[h]] = h
               ELSE Archived'[h] = Archived[h]
    <2>1. h \in 1 .. MaxHeight
      BY HeightFacts
    <2>2. CASE manifest.segments = {}
      <3>1. Archived[h] = NoBlock /\ manifest'.first = first
        BY <1>2, <2>2
      <3> QED  BY <1>3, <1>5, <3>1
    <2>3. CASE manifest.segments # {}
      <3>1. manifest'.first = manifest.first /\ first = manifest.last + 1
        BY <2>3
      <3>2. CASE first <= h /\ h <= last
        <4>1. manifest'.first <= h
          BY <1>4, <2>1, <2>3, <3>1, <3>2
        <4> QED  BY <1>3, <1>5, <3>2, <4>1
      <3>3. CASE ~(first <= h /\ h <= last)
        <4>1. (manifest.first <= h /\ h <= manifest.last)
                 <=> (manifest'.first <= h /\ h <= last)
          BY <1>4, <2>1, <2>3, <3>1, <3>3
        <4> QED  BY <1>2, <1>3, <2>3, <3>3, <4>1
      <3> QED  BY <3>2, <3>3
    <2> QED  BY <2>2, <2>3
  <1>7. Archived' \in [Heights -> MaybeBlock]
    <2>1. \A h \in Heights : Archived'[h] \in MaybeBlock
      BY <1>3, <1>5 DEF MaybeBlock
    <2> QED  BY <2>1 DEF Archived
  <1>8. Promise!ArchivedHeights = {h \in Heights : Archived[h] # NoBlock}
    BY DEF Promise!ArchivedHeights, Promise!Heights, Heights, Archived
  <1>9. Promise!ArchivedHeights # {} =>
           /\ first - 1 \in Promise!ArchivedHeights
           /\ \A h \in Promise!ArchivedHeights : h < first
    <2> SUFFICES ASSUME Promise!ArchivedHeights # {}
                 PROVE  /\ first - 1 \in Promise!ArchivedHeights
                        /\ \A h \in Promise!ArchivedHeights : h < first
      OBVIOUS
    <2>1. manifest.segments # {} /\ first = manifest.last + 1
      BY <1>2, <1>8
    <2>2. manifest.last \in Heights /\ first - 1 = manifest.last
      BY <1>4, <2>1, HeightFacts
    <2>3. Archived[manifest.last] # NoBlock
      BY <1>2, <1>4, <1>5, <2>1, <2>2
    <2>4. ASSUME NEW h \in Heights, Archived[h] # NoBlock PROVE h < first
      <3>1. h \in 1 .. MaxHeight /\ h <= manifest.last
        BY <1>2, <2>4, HeightFacts
      <3> QED  BY <1>4, <2>1, <3>1
    <2> QED  BY <1>8, <2>2, <2>3, <2>4
  <1> QED  BY <1>6, <1>7, <1>9
              DEF Promise!Extend, Promise!Heights, Promise!MaybeBlock, Heights,
                  MaybeBlock, Archived

(* Every step extends the archive at its end or leaves it as it is.        *)
LEMMA PromiseStep ==
    ASSUME MigrateInv, MigrateInv', [MigrateNext]_migrateVars
    PROVE  Archived' = Archived
           \/ \E first, last \in Heights : Promise!Extend(first, last)
  <1>1. CASE manifest' = manifest
    BY <1>1 DEF Archived
  <1>2. CASE LivePublishes
    <2>1. PICK h \in LiveHeights :
             LET g == SegmentOf(h, h, MainChain)
             IN  /\ CanAppend(manifest, g)
                 /\ manifest' = WithRevision(AppendSegmentInPlace(manifest, g),
                                             manifest.revision + 1)
      BY <1>2 DEF LivePublishes
    <2> DEFINE g == SegmentOf(h, h, MainChain)
    <2>2. h \in Heights /\ IsSegment(g) /\ g.first = h /\ g.last = h
      BY SourceSegment, HeightFacts, MigrateAssumption
    <2>3. /\ CanAppend(manifest, g)
          /\ manifest' = WithRevision(AppendSegmentInPlace(manifest, g),
                                      manifest.revision + 1)
      BY <2>1
    <2> HIDE DEF g
    <2>4. /\ manifest'.segments = manifest.segments \cup {g}
          /\ manifest'.first =
                IF manifest.segments = {} THEN h ELSE manifest.first
          /\ manifest'.last = h
      BY <2>2, <2>3, AppendValid, Zenon DEF MigrateInv, ObjectInv
    <2>5. manifest.segments # {} => h = manifest.last + 1
      BY <2>2, <2>3, Zenon DEF CanAppend
    <2>6. Promise!Extend(h, h)
      <3>1. h <= h /\ manifest'.segments # {}
        BY <2>2, <2>4, HeightFacts
      <3> QED  BY <2>2, <2>4, <2>5, <3>1, ArchiveExtended, Zenon
    <2> QED  BY <2>2, <2>6
  <1>3. ASSUME NEW m \in Migrator, pc[m] = "publish", CanPublish(m),
               manifest' = Published(m),
               UNCHANGED <<sourceHeight, intact, torn, decayed, saved, legacy>>
        PROVE  Archived' = Archived
               \/ \E first, last \in Heights : Promise!Extend(first, last)
    <2>1. /\ manifest' = [revision |-> manifest.revision + 1,
                          first |-> range[m].start, last |-> range[m].end,
                          segments |-> state[m].segments]
          /\ manifest.segments # {} =>
                manifest.first = range[m].start /\ manifest.last = range[m].end
          /\ range[m].start \in Heights /\ range[m].end \in Heights
          /\ range[m].start <= range[m].end
      BY <1>3, ManifestPublished, Zenon
    <2>2. manifest'.segments # {}
      <3>1. manifest'.first = range[m].start /\ Validate(manifest')
        BY <2>1, Zenon DEF MigrateInv, ObjectInv
      <3>2. range[m].start \in Heights
        BY <2>1, Zenon
      <3>3. range[m].start # 0
        BY <3>2, HeightFacts
      <3> QED  BY <3>1, <3>3 DEF Validate
    <2>3. CASE manifest.segments = {}
      <3>1. Promise!Extend(range[m].start, range[m].end)
        BY <2>1, <2>2, <2>3, ArchiveExtended, Zenon
      <3> QED  BY <2>1, <3>1
    <2>4. CASE manifest.segments # {}
      <3>1. manifest'.first = manifest.first /\ manifest'.last = manifest.last
        BY <2>1, <2>4
      <3>2. \A h \in Heights :
               ArchivedBlock(manifest', h) = ArchivedBlock(manifest, h)
        <4>1. /\ IsManifest(manifest) /\ Validate(manifest)
              /\ \A g \in manifest.segments : OfSource(g)
              /\ IsManifest(manifest') /\ Validate(manifest')
              /\ \A g \in manifest'.segments : OfSource(g)
          BY Zenon DEF MigrateInv, ObjectInv
        <4> QED  BY <2>2, <2>4, <3>1, <4>1, ArchivedIs, Zenon
      <3> QED  BY <3>2 DEF Archived
    <2> QED  BY <2>3, <2>4
  <1> QED  BY <1>1, <1>2, <1>3, ManifestStep

(* Migrations, next to each other and to a live archive peer, keep the     *)
(* archive's promise (Migrate's check of the manifest, SaveManifest).      *)
THEOREM MigrationsKeepPromise == MigrateSpec => MigrationKeepsPromise
  <1>1. MigrateInit => Promise!PromiseInit
    <2> SUFFICES ASSUME MigrateInit PROVE Promise!PromiseInit
      OBVIOUS
    <2>1. \A h \in Heights : ArchivedBlock(manifest, h) = NoBlock
      BY DEF MigrateInit, EmptyManifest, ArchivedBlock
    <2> QED  BY <2>1 DEF Promise!PromiseInit, Promise!Heights, Heights
  <1>2. MigrateInv /\ MigrateInv' /\ [MigrateNext]_migrateVars =>
           [Promise!PromiseNext]_(Promise!promiseVars)
    BY PromiseStep DEF Promise!promiseVars, Promise!PromiseNext, Promise!Heights,
                       Heights, Archived
  <1> QED  BY <1>1, <1>2, MigrateInvariance, PTL
              DEF MigrateSpec, MigrationKeepsPromise, Promise!PromiseSpec

============================================================================
