------------------------------ MODULE Manifest ------------------------------
(***************************************************************************)
(* Segments and manifests.  (internal/archive/manifest.go, segment.go)     *)
(*                                                                         *)
(* A segment is the blocks of a contiguous height range.  Its object key   *)
(* holds the range and the SHA-256 of its bytes, so a segment stands for   *)
(* its own key: two keys are equal exactly when the segments are.  A       *)
(* manifest keeps its segments sorted and contiguous, so a set of them     *)
(* stands for the list.                                                    *)
(***************************************************************************)
EXTENDS Chain

NoSegment == [first |-> 0, last |-> 0, blocks |-> <<>>]

(* Mutant: the first block is read again for every height.                 *)
RepeatsFirst(first, last, blocks) ==
    [first |-> first, last |-> last,
     blocks |-> [h \in first .. last |-> blocks[first]]]

(* EncodeSegment's descriptor of contiguous records: the range and, for    *)
(* each height, the block by its hash.  The encoding of the bytes is left  *)
(* out.                                                                    *)
SegmentOf(first, last, blocks) ==
    [first |-> first, last |-> last,
     blocks |-> [h \in first .. last |-> blocks[h]]]

(* SegmentManifest.Validate: a range of heights and one block for each.    *)
IsSegment(s) ==
    /\ s = [first |-> s.first, last |-> s.last, blocks |-> s.blocks]
    /\ s.first \in Heights /\ s.last \in Heights /\ s.first <= s.last
    /\ s.blocks \in [s.first .. s.last -> Block]
    /\ \A h \in s.first .. s.last : HeightOf[s.blocks[h]] = h

(* NewManifest with no segments; revision 0 is the empty revision, which   *)
(* only creates a missing key.                                             *)
EmptyManifest == [revision |-> 0, first |-> 0, last |-> 0, segments |-> {}]

IsManifest(m) ==
    /\ m = [revision |-> m.revision, first |-> m.first, last |-> m.last,
            segments |-> m.segments]
    /\ m.revision \in Nat
    /\ m.first \in 0 .. MaxHeight /\ m.last \in 0 .. MaxHeight
    /\ \A s \in m.segments : IsSegment(s)

Covers(s, h) == s.first <= h /\ h <= s.last

(* sort.Search over the segments: the block the manifest holds at height h.*)
ArchivedBlock(m, h) ==
    IF \E s \in m.segments : Covers(s, h)
    THEN (CHOOSE s \in m.segments : Covers(s, h)).blocks[h]
    ELSE NoBlock

(* Manifest.Validate: no gap, no overlap, and the range the segments span. *)
Validate(m) ==
    IF m.segments = {} THEN m.first = 0 /\ m.last = 0
    ELSE /\ 0 < m.first /\ m.first <= m.last
         /\ \A s \in m.segments : m.first <= s.first /\ s.last <= m.last
         /\ \A h \in m.first .. m.last : \E s \in m.segments : Covers(s, h)
         /\ \A s, t \in m.segments :
               (\E h \in Heights : Covers(s, h) /\ Covers(t, h)) => s = t

(* The new segment must continue the tail.                                 *)
CanAppend(m, s) == m.segments # {} => s.first = m.last + 1

(* Mutant: the first height is set by every append.                        *)
AppendResetsFirst(m, s) ==
    [revision |-> m.revision, first |-> s.first, last |-> s.last,
     segments |-> m.segments \cup {s}]

AppendSegmentInPlace(m, s) ==
    [revision |-> m.revision,
     first |-> IF m.segments = {} THEN s.first ELSE m.first,
     last |-> s.last,
     segments |-> m.segments \cup {s}]

(* The stored manifest under the revision its write created.               *)
WithRevision(m, r) ==
    [revision |-> r, first |-> m.first, last |-> m.last,
     segments |-> m.segments]

============================================================================
