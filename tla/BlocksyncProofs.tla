-------------------------- MODULE BlocksyncProofs --------------------------
(***************************************************************************)
(* Proofs about Blocksync for any number of peers, any window, any block   *)
(* tree and any misbehaviour.                                              *)
(*                                                                         *)
(* The planner, the buffer and the ingestor are looked at and changed in   *)
(* separate locked sections, by one goroutine per peer and the timer.      *)
(* SyncInv says what holds between any two sections: what is in flight can *)
(* be answered, what is marked received is held, and a block the ingestor  *)
(* waits for is in the hands of a handler.                                 *)
(***************************************************************************)
EXTENDS Blocksync, HotIngestProofs, WellFoundedInduction

(* A request in flight is with a peer that advertises the height.          *)
Servable(pl) ==
    \A h \in Heights : pl.inflight[h] # NoPeer => pl.inflight[h] \in Sources(pl, h)

(* Only a request that is in flight has a timeout.                         *)
OverdueInflight(pl) == \A h \in pl.overdue : pl.inflight[h] # NoPeer

PlannerInv(pl) == IsPlanner(pl) /\ Servable(pl) /\ OverdueInflight(pl)

(* No height is in flight that was not before.                             *)
NoneAdded(old, new) ==
    \A h \in Heights : new.inflight[h] # NoPeer => old.inflight[h] # NoPeer

(* What a goroutine holds between two locked sections.                     *)
IsTask(g, t) ==
    \/ t = Idle \/ t = PlanAndSend
    \/ /\ t.step = "status" /\ g \in Peer
       /\ t.range \in [base : Heights \cup {0}, height : Heights \cup {0}]
    \/ t.step = "check" /\ g \in Peer /\ t.peer = g /\ t.block \in Block
    \/ t.step \in {"submit", "drain", "reject"} /\ t.peer \in Peer /\ t.block \in Block
    \/ t.step = "disconnect" /\ t.peer \in Peer /\ t.then \in {Idle, PlanAndSend}
    \/ t.step = "noBlock" /\ g \in Peer /\ t.height \in Heights
    \/ /\ t.step = "send" /\ t.copy \subseteq Peer
       /\ t.requests \subseteq Peer \X Heights

TaskInv ==
    /\ task = [g \in Goroutine |-> task[g]]
    /\ \A g \in Goroutine : IsTask(g, task[g])

BufferInv ==
    /\ buffered = [h \in Heights |-> buffered[h]]
    /\ \A h \in Heights : buffered[h] # NoResponse =>
          /\ buffered[h].peer \in Peer /\ buffered[h].block \in Block
          /\ HeightOf[buffered[h].block] = h

TableInv ==
    /\ peers \subseteq Peer /\ linked \subseteq Peer
    /\ asked \subseteq Peer \X Heights /\ faults \in 0 .. MaxFaults

(* The handler that holds t is about to take the block of height h.        *)
Attends(t, h) ==
    \/ t.step = "drain"
    \/ t.step \in {"submit", "reject"} /\ HeightOf[t.block] = h

SyncInv ==
    /\ HotInv /\ PlannerInv(planner) /\ TableInv /\ BufferInv /\ TaskInv
    /\ WindowBounded /\ NoStrandedBlock /\ ReceivedIsHeld

----------------------------------------------------------------------------
(* What the planner's methods do, field by field.                          *)

(* Peers and heights are positive.                                         *)
LEMMA PlanFacts ==
    /\ NoPeer \notin Peer /\ Peer \subseteq Nat /\ RequestLimit \in Nat
    /\ RequestLimit > 0 /\ MaxHeight \in Nat /\ Heights \subseteq Nat
    /\ Timer \notin Peer /\ MaxFaults \in Nat
  BY PlannerAssumption, BlocksyncAssumption, BlockFact DEF NoPeer, Heights, Timer

(* Forget deletes requests and nothing else.                               *)
LEMMA ForgetFields ==
    ASSUME NEW pl, NEW hs
    PROVE  LET q == Forget(pl, hs)
           IN  /\ q.inflight = [h \in Heights |-> IF h \in hs THEN NoPeer
                                                  ELSE pl.inflight[h]]
               /\ q.overdue = pl.overdue \ hs
               /\ q.peers = pl.peers /\ q.received = pl.received
               /\ q.noBlocks = pl.noBlocks /\ q.timeouts = pl.timeouts
  BY DEF Forget

(* A planner with fewer requests and as many sources is as good.           *)
LEMMA ForgetInv ==
    ASSUME NEW pl, PlannerInv(pl), NEW hs
    PROVE  /\ PlannerInv(Forget(pl, hs)) /\ NoneAdded(pl, Forget(pl, hs))
           /\ \A h \in Heights : h \notin hs =>
                 Forget(pl, hs).inflight[h] = pl.inflight[h]
           /\ \A h \in hs \cap Heights : Forget(pl, hs).inflight[h] = NoPeer
           /\ Forget(pl, hs).received = pl.received
           /\ Forget(pl, hs).peers = pl.peers
           /\ Forget(pl, hs).overdue = pl.overdue \ hs
  <1>. DEFINE q == Forget(pl, hs)
  <1>1. /\ q.inflight = [h \in Heights |-> IF h \in hs THEN NoPeer
                                           ELSE pl.inflight[h]]
        /\ q.overdue = pl.overdue \ hs
        /\ q.peers = pl.peers /\ q.received = pl.received
        /\ q.noBlocks = pl.noBlocks /\ q.timeouts = pl.timeouts
    BY ForgetFields
  <1>. HIDE DEF q
  <1>2. IsPlanner(q)
    BY <1>1 DEF PlannerInv, IsPlanner
  <1>3. Servable(q)
    BY <1>1 DEF PlannerInv, Servable, Sources
  <1>4. OverdueInflight(q)
    BY <1>1 DEF PlannerInv, IsPlanner, OverdueInflight
  <1>5. /\ NoneAdded(pl, q)
        /\ \A h \in Heights : h \notin hs => q.inflight[h] = pl.inflight[h]
        /\ \A h \in hs \cap Heights : q.inflight[h] = NoPeer
    BY <1>1 DEF NoneAdded
  <1>. QED
    BY <1>1, <1>2, <1>3, <1>4, <1>5 DEF q, PlannerInv

(* MarkFailed and MarkDone delete requests and markers.                    *)
LEMMA FailedInv ==
    ASSUME NEW pl, PlannerInv(pl), NEW hs
    PROVE  /\ PlannerInv(MarkFailed(pl, hs)) /\ NoneAdded(pl, MarkFailed(pl, hs))
           /\ MarkFailed(pl, hs).received = pl.received \ hs
  <1>. DEFINE f == Forget(pl, hs)
              q == MarkFailed(pl, hs)
  <1>1. /\ q.inflight = f.inflight /\ q.overdue = f.overdue /\ q.peers = f.peers
        /\ q.noBlocks = f.noBlocks /\ q.timeouts = f.timeouts
        /\ q.received = f.received \ hs
    BY DEF MarkFailed
  <1>2. PlannerInv(f) /\ NoneAdded(pl, f) /\ f.received = pl.received
    BY ForgetInv
  <1>. HIDE DEF q, f
  <1>3. PlannerInv(q)
    BY <1>1, <1>2 DEF PlannerInv, IsPlanner, Servable, OverdueInflight, Sources
  <1>4. NoneAdded(pl, q)
    BY <1>1, <1>2 DEF NoneAdded
  <1>. QED
    BY <1>1, <1>2, <1>3, <1>4 DEF q

(* MarkReceived turns a request into a marker.                             *)
LEMMA ReceivedInv ==
    ASSUME NEW pl, PlannerInv(pl), NEW h \in Heights
    PROVE  /\ PlannerInv(MarkReceived(pl, h)) /\ NoneAdded(pl, MarkReceived(pl, h))
           /\ MarkReceived(pl, h).received = pl.received \cup {h}
  <1>. DEFINE f == Forget(pl, {h})
              q == MarkReceived(pl, h)
  <1>1. /\ q.inflight = f.inflight /\ q.overdue = f.overdue /\ q.peers = f.peers
        /\ q.noBlocks = f.noBlocks /\ q.timeouts = f.timeouts
        /\ q.received = f.received \cup {h}
    BY DEF MarkReceived
  <1>2. PlannerInv(f) /\ NoneAdded(pl, f) /\ f.received = pl.received
    BY ForgetInv
  <1>. HIDE DEF q, f
  <1>3. PlannerInv(q)
    BY <1>1, <1>2 DEF PlannerInv, IsPlanner, Servable, OverdueInflight, Sources
  <1>4. NoneAdded(pl, q)
    BY <1>1, <1>2 DEF NoneAdded
  <1>. QED
    BY <1>1, <1>2, <1>3, <1>4 DEF q

(* UpsertPeer deletes the requests the new range does not cover, so those  *)
(* that stay can be answered.                                              *)
LEMMA UpsertInv ==
    ASSUME NEW pl, PlannerInv(pl), NEW id \in Peer,
           NEW r \in [base : Nat, height : Nat]
    PROVE  /\ PlannerInv(UpsertPeer(pl, id, r))
           /\ NoneAdded(pl, UpsertPeer(pl, id, r))
           /\ UpsertPeer(pl, id, r).received = pl.received
  <1>. DEFINE hs == {h \in Heights : /\ pl.inflight[h] = id
                                     /\ ~Contains(r, h)}
              f == Forget(pl, hs)
              q == UpsertPeer(pl, id, r)
  <1>1. /\ q.inflight = f.inflight /\ q.overdue = f.overdue
        /\ q.peers = [f.peers EXCEPT ![id] = r] /\ q.received = f.received
        /\ q.noBlocks \subseteq f.noBlocks /\ q.timeouts \subseteq f.timeouts
    <2>. HIDE DEF f
    <2>1. CASE pl.peers[id] \in {NoRange, r}
      <3>1. q = [f EXCEPT !.peers[id] = r]
        BY <2>1, Zenon DEF UpsertPeer, f
      <3>. QED
        BY <3>1
    <2>2. CASE pl.peers[id] \notin {NoRange, r}
      <3>1. q = [f EXCEPT !.peers[id] = r, !.noBlocks = Without(@, id),
                          !.timeouts = Without(@, id)]
        BY <2>2, Zenon DEF UpsertPeer, f
      <3>. QED
        BY <3>1 DEF Without
    <2>. QED
      BY <2>1, <2>2
  <1>2. /\ PlannerInv(f) /\ NoneAdded(pl, f)
        /\ \A h \in Heights : h \notin hs => f.inflight[h] = pl.inflight[h]
        /\ \A h \in hs \cap Heights : f.inflight[h] = NoPeer
        /\ f.received = pl.received /\ f.peers = pl.peers
    BY ForgetInv
  <1>3. \A h \in Heights : f.inflight[h] = id => Contains(r, h)
    BY <1>2, PlanFacts
  <1>. HIDE DEF q, f, hs
  <1>4. IsPlanner(q)
    BY <1>1, <1>2 DEF PlannerInv, IsPlanner
  <1>5. Servable(q)
    <2>1. SUFFICES ASSUME NEW h \in Heights, f.inflight[h] # NoPeer
                   PROVE  f.inflight[h] \in Sources(q, h)
      BY <1>1 DEF Servable
    <2>2. f.inflight[h] \in Sources(f, h)
      BY <1>2, <2>1 DEF PlannerInv, Servable
    <2>3. f.inflight[h] # id => q.peers[f.inflight[h]] = f.peers[f.inflight[h]]
      BY <1>1, <1>2, <2>2 DEF PlannerInv, IsPlanner, Sources
    <2>4. q.peers[id] = r
      BY <1>1, <1>2 DEF PlannerInv, IsPlanner
    <2>. QED
      BY <1>1, <1>3, <2>2, <2>3, <2>4 DEF Sources
  <1>6. NoneAdded(pl, q)
    BY <1>1, <1>2 DEF NoneAdded
  <1>. QED
    BY <1>1, <1>2, <1>4, <1>5, <1>6 DEF PlannerInv, OverdueInflight, q

(* DropPeer deletes the requests to the peer along with its range.         *)
LEMMA DropInv ==
    ASSUME NEW pl, PlannerInv(pl), NEW id \in Peer
    PROVE  /\ PlannerInv(DropPeer(pl, id)) /\ NoneAdded(pl, DropPeer(pl, id))
           /\ DropPeer(pl, id).received = pl.received
  <1>. DEFINE hs == {h \in Heights : pl.inflight[h] = id}
              f == Forget(pl, hs)
              q == DropPeer(pl, id)
  <1>1. /\ q.inflight = f.inflight /\ q.overdue = f.overdue
        /\ q.peers = [f.peers EXCEPT ![id] = NoRange] /\ q.received = f.received
        /\ q.noBlocks \subseteq f.noBlocks /\ q.timeouts \subseteq f.timeouts
    BY DEF DropPeer, Without
  <1>2. /\ PlannerInv(f) /\ NoneAdded(pl, f)
        /\ \A h \in Heights : h \notin hs => f.inflight[h] = pl.inflight[h]
        /\ \A h \in hs \cap Heights : f.inflight[h] = NoPeer
        /\ f.received = pl.received /\ f.peers = pl.peers
    BY ForgetInv
  <1>3. \A h \in Heights : f.inflight[h] # id
    BY <1>2, PlanFacts
  <1>. HIDE DEF q, f, hs
  <1>4. IsPlanner(q)
    <2>1. NoRange \in [base : Nat, height : Nat]
      BY DEF NoRange
    <2>. QED
      BY <1>1, <1>2, <2>1 DEF PlannerInv, IsPlanner
  <1>5. Servable(q)
    <2>1. SUFFICES ASSUME NEW h \in Heights, f.inflight[h] # NoPeer
                   PROVE  f.inflight[h] \in Sources(q, h)
      BY <1>1 DEF Servable
    <2>2. f.inflight[h] \in Sources(f, h)
      BY <1>2, <2>1 DEF PlannerInv, Servable
    <2>3. q.peers[f.inflight[h]] = f.peers[f.inflight[h]]
      BY <1>1, <1>2, <1>3, <2>2 DEF PlannerInv, IsPlanner, Sources
    <2>. QED
      BY <1>1, <2>2, <2>3 DEF Sources
  <1>6. NoneAdded(pl, q)
    BY <1>1, <1>2 DEF NoneAdded
  <1>. QED
    BY <1>1, <1>2, <1>4, <1>5, <1>6 DEF PlannerInv, OverdueInflight, q

(* MarkNoBlock deletes the request it makes unanswerable; an answer to no  *)
(* request of that peer changes nothing.                                   *)
LEMMA NoBlockInv ==
    ASSUME NEW pl, PlannerInv(pl), NEW id \in Peer, NEW k \in Heights
    PROVE  /\ PlannerInv(MarkNoBlock(pl, id, k))
           /\ NoneAdded(pl, MarkNoBlock(pl, id, k))
           /\ MarkNoBlock(pl, id, k).received = pl.received
  <1>1. CASE pl.inflight[k] # id
    BY <1>1 DEF MarkNoBlock, NoneAdded
  <1>2. CASE pl.inflight[k] = id
    <2>. DEFINE hs == {k}
                f == Forget(pl, hs)
                q == [f EXCEPT !.noBlocks = @ \cup {<<id, k>>}]
    <2>1. MarkNoBlock(pl, id, k) = q
      BY <1>2, Zenon DEF MarkNoBlock
    <2>2. /\ q.inflight = f.inflight /\ q.overdue = f.overdue
          /\ q.peers = f.peers /\ q.received = f.received
          /\ q.noBlocks = f.noBlocks \cup {<<id, k>>} /\ q.timeouts = f.timeouts
      OBVIOUS
    <2>3. /\ PlannerInv(f) /\ NoneAdded(pl, f) /\ f.received = pl.received
          /\ f.inflight[k] = NoPeer
      <3>. HIDE DEF hs
      <3>1. /\ PlannerInv(f) /\ NoneAdded(pl, f) /\ f.received = pl.received
            /\ \A h \in hs \cap Heights : f.inflight[h] = NoPeer
        BY ForgetInv
      <3>2. k \in hs \cap Heights
        BY DEF hs
      <3>. HIDE DEF f
      <3>. QED
        BY <3>1, <3>2
    <2>. HIDE DEF q, f
    <2>4. IsPlanner(q)
      BY <2>2, <2>3 DEF PlannerInv, IsPlanner
    <2>5. Servable(q)
      BY <2>2, <2>3 DEF PlannerInv, Servable, Sources
    <2>6. NoneAdded(pl, q)
      BY <2>2, <2>3 DEF NoneAdded
    <2>. QED
      BY <2>1, <2>2, <2>3, <2>4, <2>5, <2>6 DEF PlannerInv, OverdueInflight
  <1>. QED
    BY <1>1, <1>2

(* A request that expires is deleted.                                      *)
LEMMA ExpireInv ==
    ASSUME NEW pl, PlannerInv(pl)
    PROVE  /\ PlannerInv(ExpireInflight(pl)) /\ NoneAdded(pl, ExpireInflight(pl))
           /\ ExpireInflight(pl).received = pl.received
  <1>. DEFINE f == Forget(pl, pl.overdue)
              q == ExpireInflight(pl)
              expired == {<<pl.inflight[h], h>> : h \in pl.overdue}
  <1>1. /\ q.inflight = f.inflight /\ q.overdue = f.overdue
        /\ q.peers = f.peers /\ q.received = f.received
        /\ q.noBlocks = f.noBlocks /\ q.timeouts = f.timeouts \cup expired
    BY DEF ExpireInflight
  <1>2. /\ PlannerInv(f) /\ NoneAdded(pl, f) /\ f.received = pl.received
        /\ f.overdue = pl.overdue \ pl.overdue
    BY ForgetInv
  <1>4. expired \subseteq Peer \X Heights
    BY DEF PlannerInv, IsPlanner, OverdueInflight
  <1>. HIDE DEF q, f, expired
  <1>5. IsPlanner(q)
    BY <1>1, <1>2, <1>4 DEF PlannerInv, IsPlanner
  <1>6. Servable(q)
    BY <1>1, <1>2 DEF PlannerInv, Servable, Sources
  <1>7. NoneAdded(pl, q)
    BY <1>1, <1>2 DEF NoneAdded
  <1>. QED
    BY <1>1, <1>2, <1>5, <1>6, <1>7 DEF PlannerInv, OverdueInflight, q

(* Every nonempty set of peers has a first one.                            *)
LEMMA FirstPeer ==
    ASSUME NEW T, T \subseteq Nat, T # {}
    PROVE  \E p \in T : \A q \in T : p <= q
  <1>1. \E p \in T : \A q \in T : ~(<<q, p>> \in OpToRel(<, Nat))
    BY NatLessThanWellFounded, WFMin, Zenon
  <1>2. PICK p \in T : \A q \in T : ~(<<q, p>> \in OpToRel(<, Nat))
    BY <1>1, Zenon
  <1>3. ASSUME NEW q \in T PROVE p <= q
    <2>1. ~(<<q, p>> \in OpToRel(<, Nat))
      BY <1>2, Zenon
    <2>2. p \in Nat /\ q \in Nat
      OBVIOUS
    <2>. QED
      BY <2>1, <2>2 DEF OpToRel
  <1>. QED
    BY <1>2, <1>3, Zenon

(* peerForHeight picks a source of the height.                             *)
LEMMA PeerForHeightIsSource ==
    ASSUME NEW pl, NEW h, Sources(pl, h) # {}
    PROVE  peerForHeight(pl, h) \in Sources(pl, h)
  <1>. DEFINE T == PreferredSources(pl, h)
  <1>1. T # {} /\ T \subseteq Sources(pl, h)
    BY DEF PreferredSources
  <1>2. T \subseteq Nat
    BY <1>1, PlanFacts, Zenon DEF Sources
  <1>. HIDE DEF T
  <1>3. \E p \in T : \A q \in T : p <= q
    BY <1>1, <1>2, FirstPeer, Zenon
  <1>4. (CHOOSE p \in T : \A q \in T : p <= q) \in T
    BY <1>3
  <1>5. peerForHeight(pl, h) = CHOOSE p \in T : \A q \in T : p <= q
    BY Zenon DEF peerForHeight, T
  <1>. QED
    BY <1>1, <1>4, <1>5

(* PlanAt adds requests only to peers that can answer them and only within *)
(* RequestLimit of the next height; of the markers it keeps some.          *)
LEMMA PlanAtInv ==
    ASSUME NEW pl, PlannerInv(pl), NEW next \in Nat
    PROVE  /\ PlannerInv(PlanAt(pl, next))
           /\ \A h \in Heights :
                 \/ PlanAt(pl, next).inflight[h] = pl.inflight[h]
                 \/ /\ PlanAt(pl, next).inflight[h] \in Peer
                    /\ h < next + RequestLimit
           /\ PlanAt(pl, next).received \subseteq pl.received
  <1>. DEFINE f == pruneMarkersBelow(pl, next)
              new == Planned(f, next)
              q == PlanAt(pl, next)
  <1>1. /\ f.inflight = pl.inflight /\ f.overdue = pl.overdue
        /\ f.peers = pl.peers /\ f.received \subseteq pl.received
        /\ f.noBlocks \subseteq pl.noBlocks /\ f.timeouts \subseteq pl.timeouts
    BY DEF pruneMarkersBelow
  <1>2. /\ q.inflight = [h \in Heights |-> IF h \in new THEN peerForHeight(f, h)
                                           ELSE f.inflight[h]]
        /\ q.overdue = f.overdue /\ q.peers = f.peers /\ q.received = f.received
        /\ q.noBlocks = f.noBlocks /\ q.timeouts = f.timeouts
    BY DEF PlanAt
  <1>3. \A h \in new : /\ h \in Heights /\ f.inflight[h] = NoPeer
                       /\ h < next + RequestLimit /\ Sources(f, h) # {}
    <2>1. \A h \in new : h \in Wanted(f, next) /\ h <= h
      BY PlanFacts DEF Planned, Wanted
    <2>. QED
      BY <2>1 DEF Planned, Wanted
  <1>. HIDE DEF f, new, q
  <1>4. \A h \in new : peerForHeight(f, h) \in Sources(f, h)
    BY <1>3, PeerForHeightIsSource
  <1>5. \A h : Sources(pl, h) \subseteq Sources(f, h) /\ Sources(q, h) = Sources(f, h)
    BY <1>1, <1>2 DEF Sources
  <1>6. \A h \in new : peerForHeight(f, h) \in Peer
    BY <1>4, Zenon DEF Sources
  <1>7. IsPlanner(q)
    BY <1>1, <1>2, <1>6 DEF PlannerInv, IsPlanner
  <1>8. Servable(q)
    BY <1>1, <1>2, <1>4, <1>5 DEF PlannerInv, Servable
  <1>9. \A h \in Heights :
           \/ q.inflight[h] = pl.inflight[h]
           \/ q.inflight[h] \in Peer /\ h < next + RequestLimit
    BY <1>1, <1>2, <1>3, <1>6
  <1>10. OverdueInflight(q)
    BY <1>1, <1>2, <1>6, PlanFacts DEF PlannerInv, IsPlanner, OverdueInflight
  <1>. QED
    BY <1>1, <1>2, <1>7, <1>8, <1>9, <1>10 DEF PlannerInv, q

----------------------------------------------------------------------------
(* What every locked section has in common.                                *)

(* A goroutine that goes on changes its own task only.                     *)
LEMMA ContinueInv ==
    ASSUME TaskInv, NEW g \in Goroutine, NEW t, IsTask(g, t), Continue(g, t)
    PROVE  /\ TaskInv' /\ task'[g] = t
           /\ \A k \in Goroutine : k # g => task'[k] = task[k]
  <1>1. task' = [k \in Goroutine |-> IF k = g THEN t ELSE task[k]]
    BY DEF TaskInv, Continue
  <1>. QED
    BY <1>1 DEF TaskInv

(* The height the ingestor waits for is a natural number, at most one      *)
(* above the chain.                                                        *)
LEMMA NextHeightNat ==
    ASSUME HotInv, NEW n \in Node
    PROVE  NextHeight(n) \in Nat
  <1>1. startHeight[n] \in Nat
    BY BlockFact DEF HotInv, HotTypeOK
  <1>. QED
    BY <1>1, NodeTypes, BlockFact DEF HotInv, NextHeight

(* A step outside the ingestor keeps its invariant and its height.         *)
LEMMA HotFrame ==
    ASSUME HotInv, UNCHANGED hotVars
    PROVE  HotInv' /\ \A n : NextHeight(n)' = NextHeight(n)
  <1>1. HotInv'
    BY HotNextInv
  <1>2. \A n : NextHeight(n)' = NextHeight(n)
    BY DEF hotVars, NextHeight
  <1>. QED
    BY <1>1, <1>2

(* A section that adds no request and no buffered block keeps the          *)
(* invariant, if it withdraws a marker with every block it drops and does  *)
(* not let go of a block it attends to.                                    *)
LEMMA SectionInv ==
    ASSUME SyncInv, UNCHANGED hotVars,
           PlannerInv(planner'), NoneAdded(planner, planner'),
           TableInv', BufferInv', TaskInv',
           \A h \in Heights : buffered'[h] # NoResponse => buffered'[h] = buffered[h],
           \A h \in planner'.received :
              h \in planner.received /\ buffered'[h] = buffered[h],
           \A g \in Goroutine, h \in Heights :
              /\ h = NextHeight(Self) /\ buffered'[h] # NoResponse
              /\ Attends(task[g], h)
              => \E k \in Goroutine : Attends(task'[k], h)
    PROVE  SyncInv'
  <1>1. HotInv' /\ NextHeight(Self)' = NextHeight(Self)
    BY HotFrame DEF SyncInv
  <1>2. WindowBounded'
    BY <1>1 DEF SyncInv, WindowBounded, NoneAdded
  <1>3. ReceivedIsHeld'
    BY <1>1 DEF SyncInv, ReceivedIsHeld
  <1>4. NoStrandedBlock'
    <2>1. SUFFICES ASSUME NEW h \in Heights, h = NextHeight(Self),
                          buffered'[h] # NoResponse
                   PROVE  \E g \in Goroutine : Attends(task'[g], h)
      BY <1>1 DEF NoStrandedBlock, Attends
    <2>2. PICK g \in Goroutine : Attends(task[g], h)
      BY <2>1 DEF SyncInv, NoStrandedBlock, Attends
    <2>. QED
      BY <2>1, <2>2
  <1>. QED
    BY <1>1, <1>2, <1>3, <1>4 DEF SyncInv

(* Deleting entries of the buffer keeps what is left.                      *)
LEMMA UnbufferInv ==
    ASSUME BufferInv, NEW hs, buffered' = Unbuffer(hs)
    PROVE  /\ BufferInv'
           /\ \A h \in Heights : buffered'[h] # NoResponse =>
                 buffered'[h] = buffered[h] /\ h \notin hs
           /\ \A h \in Heights : h \notin hs => buffered'[h] = buffered[h]
  BY DEF BufferInv, Unbuffer

(* The two that always come together: the markers and the blocks of the    *)
(* heights in hs.                                                          *)
LEMMA FailedAndUnbuffered ==
    ASSUME SyncInv, NEW mid, PlannerInv(mid), NoneAdded(planner, mid),
           mid.received = planner.received, NEW hs,
           planner' = MarkFailed(mid, hs), buffered' = Unbuffer(hs)
    PROVE  /\ PlannerInv(planner') /\ NoneAdded(planner, planner') /\ BufferInv'
           /\ \A h \in Heights : buffered'[h] # NoResponse =>
                 buffered'[h] = buffered[h] /\ h \notin hs
           /\ \A h \in planner'.received :
                 h \in planner.received /\ buffered'[h] = buffered[h]
  <1>1. /\ PlannerInv(planner') /\ NoneAdded(mid, planner')
        /\ planner'.received = planner.received \ hs
    BY FailedInv
  <1>2. NoneAdded(planner, planner')
    BY <1>1 DEF NoneAdded
  <1>3. /\ BufferInv'
        /\ \A h \in Heights : buffered'[h] # NoResponse =>
              buffered'[h] = buffered[h] /\ h \notin hs
        /\ \A h \in Heights : h \notin hs => buffered'[h] = buffered[h]
    BY UnbufferInv DEF SyncInv
  <1>4. planner.received \subseteq Heights
    BY DEF SyncInv, PlannerInv, IsPlanner
  <1>. QED
    BY <1>1, <1>2, <1>3, <1>4

(* A section that leaves planner and buffer alone.                         *)
LEMMA QuietSection ==
    ASSUME SyncInv, UNCHANGED <<hotVars, planner, buffered>>,
           TableInv', TaskInv',
           \A g \in Goroutine, h \in Heights :
              Attends(task[g], h) => \E k \in Goroutine : Attends(task'[k], h)
    PROVE  SyncInv'
  <1>1. PlannerInv(planner') /\ NoneAdded(planner, planner') /\ BufferInv'
    BY DEF SyncInv, NoneAdded, BufferInv
  <1>. QED
    BY <1>1, SectionInv

(* A goroutine that attends to no block and goes on, and the others, hold  *)
(* on to what they attend to.                                              *)
LEMMA OthersAttend ==
    ASSUME TaskInv, NEW g \in Goroutine, NEW t, IsTask(g, t), Continue(g, t),
           task[g].step \notin {"submit", "drain", "reject"}
    PROVE  /\ TaskInv'
           /\ \A k \in Goroutine, h \in Heights :
                 Attends(task[k], h) => \E j \in Goroutine : Attends(task'[j], h)
  <1>1. /\ TaskInv' /\ \A k \in Goroutine : k # g => task'[k] = task[k]
    BY ContinueInv
  <1>2. ASSUME NEW k \in Goroutine, NEW h \in Heights, Attends(task[k], h)
        PROVE  Attends(task'[k], h)
    <2>1. k # g
      BY <1>2 DEF Attends
    <2>. QED
      BY <1>1, <1>2, <2>1
  <1>. QED
    BY <1>1, <1>2

(* A goroutine without work attends to nothing.                            *)
LEMMA IdleAttends == Idle.step = "idle" /\ PlanAndSend.step = "plan"
  BY DEF Idle, PlanAndSend

----------------------------------------------------------------------------
(* Connections.                                                            *)

(* AddPeer enters the peer in the table and leaves the planner alone.      *)
LEMMA AddPeerInv ==
    ASSUME SyncInv, NEW p \in Peer, AddPeer(p)
    PROVE  SyncInv'
  <1>1. TableInv' /\ TaskInv' /\ task' = task
    BY DEF SyncInv, TableInv, TaskInv, AddPeer
  <1>. QED
    BY <1>1, QuietSection DEF AddPeer

(* RemovePeer drops the peer's range, requests, markers and blocks.        *)
LEMMA RemovePeerInv ==
    ASSUME SyncInv, NEW p \in Peer, RemovePeer(p), faults' \in 0 .. MaxFaults
    PROVE  /\ PlannerInv(planner') /\ NoneAdded(planner, planner')
           /\ BufferInv' /\ TableInv'
           /\ \A h \in Heights : buffered'[h] # NoResponse => buffered'[h] = buffered[h]
           /\ \A h \in planner'.received :
                 h \in planner.received /\ buffered'[h] = buffered[h]
  <1>. DEFINE mid == DropPeer(planner, p)
  <1>1. /\ PlannerInv(mid) /\ NoneAdded(planner, mid)
        /\ mid.received = planner.received
    BY DropInv DEF SyncInv
  <1>2. /\ planner' = MarkFailed(mid, BufferedFrom(p))
        /\ buffered' = Unbuffer(BufferedFrom(p))
    BY DEF RemovePeer
  <1>3. TableInv'
    BY DEF SyncInv, TableInv, RemovePeer, Without
  <1>. HIDE DEF mid
  <1>. QED
    BY <1>1, <1>2, <1>3, FailedAndUnbuffered

(* The count of misbehaviours stays within its bound.                      *)
LEMMA FaultInv ==
    ASSUME TableInv, NEW kind, Fault(kind)
    PROVE  faults' \in 0 .. MaxFaults
  BY PlanFacts DEF TableInv, Fault

(* A closed connection ends at most the handling of its own status.        *)
LEMMA AfterCloseInv ==
    ASSUME NEW p \in Peer, NEW tasks, tasks = [g \in Goroutine |-> tasks[g]]
    PROVE  AfterClose(p, tasks) =
              [g \in Goroutine |->
                 IF g = p /\ ~LateStatus /\ tasks[p].step = "status" THEN Idle
                 ELSE tasks[g]]
  BY DEF AfterClose

(* A lost connection: RemovePeer, and perhaps a waiting status is lost.    *)
LEMMA ConnectionLostInv ==
    ASSUME SyncInv, NEW p \in Peer, ConnectionLost(p)
    PROVE  SyncInv'
  <1>1. RemovePeer(p) /\ task' = AfterClose(p, task) /\ UNCHANGED hotVars
    BY DEF ConnectionLost
  <1>2. faults' \in 0 .. MaxFaults
    BY FaultInv DEF ConnectionLost, Misbehaves, SyncInv
  <1>3. /\ task' = [g \in Goroutine |-> task'[g]]
        /\ \A g \in Goroutine :
              \/ task'[g] = task[g]
              \/ task[g].step = "status" /\ task'[g] = Idle
    <2>1. task = [g \in Goroutine |-> task[g]]
      BY DEF SyncInv, TaskInv
    <2>2. task' = [g \in Goroutine |->
                     IF g = p /\ ~LateStatus /\ task[p].step = "status" THEN Idle
                     ELSE task[g]]
      BY <1>1, <2>1, AfterCloseInv, Zenon
    <2>. QED
      BY <2>2
  <1>4. TaskInv'
    BY <1>3 DEF SyncInv, TaskInv, IsTask
  <1>5. \A g \in Goroutine, h \in Heights : Attends(task[g], h) => Attends(task'[g], h)
    BY <1>3 DEF Attends
  <1>. QED
    BY <1>1, <1>2, <1>4, <1>5, RemovePeerInv, SectionInv

(* The reactor disconnects a peer and goes on with what it was doing.      *)
LEMMA disconnectPeerInv ==
    ASSUME SyncInv, NEW g \in Goroutine, disconnectPeer(g)
    PROVE  SyncInv'
  <1>. DEFINE p == task[g].peer
              tasks == [task EXCEPT ![g] = @.then]
  <1>1. p \in Peer /\ task[g].then \in {Idle, PlanAndSend}
    BY IdleAttends DEF SyncInv, TaskInv, IsTask, disconnectPeer
  <1>2. RemovePeer(p) /\ task' = AfterClose(p, tasks) /\ UNCHANGED hotVars
           /\ faults' = faults
    BY DEF disconnectPeer
  <1>3. faults' \in 0 .. MaxFaults
    BY <1>2 DEF SyncInv, TableInv
  <1>4. /\ tasks = [k \in Goroutine |-> tasks[k]] /\ tasks[g] = task[g].then
        /\ \A k \in Goroutine : k # g => tasks[k] = task[k]
    BY DEF SyncInv, TaskInv
  <1>. HIDE DEF p, tasks
  <1>5. /\ task' = [k \in Goroutine |-> task'[k]]
        /\ \A k \in Goroutine :
              \/ task'[k] = tasks[k]
              \/ tasks[k].step = "status" /\ task'[k] = Idle
    <2>1. task' = [k \in Goroutine |->
                     IF k = p /\ ~LateStatus /\ tasks[p].step = "status" THEN Idle
                     ELSE tasks[k]]
      BY <1>1, <1>2, <1>4, AfterCloseInv, Zenon
    <2>. QED
      BY <2>1
  <1>6. task'[g] \in {Idle, PlanAndSend}
    BY <1>1, <1>4, <1>5
  <1>7. TaskInv'
    BY <1>4, <1>5, <1>6 DEF SyncInv, TaskInv, IsTask
  <1>8. ASSUME NEW k \in Goroutine, NEW h \in Heights, Attends(task[k], h)
        PROVE  Attends(task'[k], h)
    <2>1. k # g
      BY <1>8 DEF Attends, disconnectPeer
    <2>. QED
      BY <1>4, <1>5, <1>8, <2>1 DEF Attends
  <1>. QED
    BY <1>1, <1>2, <1>3, <1>7, <1>8, RemovePeerInv, SectionInv

----------------------------------------------------------------------------
(* Receive.                                                                *)

(* A status message arrives and waits for its handler.                     *)
LEMMA ReceiveStatusInv ==
    ASSUME SyncInv, NEW p \in Peer, ReceiveStatus(p)
    PROVE  SyncInv'
  <1>1. PICK r \in OddRanges \cup {Advertised[p]} :
           /\ IF r = Advertised[p] THEN UNCHANGED faults ELSE Misbehaves(p, "shift")
           /\ Receive(p, [step |-> "status", range |-> r])
    BY DEF ReceiveStatus
  <1>. DEFINE t == [step |-> "status", range |-> r]
  <1>2. r \in [base : Heights \cup {0}, height : Heights \cup {0}]
    BY BlocksyncAssumption
  <1>3. IsTask(p, t) /\ p \in Goroutine
    BY <1>2 DEF IsTask, Goroutine
  <1>4. Continue(p, t) /\ task[p] = Idle
    BY <1>1 DEF Receive
  <1>5. TableInv'
    <2>1. faults' \in 0 .. MaxFaults
      BY <1>1, FaultInv DEF Misbehaves, SyncInv, TableInv
    <2>. QED
      BY <1>1, <2>1 DEF ReceiveStatus, SyncInv, TableInv
  <1>6. /\ TaskInv'
        /\ \A k \in Goroutine, h \in Heights :
              Attends(task[k], h) => \E j \in Goroutine : Attends(task'[j], h)
    BY <1>3, <1>4, OthersAttend, IdleAttends DEF SyncInv
  <1>. QED
    BY <1>5, <1>6, QuietSection, Zenon DEF ReceiveStatus

(* A block response arrives for a height the peer was asked.               *)
LEMMA ReceiveBlockInv ==
    ASSUME SyncInv, NEW p \in Peer, ReceiveBlock(p)
    PROVE  SyncInv'
  <1>1. PICK b \in Block :
           /\ IF b \in Malformed THEN Misbehaves(p, "bad") ELSE UNCHANGED faults
           /\ Receive(p, [step |-> "check", peer |-> p, block |-> b])
           /\ asked' = asked \ {<<p, HeightOf[b]>>}
    BY DEF ReceiveBlock
  <1>. DEFINE t == [step |-> "check", peer |-> p, block |-> b]
  <1>3. IsTask(p, t) /\ p \in Goroutine
    BY DEF IsTask, Goroutine
  <1>4. Continue(p, t) /\ task[p] = Idle
    BY <1>1 DEF Receive
  <1>5. TableInv'
    <2>1. faults' \in 0 .. MaxFaults
      BY <1>1, FaultInv DEF Misbehaves, SyncInv, TableInv
    <2>. QED
      BY <1>1, <2>1 DEF ReceiveBlock, SyncInv, TableInv
  <1>6. /\ TaskInv'
        /\ \A k \in Goroutine, h \in Heights :
              Attends(task[k], h) => \E j \in Goroutine : Attends(task'[j], h)
    BY <1>3, <1>4, OthersAttend, IdleAttends DEF SyncInv
  <1>. QED
    BY <1>5, <1>6, QuietSection DEF ReceiveBlock

(* A no-block response arrives for a height the peer was asked.            *)
LEMMA ReceiveNoBlockInv ==
    ASSUME SyncInv, NEW p \in Peer, ReceiveNoBlock(p)
    PROVE  SyncInv'
  <1>1. PICK k \in Heights : /\ Receive(p, [step |-> "noBlock", height |-> k])
                             /\ asked' = asked \ {<<p, k>>}
    BY DEF ReceiveNoBlock
  <1>. DEFINE t == [step |-> "noBlock", height |-> k]
  <1>2. IsTask(p, t) /\ p \in Goroutine
    BY DEF IsTask, Goroutine
  <1>3. Continue(p, t) /\ task[p] = Idle
    BY <1>1 DEF Receive
  <1>4. TableInv'
    <2>1. faults' \in 0 .. MaxFaults
      BY FaultInv DEF ReceiveNoBlock, Misbehaves, SyncInv
    <2>. QED
      BY <1>1, <2>1 DEF ReceiveNoBlock, SyncInv, TableInv
  <1>5. /\ TaskInv'
        /\ \A g \in Goroutine, h \in Heights :
              Attends(task[g], h) => \E j \in Goroutine : Attends(task'[j], h)
    BY <1>2, <1>3, OthersAttend, IdleAttends DEF SyncInv
  <1>. QED
    BY <1>4, <1>5, QuietSection DEF ReceiveNoBlock

(* A message or a block is refused: the peer is to be disconnected.        *)
LEMMA ReceiveInvalidInv ==
    ASSUME SyncInv, NEW p \in Peer, ReceiveInvalid(p)
    PROVE  SyncInv'
  <1>1. PICK next \in {Idle, PlanAndSend} :
           Receive(p, [step |-> "disconnect", peer |-> p, then |-> next])
    BY DEF ReceiveInvalid
  <1>. DEFINE t == [step |-> "disconnect", peer |-> p, then |-> next]
  <1>2. IsTask(p, t) /\ p \in Goroutine
    BY DEF IsTask, Goroutine
  <1>3. Continue(p, t) /\ task[p] = Idle
    BY <1>1 DEF Receive
  <1>4. TableInv'
    <2>1. faults' \in 0 .. MaxFaults
      BY FaultInv DEF ReceiveInvalid, Misbehaves, SyncInv
    <2>. QED
      BY <2>1 DEF ReceiveInvalid, SyncInv, TableInv
  <1>5. /\ TaskInv'
        /\ \A g \in Goroutine, h \in Heights :
              Attends(task[g], h) => \E j \in Goroutine : Attends(task'[j], h)
    BY <1>2, <1>3, OthersAttend, IdleAttends DEF SyncInv
  <1>6. CASE UNCHANGED <<planner, buffered>>
    BY <1>4, <1>5, <1>6, QuietSection DEF ReceiveInvalid
  <1>7. CASE /\ planner' = MarkFailed(DropPeer(planner, p), BufferedFrom(p))
             /\ buffered' = Unbuffer(BufferedFrom(p))
    <2>. DEFINE mid == DropPeer(planner, p)
    <2>1. /\ PlannerInv(mid) /\ NoneAdded(planner, mid)
          /\ mid.received = planner.received
      BY DropInv DEF SyncInv
    <2>. HIDE DEF mid
    <2>2. /\ PlannerInv(planner') /\ NoneAdded(planner, planner') /\ BufferInv'
          /\ \A h \in Heights : buffered'[h] # NoResponse => buffered'[h] = buffered[h]
          /\ \A h \in planner'.received :
                h \in planner.received /\ buffered'[h] = buffered[h]
      BY <1>7, <2>1, FailedAndUnbuffered DEF mid
    <2>. QED
      BY <1>4, <1>5, <2>2, SectionInv, Zenon DEF ReceiveInvalid
  <1>. QED
    BY <1>6, <1>7 DEF ReceiveInvalid

----------------------------------------------------------------------------
(* The handlers.                                                           *)

(* handleStatus: blocks outside the new range go back to the planner.      *)
LEMMA handleStatusInv ==
    ASSUME SyncInv, NEW p \in Peer, handleStatus(p)
    PROVE  SyncInv'
  <1>. DEFINE r == task[p].range
              outside == {h \in BufferedFrom(p) : ~Contains(r, h)}
  <1>1. p \in Goroutine /\ IsTask(p, Idle) /\ IsTask(p, PlanAndSend)
    BY DEF IsTask, Goroutine
  <1>2. task[p].step = "status" /\ r \in [base : Nat, height : Nat]
    <2>1. r \in [base : Heights \cup {0}, height : Heights \cup {0}]
      BY <1>1, IdleAttends DEF handleStatus, SyncInv, TaskInv, IsTask
    <2>2. Heights \cup {0} \subseteq Nat
      BY PlanFacts
    <2>. QED
      BY <2>1, <2>2 DEF handleStatus
  <1>3. TableInv'
    BY DEF handleStatus, SyncInv, TableInv
  <1>4. PICK t \in {Idle, PlanAndSend} : Continue(p, t)
    BY DEF handleStatus
  <1>5. /\ TaskInv'
        /\ \A g \in Goroutine, h \in Heights :
              Attends(task[g], h) => \E j \in Goroutine : Attends(task'[j], h)
    BY <1>1, <1>2, <1>4, OthersAttend DEF SyncInv
  <1>6. CASE UNCHANGED <<planner, buffered>>
    BY <1>3, <1>5, <1>6, QuietSection, Zenon DEF handleStatus
  <1>7. CASE /\ planner' = MarkFailed(UpsertPeer(planner, p, r), outside)
             /\ buffered' = Unbuffer(outside)
    <2>. DEFINE mid == UpsertPeer(planner, p, r)
    <2>. HIDE DEF r, outside
    <2>1. /\ PlannerInv(mid) /\ NoneAdded(planner, mid)
          /\ mid.received = planner.received
      BY <1>2, UpsertInv, Zenon DEF SyncInv
    <2>. HIDE DEF mid
    <2>2. /\ PlannerInv(planner') /\ NoneAdded(planner, planner') /\ BufferInv'
          /\ \A h \in Heights : buffered'[h] # NoResponse => buffered'[h] = buffered[h]
          /\ \A h \in planner'.received :
                h \in planner.received /\ buffered'[h] = buffered[h]
      BY <1>7, <2>1, FailedAndUnbuffered, Zenon DEF mid
    <2>. QED
      BY <1>3, <1>5, <2>2, SectionInv, Zenon DEF handleStatus
  <1>. QED
    BY <1>6, <1>7, Zenon DEF handleStatus

(* handleNoBlock: the request is dropped, the marker stays.                *)
LEMMA handleNoBlockInv ==
    ASSUME SyncInv, NEW p \in Peer, handleNoBlock(p)
    PROVE  SyncInv'
  <1>1. p \in Goroutine /\ IsTask(p, PlanAndSend)
    BY DEF IsTask, Goroutine
  <1>2. task[p].step = "noBlock" /\ task[p].height \in Heights
    BY <1>1, IdleAttends DEF handleNoBlock, SyncInv, TaskInv, IsTask
  <1>3. TableInv' /\ BufferInv'
    BY DEF handleNoBlock, SyncInv, TableInv, BufferInv
  <1>4. /\ TaskInv'
        /\ \A g \in Goroutine, h \in Heights :
              Attends(task[g], h) => \E j \in Goroutine : Attends(task'[j], h)
    BY <1>1, <1>2, OthersAttend DEF SyncInv, handleNoBlock
  <1>5. /\ PlannerInv(planner') /\ NoneAdded(planner, planner')
        /\ planner'.received = planner.received
    BY <1>2, NoBlockInv DEF SyncInv, handleNoBlock
  <1>. QED
    BY <1>3, <1>4, <1>5, SectionInv, Zenon DEF handleNoBlock

(* A block that arrives early is buffered with its marker: it was in       *)
(* flight, so it is within the window, and it is not the next height.      *)
LEMMA BufferBlockInv ==
    ASSUME SyncInv, NEW p \in Peer, NEW b \in Block,
           planner.inflight[HeightOf[b]] = p, HeightOf[b] > NextHeight(Self),
           planner' = MarkReceived(planner, HeightOf[b]),
           buffered' = [buffered EXCEPT ![HeightOf[b]] = [peer |-> p, block |-> b]],
           UNCHANGED hotVars, TableInv', TaskInv',
           \A g \in Goroutine, k \in Heights :
              Attends(task[g], k) => \E j \in Goroutine : Attends(task'[j], k)
    PROVE  SyncInv'
  <1>. DEFINE h == HeightOf[b]
              r == [peer |-> p, block |-> b]
  <1>1. HotInv' /\ NextHeight(Self)' = NextHeight(Self)
    BY HotFrame DEF SyncInv
  <1>2. h \in Heights /\ p # NoPeer
    BY BlockFact, PlanFacts DEF Heights
  <1>3. /\ PlannerInv(planner') /\ NoneAdded(planner, planner')
        /\ planner'.received = planner.received \cup {h}
    BY <1>2, ReceivedInv DEF SyncInv
  <1>4. r # NoResponse /\ r.peer = p /\ r.block = b
    BY <1>2 DEF NoResponse
  <1>. HIDE DEF h, r
  <1>5. buffered' = [k \in Heights |-> IF k = h THEN r ELSE buffered[k]]
    BY <1>2 DEF SyncInv, BufferInv, h, r
  <1>6. BufferInv'
    BY <1>4, <1>5 DEF SyncInv, BufferInv, h
  <1>7. WindowBounded'
    BY <1>1, <1>2, <1>3, <1>5 DEF SyncInv, WindowBounded, NoneAdded, h
  <1>8. ReceivedIsHeld'
    <2>1. planner.received \subseteq Heights
      BY DEF SyncInv, PlannerInv, IsPlanner
    <2>. QED
      BY <1>1, <1>2, <1>3, <1>4, <1>5, <2>1 DEF SyncInv, ReceivedIsHeld
  <1>9. NoStrandedBlock'
    <2>1. SUFFICES ASSUME NEW k \in Heights, k = NextHeight(Self),
                          buffered'[k] # NoResponse
                   PROVE  \E g \in Goroutine : Attends(task'[g], k)
      BY <1>1 DEF NoStrandedBlock, Attends
    <2>2. k # h /\ buffered[k] # NoResponse
      BY <1>2, <1>5, <2>1, PlanFacts DEF h
    <2>3. PICK g \in Goroutine : Attends(task[g], k)
      BY <2>1, <2>2 DEF SyncInv, NoStrandedBlock, Attends
    <2>. QED
      BY <2>3
  <1>. QED
    BY <1>1, <1>3, <1>6, <1>7, <1>8, <1>9 DEF SyncInv

(* handleBlockResponse: buffered only when it was the peer asked.          *)
LEMMA handleBlockResponseInv ==
    ASSUME SyncInv, NEW p \in Peer, handleBlockResponse(p)
    PROVE  SyncInv'
  <1>. DEFINE b == task[p].block
              h == HeightOf[b]
              t == [task[p] EXCEPT !.step = "submit"]
  <1>1. p \in Goroutine /\ IsTask(p, Idle) /\ IsTask(p, PlanAndSend)
    BY DEF IsTask, Goroutine
  <1>2. task[p].step = "check" /\ task[p].peer = p /\ b \in Block /\ h \in Heights
    <2>1. task[p].step = "check" /\ task[p].peer = p /\ b \in Block
      BY <1>1, IdleAttends DEF handleBlockResponse, SyncInv, TaskInv, IsTask
    <2>. QED
      BY <2>1, BlockFact DEF Heights
  <1>3. IsTask(p, t)
    BY <1>2 DEF IsTask
  <1>4. PICK next \in {Idle, PlanAndSend, t} : Continue(p, next)
    BY DEF handleBlockResponse
  <1>5. /\ TaskInv'
        /\ \A g \in Goroutine, k \in Heights :
              Attends(task[g], k) => \E j \in Goroutine : Attends(task'[j], k)
    BY <1>1, <1>2, <1>3, <1>4, OthersAttend DEF SyncInv
  <1>6. TableInv' /\ UNCHANGED hotVars
    BY DEF handleBlockResponse, SyncInv, TableInv
  <1>7. CASE UNCHANGED <<planner, buffered>>
    BY <1>5, <1>6, <1>7, QuietSection
  <1>8. CASE planner' = MarkDone(planner, h) /\ UNCHANGED buffered
    <2>1. /\ PlannerInv(planner') /\ NoneAdded(planner, planner')
          /\ planner'.received \subseteq planner.received
      BY <1>8, FailedInv DEF SyncInv, MarkDone
    <2>2. BufferInv'
      BY <1>8 DEF SyncInv, BufferInv
    <2>. QED
      BY <1>5, <1>6, <1>8, <2>1, <2>2, SectionInv
  <1>9. CASE /\ planner.inflight[h] = p /\ h > NextHeight(Self)
             /\ planner' = MarkReceived(planner, h)
             /\ buffered' = [buffered EXCEPT ![h] = [peer |-> p, block |-> b]]
    BY <1>2, <1>5, <1>6, <1>9, BufferBlockInv, Zenon
  <1>. QED
    BY <1>7, <1>8, <1>9 DEF handleBlockResponse

(* Submit moves the ingestor to the next height; the handler looks for it  *)
(* in the buffer next.  If it is refused, the handler still holds it.      *)
LEMMA SubmitBlockInv ==
    ASSUME SyncInv, NEW g \in Goroutine, SubmitBlock(g)
    PROVE  SyncInv'
  <1>. DEFINE b == task[g].block
              next == NextHeight(Self)
  <1>1. task[g].step = "submit" /\ task[g].peer \in Peer /\ b \in Block
    BY IdleAttends DEF SubmitBlock, SyncInv, TaskInv, IsTask
  <1>2. TableInv' /\ BufferInv' /\ PlannerInv(planner)' /\ planner' = planner
           /\ buffered' = buffered
    BY DEF SubmitBlock, SyncInv, TableInv, BufferInv
  <1>3. CASE /\ Submit(Self, b)
             /\ Continue(g, [task[g] EXCEPT !.step = "drain"])
    <2>. DEFINE t == [task[g] EXCEPT !.step = "drain"]
    <2>1. IsTask(g, t) /\ t.step = "drain"
      BY <1>1 DEF IsTask
    <2>2. TaskInv' /\ task'[g] = t
      BY <1>3, <2>1, ContinueInv DEF SyncInv
    <2>3. Self \in Node /\ HotInv'
      BY <1>1, <1>3, SubmitInv, BlocksyncAssumption DEF SyncInv
    <2>4. next \in Nat /\ next = HeightOf[b]
      BY <1>3, <2>3, NextHeightNat DEF SyncInv, Submit, Accepts
    <2>5. next' = next + 1
      <3>1. pending'[Self] = b
        BY <1>1, <1>3, <2>3, SubmitStore DEF SyncInv, HotInv
      <3>. QED
        BY <1>1, <2>4, <3>1, BlockFact DEF NextHeight
    <2>. HIDE DEF next
    <2>6. WindowBounded'
      BY <1>2, <2>4, <2>5, PlanFacts DEF SyncInv, WindowBounded, next
    <2>7. ReceivedIsHeld'
      <3>1. planner.received \subseteq Nat
        BY PlanFacts, Zenon DEF SyncInv, PlannerInv, IsPlanner
      <3>. QED
        BY <1>2, <2>4, <2>5, <3>1 DEF SyncInv, ReceivedIsHeld, next
    <2>8. NoStrandedBlock'
      BY <2>1, <2>2, Zenon DEF NoStrandedBlock
    <2>. QED
      BY <1>2, <2>2, <2>3, <2>6, <2>7, <2>8 DEF SyncInv
  <1>4. CASE /\ Continue(g, [task[g] EXCEPT !.step = "reject"])
             /\ UNCHANGED hotVars
    <2>. DEFINE t == [task[g] EXCEPT !.step = "reject"]
    <2>1. IsTask(g, t) /\ t.step = "reject" /\ t.block = b
      BY <1>1 DEF IsTask
    <2>2. /\ TaskInv' /\ task'[g] = t
          /\ \A k \in Goroutine : k # g => task'[k] = task[k]
      BY <1>4, <2>1, ContinueInv DEF SyncInv
    <2>3. ASSUME NEW k \in Goroutine, NEW h \in Heights, Attends(task[k], h)
          PROVE  Attends(task'[k], h)
      <3>1. CASE k = g
        BY <1>1, <2>1, <2>2, <2>3, <3>1, Zenon DEF Attends
      <3>2. CASE k # g
        BY <2>2, <2>3, <3>2
      <3>. QED
        BY <3>1, <3>2
    <2>. QED
      BY <1>2, <1>4, <2>2, <2>3, QuietSection
  <1>. QED
    BY <1>3, <1>4 DEF SubmitBlock

(* The handler that drains picks up the next height if it is buffered.     *)
LEMMA DrainBufferedInv ==
    ASSUME SyncInv, NEW g \in Goroutine, DrainBuffered(g)
    PROVE  SyncInv'
  <1>. DEFINE hs == {HeightOf[task[g].block]}
              next == NextHeight(Self)
              t == [step |-> "submit", peer |-> buffered[next].peer,
                    block |-> buffered[next].block]
  <1>1. TableInv' /\ UNCHANGED hotVars
    BY DEF DrainBuffered, SyncInv, TableInv
  <1>2. /\ PlannerInv(planner') /\ NoneAdded(planner, planner') /\ BufferInv'
        /\ \A h \in Heights : buffered'[h] # NoResponse => buffered'[h] = buffered[h]
        /\ \A h \in planner'.received :
              h \in planner.received /\ buffered'[h] = buffered[h]
    <2>1. planner' = MarkFailed(planner, hs) /\ buffered' = Unbuffer(hs)
      BY Zenon DEF DrainBuffered, MarkDone
    <2>2. PlannerInv(planner) /\ NoneAdded(planner, planner)
      BY DEF SyncInv, NoneAdded
    <2>. HIDE DEF hs
    <2>. QED
      BY <2>1, <2>2, FailedAndUnbuffered
  <1>3. CASE next \in Heights /\ buffered[next] # NoResponse /\ Continue(g, t)
    <2>1. IsTask(g, t) /\ Attends(t, next)
      BY <1>3 DEF IsTask, Attends, SyncInv, BufferInv
    <2>2. TaskInv' /\ task'[g] = t
      BY <1>3, <2>1, ContinueInv, Zenon DEF SyncInv
    <2>3. Attends(task'[g], next)
      BY <2>1, <2>2
    <2>. HIDE DEF next, t
    <2>. QED
      BY <1>1, <1>2, <2>2, <2>3, SectionInv, Zenon DEF next
  <1>4. CASE ~(next \in Heights /\ buffered[next] # NoResponse)
             /\ Continue(g, PlanAndSend)
    <2>1. TaskInv'
      BY <1>4, ContinueInv DEF IsTask, SyncInv
    <2>2. \A h \in Heights : ~(h = next /\ buffered'[h] # NoResponse)
      BY <1>2, <1>4, Zenon
    <2>. QED
      BY <1>1, <1>2, <2>1, <2>2, SectionInv, Zenon
  <1>. QED
    BY <1>3, <1>4 DEF DrainBuffered

(* The handler of a refused block drops its height along with its sender,  *)
(* so the height it no longer attends to is not buffered any more.         *)
LEMMA RejectBlockInv ==
    ASSUME SyncInv, NEW g \in Goroutine, RejectBlock(g)
    PROVE  SyncInv'
  <1>. DEFINE p == task[g].peer
              dropped == BufferedFrom(p) \cup {HeightOf[task[g].block]}
              mid == DropPeer(planner, p)
              t == IF p \in peers
                   THEN [step |-> "disconnect", peer |-> p, then |-> PlanAndSend]
                   ELSE PlanAndSend
  <1>1. task[g].step = "reject" /\ p \in Peer
    BY IdleAttends DEF RejectBlock, SyncInv, TaskInv, IsTask
  <1>2. TableInv' /\ UNCHANGED hotVars
    BY DEF RejectBlock, SyncInv, TableInv
  <1>3. planner' = MarkFailed(mid, dropped) /\ buffered' = Unbuffer(dropped)
    BY DEF RejectBlock
  <1>4. IsTask(g, t) /\ Continue(g, t)
    BY <1>1, Zenon DEF IsTask, RejectBlock
  <1>5. HeightOf[task[g].block] \in dropped
    OBVIOUS
  <1>6. /\ PlannerInv(mid) /\ NoneAdded(planner, mid)
        /\ mid.received = planner.received
    BY <1>1, DropInv, Zenon DEF SyncInv
  <1>. HIDE DEF p, dropped, mid, t
  <1>7. /\ PlannerInv(planner') /\ NoneAdded(planner, planner') /\ BufferInv'
        /\ \A h \in Heights : buffered'[h] # NoResponse =>
              buffered'[h] = buffered[h] /\ h \notin dropped
        /\ \A h \in planner'.received :
              h \in planner.received /\ buffered'[h] = buffered[h]
    BY <1>3, <1>6, FailedAndUnbuffered, Zenon
  <1>8. TaskInv' /\ \A k \in Goroutine : k # g => task'[k] = task[k]
    BY <1>4, ContinueInv, Zenon DEF SyncInv
  <1>9. ASSUME NEW k \in Goroutine, NEW h \in Heights,
               buffered'[h] # NoResponse, Attends(task[k], h)
        PROVE  Attends(task'[k], h)
    <2>1. k # g
      BY <1>1, <1>5, <1>7, <1>9 DEF Attends
    <2>. QED
      BY <1>8, <1>9, <2>1
  <1>. QED
    BY <1>2, <1>7, <1>8, <1>9, SectionInv, Zenon

----------------------------------------------------------------------------
(* Planning, sending and timeouts.                                         *)

(* planAndSend asks only for heights in the window.                        *)
LEMMA planAndSendInv ==
    ASSUME SyncInv, NEW g \in Goroutine, planAndSend(g)
    PROVE  SyncInv'
  <1>. DEFINE next == NextHeight(Self)
              plan == PlanAt(planner, next)
              new == {h \in Heights : planner.inflight[h] # plan.inflight[h]}
              t == [step |-> "send", copy |-> peers,
                    requests |-> {<<plan.inflight[h], h>> : h \in new}]
  <1>1. task[g].step = "plan" /\ planner' = plan
    BY Zenon DEF planAndSend
  <1>2. TableInv' /\ BufferInv' /\ UNCHANGED hotVars /\ buffered' = buffered
    BY DEF planAndSend, SyncInv, TableInv, BufferInv
  <1>3. next \in Nat /\ HotInv' /\ next' = next
    BY <1>2, NextHeightNat, HotFrame, BlocksyncAssumption DEF SyncInv
  <1>. HIDE DEF next
  <1>4. /\ PlannerInv(plan)
        /\ \A h \in Heights : \/ plan.inflight[h] = planner.inflight[h]
                              \/ plan.inflight[h] \in Peer /\ h < next + RequestLimit
        /\ plan.received \subseteq planner.received
    BY <1>3, PlanAtInv DEF SyncInv
  <1>5. PICK u \in {Idle, t} : Continue(g, u)
    BY Zenon DEF planAndSend, next
  <1>. HIDE DEF plan
  <1>6. IsTask(g, u)
    <2>1. t.requests \subseteq Peer \X Heights /\ t.copy \subseteq Peer
      BY <1>4 DEF SyncInv, TableInv
    <2>2. t.step = "send"
      BY Zenon
    <2>. HIDE DEF t
    <2>. QED
      BY <1>5, <2>1, <2>2 DEF IsTask
  <1>7. /\ TaskInv'
        /\ \A k \in Goroutine, h \in Heights :
              Attends(task[k], h) => \E j \in Goroutine : Attends(task'[j], h)
    BY <1>1, <1>5, <1>6, OthersAttend DEF SyncInv
  <1>8. WindowBounded'
    BY <1>1, <1>2, <1>3, <1>4 DEF SyncInv, WindowBounded, next
  <1>9. ReceivedIsHeld'
    BY <1>1, <1>2, <1>3, <1>4, Zenon DEF SyncInv, ReceivedIsHeld, next
  <1>10. NoStrandedBlock'
    <2>1. SUFFICES ASSUME NEW h \in Heights, h = NextHeight(Self),
                          buffered[h] # NoResponse
                   PROVE  \E k \in Goroutine : Attends(task'[k], h)
      BY <1>2, <1>3 DEF NoStrandedBlock, Attends, next
    <2>2. PICK k \in Goroutine : Attends(task[k], h)
      BY <2>1, Zenon DEF SyncInv, NoStrandedBlock, Attends
    <2>. QED
      BY <1>7, <2>2
  <1>. QED
    BY <1>1, <1>2, <1>3, <1>4, <1>7, <1>8, <1>9, <1>10, Zenon DEF SyncInv

(* One planned request is sent, or its height is given back.               *)
LEMMA SendRequestInv ==
    ASSUME SyncInv, NEW g \in Goroutine, SendRequest(g)
    PROVE  SyncInv'
  <1>1. /\ task[g].step = "send" /\ task[g].copy \subseteq Peer
        /\ task[g].requests \subseteq Peer \X Heights
    BY IdleAttends DEF SendRequest, SyncInv, TaskInv, IsTask
  <1>2. PICK r \in task[g].requests :
           /\ \/ asked' = asked \cup {r} /\ UNCHANGED <<planner, faults>>
              \/ /\ Fault("full") \/ UNCHANGED faults
                 /\ planner' = MarkFailed(planner, {r[2]})
                 /\ UNCHANGED asked
           /\ Continue(g, IF task[g].requests = {r} THEN Idle
                          ELSE [task[g] EXCEPT !.requests = @ \ {r}])
    BY Zenon DEF SendRequest
  <1>. DEFINE t == [task[g] EXCEPT !.requests = @ \ {r}]
  <1>3. IsTask(g, Idle) /\ IsTask(g, t)
    BY <1>1 DEF IsTask
  <1>4. PICK u \in {Idle, t} : Continue(g, u)
    BY <1>2
  <1>5. /\ TaskInv'
        /\ \A k \in Goroutine, h \in Heights :
              Attends(task[k], h) => \E j \in Goroutine : Attends(task'[j], h)
    BY <1>1, <1>3, <1>4, OthersAttend DEF SyncInv
  <1>6. TableInv'
    <2>1. faults' \in 0 .. MaxFaults
      BY <1>2, FaultInv DEF SyncInv, TableInv
    <2>. QED
      BY <1>1, <1>2, <2>1 DEF SendRequest, SyncInv, TableInv
  <1>7. /\ PlannerInv(planner') /\ NoneAdded(planner, planner')
        /\ planner'.received \subseteq planner.received
    <2>1. CASE planner' = planner
      BY <2>1 DEF SyncInv, NoneAdded
    <2>2. CASE planner' = MarkFailed(planner, {r[2]})
      BY <2>2, FailedInv DEF SyncInv
    <2>. QED
      BY <1>2, <2>1, <2>2
  <1>8. BufferInv' /\ UNCHANGED <<hotVars, buffered>>
    BY DEF SendRequest, SyncInv, BufferInv
  <1>. QED
    BY <1>5, <1>6, <1>7, <1>8, SectionInv

(* Time passes: requests in flight become overdue.                         *)
LEMMA ElapseInv ==
    ASSUME SyncInv, Elapse
    PROVE  SyncInv'
  <1>1. PICK late \in SUBSET Heights :
           /\ \A h \in late : planner.inflight[h] # NoPeer
           /\ planner' = [planner EXCEPT !.overdue = @ \cup late]
           /\ Fault("slow") \/ UNCHANGED faults
    BY PlanFacts, BlocksyncAssumption, Zenon DEF Elapse
  <1>2. /\ planner'.overdue = planner.overdue \cup late
        /\ planner'.peers = planner.peers /\ planner'.inflight = planner.inflight
        /\ planner'.received = planner.received
        /\ planner'.noBlocks = planner.noBlocks
        /\ planner'.timeouts = planner.timeouts
    BY <1>1
  <1>3. PlannerInv(planner') /\ NoneAdded(planner, planner')
    BY <1>1, <1>2 DEF SyncInv, PlannerInv, IsPlanner, Servable, OverdueInflight,
                      Sources, NoneAdded
  <1>4. TableInv'
    <2>1. faults' \in 0 .. MaxFaults
      BY <1>1, FaultInv DEF SyncInv, TableInv
    <2>. QED
      BY <2>1 DEF Elapse, SyncInv, TableInv
  <1>5. BufferInv' /\ TaskInv' /\ task' = task /\ UNCHANGED <<hotVars, buffered>>
    BY DEF Elapse, SyncInv, BufferInv, TaskInv
  <1>. QED
    BY <1>2, <1>3, <1>4, <1>5, SectionInv

(* The timer expires overdue requests and plans anew.                      *)
LEMMA expireRequestsAndPlanInv ==
    ASSUME SyncInv, expireRequestsAndPlan
    PROVE  SyncInv'
  <1>1. Timer \in Goroutine /\ IsTask(Timer, PlanAndSend)
    BY DEF Goroutine, IsTask
  <1>2. /\ TaskInv'
        /\ \A g \in Goroutine, h \in Heights :
              Attends(task[g], h) => \E j \in Goroutine : Attends(task'[j], h)
    BY <1>1, OthersAttend, IdleAttends DEF SyncInv, expireRequestsAndPlan
  <1>3. /\ PlannerInv(planner') /\ NoneAdded(planner, planner')
        /\ planner'.received = planner.received
    BY ExpireInv DEF SyncInv, expireRequestsAndPlan
  <1>4. TableInv' /\ BufferInv' /\ UNCHANGED <<hotVars, buffered>>
    BY DEF expireRequestsAndPlan, SyncInv, TableInv, BufferInv
  <1>. QED
    BY <1>2, <1>3, <1>4, SectionInv

----------------------------------------------------------------------------
(* The invariant, and what it says of the reactor.                         *)

(* A reactor over an empty store that is not connected to anybody.         *)
LEMMA SyncInitInv == SyncInit => SyncInv
  <1>. SUFFICES ASSUME SyncInit PROVE SyncInv
    OBVIOUS
  <1>1. HotInv
    <2>1. HotTypeOK
      BY BlockFact DEF SyncInit, HotTypeOK, MaybeBlock
    <2>2. ASSUME NEW n \in Node PROVE NodeInv(n)
      <3>1. /\ pending[n] = NoBlock /\ hotBase[n] = 0 /\ hotHeight[n] = 0
            /\ verifiedThrough[n] = 0 /\ \A h \in Heights : chain[n][h] = NoBlock
        BY DEF SyncInit
      <3>. QED
        BY <3>1 DEF NodeInv, StoreInv, PendingInv, LinkInv, HistoryInv,
                    CheckpointInv, InStore
    <2>. QED
      BY <2>1, <2>2 DEF HotInv
  <1>2. PlannerInv(planner) /\ planner.received = {}
           /\ \A h \in Heights : planner.inflight[h] = NoPeer
    BY Zenon DEF SyncInit, NewRequestPlanner, PlannerInv, IsPlanner, Servable,
           OverdueInflight, NoRange
  <1>3. TableInv /\ TaskInv
    BY PlanFacts DEF SyncInit, TableInv, TaskInv, IsTask
  <1>4. BufferInv /\ \A h \in Heights : buffered[h] = NoResponse
    BY DEF SyncInit, BufferInv
  <1>5. WindowBounded /\ NoStrandedBlock /\ ReceivedIsHeld
    BY <1>2, <1>4, Zenon DEF WindowBounded, NoStrandedBlock, ReceivedIsHeld
  <1>. QED
    BY <1>1, <1>2, <1>3, <1>4, <1>5 DEF SyncInv

(* Every locked section of every goroutine preserves the invariant.        *)
LEMMA SyncNextInv == SyncInv /\ [SyncNext]_syncVars => SyncInv'
  <1>. SUFFICES ASSUME SyncInv, [SyncNext]_syncVars PROVE SyncInv'
    OBVIOUS
  <1>1. CASE UNCHANGED syncVars
    <2>1. UNCHANGED <<hotVars, planner, buffered>> /\ task' = task
      BY <1>1 DEF syncVars, netVars
    <2>2. TableInv' /\ TaskInv'
      BY <1>1 DEF syncVars, netVars, SyncInv, TableInv, TaskInv
    <2>. QED
      BY <2>1, <2>2, QuietSection
  <1>2. ASSUME NEW p \in Peer, AddPeer(p) \/ ConnectionLost(p) PROVE SyncInv'
    BY <1>2, AddPeerInv, ConnectionLostInv
  <1>3. ASSUME NEW p \in Peer, ReceiveMessage(p) PROVE SyncInv'
    BY <1>3, ReceiveStatusInv, ReceiveBlockInv, ReceiveNoBlockInv,
       ReceiveInvalidInv DEF ReceiveMessage
  <1>4. ASSUME NEW p \in Peer, HandleMessage(p) PROVE SyncInv'
    BY <1>4, handleStatusInv, handleNoBlockInv, handleBlockResponseInv
       DEF HandleMessage
  <1>5. ASSUME NEW g \in Goroutine, Handle(g) PROVE SyncInv'
    BY <1>5, disconnectPeerInv, SubmitBlockInv, DrainBufferedInv, RejectBlockInv,
       planAndSendInv, SendRequestInv DEF Handle
  <1>6. CASE Elapse \/ expireRequestsAndPlan
    BY <1>6, ElapseInv, expireRequestsAndPlanInv
  <1>. QED
    BY <1>1, <1>2, <1>3, <1>4, <1>5, <1>6 DEF SyncNext

(* The inductive invariant holds in every reachable state of the reactor.  *)
THEOREM SyncInvariance == SyncSpec => []SyncInv
  BY SyncInitInv, SyncNextInv, PTL DEF SyncSpec

(* The reactor's variables keep their types.                               *)
THEOREM SyncTypeCorrect == SyncSpec => []SyncTypeOK
  <1>1. SyncInv => SyncTypeOK
    <2>. SUFFICES ASSUME SyncInv PROVE SyncTypeOK
      OBVIOUS
    <2>1. \A g \in Goroutine :
             task[g].step \in {"idle", "status", "noBlock", "check", "submit",
                               "drain", "reject", "disconnect", "plan", "send"}
      BY IdleAttends DEF SyncInv, TaskInv, IsTask
    <2>. QED
      BY <2>1 DEF SyncInv, SyncTypeOK, HotInv, PlannerInv, TableInv, BufferInv
  <1>. QED
    BY <1>1, SyncInvariance, PTL

(* Every request in flight is with a peer that can answer it, for any      *)
(* number of peers (UpsertPeer, RemovePeer, MarkNoBlock, PlanAt).          *)
THEOREM SyncInflightServable == SyncSpec => []InflightServable
  <1>1. SyncInv => InflightServable
    BY DEF SyncInv, PlannerInv, Servable, InflightServable
  <1>. QED
    BY <1>1, SyncInvariance, PTL

(* Requests and buffered blocks stay within RequestLimit of the next       *)
(* height, whatever the peers advertise (PlanAt, handleBlockResponse).     *)
THEOREM SyncWindowBounded == SyncSpec => []WindowBounded
  <1>1. SyncInv => WindowBounded
    BY DEF SyncInv
  <1>. QED
    BY <1>1, SyncInvariance, PTL

(* A buffered block the ingestor waits for is always in some handler's     *)
(* hands, however the handlers interleave (submitAndDrainBuffered against  *)
(* handleBlockResponse).                                                   *)
THEOREM SyncNoStrandedBlock == SyncSpec => []NoStrandedBlock
  <1>1. SyncInv => NoStrandedBlock
    BY DEF SyncInv
  <1>. QED
    BY <1>1, SyncInvariance, PTL

(* A height marked received is buffered or already ingested, so planning   *)
(* never skips a height nobody has (MarkReceived, MarkFailed).             *)
THEOREM SyncReceivedIsHeld == SyncSpec => []ReceivedIsHeld
  <1>1. SyncInv => ReceivedIsHeld
    BY DEF SyncInv
  <1>. QED
    BY <1>1, SyncInvariance, PTL

(* What the ingestor promises holds under concurrent handlers too: the     *)
(* blocks they feed it form one linked run, and in checkpoint mode what    *)
(* may be archived is in the history of a checkpoint (Submit).             *)
THEOREM SyncStoreLinked == SyncSpec => [](StoreLinked /\ AuthenticatedPrefix)
  <1>1. SyncInv => StoreLinked /\ AuthenticatedPrefix
    BY HotInvStoreLinked, HotInvAuthenticated DEF SyncInv
  <1>. QED
    BY <1>1, SyncInvariance, PTL

============================================================================
