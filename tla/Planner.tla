------------------------------ MODULE Planner ------------------------------
(***************************************************************************)
(* RequestPlanner: which block is asked of which peer.                     *)
(* (internal/blocksyncarchive/planner.go)                                  *)
(*                                                                         *)
(* The planner is a plain value the reactor guards with its own mutex, so  *)
(* it is a record here and each method an operator from the old record to  *)
(* the new one.  A peer is a positive integer; the order of the integers   *)
(* stands for the order of the peer IDs.  A request's RequestedAt is kept  *)
(* as far as it matters: overdue holds the heights requested longer ago    *)
(* than the request timeout.                                               *)
(***************************************************************************)
EXTENDS Chain

CONSTANTS
    Peer,           \* peer IDs
    RequestLimit    \* opts.RequestLimit

ASSUME PlannerAssumption ==
    /\ Peer \subseteq Nat \ {0}
    /\ RequestLimit \in Nat \ {0}

NoPeer == 0

NoRange == [base |-> 0, height |-> 0]

ValidRange(r) == r.base > 0 /\ r.height > 0 /\ r.base <= r.height

Contains(r, h) == r.base <= h /\ h <= r.height

NewRequestPlanner ==
    [peers    |-> [p \in Peer |-> NoRange],
     inflight |-> [h \in Heights |-> NoPeer],
     overdue  |-> {},
     received |-> {},
     noBlocks |-> {},
     timeouts |-> {}]

----------------------------------------------------------------------------
Without(markers, id) == {m \in markers : m[1] # id}

(* The inflight map with the heights in hs deleted.                        *)
Forget(pl, hs) ==
    [pl EXCEPT !.inflight = [h \in Heights |-> IF h \in hs THEN NoPeer ELSE @[h]],
               !.overdue = @ \ hs]

(* Mutant: requests outside the new range stay in flight.                  *)
UpsertKeepsRequests(pl, id, advertised) ==
    [pl EXCEPT !.peers[id] = advertised]

UpsertPeer(pl, id, advertised) ==
    LET kept == Forget(pl, {h \in Heights : /\ pl.inflight[h] = id
                                            /\ ~Contains(advertised, h)})
    IN  IF pl.peers[id] \in {NoRange, advertised}
        THEN [kept EXCEPT !.peers[id] = advertised]
        ELSE [kept EXCEPT !.peers[id] = advertised,
                          !.noBlocks = Without(@, id),
                          !.timeouts = Without(@, id)]

DropPeer(pl, id) ==
    [Forget(pl, {h \in Heights : pl.inflight[h] = id})
        EXCEPT !.peers[id] = NoRange,
               !.noBlocks = Without(@, id),
               !.timeouts = Without(@, id)]

(* MarkFailed of every height in hs.                                       *)
MarkFailed(pl, hs) == [Forget(pl, hs) EXCEPT !.received = @ \ hs]

MarkDone(pl, h) == MarkFailed(pl, {h})

MarkReceived(pl, h) == [Forget(pl, {h}) EXCEPT !.received = @ \cup {h}]

MarkNoBlock(pl, id, h) ==
    IF pl.inflight[h] # id THEN pl
    ELSE [Forget(pl, {h}) EXCEPT !.noBlocks = @ \cup {<<id, h>>}]

(* Mutant: the request is deleted before its peer is read.                 *)
ExpireAfterDelete(pl) ==
    LET kept == Forget(pl, pl.overdue)
    IN  [kept EXCEPT !.timeouts =
            @ \cup {<<kept.inflight[h], h>> : h \in pl.overdue}]

(* Mutant: who timed out is not remembered.                                *)
ExpireUnmarked(pl) == Forget(pl, pl.overdue)

ExpireInflight(pl) ==
    [Forget(pl, pl.overdue)
        EXCEPT !.timeouts = @ \cup {<<pl.inflight[h], h>> : h \in pl.overdue}]

----------------------------------------------------------------------------
(* PlanAt.                                                                 *)

pruneMarkersBelow(pl, next) ==
    [pl EXCEPT !.received = {h \in @ : h >= next},
               !.noBlocks = {m \in @ : m[2] >= next},
               !.timeouts = {m \in @ : m[2] >= next}]

Sources(pl, h) ==
    {p \in Peer : Contains(pl.peers[p], h) /\ <<p, h>> \notin pl.noBlocks}

(* The first source in ID order that has not timed out for the height; if  *)
(* all have, the first source.                                             *)
PreferredSources(pl, h) ==
    LET fresh == {p \in Sources(pl, h) : <<p, h>> \notin pl.timeouts}
    IN  IF fresh # {} THEN fresh ELSE Sources(pl, h)

peerForHeight(pl, h) ==
    CHOOSE p \in PreferredSources(pl, h) :
        \A q \in PreferredSources(pl, h) : p <= q

(* Mutant: off by one at the end of the window.                            *)
WantedOneMore(pl, next) ==
    {h \in Heights : /\ next <= h /\ h <= next + RequestLimit
                     /\ \E p \in Peer : h <= pl.peers[p].height
                     /\ pl.inflight[h] = NoPeer /\ h \notin pl.received}

(* Heights the loop looks at: in the window, neither requested nor         *)
(* received.  It stops at the first one nobody can supply.                 *)
Wanted(pl, next) ==
    {h \in Heights : /\ next <= h /\ h < next + RequestLimit
                     /\ \E p \in Peer : h <= pl.peers[p].height
                     /\ pl.inflight[h] = NoPeer /\ h \notin pl.received}

Planned(pl, next) ==
    {h \in Wanted(pl, next) :
        \A g \in Wanted(pl, next) : g <= h => Sources(pl, g) # {}}

PlanAt(pl, next) ==
    LET pruned == pruneMarkersBelow(pl, next)
        planned == Planned(pruned, next)
    IN  [pruned EXCEPT !.inflight =
            [h \in Heights |-> IF h \in planned THEN peerForHeight(pruned, h)
                               ELSE @[h]]]

IsPlanner(pl) ==
    /\ pl.peers \in [Peer -> [base : Nat, height : Nat]]
    /\ pl.inflight \in [Heights -> Peer \cup {NoPeer}]
    /\ pl.overdue \subseteq Heights
    /\ pl.received \subseteq Heights
    /\ pl.noBlocks \subseteq Peer \X Heights
    /\ pl.timeouts \subseteq Peer \X Heights

============================================================================
