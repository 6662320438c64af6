----------------------------- MODULE Blocksync -----------------------------
(***************************************************************************)
(* The syncing side of the blocksync reactor: one archive peer fetches     *)
(* blocks from its peers and feeds them to its hot ingestor.               *)
(* (internal/blocksyncarchive/reactor.go over planner.go and ingest.go)    *)
(*                                                                         *)
(* CometBFT calls Receive on one goroutine per connected peer, and the     *)
(* request-timeout loop is another goroutine (Timer).  A handler takes     *)
(* Reactor.mu several times and calls the ingestor, which has its own      *)
(* lock, in between.  Each locked section is one action here, so handlers  *)
(* of different peers interleave wherever the code lets go of the lock.    *)
(***************************************************************************)
EXTENDS HotIngest, Planner

CONSTANTS
    Self,           \* the node whose reactor this is
    Advertised,     \* Peer -> the range it advertises
    OddRanges,      \* ranges a faulty peer may advertise for a while ("shift")
    Faulty,         \* peers that may not answer in time ("silent"), or do
    Misbehaviour,   \*   worse: "bad", "garbled", "junk", "noBlock", "drop",
                    \*   "shift"; "slow" is any other peer being late, and
                    \*   "full" a send queue without room
    MaxFaults,      \* bound: how often, except "silent"
    LateStatus      \* is a StatusResponse that waits for Reactor.mu still
                    \* handled after its peer was removed?

ASSUME BlocksyncAssumption ==
    /\ Self \in Node
    /\ Advertised \in [Peer -> [base : Heights, height : Heights]]
    /\ OddRanges \subseteq [base : Heights \cup {0}, height : Heights \cup {0}]
    /\ Faulty \subseteq Peer
    /\ MaxFaults \in Nat
    /\ LateStatus \in BOOLEAN

VARIABLES
    planner,    \* Reactor.planner
    peers,      \* keys of Reactor.peers
    buffered,   \* Reactor.bufferedResponses
    task,       \* what each goroutine is doing
    linked,     \* external: peers the Switch is connected to
    asked,      \* external: block requests sent and not answered yet
    faults      \* misbehaviours so far

netVars == <<planner, peers, buffered, task, linked, asked, faults>>
syncVars == <<hotVars, netVars>>

Timer == 0
Goroutine == Peer \cup {Timer}

NoResponse == [peer |-> NoPeer, block |-> NoBlock]
Idle == [step |-> "idle"]
PlanAndSend == [step |-> "plan"]

Continue(g, t) == task' = [task EXCEPT ![g] = t]

Fault(kind) ==
    /\ kind \in Misbehaviour
    /\ faults < MaxFaults
    /\ faults' = faults + 1

Misbehaves(p, how) == p \in Faulty /\ Fault(how)

BufferedFrom(p) == {h \in Heights : buffered[h].peer = p}

Unbuffer(hs) ==
    [h \in Heights |-> IF h \in hs THEN NoResponse ELSE buffered[h]]

----------------------------------------------------------------------------
(* Connections.                                                            *)

(* A peer that reconnects gets a new Receive goroutine; the model waits    *)
(* for the handler of its former connection to return.                     *)
AddPeer(p) ==
    /\ p \notin linked /\ task[p] = Idle
    /\ linked' = linked \cup {p}
    /\ peers' = peers \cup {p}
    /\ UNCHANGED <<hotVars, planner, buffered, task, asked, faults>>

(* Reactor.RemovePeer; the Switch has closed the connection, so nothing    *)
(* more is received on it and what was asked over it is lost.              *)
RemovePeer(p) ==
    /\ peers' = peers \ {p}
    /\ planner' = MarkFailed(DropPeer(planner, p), BufferedFrom(p))
    /\ buffered' = Unbuffer(BufferedFrom(p))
    /\ linked' = linked \ {p}
    /\ asked' = Without(asked, p)

(* A handler of the closed connection that already waits for Reactor.mu    *)
(* runs nevertheless; ~LateStatus assumes that CometBFT prevents it.       *)
AfterClose(p, tasks) ==
    IF LateStatus \/ tasks[p].step # "status" THEN tasks
    ELSE [tasks EXCEPT ![p] = Idle]

ConnectionLost(p) ==
    /\ p \in linked
    /\ Misbehaves(p, "drop")
    /\ RemovePeer(p)
    /\ task' = AfterClose(p, task)
    /\ UNCHANGED hotVars

(* disconnectPeer, with what the handler does next.                        *)
disconnectPeer(g) ==
    /\ task[g].step = "disconnect"
    /\ RemovePeer(task[g].peer)
    /\ task' = AfterClose(task[g].peer, [task EXCEPT ![g] = @.then])
    /\ UNCHANGED <<hotVars, faults>>

----------------------------------------------------------------------------
(* Receive: a message of peer p reaches its handler.  A peer answers what  *)
(* it was asked, possibly long after the request expired here.             *)
Receive(p, t) ==
    /\ p \in linked /\ task[p] = Idle
    /\ Continue(p, t)

ReceiveStatus(p) ==
    /\ \E r \in OddRanges \cup {Advertised[p]} :
          /\ IF r = Advertised[p] THEN UNCHANGED faults
             ELSE Misbehaves(p, "shift")
          /\ Receive(p, [step |-> "status", range |-> r])
    /\ UNCHANGED <<hotVars, planner, peers, buffered, linked, asked>>

ReceiveBlock(p) ==
    /\ \E b \in Block :
          /\ <<p, HeightOf[b]>> \in asked
          /\ IF b \in Malformed THEN Misbehaves(p, "bad") ELSE UNCHANGED faults
          /\ Receive(p, [step |-> "check", peer |-> p, block |-> b])
          /\ asked' = asked \ {<<p, HeightOf[b]>>}
    /\ UNCHANGED <<hotVars, planner, peers, buffered, linked>>

ReceiveNoBlock(p) ==
    /\ Misbehaves(p, "noBlock")
    /\ \E h \in Heights :
          /\ <<p, h>> \in asked
          /\ Receive(p, [step |-> "noBlock", height |-> h])
          /\ asked' = asked \ {<<p, h>>}
    /\ UNCHANGED <<hotVars, planner, peers, buffered, linked>>

(* ValidateMsg refuses the message, or BlockFromProto the block; only the  *)
(* second handler goes on to planAndSend.                                  *)
ReceiveInvalid(p) ==
    /\ \/ /\ Misbehaves(p, "junk")
          /\ Receive(p, [step |-> "disconnect", peer |-> p, then |-> Idle])
          /\ UNCHANGED <<planner, buffered>>
       \/ /\ Misbehaves(p, "garbled")
          /\ Receive(p, [step |-> "disconnect", peer |-> p,
                         then |-> PlanAndSend])
          /\ planner' = MarkFailed(DropPeer(planner, p), BufferedFrom(p))
          /\ buffered' = Unbuffer(BufferedFrom(p))
    /\ UNCHANGED <<hotVars, peers, linked, asked>>

----------------------------------------------------------------------------
(* Mutant: responses outside the new range are dropped, their markers not. *)
DropsSilently(p) ==
    LET r == task[p].range
        outside == {h \in BufferedFrom(p) : ~Contains(r, h)}
    IN
    /\ task[p].step = "status"
    /\ IF ValidRange(r)
       THEN /\ planner' = UpsertPeer(planner, p, r)
            /\ buffered' = Unbuffer(outside)
            /\ Continue(p, PlanAndSend)
       ELSE Continue(p, Idle) /\ UNCHANGED <<planner, buffered>>
    /\ UNCHANGED <<hotVars, peers, linked, asked, faults>>

(* handleStatus does not look whether the peer is still in Reactor.peers.  *)
handleStatus(p) ==
    LET r == task[p].range
        outside == {h \in BufferedFrom(p) : ~Contains(r, h)}
    IN
    /\ task[p].step = "status"
    /\ IF ValidRange(r)
       THEN /\ planner' = MarkFailed(UpsertPeer(planner, p, r), outside)
            /\ buffered' = Unbuffer(outside)
            /\ Continue(p, PlanAndSend)
       ELSE Continue(p, Idle) /\ UNCHANGED <<planner, buffered>>
    /\ UNCHANGED <<hotVars, peers, linked, asked, faults>>

handleNoBlock(p) ==
    /\ task[p].step = "noBlock"
    /\ planner' = MarkNoBlock(planner, p, task[p].height)
    /\ Continue(p, PlanAndSend)
    /\ UNCHANGED <<hotVars, peers, buffered, linked, asked, faults>>

(* handleBlockResponse up to submitAndDrainBuffered.                       *)
handleBlockResponse(p) ==
    LET b == task[p].block
        h == HeightOf[b]
    IN
    /\ task[p].step = "check"
    /\ IF planner.inflight[h] # p
       THEN Continue(p, Idle) /\ UNCHANGED <<planner, buffered>>
       ELSE \/ /\ h < NextHeight(Self)
               /\ planner' = MarkDone(planner, h)
               /\ Continue(p, Idle)
               /\ UNCHANGED buffered
            \/ /\ h > NextHeight(Self)
               /\ planner' = MarkReceived(planner, h)
               /\ buffered' = [buffered EXCEPT ![h] = [peer |-> p, block |-> b]]
               /\ Continue(p, PlanAndSend)
            \/ /\ h = NextHeight(Self)
               /\ Continue(p, [task[p] EXCEPT !.step = "submit"])
               /\ UNCHANGED <<planner, buffered>>
    /\ UNCHANGED <<hotVars, peers, linked, asked, faults>>

(* submitAndDrainBuffered: Submit runs outside Reactor.mu.                 *)
SubmitBlock(g) ==
    /\ task[g].step = "submit"
    /\ IF Accepts(Self, task[g].block)
       THEN /\ Submit(Self, task[g].block)
            /\ Continue(g, [task[g] EXCEPT !.step = "drain"])
       ELSE /\ Continue(g, [task[g] EXCEPT !.step = "reject"])
            /\ UNCHANGED hotVars
    /\ UNCHANGED <<planner, peers, buffered, linked, asked, faults>>

(* Mutant: nobody looks for the next buffered block.                       *)
DrainNothing(g) ==
    /\ task[g].step = "drain"
    /\ planner' = MarkDone(planner, HeightOf[task[g].block])
    /\ buffered' = Unbuffer({HeightOf[task[g].block]})
    /\ Continue(g, PlanAndSend)
    /\ UNCHANGED <<hotVars, peers, linked, asked, faults>>

(* After a success: look for the next buffered block, which stays in the   *)
(* map until it is submitted.                                              *)
DrainBuffered(g) ==
    LET h == HeightOf[task[g].block]
        next == NextHeight(Self)
    IN
    /\ task[g].step = "drain"
    /\ planner' = MarkDone(planner, h)
    /\ buffered' = Unbuffer({h})
    /\ IF next \in Heights /\ buffered[next] # NoResponse
       THEN Continue(g, [step |-> "submit", peer |-> buffered[next].peer,
                         block |-> buffered[next].block])
       ELSE Continue(g, PlanAndSend)
    /\ UNCHANGED <<hotVars, peers, linked, asked, faults>>

(* After an error: the sender is blamed, whatever the error was.           *)
RejectBlock(g) ==
    LET p == task[g].peer
        dropped == BufferedFrom(p) \cup {HeightOf[task[g].block]}
    IN
    /\ task[g].step = "reject"
    /\ planner' = MarkFailed(DropPeer(planner, p), dropped)
    /\ buffered' = Unbuffer(dropped)
    /\ peers' = peers \ {p}
    /\ Continue(g, IF p \in peers
                   THEN [step |-> "disconnect", peer |-> p, then |-> PlanAndSend]
                   ELSE PlanAndSend)
    /\ UNCHANGED <<hotVars, linked, asked, faults>>

----------------------------------------------------------------------------
(* planAndSend: plan under the lock, with a copy of the peer table...      *)
planAndSend(g) ==
    LET plan == PlanAt(planner, NextHeight(Self))
        new == {h \in Heights : planner.inflight[h] # plan.inflight[h]}
    IN
    /\ task[g].step = "plan"
    /\ planner' = plan
    /\ IF new = {} THEN Continue(g, Idle)
       ELSE Continue(g, [step |-> "send", copy |-> peers,
                         requests |-> {<<plan.inflight[h], h>> : h \in new}])
    /\ UNCHANGED <<hotVars, peers, buffered, linked, asked, faults>>

(* ... and send without it, lowest height first.  A request whose peer was *)
(* not in the copy or has been stopped since, or that finds the send queue *)
(* full, is marked failed.                                                 *)
SendRequest(g) ==
    /\ task[g].step = "send"
    /\ \E r \in task[g].requests :
          /\ \A q \in task[g].requests : r[2] <= q[2]
          /\ \/ /\ r[1] \in task[g].copy \cap linked
                /\ asked' = asked \cup {r}
                /\ UNCHANGED <<planner, faults>>
             \/ /\ IF r[1] \in task[g].copy \cap linked THEN Fault("full")
                   ELSE UNCHANGED faults
                /\ planner' = MarkFailed(planner, {r[2]})
                /\ UNCHANGED asked
          /\ Continue(g, IF task[g].requests = {r} THEN Idle
                         ELSE [task[g] EXCEPT !.requests = @ \ {r}])
    /\ UNCHANGED <<hotVars, peers, buffered, linked>>

(* The request timeout passes for everything asked of faulty peers, or for *)
(* everything in flight.                                                   *)
Elapse ==
    /\ \E late \in SUBSET Heights :
          /\ \/ /\ late = {h \in Heights : planner.inflight[h] \in Faulty}
                /\ "silent" \in Misbehaviour
                /\ UNCHANGED faults
             \/ /\ late = {h \in Heights : planner.inflight[h] # NoPeer}
                /\ Fault("slow")
          /\ ~(late \subseteq planner.overdue)
          /\ planner' = [planner EXCEPT !.overdue = @ \cup late]
    /\ UNCHANGED <<hotVars, peers, buffered, task, linked, asked>>

expireRequestsAndPlan ==
    /\ task[Timer] = Idle
    /\ planner.overdue # {}
    /\ planner' = ExpireInflight(planner)
    /\ Continue(Timer, PlanAndSend)
    /\ UNCHANGED <<hotVars, peers, buffered, linked, asked, faults>>

----------------------------------------------------------------------------
(* A peer just started over an empty store, not connected to anybody yet.  *)
SyncInit ==
    /\ up = [n \in Node |-> TRUE]
    /\ validation \in [Node -> Modes]
    /\ startHeight = [n \in Node |-> 1]
    /\ pending = [n \in Node |-> NoBlock]
    /\ chain = [n \in Node |-> [h \in Heights |-> NoBlock]]
    /\ hotBase = [n \in Node |-> 0]
    /\ hotHeight = [n \in Node |-> 0]
    /\ verifiedThrough = [n \in Node |-> 0]
    /\ planner = NewRequestPlanner
    /\ peers = {}
    /\ buffered = [h \in Heights |-> NoResponse]
    /\ task = [g \in Goroutine |-> Idle]
    /\ linked = {}
    /\ asked = {}
    /\ faults = 0

Handle(g) ==
    \/ disconnectPeer(g) \/ SubmitBlock(g) \/ DrainBuffered(g)
    \/ RejectBlock(g) \/ planAndSend(g) \/ SendRequest(g)

HandleMessage(p) == handleStatus(p) \/ handleNoBlock(p) \/ handleBlockResponse(p)

ReceiveMessage(p) ==
    \/ ReceiveStatus(p) \/ ReceiveBlock(p) \/ ReceiveNoBlock(p)
    \/ ReceiveInvalid(p)

SyncNext ==
    \/ \E p \in Peer : \/ AddPeer(p) \/ ConnectionLost(p)
                       \/ ReceiveMessage(p) \/ HandleMessage(p)
    \/ \E g \in Goroutine : Handle(g)
    \/ Elapse \/ expireRequestsAndPlan

SyncSpec == SyncInit /\ [][SyncNext]_syncVars

----------------------------------------------------------------------------
SyncTypeOK ==
    /\ HotTypeOK
    /\ IsPlanner(planner)
    /\ peers \subseteq Peer /\ linked \subseteq Peer
    /\ \A h \in Heights :
          \/ buffered[h] = NoResponse
          \/ buffered[h].peer \in Peer /\ HeightOf[buffered[h].block] = h
    /\ \A g \in Goroutine :
          task[g].step \in {"idle", "status", "noBlock", "check", "submit",
                            "drain", "reject", "disconnect", "plan", "send"}
    /\ asked \subseteq Peer \X Heights
    /\ faults \in 0 .. MaxFaults

(* No request is in flight to a peer that cannot answer it: its peer still *)
(* advertises the height and has not answered NoBlockResponse for it,      *)
(* whatever statuses, removals and late handlers came between (UpsertPeer, *)
(* RemovePeer, MarkNoBlock, PlanAt).                                       *)
InflightServable ==
    \A h \in Heights : planner.inflight[h] # NoPeer =>
        planner.inflight[h] \in Sources(planner, h)

(* What peers are asked for and what is buffered stays within RequestLimit *)
(* of the next height, so memory does not grow with what they advertise    *)
(* (PlanAt, handleBlockResponse).                                          *)
WindowBounded ==
    \A h \in Heights :
        planner.inflight[h] # NoPeer \/ buffered[h] # NoResponse
            => h < NextHeight(Self) + RequestLimit

(* No buffered block is stranded: when the next height is in the buffer    *)
(* some handler is about to look there or to submit that very block        *)
(* (submitAndDrainBuffered against handleBlockResponse).                   *)
NoStrandedBlock ==
    \A h \in Heights : h = NextHeight(Self) /\ buffered[h] # NoResponse =>
        \E g \in Goroutine :
            \/ task[g].step = "drain"
            \/ /\ task[g].step \in {"submit", "reject"}
               /\ HeightOf[task[g].block] = h

(* No marker outlives its use: a height marked received has its block in   *)
(* the buffer or was ingested, so planning never skips a height nobody has *)
(* (MarkReceived against the drop functions).                              *)
ReceivedIsHeld ==
    \A h \in planner.received :
        buffered[h] # NoResponse \/ h < NextHeight(Self)

----------------------------------------------------------------------------
(* Every goroutine goes on, the timer ticks, a lost connection is dialled  *)
(* again (persistent peers), and a peer that is not faulty answers every   *)
(* request and the status requests that statusRequestLoop sends for ever.  *)
FairSyncSpec ==
    /\ SyncSpec
    /\ \A g \in Goroutine : WF_syncVars(Handle(g))
    /\ \A p \in Peer : WF_syncVars(HandleMessage(p))
    /\ \A p \in Peer \ Faulty :
          /\ WF_syncVars(AddPeer(p))
          /\ SF_syncVars(ReceiveStatus(p))
          /\ SF_syncVars(ReceiveBlock(p))
    /\ WF_syncVars(Elapse) /\ WF_syncVars(expireRequestsAndPlan)

(* One provider that answers in time is enough: next_height reaches the    *)
(* height it advertises although other peers stay silent, disconnect, send *)
(* messages or blocks that are refused on arrival, deny blocks, change     *)
(* their range, or a send queue is full (planAndSend,                      *)
(* expireRequestsAndPlan, submitAndDrainBuffered).  Two things do stop the *)
(* code, and the property leaves them out: a well-formed block that no     *)
(* later block commits to stays pending, and once every provider of a      *)
(* height was late, the first by name is asked each time.                  *)
EventuallySynced == <>(NextHeight(Self) > MaxHeight)

(* A timeout is a soft failure: a peer whose request timed out is not      *)
(* removed and disconnected for a valid answer to it                       *)
(* (handleBlockResponse, submitAndDrainBuffered, ExpireInflight).          *)
TimeoutIsSoft ==
    \A g \in Goroutine : task[g].step = "reject" =>
        \/ task[g].block \in Malformed
        \/ <<task[g].peer, HeightOf[task[g].block]>> \notin planner.timeouts

============================================================================
