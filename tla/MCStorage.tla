----------------------------- MODULE MCStorage -----------------------------
(* The object stores and the segment pools.  They share no state: a        *)
(* behaviour has callers of a store or one command with its pool.          *)
EXTENDS ObjectStore, SegmentPool

VARIABLE side       \* "store" or "pool"

(* A manifest is written over every other one, a segment is created.       *)
MCCalls ==
    {r \in [key : CasKey, expect : Data \cup {Absent}, data : Data] :
        r.expect # r.data}
    \cup [key : OnceKey, expect : {Absent}, data : {CHOOSE d \in Data : TRUE}]

(* Blocks 1 to 6 are archived; blocks differ in size.                      *)
MCBlockBytes == <<2, 1, 3, 1, 2, 1, 2, 3>>

(* All blocks, a range that cuts segments and one inside a segment; no     *)
(* limit, one below the size of a block, one just reached; caches that are *)
(* empty, hold older or newer blocks, or more than the limit.              *)
MCHydrations ==
    {[from |-> 1, to |-> 6, limit |-> 0, cache |-> {2, 8}],
     [from |-> 1, to |-> 6, limit |-> 2, cache |-> {}],
     [from |-> 2, to |-> 5, limit |-> 7, cache |-> {1, 3, 7}],
     [from |-> 3, to |-> 4, limit |-> 4, cache |-> {5, 8}],
     [from |-> 3, to |-> 3, limit |-> 3, cache |-> {1, 2}]}

MCInit ==
    /\ StoreInit /\ PoolInit
    /\ \/ side = "store" /\ command = "verify" /\ intact = {}
       \/ side = "pool" /\ backend = "file"

MCNext ==
    /\ \/ side = "store" /\ StoreNext /\ UNCHANGED poolVars
       \/ side = "pool" /\ PoolNext /\ UNCHANGED storeVars
    /\ UNCHANGED side

MCSpec == MCInit /\ [][MCNext]_<<storeVars, poolVars, side>> /\ PoolFairness

============================================================================
