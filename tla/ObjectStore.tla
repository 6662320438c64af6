---------------------------- MODULE ObjectStore ----------------------------
(***************************************************************************)
(* The two stores behind the archive's conditional writes: a directory of  *)
(* files, shared by processes of one machine, and an S3 bucket.            *)
(* (internal/archive/objectstore.go, local_cas.go, s3_objectstore.go)      *)
(*                                                                         *)
(* Manifests and migration states are replaced with CompareAndSwap, and    *)
(* segments created with PutIfAbsent; no key is used with both.  A         *)
(* revision is the hash of the content, so a call is modelled with the     *)
(* content it expects.  Each system call of the file store is one step: a  *)
(* process may die, and the power may fail, between any two.               *)
(*                                                                         *)
(* The directories of the keys are made along with one above them, which   *)
(* is "absent", "made" (its entry in the parent not synced) or "durable".  *)
(***************************************************************************)
EXTENDS Naturals, FiniteSets

CONSTANTS
    CasKey,         \* manifests, migration states
    OnceKey,        \* segments
    Caller,
    Data,
    Absent,         \* no object under the key
    Torn,           \* a file whose content did not reach the disk whole
    NoOne,          \* the lock is free
    Calls,          \* the calls that are made
    MaxLate         \* bound: requests that outlive their caller

ASSUME StoreAssumption ==
    /\ CasKey \cap OnceKey = {}
    /\ Absent \notin CasKey \cup OnceKey
    /\ Absent \notin Data /\ Torn \notin Data \cup {Absent}
    /\ NoOne \notin Caller
    /\ Calls \subseteq [key : CasKey, expect : Data \cup {Absent}, data : Data]
                    \cup [key : OnceKey, expect : {Absent}, data : Data]
    /\ MaxLate \in Nat

VARIABLES
    backend,        \* "file" or "s3"
    visible,        \* what Get returns
    disk,           \* what a power loss may leave under the key
    dir,            \* state of the directory
    lock,           \* holder of the key's flock
    pc,             \* where each caller is
    call,           \* its arguments
    applied,        \* its write has become visible
    synced,         \* its temporary file is on the disk
    attempt,        \* S3: attempts answered with 409
    answer,
    late            \* S3: requests under way whose caller no longer waits

storeVars == <<backend, visible, disk, dir, lock, pc, call, applied, synced,
               attempt, answer, late>>

Key == CasKey \cup OnceKey
NoCall == [key |-> Absent, expect |-> Absent, data |-> Absent]

At(c, label) == pc[c] = label
Goto(c, label) == pc' = [pc EXCEPT ![c] = label]

(* The deferred calls of every function: the lock file is closed, the      *)
(* temporary file removed.                                                 *)
Unlock(c) == lock' = [k \in CasKey |-> IF lock[k] = c THEN NoOne ELSE lock[k]]

Answer(c, a) ==
    /\ Goto(c, "done")
    /\ answer' = [answer EXCEPT ![c] = a]
    /\ Unlock(c)

----------------------------------------------------------------------------
Request(c, r) ==
    /\ At(c, "idle")
    /\ call' = [call EXCEPT ![c] = r]
    /\ Goto(c, IF backend = "s3" THEN "send"
               ELSE IF r.key \in CasKey THEN "lock" ELSE "stat")
    /\ UNCHANGED <<backend, visible, disk, dir, lock, applied, synced, attempt,
                   answer, late>>

(* Mutant: the conditional write does not take the lock.                   *)
NoLock(c) ==
    /\ At(c, "lock")
    /\ Goto(c, "compare")
    /\ UNCHANGED <<backend, visible, disk, dir, lock, call, applied, synced,
                   attempt, answer, late>>

(* CompareAndSwap of the file store: Flock, then GetVersioned.             *)
Flock(c) ==
    /\ At(c, "lock") /\ lock[call[c].key] = NoOne
    /\ lock' = [lock EXCEPT ![call[c].key] = c]
    /\ Goto(c, "compare")
    /\ UNCHANGED <<backend, visible, disk, dir, call, applied, synced, attempt,
                   answer, late>>

Compare(c) ==
    /\ At(c, "compare")
    /\ IF visible[call[c].key] = call[c].expect
       THEN Goto(c, "stat") /\ UNCHANGED <<lock, answer>>
       ELSE Answer(c, "conflict")
    /\ UNCHANGED <<backend, visible, disk, dir, call, applied, synced, attempt,
                   late>>

(* makeDirectoriesDurable: whoever finds the directory missing makes it,   *)
(* unless somebody was faster, and syncs the parent; whoever finds it does *)
(* not.                                                                    *)
StatDirectory(c) ==
    /\ At(c, "stat")
    /\ Goto(c, IF dir = "absent" THEN "mkdir" ELSE "temp")
    /\ UNCHANGED <<backend, visible, disk, dir, lock, call, applied, synced,
                   attempt, answer, late>>

Mkdir(c) ==
    /\ At(c, "mkdir")
    /\ dir' = IF dir = "absent" THEN "made" ELSE dir
    /\ Goto(c, "syncParent")
    /\ UNCHANGED <<backend, visible, disk, lock, call, applied, synced, attempt,
                   answer, late>>

SyncParent(c) ==
    /\ At(c, "syncParent")
    /\ dir' = "durable"
    /\ Goto(c, "temp")
    /\ UNCHANGED <<backend, visible, disk, lock, call, applied, synced, attempt,
                   answer, late>>

(* Mutant: the temporary file is not synced.                               *)
SyncNothing(c) ==
    /\ At(c, "temp")
    /\ Goto(c, "place")
    /\ UNCHANGED <<backend, visible, disk, dir, lock, call, applied, synced,
                   attempt, answer, late>>

(* The temporary file is created, written and synced.                      *)
WriteTemp(c) ==
    /\ At(c, "temp")
    /\ synced' = [synced EXCEPT ![c] = TRUE]
    /\ Goto(c, "place")
    /\ UNCHANGED <<backend, visible, disk, dir, lock, call, applied, attempt,
                   answer, late>>

(* Rename replaces what the key had, Link refuses to.  Readers see the new *)
(* file at once; after a power loss the key may have the old or the new    *)
(* one, the latter torn if its content was not synced.                     *)
Place(c) ==
    LET k == call[c].key
        new == call[c].data
    IN
    /\ At(c, "place")
    /\ IF k \in OnceKey /\ visible[k] # Absent
       THEN Answer(c, "conflict") /\ UNCHANGED <<visible, disk, applied>>
       ELSE /\ visible' = [visible EXCEPT ![k] = new]
            /\ disk' = [disk EXCEPT
                           ![k] = @ \cup (IF synced[c] THEN {new} ELSE {new, Torn})]
            /\ applied' = [applied EXCEPT ![c] = TRUE]
            /\ Goto(c, "syncDir")
            /\ UNCHANGED <<lock, answer>>
    /\ UNCHANGED <<backend, dir, call, synced, attempt, late>>

(* syncDirectory settles the key's entry, and those of the keys that are   *)
(* in the same directory.                                                  *)
SyncDirectory(c) ==
    /\ At(c, "syncDir")
    /\ \E D \in SUBSET Key :
          /\ call[c].key \in D
          /\ disk' = [k \in Key |-> IF k \in D
                                   THEN {visible[k]} \cup (disk[k] \cap {Torn})
                                   ELSE disk[k]]
    /\ Answer(c, "ok")
    /\ UNCHANGED <<backend, visible, dir, call, applied, synced, attempt, late>>

----------------------------------------------------------------------------
(* PutObject with If-Match or If-None-Match, as the bucket handles it.     *)
BucketWrite(r) ==
    /\ visible[r.key] = r.expect
    /\ visible' = [visible EXCEPT ![r.key] = r.data]
    /\ disk' = [disk EXCEPT ![r.key] = {r.data}]

(* CompareAndSwap of the S3 store: written, or a precondition that failed  *)
(* (412), or a conflict with a write under way (409), which is retried     *)
(* twice.  The client library sends the request again when the response is *)
(* lost, also when the first one was applied.                              *)
PutObject(c) ==
    /\ At(c, "send")
    /\ \/ BucketWrite(call[c]) /\ Answer(c, "ok") /\ UNCHANGED <<applied, attempt>>
       \/ /\ BucketWrite(call[c])
          /\ applied' = [applied EXCEPT ![c] = TRUE]
          /\ UNCHANGED <<lock, pc, attempt, answer>>
       \/ /\ visible[call[c].key] # call[c].expect
          /\ Answer(c, "conflict")
          /\ UNCHANGED <<visible, disk, applied, attempt>>
       \/ /\ IF attempt[c] < 2
             THEN /\ attempt' = [attempt EXCEPT ![c] = @ + 1]
                  /\ UNCHANGED <<lock, pc, answer>>
             ELSE Answer(c, "error") /\ UNCHANGED attempt
          /\ UNCHANGED <<visible, disk, applied>>
    /\ UNCHANGED <<backend, dir, call, synced, late>>

(* A request whose caller gave up may still reach the bucket.              *)
LateWrite(r) ==
    /\ r \in late
    /\ BucketWrite(r)
    /\ UNCHANGED <<backend, dir, lock, pc, call, applied, synced, attempt,
                   answer, late>>

LeavesBehind(c) ==
    \/ UNCHANGED late
    \/ /\ At(c, "send") /\ Cardinality(late) < MaxLate
       /\ late' = late \cup {call[c]}

----------------------------------------------------------------------------
(* Any step may fail, and waiting for the lock, for the bucket or for the  *)
(* next attempt ends with the context.                                     *)
IOError(c) ==
    /\ pc[c] \notin {"idle", "done"}
    /\ Answer(c, "error")
    /\ LeavesBehind(c)
    /\ UNCHANGED <<backend, visible, disk, dir, call, applied, synced, attempt>>

(* Nothing of a call is left when its caller has the answer or is gone.    *)
Forget(C) ==
    /\ pc' = [c \in Caller |-> IF c \in C THEN "idle" ELSE pc[c]]
    /\ call' = [c \in Caller |-> IF c \in C THEN NoCall ELSE call[c]]
    /\ applied' = [c \in Caller |-> IF c \in C THEN FALSE ELSE applied[c]]
    /\ synced' = [c \in Caller |-> IF c \in C THEN FALSE ELSE synced[c]]
    /\ attempt' = [c \in Caller |-> IF c \in C THEN 0 ELSE attempt[c]]
    /\ answer' = [c \in Caller |-> IF c \in C THEN "none" ELSE answer[c]]

Return(c) ==
    /\ At(c, "done")
    /\ Forget({c})
    /\ UNCHANGED <<backend, visible, disk, dir, lock, late>>

(* The caller's process dies: its locks go with it, its files stay.        *)
Kill(c) ==
    /\ pc[c] \notin {"idle", "done"}
    /\ Forget({c})
    /\ Unlock(c)
    /\ LeavesBehind(c)
    /\ UNCHANGED <<backend, visible, disk, dir>>

PowerLoss ==
    /\ backend = "file"
    /\ Forget(Caller)
    /\ lock' = [k \in CasKey |-> NoOne]
    /\ \/ /\ visible' \in [Key -> Data \cup {Absent, Torn}]
          /\ \A k \in Key : visible'[k] \in disk[k]
          /\ dir' = IF dir = "made" THEN "durable" ELSE dir
       \/ /\ dir = "made"
          /\ visible' = [k \in Key |-> Absent]
          /\ dir' = "absent"
    /\ disk' = [k \in Key |-> {visible'[k]}]
    /\ UNCHANGED <<backend, late>>

----------------------------------------------------------------------------
StoreInit ==
    /\ backend \in {"file", "s3"}
    /\ visible = [k \in Key |-> Absent]
    /\ disk = [k \in Key |-> {Absent}]
    /\ dir = IF backend = "file" THEN "absent" ELSE "durable"
    /\ lock = [k \in CasKey |-> NoOne]
    /\ pc = [c \in Caller |-> "idle"]
    /\ call = [c \in Caller |-> NoCall]
    /\ applied = [c \in Caller |-> FALSE]
    /\ synced = [c \in Caller |-> FALSE]
    /\ attempt = [c \in Caller |-> 0]
    /\ answer = [c \in Caller |-> "none"]
    /\ late = {}

CallSteps(c) ==
    \/ Flock(c) \/ Compare(c) \/ StatDirectory(c) \/ Mkdir(c) \/ SyncParent(c)
    \/ WriteTemp(c) \/ Place(c) \/ SyncDirectory(c) \/ PutObject(c)

StoreNext ==
    \/ \E c \in Caller :
          \/ \E r \in Calls : Request(c, r)
          \/ CallSteps(c) \/ IOError(c) \/ Return(c) \/ Kill(c)
    \/ \E r \in late : LateWrite(r)
    \/ PowerLoss

StoreSpec == StoreInit /\ [][StoreNext]_storeVars

----------------------------------------------------------------------------
(* Whatever happens, a reader finds a whole object or none (Put and        *)
(* PutIfAbsent sync the content before they give it its name).             *)
StoreTypeOK ==
    /\ visible \in [Key -> Data \cup {Absent}]
    /\ \A k \in Key : visible[k] \in disk[k]
    /\ dir \in {"absent", "made", "durable"}
    /\ lock \in [CasKey -> Caller \cup {NoOne}]
    /\ call \in [Caller -> Calls \cup {NoCall}]
    /\ attempt \in [Caller -> 0 .. 2]
    /\ answer \in [Caller -> {"none", "ok", "conflict", "error"}]
    /\ late \subseteq Calls

(* Both stores implement AtomicStore: a conditional write of any number of *)
(* processes takes effect exactly when the value is the expected one, and  *)
(* after "ok" no power loss brings an older value back, unless it takes    *)
(* the whole directory because nobody had synced its parent yet            *)
(* (LocalObjectStore and S3ObjectStore, CompareAndSwap and PutIfAbsent).   *)
Promise == INSTANCE AtomicStore WITH object <- visible, kept <- disk,
                                     firm <- (dir = "durable")
IsAtomicStore == Promise!AtomicSpec

============================================================================
