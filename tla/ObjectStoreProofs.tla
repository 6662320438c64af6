------------------------- MODULE ObjectStoreProofs -------------------------
(***************************************************************************)
(* Proofs about ObjectStore: readers never see a torn object, and both     *)
(* stores implement AtomicStore, for any number of callers, keys, values   *)
(* and requests that outlive their caller.                                 *)
(*                                                                         *)
(* The comparison and the rename of a conditional write are steps apart.   *)
(* StoreInv says what makes them one: from the comparison to the rename    *)
(* the caller holds the key's lock, nobody writes the key without it, and  *)
(* so the key still has the expected value.                                *)
(***************************************************************************)
EXTENDS ObjectStore, TLAPS

FileSteps == {"lock", "compare", "stat", "mkdir", "syncParent", "temp", "place",
              "syncDir"}
Locked == FileSteps \ {"lock"}
Compared == Locked \ {"compare", "syncDir"}

FlagsInv == applied \in [Caller -> BOOLEAN] /\ synced \in [Caller -> BOOLEAN]

TypeInv ==
    /\ backend \in {"file", "s3"}
    /\ visible \in [Key -> Data \cup {Absent}]
    /\ disk \in [Key -> SUBSET (Data \cup {Absent})]
    /\ \A k \in Key : visible[k] \in disk[k]
    /\ dir \in {"absent", "made", "durable"}
    /\ lock \in [CasKey -> Caller \cup {NoOne}]
    /\ pc \in [Caller -> FileSteps \cup {"idle", "send", "done"}]
    /\ call \in [Caller -> Calls \cup {NoCall}]
    /\ FlagsInv
    /\ attempt \in [Caller -> 0 .. 2]
    /\ answer \in [Caller -> {"none", "ok", "conflict", "error"}]
    /\ late \subseteq Calls

(* Where a caller is says which store it uses and what it has done.        *)
CallerInv ==
    /\ \A c \in Caller :
          /\ pc[c] = "idle" => call[c] = NoCall
          /\ pc[c] # "idle" => call[c] \in Calls
          /\ pc[c] = "done" <=> answer[c] # "none"
          /\ pc[c] = "send" => backend = "s3"
          /\ pc[c] \in FileSteps => backend = "file"
          /\ pc[c] \in {"lock", "compare"} => call[c].key \in CasKey
          /\ pc[c] = "place" => synced[c]
          /\ pc[c] = "syncDir" => applied[c]
    /\ late # {} => backend = "s3"

LockInv ==
    \A c \in Caller : call[c].key \in CasKey =>
        /\ pc[c] \in Locked => lock[call[c].key] = c
        /\ pc[c] \in Compared => visible[call[c].key] = call[c].expect

StoreInv == TypeInv /\ CallerInv /\ LockInv

----------------------------------------------------------------------------
(* A call names a key of the store, and a creation expects nothing.        *)
LEMMA CallFacts ==
    ASSUME NEW r \in Calls
    PROVE  /\ r.key \in Key /\ r.data \in Data
           /\ r.expect \in Data \cup {Absent}
           /\ r.key \in OnceKey => r.expect = Absent
           /\ r = [key |-> r.key, expect |-> r.expect, data |-> r.data]
           /\ r # NoCall
  BY StoreAssumption DEF Key, NoCall

(* No call is in progress at first.                                        *)
LEMMA StoreInitInv == StoreInit => StoreInv
  <1> SUFFICES ASSUME StoreInit PROVE StoreInv
    OBVIOUS
  <1>1. TypeInv
    BY DEF StoreInit, TypeInv, FlagsInv, Key
  <1>2. CallerInv
    BY DEF StoreInit, CallerInv, FileSteps
  <1>3. LockInv
    BY DEF StoreInit, LockInv, FileSteps, Locked, Compared
  <1> QED  BY <1>1, <1>2, <1>3 DEF StoreInv

(* Steps that move one caller and write no object.                         *)
LEMMA RequestInv ==
    ASSUME StoreInv, NEW c \in Caller, NEW r \in Calls, Request(c, r)
    PROVE  StoreInv'
  <1> USE DEF StoreInv
  <1>1. TypeInv'
    <2>1. FlagsInv'
      BY Zenon DEF Request, TypeInv, FlagsInv
    <2> QED  BY <2>1 DEF Request, At, Goto, TypeInv, FileSteps
  <1>2. CallerInv'
    BY CallFacts DEF Request, At, Goto, TypeInv, CallerInv, FileSteps, Key
  <1>3. LockInv'
    <2> SUFFICES ASSUME NEW d \in Caller, call'[d].key \in CasKey
                 PROVE  /\ pc'[d] \in Locked => lock'[call'[d].key] = d
                        /\ pc'[d] \in Compared =>
                              visible'[call'[d].key] = call'[d].expect
      BY DEF LockInv
    <2>1. CASE d = c
      BY <2>1, StoreAssumption
         DEF Request, At, Goto, TypeInv, LockInv, FileSteps, Locked, Compared
    <2>2. CASE d # c
      BY <2>2 DEF Request, At, Goto, TypeInv, LockInv
    <2> QED  BY <2>1, <2>2
  <1> QED  BY <1>1, <1>2, <1>3

(* A free lock is taken: its holder is the only caller past it.            *)
LEMMA FlockInv ==
    ASSUME StoreInv, NEW c \in Caller, Flock(c)
    PROVE  StoreInv'
  <1> USE DEF StoreInv
  <1>1. TypeInv'
    <2>1. FlagsInv'
      BY Zenon DEF Flock, TypeInv, FlagsInv
    <2> QED  BY <2>1, Zenon DEF Flock, At, Goto, TypeInv, FileSteps
  <1>2. CallerInv'
    BY DEF Flock, At, Goto, TypeInv, CallerInv, FileSteps
  <1>3. LockInv'
    BY StoreAssumption
       DEF Flock, At, Goto, TypeInv, CallerInv, LockInv, FileSteps, Locked,
           Compared
  <1> QED  BY <1>1, <1>2, <1>3

(* The comparison is made under the lock, so that its result lasts.        *)
LEMMA CompareInv ==
    ASSUME StoreInv, NEW c \in Caller, Compare(c)
    PROVE  StoreInv'
  <1> USE DEF StoreInv
  <1>1. TypeInv'
    <2>1. FlagsInv'
      BY Zenon DEF Compare, TypeInv, FlagsInv
    <2> QED  BY <2>1
                DEF Compare, Answer, Unlock, At, Goto, TypeInv, CallerInv,
                    FileSteps
  <1>2. CallerInv'
    BY DEF Compare, Answer, Unlock, At, Goto, TypeInv, CallerInv, FileSteps
  <1>3. LockInv'
    BY StoreAssumption
       DEF Compare, Answer, Unlock, At, Goto, TypeInv, CallerInv, LockInv,
           FileSteps, Locked, Compared
  <1> QED  BY <1>1, <1>2, <1>3

(* Looking for the directory changes no object.                            *)
LEMMA StatDirectoryInv ==
    ASSUME StoreInv, NEW c \in Caller, StatDirectory(c)
    PROVE  StoreInv'
  <1> USE DEF StoreInv
  <1>1. TypeInv'
    <2>1. FlagsInv'
      BY Zenon DEF StatDirectory, TypeInv, FlagsInv
    <2> QED  BY <2>1 DEF StatDirectory, At, Goto, TypeInv, CallerInv, FileSteps
  <1>2. CallerInv'
    BY DEF StatDirectory, At, Goto, TypeInv, CallerInv, FileSteps
  <1>3. LockInv'
    BY StoreAssumption
       DEF StatDirectory, At, Goto, TypeInv, CallerInv, LockInv, FileSteps,
           Locked, Compared
  <1> QED  BY <1>1, <1>2, <1>3

(* Making the directory changes no object.                                 *)
LEMMA MkdirInv ==
    ASSUME StoreInv, NEW c \in Caller, Mkdir(c)
    PROVE  StoreInv'
  <1> USE DEF StoreInv
  <1>1. TypeInv'
    <2>1. FlagsInv'
      BY Zenon DEF Mkdir, TypeInv, FlagsInv
    <2> QED  BY <2>1 DEF Mkdir, At, Goto, TypeInv, CallerInv, FileSteps
  <1>2. CallerInv'
    BY DEF Mkdir, At, Goto, TypeInv, CallerInv, FileSteps
  <1>3. LockInv'
    BY StoreAssumption
       DEF Mkdir, At, Goto, TypeInv, CallerInv, LockInv, FileSteps, Locked,
           Compared
  <1> QED  BY <1>1, <1>2, <1>3

(* Syncing the directory's parent changes no object.                       *)
LEMMA SyncParentInv ==
    ASSUME StoreInv, NEW c \in Caller, SyncParent(c)
    PROVE  StoreInv'
  <1> USE DEF StoreInv
  <1>1. TypeInv'
    <2>1. FlagsInv'
      BY Zenon DEF SyncParent, TypeInv, FlagsInv
    <2> QED  BY <2>1 DEF SyncParent, At, Goto, TypeInv, CallerInv, FileSteps
  <1>2. CallerInv'
    BY DEF SyncParent, At, Goto, TypeInv, CallerInv, FileSteps
  <1>3. LockInv'
    BY StoreAssumption
       DEF SyncParent, At, Goto, TypeInv, CallerInv, LockInv, FileSteps,
           Locked, Compared
  <1> QED  BY <1>1, <1>2, <1>3

(* The temporary file is synced before it is placed.                       *)
LEMMA WriteTempInv ==
    ASSUME StoreInv, NEW c \in Caller, WriteTemp(c)
    PROVE  StoreInv'
  <1> USE DEF StoreInv
  <1>1. TypeInv'
    <2>1. FlagsInv'
      BY Zenon DEF WriteTemp, TypeInv, FlagsInv
    <2> QED  BY <2>1 DEF WriteTemp, At, Goto, TypeInv, CallerInv, FileSteps
  <1>2. CallerInv'
    BY DEF WriteTemp, At, Goto, TypeInv, FlagsInv, CallerInv, FileSteps
  <1>3. LockInv'
    BY StoreAssumption
       DEF WriteTemp, At, Goto, TypeInv, CallerInv, LockInv, FileSteps,
           Locked, Compared
  <1> QED  BY <1>1, <1>2, <1>3

(* Nobody else is past the comparison of the key that is replaced.         *)
LEMMA PlaceInv ==
    ASSUME StoreInv, NEW c \in Caller, Place(c)
    PROVE  StoreInv'
  <1> USE DEF StoreInv
  <1>1. TypeInv'
    <2>1. FlagsInv'
      BY Zenon DEF Place, TypeInv, FlagsInv
    <2> QED  BY <2>1, CallFacts, SMTT(20)
                DEF Place, Answer, Unlock, At, Goto, TypeInv, CallerInv,
                    FileSteps
  <1>2. CallerInv'
    BY CallFacts
       DEF Place, Answer, Unlock, At, Goto, TypeInv, FlagsInv, CallerInv,
           FileSteps
  <1>3. LockInv'
    <2> SUFFICES ASSUME NEW d \in Caller, call'[d].key \in CasKey
                 PROVE  /\ pc'[d] \in Locked => lock'[call'[d].key] = d
                        /\ pc'[d] \in Compared =>
                              visible'[call'[d].key] = call'[d].expect
      BY DEF LockInv
    <2>1. CASE d = c
      BY <2>1 DEF Place, Answer, Unlock, At, Goto, TypeInv, LockInv, FileSteps,
                  Locked, Compared
    <2>2. CASE d # c
      <3>1. call'[d] = call[d] /\ pc'[d] = pc[d] /\ call[c] \in Calls
        BY <2>2 DEF Place, Answer, At, Goto, TypeInv, CallerInv
      <3>2. pc[d] \in Locked => lock'[call[d].key] = d
        BY <2>2, <3>1, StoreAssumption
           DEF Place, Answer, Unlock, TypeInv, LockInv
      <3>3. pc[d] \in Compared /\ visible'[call[d].key] # visible[call[d].key]
              => call[d].key = call[c].key
        BY <3>1, CallFacts DEF Place, TypeInv, Key
      <3>4. pc[d] \in Compared => call[d].key # call[c].key
        BY <2>2, <3>1, StoreAssumption
           DEF Place, At, TypeInv, LockInv, FileSteps, Locked, Compared
      <3> QED  BY <3>1, <3>2, <3>3, <3>4 DEF LockInv
    <2> QED  BY <2>1, <2>2
  <1> QED  BY <1>1, <1>2, <1>3

(* Settling entries changes no object, and the lock is let go.             *)
LEMMA SyncDirectoryInv ==
    ASSUME StoreInv, NEW c \in Caller, SyncDirectory(c)
    PROVE  StoreInv'
  <1> USE DEF StoreInv
  <1>1. TypeInv'
    <2>1. FlagsInv'
      BY Zenon DEF SyncDirectory, TypeInv, FlagsInv
    <2> QED  BY <2>1, StoreAssumption
                DEF SyncDirectory, Answer, Unlock, At, Goto, TypeInv,
                    CallerInv, FileSteps
  <1>2. CallerInv'
    BY DEF SyncDirectory, Answer, Unlock, At, Goto, TypeInv, CallerInv,
           FileSteps
  <1>3. LockInv'
    BY StoreAssumption
       DEF SyncDirectory, Answer, Unlock, At, Goto, TypeInv, CallerInv,
           LockInv, FileSteps, Locked, Compared
  <1> QED  BY <1>1, <1>2, <1>3

(* The bucket has no locks: no caller is at a step of the file store.      *)
LEMMA PutObjectInv ==
    ASSUME StoreInv, NEW c \in Caller, PutObject(c)
    PROVE  StoreInv'
  <1> USE DEF StoreInv
  <1>1. TypeInv'
    <2>1. FlagsInv'
      BY Zenon DEF PutObject, TypeInv, FlagsInv
    <2> QED  BY <2>1, CallFacts
                DEF PutObject, BucketWrite, Answer, Unlock, At, Goto, TypeInv,
                    CallerInv, FileSteps
  <1>2. CallerInv'
    BY CallFacts
       DEF PutObject, BucketWrite, Answer, Unlock, At, Goto, TypeInv,
           CallerInv, FileSteps
  <1>3. LockInv'
    <2> SUFFICES ASSUME NEW d \in Caller, call'[d].key \in CasKey
                 PROVE  /\ pc'[d] \in Locked => lock'[call'[d].key] = d
                        /\ pc'[d] \in Compared =>
                              visible'[call'[d].key] = call'[d].expect
      BY DEF LockInv
    <2>1. backend' = "s3"
      BY DEF PutObject, At, CallerInv
    <2> QED  BY <2>1, <1>2 DEF CallerInv, FileSteps, Locked, Compared
  <1> QED  BY <1>1, <1>2, <1>3

(* A failed call lets go of its lock.                                      *)
LEMMA IOErrorInv ==
    ASSUME StoreInv, NEW c \in Caller, IOError(c)
    PROVE  StoreInv'
  <1> USE DEF StoreInv
  <1>1. TypeInv'
    <2>1. FlagsInv'
      BY Zenon DEF IOError, TypeInv, FlagsInv
    <2> QED  BY <2>1
                DEF IOError, LeavesBehind, Answer, Unlock, At, Goto, TypeInv,
                    CallerInv, FileSteps
  <1>2. CallerInv'
    BY DEF IOError, LeavesBehind, Answer, Unlock, At, Goto, TypeInv,
           CallerInv, FileSteps
  <1>3. LockInv'
    BY StoreAssumption
       DEF IOError, LeavesBehind, Answer, Unlock, At, Goto, TypeInv,
           CallerInv, LockInv, FileSteps, Locked, Compared
  <1> QED  BY <1>1, <1>2, <1>3

(* A caller that was answered holds no lock.                               *)
LEMMA ReturnInv ==
    ASSUME StoreInv, NEW c \in Caller, Return(c)
    PROVE  StoreInv'
  <1> USE DEF StoreInv
  <1>1. TypeInv'
    <2>1. FlagsInv'
      BY Zenon DEF Return, Forget, TypeInv, FlagsInv
    <2> QED  BY <2>1
                DEF Return, Forget, NoCall, At, Goto, TypeInv, CallerInv,
                    FileSteps
  <1>2. CallerInv'
    BY DEF Return, Forget, NoCall, At, Goto, TypeInv, CallerInv, FileSteps
  <1>3. LockInv'
    <2> SUFFICES ASSUME NEW d \in Caller, call'[d].key \in CasKey
                 PROVE  /\ pc'[d] \in Locked => lock'[call'[d].key] = d
                        /\ pc'[d] \in Compared =>
                              visible'[call'[d].key] = call'[d].expect
      BY DEF LockInv
    <2>1. CASE d = c
      BY <2>1 DEF Return, Forget, TypeInv, FileSteps, Locked, Compared
    <2>2. CASE d # c
      BY <2>2, StoreAssumption DEF Return, Forget, TypeInv, LockInv
    <2> QED  BY <2>1, <2>2
  <1> QED  BY <1>1, <1>2, <1>3

(* A process's locks go with it.                                           *)
LEMMA KillInv ==
    ASSUME StoreInv, NEW c \in Caller, Kill(c)
    PROVE  StoreInv'
  <1> USE DEF StoreInv
  <1>1. TypeInv'
    <2>1. FlagsInv'
      BY Zenon DEF Kill, Forget, TypeInv, FlagsInv
    <2> QED  BY <2>1
                DEF Kill, Forget, LeavesBehind, Unlock, NoCall, At, Goto,
                    TypeInv, CallerInv, FileSteps
  <1>2. CallerInv'
    BY DEF Kill, Forget, LeavesBehind, Unlock, NoCall, At, Goto, TypeInv,
           CallerInv, FileSteps
  <1>3. LockInv'
    <2> SUFFICES ASSUME NEW d \in Caller, call'[d].key \in CasKey
                 PROVE  /\ pc'[d] \in Locked => lock'[call'[d].key] = d
                        /\ pc'[d] \in Compared =>
                              visible'[call'[d].key] = call'[d].expect
      BY DEF LockInv
    <2>1. CASE d = c
      BY <2>1 DEF Kill, Forget, Unlock, TypeInv, FileSteps, Locked, Compared
    <2>2. CASE d # c
      BY <2>2, StoreAssumption DEF Kill, Forget, Unlock, TypeInv, LockInv
    <2> QED  BY <2>1, <2>2
  <1> QED  BY <1>1, <1>2, <1>3

(* Steps that are nobody's call.                                           *)
LEMMA LateWriteInv ==
    ASSUME StoreInv, NEW r \in late, LateWrite(r)
    PROVE  StoreInv'
  <1> USE DEF StoreInv
  <1>1. TypeInv'
    <2>1. FlagsInv'
      BY Zenon DEF LateWrite, TypeInv, FlagsInv
    <2> QED  BY <2>1, CallFacts DEF LateWrite, BucketWrite, TypeInv
  <1>2. CallerInv'
    BY DEF LateWrite, CallerInv
  <1>3. LockInv'
    BY DEF LateWrite, CallerInv, LockInv, FileSteps, Locked, Compared
  <1> QED  BY <1>1, <1>2, <1>3

(* After a power loss every key has a whole object or none.                *)
LEMMA PowerLossInv ==
    ASSUME StoreInv, PowerLoss
    PROVE  StoreInv'
  <1> USE DEF StoreInv
  <1>1. TypeInv'
    <2>1. visible' \in [Key -> Data \cup {Absent}]
      BY DEF PowerLoss, TypeInv
    <2>2. FlagsInv'
      BY Zenon DEF PowerLoss, Forget, TypeInv, FlagsInv
    <2> QED  BY <2>1, <2>2 DEF PowerLoss, Forget, TypeInv
  <1>2. CallerInv'
    BY DEF PowerLoss, Forget, TypeInv, CallerInv, FileSteps
  <1>3. LockInv'
    BY DEF PowerLoss, Forget, LockInv, FileSteps, Locked, Compared
  <1> QED  BY <1>1, <1>2, <1>3

(* StoreInv is inductive.                                                  *)
LEMMA StoreNextInv == StoreInv /\ [StoreNext]_storeVars => StoreInv'
  <1> SUFFICES ASSUME StoreInv, [StoreNext]_storeVars PROVE StoreInv'
    OBVIOUS
  <1>1. ASSUME NEW c \in Caller, NEW r \in Calls, Request(c, r) PROVE StoreInv'
    BY <1>1, RequestInv
  <1>2. ASSUME NEW c \in Caller, CallSteps(c) PROVE StoreInv'
    BY <1>2, FlockInv, CompareInv, StatDirectoryInv, MkdirInv, SyncParentInv,
       WriteTempInv, PlaceInv, SyncDirectoryInv, PutObjectInv DEF CallSteps
  <1>3. ASSUME NEW c \in Caller, IOError(c) \/ Return(c) \/ Kill(c)
        PROVE  StoreInv'
    BY <1>3, IOErrorInv, ReturnInv, KillInv
  <1>4. ASSUME NEW r \in late, LateWrite(r) PROVE StoreInv'
    BY <1>4, LateWriteInv
  <1>5. CASE PowerLoss
    BY <1>5, PowerLossInv
  <1>6. CASE UNCHANGED storeVars
    BY <1>6 DEF storeVars, StoreInv, TypeInv, FlagsInv, CallerInv, LockInv
  <1> QED  BY <1>1, <1>2, <1>3, <1>4, <1>5, <1>6 DEF StoreNext

(* In every state, whoever has compared holds the lock (CompareAndSwap).   *)
THEOREM StoreInvariance == StoreSpec => []StoreInv
  BY StoreInitInv, StoreNextInv, PTL DEF StoreSpec

(* Whatever fails, and whenever the power does, a reader finds a whole     *)
(* object or none (Put and PutIfAbsent).                                   *)
THEOREM StoreTypeCorrect == StoreSpec => []StoreTypeOK
  <1>1. StoreInv => StoreTypeOK
    BY DEF StoreInv, TypeInv, StoreTypeOK
  <1> QED  BY <1>1, StoreInvariance, PTL

----------------------------------------------------------------------------
(* Each step of a store is a step of AtomicStore, or none.                 *)
LEMMA AtomicCalls == Calls \subseteq Promise!Requests /\ NoCall = Promise!NoCall
  BY StoreAssumption DEF Promise!Requests, Promise!NoCall, NoCall, Key

(* An empty store is an empty AtomicStore.                                 *)
LEMMA InitAtomic == StoreInit => Promise!AtomicInit
  BY DEF StoreInit, Promise!AtomicInit, Promise!NoCall, NoCall

(* Whoever is between its first step and its answer waits.                 *)
LEMMA WaitsFacts ==
    ASSUME StoreInv, NEW c \in Caller, pc[c] \notin {"idle", "done"}
    PROVE  Promise!Waits(c) /\ call[c] \in Calls
  BY CallFacts, AtomicCalls DEF StoreInv, CallerInv, TypeInv, Promise!Waits

(* A call of the store is a call of AtomicStore.                           *)
LEMMA RequestAtomic ==
    ASSUME StoreInv, NEW c \in Caller, NEW r \in Calls, Request(c, r)
    PROVE  Promise!Request(c, r)
  BY AtomicCalls DEF StoreInv, CallerInv, Request, At, Promise!Request

(* A conflict is answered only if the value differs.                       *)
LEMMA CompareAtomic ==
    ASSUME StoreInv, NEW c \in Caller, Compare(c)
    PROVE  Promise!Refuse(c) \/ UNCHANGED Promise!atomicVars
  BY WaitsFacts DEF Compare, At, Answer, Promise!Refuse, Promise!atomicVars

(* The value compared with is still there when the new one is placed.      *)
LEMMA PlaceAtomic ==
    ASSUME StoreInv, NEW c \in Caller, Place(c)
    PROVE  Promise!Refuse(c) \/ Promise!Apply(c)
  <1> DEFINE k == call[c].key
  <1>1. Promise!Waits(c) /\ call[c] \in Calls
    BY WaitsFacts DEF Place, At
  <1>2. k \in Key /\ (k \in OnceKey => call[c].expect = Absent)
    BY <1>1, CallFacts
  <1>3. CASE k \in OnceKey /\ visible[k] # Absent
    BY <1>1, <1>2, <1>3 DEF Place, Answer, Promise!Refuse
  <1>4. CASE ~(k \in OnceKey /\ visible[k] # Absent)
    <2>1. visible[k] = call[c].expect
      BY <1>2, <1>4
         DEF Place, At, StoreInv, LockInv, FileSteps, Locked, Compared, Key
    <2>2. synced[c]
      BY DEF Place, At, StoreInv, CallerInv
    <2>3. disk' = [disk EXCEPT ![k] = disk[k] \cup {call[c].data}]
      BY <1>4, <2>2 DEF Place
    <2>4. Promise!Write(call[c])
      BY <1>4, <2>1, <2>3 DEF Place, Promise!Write
    <2> QED  BY <1>1, <1>4, <2>4 DEF Place, Promise!Apply
  <1> QED  BY <1>3, <1>4

(* The write is acknowledged when its entry is settled.                    *)
LEMMA SyncDirectoryAtomic ==
    ASSUME StoreInv, NEW c \in Caller, SyncDirectory(c)
    PROVE  Promise!Acknowledge(c)
  <1>1. Promise!Waits(c) /\ call[c].key \in Key
    BY WaitsFacts, CallFacts DEF SyncDirectory, At
  <1>2. applied[c] /\ visible' = visible
    BY DEF SyncDirectory, At, StoreInv, CallerInv
  <1>3. PICK D \in SUBSET Key :
          /\ call[c].key \in D
          /\ disk' = [k \in Key |-> IF k \in D
                                   THEN {visible[k]} \cup (disk[k] \cap {Torn})
                                   ELSE disk[k]]
    BY DEF SyncDirectory
  <1>4. disk' = [k \in Key |-> IF k \in D THEN {visible'[k]} ELSE disk[k]]
    <2>1. \A k \in Key : {visible[k]} \cup (disk[k] \cap {Torn}) = {visible[k]}
      BY StoreAssumption DEF StoreInv, TypeInv
    <2> QED  BY <1>2, <1>3, <2>1
  <1>5. \E safe \in SUBSET Key :
          /\ call[c].key \in safe
          /\ disk' = [k \in Key |-> IF k \in safe THEN {visible'[k]} ELSE disk[k]]
    BY <1>3, <1>4
  <1>6. /\ answer' = [answer EXCEPT ![c] = "ok"]
        /\ UNCHANGED <<dir, call, applied, late>>
    BY DEF SyncDirectory, Answer
  <1> QED  BY <1>1, <1>2, <1>5, <1>6, Zenon DEF Promise!Acknowledge

(* What the bucket writes is safe at once.                                 *)
LEMMA BucketWriteAtomic ==
    ASSUME StoreInv, NEW r \in Calls, BucketWrite(r)
    PROVE  Promise!Write(r)
  BY DEF BucketWrite, Promise!Write

(* Each answer of the bucket is one that AtomicStore may give.             *)
LEMMA PutObjectAtomic ==
    ASSUME StoreInv, NEW c \in Caller, PutObject(c)
    PROVE  \/ Promise!Acknowledge(c) \/ Promise!Apply(c) \/ Promise!Refuse(c)
           \/ Promise!Fail(c) \/ UNCHANGED Promise!atomicVars
  <1>1. Promise!Waits(c) /\ call[c] \in Calls /\ call[c].key \in Key
    BY WaitsFacts, CallFacts DEF PutObject, At
  <1>2. CASE BucketWrite(call[c]) /\ Answer(c, "ok") /\ UNCHANGED <<applied, attempt>>
    <2>1. disk' = [k \in Key |-> IF k \in {call[c].key} THEN {visible'[k]} ELSE disk[k]]
      BY <1>1, <1>2, Zenon DEF BucketWrite, StoreInv, TypeInv
    <2>2. {call[c].key} \in SUBSET Key
      BY <1>1
    <2> QED  BY <1>1, <1>2, <2>1, <2>2, Zenon
                DEF PutObject, BucketWrite, Answer, Promise!Acknowledge
  <1>3. CASE /\ BucketWrite(call[c])
             /\ applied' = [applied EXCEPT ![c] = TRUE]
             /\ UNCHANGED <<lock, pc, attempt, answer>>
    BY <1>1, <1>3, BucketWriteAtomic DEF PutObject, Promise!Apply
  <1>4. CASE /\ visible[call[c].key] # call[c].expect
             /\ Answer(c, "conflict")
             /\ UNCHANGED <<visible, disk, applied, attempt>>
    BY <1>1, <1>4 DEF PutObject, Answer, Promise!Refuse
  <1>5. CASE /\ IF attempt[c] < 2
                THEN /\ attempt' = [attempt EXCEPT ![c] = @ + 1]
                     /\ UNCHANGED <<lock, pc, answer>>
                ELSE Answer(c, "error") /\ UNCHANGED attempt
             /\ UNCHANGED <<visible, disk, applied>>
    BY <1>1, <1>5 DEF PutObject, Answer, Promise!Fail, Promise!atomicVars
  <1> QED  BY <1>2, <1>3, <1>4, <1>5 DEF PutObject

(* A late request takes effect or not.                                     *)
LEMMA LateWriteAtomic ==
    ASSUME StoreInv, NEW r \in late, LateWrite(r)
    PROVE  Promise!ApplyLate(r)
  BY BucketWriteAtomic DEF LateWrite, StoreInv, TypeInv, Promise!ApplyLate

(* An error promises nothing.                                              *)
LEMMA IOErrorAtomic ==
    ASSUME StoreInv, NEW c \in Caller, IOError(c)
    PROVE  Promise!Fail(c)
  BY WaitsFacts DEF IOError, Answer, LeavesBehind, Promise!Fail

(* Forgetting one caller's call is what Leave does.                        *)
LEMMA ForgetAtomic ==
    ASSUME StoreInv, NEW c \in Caller, Forget({c})
    PROVE  /\ call' = [call EXCEPT ![c] = Promise!NoCall]
           /\ applied' = [applied EXCEPT ![c] = FALSE]
           /\ answer' = [answer EXCEPT ![c] = "none"]
  <1>1. /\ call' = [call EXCEPT ![c] = Promise!NoCall]
        /\ answer' = [answer EXCEPT ![c] = "none"]
    BY AtomicCalls, Zenon DEF Forget, StoreInv, TypeInv
  <1>2. applied' = [applied EXCEPT ![c] = FALSE]
    BY Zenon DEF Forget, StoreInv, TypeInv, FlagsInv
  <1> QED  BY <1>1, <1>2

(* A caller returns or dies.                                               *)
LEMMA LeaveAtomic ==
    ASSUME StoreInv, NEW c \in Caller, Return(c) \/ Kill(c)
    PROVE  Promise!Leave(c)
  <1>1. call[c] # Promise!NoCall
    BY CallFacts, AtomicCalls DEF Return, Kill, At, StoreInv, CallerInv
  <1>2. Forget({c}) /\ UNCHANGED <<visible, disk, dir>>
    BY DEF Return, Kill
  <1>3. late' \in {late, late \cup {call[c]}}
    BY DEF Return, Kill, LeavesBehind
  <1> QED  BY <1>1, <1>2, <1>3, ForgetAtomic DEF Promise!Leave

(* What a power loss leaves, AtomicStore allows.                           *)
LEMMA PowerLossAtomic ==
    ASSUME StoreInv, PowerLoss
    PROVE  Promise!PowerLoss
  <1>1. /\ call' = [c \in Caller |-> Promise!NoCall]
        /\ answer' = [c \in Caller |-> "none"]
        /\ applied' = [c \in Caller |-> FALSE]
    BY AtomicCalls DEF PowerLoss, Forget
  <1>2. late' = late /\ disk' = [k \in Key |-> {visible'[k]}]
    BY DEF PowerLoss
  <1>3. visible' \in [Key -> Data \cup {Absent}]
    BY DEF PowerLoss, StoreInv, TypeInv
  <1>4. \/ /\ \A k \in Key : visible'[k] \in disk[k]
           /\ dir' = "durable" \/ (dir' = "durable" <=> dir = "durable")
        \/ dir # "durable" /\ visible' = [k \in Key |-> Absent] /\ dir' # "durable"
    BY DEF PowerLoss
  <1> QED  BY <1>1, <1>2, <1>3, <1>4, Zenon DEF Promise!PowerLoss

(* Steps before the object gets its name change nothing a user could see;  *)
(* with its parent synced the directory is firm.                           *)
LEMMA SilentAtomic ==
    ASSUME NEW c \in Caller,
           \/ Flock(c) \/ StatDirectory(c) \/ Mkdir(c) \/ SyncParent(c) \/ WriteTemp(c)
    PROVE  Promise!BecomesFirm \/ UNCHANGED Promise!atomicVars
  <1>1. CASE Flock(c) \/ StatDirectory(c) \/ WriteTemp(c)
    BY <1>1 DEF Flock, StatDirectory, WriteTemp, Promise!atomicVars
  <1>2. CASE Mkdir(c)
    BY <1>2 DEF Mkdir, Promise!atomicVars
  <1>3. CASE SyncParent(c)
    BY <1>3 DEF SyncParent, Promise!BecomesFirm
  <1> QED  BY <1>1, <1>2, <1>3

(* Both stores implement AtomicStore (CompareAndSwap and PutIfAbsent of    *)
(* LocalObjectStore and S3ObjectStore), for any number of callers.         *)
THEOREM StoreIsAtomic == StoreSpec => IsAtomicStore
  <1>1. StoreInv /\ [StoreNext]_storeVars => [Promise!AtomicNext]_(Promise!atomicVars)
    <2> SUFFICES ASSUME StoreInv, [StoreNext]_storeVars
                 PROVE  Promise!AtomicNext \/ UNCHANGED Promise!atomicVars
      OBVIOUS
    <2>1. ASSUME NEW c \in Caller, NEW r \in Calls, Request(c, r)
          PROVE  Promise!AtomicNext
      BY <2>1, RequestAtomic, AtomicCalls DEF Promise!AtomicNext
    <2>2. ASSUME NEW c \in Caller, CallSteps(c)
          PROVE  Promise!AtomicNext \/ UNCHANGED Promise!atomicVars
      BY <2>2, SilentAtomic, CompareAtomic, PlaceAtomic, SyncDirectoryAtomic,
         PutObjectAtomic DEF CallSteps, Promise!AtomicNext
    <2>3. ASSUME NEW c \in Caller, IOError(c) \/ Return(c) \/ Kill(c)
          PROVE  Promise!AtomicNext
      BY <2>3, IOErrorAtomic, LeaveAtomic DEF Promise!AtomicNext
    <2>4. ASSUME NEW r \in late, LateWrite(r)
          PROVE  Promise!AtomicNext
      BY <2>4, LateWriteAtomic DEF Promise!AtomicNext
    <2>5. CASE PowerLoss
      BY <2>5, PowerLossAtomic DEF Promise!AtomicNext
    <2>6. CASE UNCHANGED storeVars
      BY <2>6 DEF storeVars, Promise!atomicVars
    <2> QED  BY <2>1, <2>2, <2>3, <2>4, <2>5, <2>6 DEF StoreNext
  <1> QED  BY <1>1, InitAtomic, StoreInvariance, PTL
              DEF StoreSpec, IsAtomicStore, Promise!AtomicSpec

============================================================================
