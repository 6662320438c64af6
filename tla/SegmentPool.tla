---------------------------- MODULE SegmentPool ----------------------------
(***************************************************************************)
(* The worker pools that read the segments of a manifest: one command      *)
(* verifies them (verifySegments, verifyCompletedMigrationSegments) or     *)
(* writes their blocks into a bounded cache of files (Hydrate).            *)
(* (internal/archive/verify.go, migrate.go, hydrate.go)                    *)
(*                                                                         *)
(* The jobs channel is unbuffered: a job passes from the submitter to a    *)
(* worker that waits for one.  Verify submits its jobs itself and waits    *)
(* for the workers; Hydrate has a goroutine for that and consumes results  *)
(* in the order of the manifest, each from a channel of capacity one.      *)
(***************************************************************************)
EXTENDS Naturals, FiniteSetsExt

CONSTANTS
    Worker,
    Commands,       \* "verify", "hydrate"
    Segments,       \* number of segments that are read
    SegmentSize,    \* blocks in each
    BlockBytes,     \* height -> size of its block file
    MaxBlockBytes,  \* bound: no file is larger
    Hydrations      \* what Hydrate is asked for: a range, a cache limit
                    \* (MaxBytes, 0 is none) and the cache it finds

ASSUME PoolAssumption ==
    /\ Worker # {}
    /\ Commands \subseteq {"verify", "hydrate"}
    /\ {Segments, SegmentSize, MaxBlockBytes} \subseteq Nat \ {0}
    /\ \A r \in Hydrations :
          /\ r.from \in 1 .. Segments * SegmentSize
          /\ r.to \in r.from .. Segments * SegmentSize
          /\ r.limit \in Nat
          /\ r.cache \subseteq Nat /\ IsFiniteSet(r.cache)
          /\ \A h \in r.cache \cup r.from .. r.to :
                BlockBytes[h] \in 1 .. MaxBlockBytes

Slot == 1 .. Segments

VARIABLES
    command,
    from, to,       \* the range to hydrate
    limit,          \* opts.MaxBytes
    intact,         \* slots whose object can be read and decoded
    next,           \* the slot to submit
    closed,         \* the jobs channel is closed
    job,            \* each worker's slot; 0: it waits, Segments + 1: it ended
    work,           \* ... and how far it is: "got", "read", "failed"
    result,         \* result sent or error stored for a slot
    cancelled,      \* cancel() was called on workerCtx
    ctxDone,        \* the caller's context ended
    main,           \* the command: "idle", "submit", "consume", "write", "wait",
                    \* "done"
    slot,           \* the slot whose result is consumed
    height,         \* the next block of it
    before,         \* the cache when the command began
    cache,          \* heights in the cache directory
    outcome          \* "none", "ok", "bad", "cancelled"

inputs == <<command, from, to, limit, intact, before>>
pool == <<next, closed, job, work, result>>
poolVars == <<inputs, pool, cancelled, ctxDone, main, slot, height, cache, outcome>>

Ended == Segments + 1
WorkerCtxDone == cancelled \/ ctxDone

FirstOf(s) == (s - 1) * SegmentSize + 1
LastOf(s) == s * SegmentSize
Relevant == {s \in Slot : FirstOf(s) <= to /\ LastOf(s) >= from}

(* What the files of heights S take together, counted byte by byte.        *)
TotalBytes(S) ==
    Cardinality({b \in S \X (1 .. MaxBlockBytes) : b[2] <= BlockBytes[b[1]]})

From(S, h) == {g \in S : g >= h}

(* The files that are left when the lowest ones go until the rest fit.     *)
Fitting(S) == {h \in S : TotalBytes(From(S, h)) <= limit}

----------------------------------------------------------------------------
(* The manifest is loaded, the context looked at, the workers are started. *)
Begin ==
    /\ main = "idle"
    /\ IF ctxDone THEN main' = "done" /\ outcome' = "cancelled"
       ELSE /\ main' = IF command = "verify" THEN "submit" ELSE "consume"
            /\ UNCHANGED outcome
    /\ UNCHANGED <<inputs, pool, cancelled, ctxDone, slot, height, cache>>

(* The submitter hands out slots in order and closes the channel at the    *)
(* end, or when the worker context is done.  Verify then waits.            *)
AfterSubmit == IF command = "verify" THEN main' = "wait" ELSE UNCHANGED main

Submit(w) ==
    /\ main \notin {"idle", "done"}
    /\ ~closed /\ next \in Relevant /\ job[w] = 0
    /\ job' = [job EXCEPT ![w] = next]
    /\ work' = [work EXCEPT ![w] = "got"]
    /\ next' = next + 1
    /\ UNCHANGED <<inputs, closed, result, cancelled, ctxDone, main, slot, height,
                   cache, outcome>>

(* Mutant: submitting ends with the context, but the channel stays open.   *)
LeaveOpen ==
    /\ main \notin {"idle", "done"} /\ ~closed /\ next # 0
    /\ \/ next \notin Relevant /\ closed' = TRUE /\ UNCHANGED next
       \/ WorkerCtxDone /\ next' = 0 /\ UNCHANGED closed
    /\ AfterSubmit
    /\ UNCHANGED <<inputs, job, work, result, cancelled, ctxDone, slot, height,
                   cache, outcome>>

CloseJobs ==
    /\ main \notin {"idle", "done"} /\ ~closed
    /\ next \notin Relevant \/ WorkerCtxDone
    /\ closed' = TRUE
    /\ AfterSubmit
    /\ UNCHANGED <<inputs, next, job, work, result, cancelled, ctxDone, slot,
                   height, cache, outcome>>

(* A worker that finds the context done passes that on; otherwise it reads *)
(* and decodes, which fails too when the context ends meanwhile.  An error *)
(* is passed on first and cancels the others then.                         *)
ReadResults(w) ==
    IF work[w] = "got" THEN {"cancelled"}
    ELSE (IF job[w] \in intact THEN {"ok"} ELSE {"bad"})
             \cup (IF WorkerCtxDone THEN {"cancelled"} ELSE {})

CheckContext(w) ==
    /\ work[w] = "got" /\ ~WorkerCtxDone
    /\ work' = [work EXCEPT ![w] = "read"]
    /\ UNCHANGED <<inputs, next, closed, job, result, cancelled, ctxDone, main,
                   slot, height, cache, outcome>>

Finish(w) ==
    /\ work[w] = "read" \/ (work[w] = "got" /\ WorkerCtxDone)
    /\ \E r \in ReadResults(w) :
          /\ result' = [result EXCEPT ![job[w]] = r]
          /\ IF r # "ok" /\ work[w] = "read"
             THEN work' = [work EXCEPT ![w] = "failed"] /\ UNCHANGED job
             ELSE /\ work' = [work EXCEPT ![w] = "idle"]
                  /\ job' = [job EXCEPT ![w] = 0]
    /\ UNCHANGED <<inputs, next, closed, cancelled, ctxDone, main, slot, height,
                   cache, outcome>>

Cancel(w) ==
    /\ work[w] = "failed"
    /\ cancelled' = TRUE
    /\ work' = [work EXCEPT ![w] = "idle"]
    /\ job' = [job EXCEPT ![w] = 0]
    /\ UNCHANGED <<inputs, next, closed, result, ctxDone, main, slot, height,
                   cache, outcome>>

End(w) ==
    /\ closed /\ job[w] = 0
    /\ job' = [job EXCEPT ![w] = Ended]
    /\ UNCHANGED <<inputs, next, closed, work, result, cancelled, ctxDone, main,
                   slot, height, cache, outcome>>

----------------------------------------------------------------------------
(* Hydrate's main goroutine: the next result, or the end of its context.   *)
Stop(a) ==
    /\ main' = "wait"
    /\ outcome' = a
    /\ cancelled' = TRUE

Consume ==
    /\ main = "consume"
    /\ \/ slot \notin Relevant /\ Stop("ok") /\ UNCHANGED height
       \/ slot \in Relevant /\ ctxDone /\ Stop("cancelled") /\ UNCHANGED height
       \/ /\ slot \in Relevant /\ result[slot] = "ok"
          /\ main' = "write" /\ height' = FirstOf(slot)
          /\ UNCHANGED <<cancelled, outcome>>
       \/ /\ slot \in Relevant /\ result[slot] \in {"bad", "cancelled"}
          /\ Stop(result[slot]) /\ UNCHANGED height
    /\ UNCHANGED <<inputs, pool, ctxDone, slot, cache>>

(* Mutant: the newest files are deleted first.                             *)
KeepOldest(files) ==
    IF limit = 0 THEN files
    ELSE {h \in files : TotalBytes({g \in files : g <= h}) <= limit}

(* enforceCacheLimit deletes the files that sort first until the rest fit. *)
enforceCacheLimit(files) == IF limit = 0 THEN files ELSE Fitting(files)

(* ... or fails: the directory cannot be read, or the file of height h     *)
(* that should go, those below it being gone, cannot be removed.           *)
SomeRemoved(files) ==
    IF limit = 0 THEN {}
    ELSE {files} \cup {From(files, h) : h \in files \ Fitting(files)}

(* One record: the context is checked, the block written if it is in the   *)
(* range, and the limit enforced.  A failure of either ends the command.   *)
WriteBlock ==
    /\ main = "write"
    /\ \/ ctxDone /\ Stop("cancelled") /\ UNCHANGED <<slot, height, cache>>
       \/ /\ height \in from .. to /\ Stop("bad")
          /\ cache' \in {cache} \cup SomeRemoved(cache \cup {height})
          /\ UNCHANGED <<slot, height>>
       \/ /\ ~ctxDone
          /\ cache' = IF height \in from .. to
                      THEN enforceCacheLimit(cache \cup {height}) ELSE cache
          /\ IF height = LastOf(slot)
             THEN main' = "consume" /\ slot' = slot + 1
             ELSE UNCHANGED <<main, slot>>
          /\ height' = height + 1
          /\ UNCHANGED <<cancelled, outcome>>
    /\ UNCHANGED <<inputs, pool, ctxDone>>

(* Mutant: only real errors count, the context of the caller does not.     *)
RealErrorsOnly ==
    IF \E s \in Slot : result[s] = "bad" THEN "bad" ELSE "ok"

(* Verify's outcome: a real error before one that only says cancelled.      *)
firstSegmentError ==
    IF \E s \in Slot : result[s] = "bad" THEN "bad"
    ELSE IF ctxDone \/ \E s \in Slot : result[s] = "cancelled" THEN "cancelled"
    ELSE "ok"

(* wg.Wait, and the command returns.                                       *)
CommandEnds ==
    /\ main = "wait" /\ \A w \in Worker : job[w] = Ended
    /\ main' = "done"
    /\ outcome' = IF command = "verify" THEN firstSegmentError ELSE outcome
    /\ UNCHANGED <<inputs, pool, cancelled, ctxDone, slot, height, cache>>

(* The caller's context ends: a signal or a timeout.                       *)
ContextEnds ==
    /\ ~ctxDone /\ main # "done"
    /\ ctxDone' = TRUE
    /\ UNCHANGED <<inputs, pool, cancelled, main, slot, height, cache, outcome>>

----------------------------------------------------------------------------
PoolInit ==
    /\ command \in Commands
    /\ intact \in SUBSET Slot
    /\ IF command = "verify"
       THEN from = 1 /\ to = Segments * SegmentSize /\ limit = 0 /\ before = {}
       ELSE \E r \in Hydrations :
               from = r.from /\ to = r.to /\ limit = r.limit /\ before = r.cache
    /\ next = Min(Relevant) /\ closed = FALSE
    /\ job = [w \in Worker |-> 0] /\ work = [w \in Worker |-> "idle"]
    /\ result = [s \in Slot |-> "none"]
    /\ cancelled = FALSE /\ ctxDone = FALSE
    /\ main = "idle"
    /\ slot = Min(Relevant) /\ height = 0
    /\ cache = before
    /\ outcome = "none"

WorkerStep(w) == CheckContext(w) \/ Finish(w) \/ Cancel(w) \/ End(w)

CommandStep == Consume \/ WriteBlock \/ CommandEnds

SubmitStep == (\E w \in Worker : Submit(w)) \/ CloseJobs

PoolNext ==
    \/ Begin \/ SubmitStep \/ CommandStep \/ ContextEnds
    \/ \E w \in Worker : WorkerStep(w)

(* Goroutines go on and reads return.  Nobody need end the context.        *)
PoolFairness ==
    /\ WF_poolVars(SubmitStep) /\ WF_poolVars(CommandStep)
    /\ \A w \in Worker : WF_poolVars(WorkerStep(w))

PoolSpec == PoolInit /\ [][PoolNext]_poolVars /\ PoolFairness

----------------------------------------------------------------------------
(* A command that reports success has read every segment intact, whatever  *)
(* failed or was cancelled at any moment; and a verification blames the    *)
(* context only if its caller's ended, never because one worker's failure  *)
(* cancelled the others (verifySegments, firstSegmentError, Hydrate).      *)
NoFalseSuccess ==
    main = "done" =>
        /\ outcome = "ok" => \A s \in Relevant : s \in intact /\ result[s] = "ok"
        /\ command = "verify" /\ outcome = "cancelled" => ctxDone

(* After a hydration the cache is within its limit, whatever it held; and  *)
(* if what it held was, it has the newest blocks that fit of those it held *)
(* and those asked for, although the limit is enforced after every single  *)
(* write and files differ in size (Hydrate, enforceCacheLimit).  (From a   *)
(* cache over its limit the first write deletes newer files that do not    *)
(* fit, and older blocks of the range may then take their room.)           *)
CacheIsNewest ==
    main = "done" /\ command = "hydrate" /\ outcome = "ok" =>
        LET all == before \cup from .. to
        IN  /\ limit # 0 => TotalBytes(cache) <= limit
            /\ limit = 0 => cache = all
            /\ limit # 0 /\ TotalBytes(before) <= limit =>
                  cache = {h \in all : TotalBytes(From(all, h)) <= limit}

(* A command that began returns: no goroutine is left waiting for a job,   *)
(* for room for its result or for a result nobody sends (verifySegments,   *)
(* Hydrate).                                                               *)
CommandReturns == main # "idle" ~> main = "done"

============================================================================
