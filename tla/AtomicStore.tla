---------------------------- MODULE AtomicStore ----------------------------
(***************************************************************************)
(* What the archive expects of an ObjectStore that is written to: one      *)
(* value per key, conditional writes that take effect at once or not at    *)
(* all, and no acknowledged write that a power loss could undo once the    *)
(* store's directory is firm.  (internal/archive/objectstore.go, the       *)
(* interface ObjectStore with PutIfAbsent and CompareAndSwap.)             *)
(*                                                                         *)
(* A call names the value it expects, Absent for a creation.               *)
(***************************************************************************)
CONSTANTS
    Key,
    Caller,
    Data,
    Absent          \* no object under the key

VARIABLES
    object,         \* what a reader of the key gets
    kept,           \* the values of the key that a power loss may leave
    firm,           \* a power loss cannot take the store's directory away
    call,           \* each caller's request, or NoCall
    applied,        \* ... has taken effect
    answer,         \* ... was answered: "ok", "conflict", "error"; else "none"
    late            \* requests under way whose caller no longer waits

atomicVars == <<object, kept, firm, call, applied, answer, late>>

NoCall == [key |-> Absent, expect |-> Absent, data |-> Absent]
Requests == [key : Key, expect : Data \cup {Absent}, data : Data]

Waits(c) == call[c] # NoCall /\ answer[c] = "none"

AtomicInit ==
    /\ object = [k \in Key |-> Absent]
    /\ kept = [k \in Key |-> {Absent}]
    /\ firm \in BOOLEAN
    /\ call = [c \in Caller |-> NoCall]
    /\ applied = [c \in Caller |-> FALSE]
    /\ answer = [c \in Caller |-> "none"]
    /\ late = {}

Request(c, r) ==
    /\ call[c] = NoCall
    /\ call' = [call EXCEPT ![c] = r]
    /\ UNCHANGED <<object, kept, firm, applied, answer, late>>

(* The write takes effect: surely, or as something a power loss may undo.  *)
Write(r) ==
    /\ object[r.key] = r.expect
    /\ object' = [object EXCEPT ![r.key] = r.data]
    /\ \E old \in {kept[r.key], {}} :
          kept' = [kept EXCEPT ![r.key] = old \cup {r.data}]

Apply(c) ==
    /\ Waits(c)
    /\ Write(call[c])
    /\ applied' = [applied EXCEPT ![c] = TRUE]
    /\ UNCHANGED <<firm, call, answer, late>>

ApplyLate(r) ==
    /\ r \in late
    /\ Write(r)
    /\ UNCHANGED <<firm, call, applied, answer, late>>

(* An acknowledged write took effect, and what the key holds now is safe;  *)
(* other keys may become so along with it.                                 *)
Acknowledge(c) ==
    /\ Waits(c)
    /\ \/ applied[c] /\ UNCHANGED object
       \/ /\ object[call[c].key] = call[c].expect
          /\ object' = [object EXCEPT ![call[c].key] = call[c].data]
    /\ \E safe \in SUBSET Key :
          /\ call[c].key \in safe
          /\ kept' = [k \in Key |-> IF k \in safe THEN {object'[k]} ELSE kept[k]]
    /\ answer' = [answer EXCEPT ![c] = "ok"]
    /\ UNCHANGED <<firm, call, applied, late>>

Refuse(c) ==
    /\ Waits(c)
    /\ object[call[c].key] # call[c].expect
    /\ answer' = [answer EXCEPT ![c] = "conflict"]
    /\ UNCHANGED <<object, kept, firm, call, applied, late>>

(* An error says nothing about what happened, or about what still may.     *)
Fail(c) ==
    /\ Waits(c)
    /\ answer' = [answer EXCEPT ![c] = "error"]
    /\ late' \in {late, late \cup {call[c]}}
    /\ UNCHANGED <<object, kept, firm, call, applied>>

(* The caller takes its answer, or its process dies without one.           *)
Leave(c) ==
    /\ call[c] # NoCall
    /\ call' = [call EXCEPT ![c] = NoCall]
    /\ applied' = [applied EXCEPT ![c] = FALSE]
    /\ answer' = [answer EXCEPT ![c] = "none"]
    /\ late' \in {late, late \cup {call[c]}}
    /\ UNCHANGED <<object, kept, firm>>

BecomesFirm ==
    /\ firm' = TRUE
    /\ UNCHANGED <<object, kept, call, applied, answer, late>>

(* A power loss ends every caller.  A store that is not firm may be empty  *)
(* afterwards; otherwise each key has a value it was allowed to keep.      *)
PowerLoss ==
    /\ \/ object' \in [Key -> Data \cup {Absent}] /\ firm' \in {firm, TRUE}
          /\ \A k \in Key : object'[k] \in kept[k]
       \/ ~firm /\ object' = [k \in Key |-> Absent] /\ firm' = FALSE
    /\ kept' = [k \in Key |-> {object'[k]}]
    /\ call' = [c \in Caller |-> NoCall]
    /\ applied' = [c \in Caller |-> FALSE]
    /\ answer' = [c \in Caller |-> "none"]
    /\ UNCHANGED late

AtomicNext ==
    \/ \E c \in Caller :
          \/ \E r \in Requests : Request(c, r)
          \/ Apply(c) \/ Acknowledge(c) \/ Refuse(c) \/ Fail(c) \/ Leave(c)
    \/ \E r \in late : ApplyLate(r)
    \/ BecomesFirm \/ PowerLoss

AtomicSpec == AtomicInit /\ [][AtomicNext]_atomicVars

============================================================================
