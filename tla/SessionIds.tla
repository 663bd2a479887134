----------------------------- MODULE SessionIds -----------------------------
(***************************************************************************)
(* SessionIdAllocator of networkusb/protocol.py, used by the bridge for    *)
(* every local client it accepts.  next_id() walks a cyclic counter and    *)
(* skips the ids that are keys of _local_clients.  The walk runs without   *)
(* an await, so no id is released while it lasts; it is still modelled one *)
(* iteration at a time, because what it has skipped is what its error      *)
(* claims to know.                                                         *)
(***************************************************************************)
EXTENDS Naturals

CONSTANTS
    MaxId,      \* the largest id: 2^32 - 1 in the code
    Starts      \* arguments the constructor may be given

ASSUME IdAssumption ==
    /\ MaxId \in Nat \ {0}
    /\ Starts \subseteq Nat

VARIABLES
    current,    \* _current, the next candidate
    active,     \* the keys of _local_clients
    pc,         \* "idle", "scan" while next_id() runs, "exhausted" after its error
    tries,      \* iterations next_id() has done
    seen        \* history, per id: the ids that next_id() has issued, or found
                \* in use, since it last issued this one (Ids: it never has)

vars == <<current, active, pc, tries, seen>>

Ids == 1 .. MaxId

(* `start & 0xFFFFFFFF or 1` *)
InitialId(start) ==
    LET low == start % (MaxId + 1) IN IF low = 0 THEN 1 ELSE low

(* Mutant of Advance: the test for 0 after the increment is missing. *)
AdvanceKeepsZero(id) == (id + 1) % (MaxId + 1)

(* Mutant of Advance: every search starts again at the lowest id. *)
AdvanceRestarts(id) == IF id \in active THEN (id % MaxId) + 1 ELSE 1

(* `(_current + 1) & 0xFFFFFFFF`, with 0 replaced by 1 *)
Advance(id) ==
    LET low == (id + 1) % (MaxId + 1) IN IF low = 0 THEN 1 ELSE low

Init ==
    /\ current \in {InitialId(start) : start \in Starts}
    /\ active = {}
    /\ pc = "idle"
    /\ tries = 0
    /\ seen = [id \in Ids |-> Ids]

(* A local client was accepted and its handler calls next_id(). *)
Call ==
    /\ pc = "idle"
    /\ pc' = "scan"
    /\ tries' = 0
    /\ UNCHANGED <<current, active, seen>>

(* The candidate is the id of an open session: try the next one. *)
Skip ==
    /\ pc = "scan"
    /\ tries < MaxId
    /\ current \in active
    /\ current' = Advance(current)
    /\ tries' = tries + 1
    /\ seen' = [id \in Ids |-> seen[id] \cup {current}]
    /\ UNCHANGED <<active, pc>>

(* The candidate is free: next_id() returns it and the handler makes it a  *)
(* key of _local_clients in the same step.                                 *)
Issue ==
    /\ pc = "scan"
    /\ tries < MaxId
    /\ current \notin active
    /\ current' = Advance(current)
    /\ active' = active \cup {current}
    /\ seen' = [id \in Ids |-> IF id = current THEN {} ELSE seen[id] \cup {current}]
    /\ pc' = "idle"
    /\ UNCHANGED tries

(* Mutant of Exhaust: the range is one iteration short. *)
ExhaustEarly ==
    /\ pc = "scan"
    /\ tries >= MaxId - 1
    /\ pc' = "exhausted"
    /\ UNCHANGED <<current, active, tries, seen>>

(* The loop ran out of iterations: RuntimeError in the handler's task. *)
Exhaust ==
    /\ pc = "scan"
    /\ tries = MaxId
    /\ pc' = "exhausted"
    /\ UNCHANGED <<current, active, tries, seen>>

(* The failed handler is over; others go on. *)
Recover ==
    /\ pc = "exhausted"
    /\ pc' = "idle"
    /\ UNCHANGED <<current, active, tries, seen>>

(* A session ends and its id is popped from _local_clients. *)
Release(id) ==
    /\ pc = "idle"
    /\ id \in active
    /\ active' = active \ {id}
    /\ UNCHANGED <<current, pc, tries, seen>>

Next ==
    \/ Call \/ Skip \/ Issue \/ Exhaust \/ Recover
    \/ \E id \in Ids : Release(id)

Spec == Init /\ [][Next]_vars

-----------------------------------------------------------------------------
(* Every id is in 1..MaxId: 0 is the id of HEARTBEAT frames and is never a *)
(* session's, whatever the constructor was given and however often the     *)
(* counter has wrapped.                                                    *)
TypeOK ==
    /\ current \in Ids
    /\ active \subseteq Ids
    /\ pc \in {"idle", "scan", "exhausted"}
    /\ tries \in 0 .. MaxId
    /\ seen \in [Ids -> SUBSET Ids]

(* next_id() gives up only when every id is in use: the number of its      *)
(* iterations, the wrap that leaves out 0 and the skip test together visit *)
(* each id exactly once.                                                   *)
NoSpuriousExhaustion == pc = "exhausted" => active = Ids

(* How far the counter is past an id: 1 just after it was a candidate,     *)
(* MaxId when it is the candidate now.                                     *)
Past(id) == IF id < current THEN current - id ELSE current + MaxId - id

(* The ids this call has already looked at. *)
Scanned == {id \in Ids : Past(id) <= tries}

(* What makes NoSpuriousExhaustion inductive: every id the running call    *)
(* has looked at was in use, and still is.                                 *)
ScanInvariant == pc \in {"scan", "exhausted"} => Scanned \subseteq active

(* The end of a call leaves the loop's full turn behind it. *)
FullTurn == pc = "exhausted" => tries = MaxId

(* An id is issued again only after every other id was issued, or found    *)
(* in use, since its last issue: the counter goes on from the last id      *)
(* instead of looking for the lowest free one.  The turn is counted from   *)
(* the issue, not from the release: the id of a session that outlasts it   *)
(* may come back at once, with frames of that session still under way.     *)
LateReuse ==
    [][\A id \in active' \ active : Ids \ {id} \subseteq seen[id]]_vars
=============================================================================
