----------------------------- MODULE FlowControl -----------------------------
(***************************************************************************)
(* SessionFlowControl (networkusb/flow.py): a queue of payloads per        *)
(* session, bounded in bytes, in payloads and in sessions.  A queue is an  *)
(* object of its own: dequeue() holds on to the one it found while it      *)
(* waits, remove_session() and clear() only forget it, and a later call    *)
(* makes another one for the same id.  A payload is its length.            *)
(***************************************************************************)
EXTENDS Naturals, Sequences, FiniteSets

CONSTANTS
    Sids,           \* session ids
    Tasks,          \* the tasks that call dequeue()
    Lengths,        \* lengths of payloads
    MaxSessions,    \* max_sessions
    MaxBytes,       \* max_queue_bytes
    MaxItems,       \* the maxsize of a queue (100)
    MaxQueues       \* bound on the queues made

ASSUME FlowAssumption ==
    /\ Sids # {}
    /\ Lengths \subseteq Nat
    /\ MaxSessions \in Nat /\ MaxBytes \in Nat
    /\ MaxItems \in Nat \ {0}   \* 0 would mean no limit
    /\ MaxQueues \in Nat

VARIABLES
    made,           \* queues made so far
    queues,         \* _queues: the queue of a session, 0 for no entry
    counted,        \* the keys of _queue_bytes ...
    bytes,          \* ... and its values, 0 for a missing key (a defaultdict)
    items,          \* items[q]: the payloads in queue q
    held,           \* held[k]: the session and the queue a dequeue() waits on
    strayed         \* history: sessions another queue's payload was taken off

vars == <<made, queues, counted, bytes, items, held, strayed>>

Queues == 1 .. MaxQueues
Idle == [sid |-> CHOOSE s \in Sids : TRUE, q |-> 0]

Init ==
    /\ made = 0
    /\ queues = [s \in Sids |-> 0]
    /\ counted = {}
    /\ bytes = [s \in Sids |-> 0]
    /\ items = [q \in Queues |-> <<>>]
    /\ held = [k \in Tasks |-> Idle]
    /\ strayed = {}

Registered == {s \in Sids : queues[s] # 0}

-----------------------------------------------------------------------------
(* get_or_create_queue() for a session that has none.                      *)
Creates(s) ==
    /\ Cardinality(Registered) < MaxSessions
    /\ made < MaxQueues
    /\ made' = made + 1
    /\ queues' = [queues EXCEPT ![s] = made + 1]
    /\ counted' = counted \cup {s}
    /\ strayed' = strayed \ {s}

GetOrCreate(s) ==
    /\ s \notin Registered
    /\ Creates(s)
    /\ bytes' = [bytes EXCEPT ![s] = 0]
    /\ UNCHANGED <<items, held>>

(* The count once the session has a queue. *)
Count(s) == IF s \in Registered THEN bytes[s] ELSE 0

(* Mutant of Fits: what is there already is not counted. *)
FitsAlone(s, n) == n <= MaxBytes

Fits(s, n) == Count(s) + n <= MaxBytes

(* enqueue() returns True: within both limits. *)
Enqueue(s, n) ==
    LET q == queues'[s]
    IN /\ \/ s \in Registered /\ UNCHANGED <<made, queues, counted, strayed>>
          \/ s \notin Registered /\ Creates(s)
       /\ Fits(s, n)
       /\ Len(items[q]) < MaxItems
       /\ items' = [items EXCEPT ![q] = Append(@, n)]
       /\ bytes' = [bytes EXCEPT ![s] = Count(s) + n]
       /\ UNCHANGED held

(* It returns False.  The queue of a new session stays. *)
Drop(s, n) ==
    /\ \/ /\ s \in Registered
          /\ ~Fits(s, n) \/ Len(items[queues[s]]) = MaxItems
          /\ UNCHANGED <<made, queues, counted, bytes, strayed>>
       \/ /\ s \notin Registered /\ ~Fits(s, n)
          /\ Creates(s)
          /\ bytes' = [bytes EXCEPT ![s] = 0]
    /\ UNCHANGED <<items, held>>

-----------------------------------------------------------------------------
(* dequeue(): the payload is taken, and the count of the id it was asked   *)
(* for reduced, whatever queue the id has by now.                          *)

(* Mutant of LessBytes: without max(0, ...). *)
LessBytesOnly(b, n) == b - n

LessBytes(b, n) == IF n > b THEN 0 ELSE b - n

(* Mutant of Takes: the count is left alone. *)
TakesOnly(s, q) ==
    /\ items[q] # <<>>
    /\ items' = [items EXCEPT ![q] = Tail(@)]
    /\ counted' = counted \cup {s}
    /\ strayed' = IF queues[s] = q THEN strayed ELSE strayed \cup {s}
    /\ UNCHANGED bytes

Takes(s, q) ==
    /\ items[q] # <<>>
    /\ items' = [items EXCEPT ![q] = Tail(@)]
    /\ counted' = counted \cup {s}
    /\ bytes' = [bytes EXCEPT ![s] = LessBytes(@, Head(items[q]))]
    /\ strayed' = IF queues[s] = q THEN strayed ELSE strayed \cup {s}

Dequeue(k, s) ==
    /\ held[k] = Idle
    /\ s \in Registered
    /\ \/ Takes(s, queues[s]) /\ UNCHANGED held
       \/ /\ items[queues[s]] = <<>>
          /\ held' = [held EXCEPT ![k] = [sid |-> s, q |-> queues[s]]]
          /\ UNCHANGED <<items, counted, bytes, strayed>>
    /\ UNCHANGED <<made, queues>>

(* A waiting task gets a payload once its queue has one; of several tasks, *)
(* and of those that come meanwhile, any may be the first.                 *)
Resumes(k) ==
    /\ held[k] # Idle
    /\ Takes(held[k].sid, held[k].q)
    /\ held' = [held EXCEPT ![k] = Idle]
    /\ UNCHANGED <<made, queues>>

(* It is cancelled while it waits. *)
Cancelled(k) ==
    /\ held[k] # Idle
    /\ held' = [held EXCEPT ![k] = Idle]
    /\ UNCHANGED <<made, queues, counted, bytes, items, strayed>>

-----------------------------------------------------------------------------
(* Mutant of Forgets: the count stays. *)
ForgetsOnly(S) ==
    /\ queues' = [s \in Sids |-> IF s \in S THEN 0 ELSE queues[s]]
    /\ strayed' = strayed \ S
    /\ UNCHANGED <<made, counted, bytes, items, held>>

Forgets(S) ==
    /\ queues' = [s \in Sids |-> IF s \in S THEN 0 ELSE queues[s]]
    /\ counted' = counted \ S
    /\ bytes' = [s \in Sids |-> IF s \in S THEN 0 ELSE bytes[s]]
    /\ strayed' = strayed \ S
    /\ UNCHANGED <<made, items, held>>

RemoveSession(s) == s \in Registered /\ Forgets({s})
Clear == counted # {} /\ Forgets(Sids)

Next ==
    \/ Clear
    \/ \E s \in Sids :
          \/ GetOrCreate(s) \/ RemoveSession(s)
          \/ \E n \in Lengths : Enqueue(s, n) \/ Drop(s, n)
          \/ \E k \in Tasks : Dequeue(k, s)
    \/ \E k \in Tasks : Resumes(k) \/ Cancelled(k)

Spec == Init /\ [][Next]_vars

-----------------------------------------------------------------------------
(* The sum of a sequence of lengths, and the bytes of a queue's payloads.  *)
Total(ps) ==
    LET upTo[n \in 0 .. Len(ps)] == IF n = 0 THEN 0 ELSE upTo[n - 1] + ps[n]
    IN  upTo[Len(ps)]
BytesIn(q) == Total(items[q])

TypeOK ==
    /\ made \in 0 .. MaxQueues
    /\ queues \in [Sids -> 0 .. made]
    /\ counted \in SUBSET Sids
    /\ bytes \in [Sids -> Nat]
    /\ items \in [Queues -> Seq(Lengths)]
    /\ held \in [Tasks -> [sid : Sids, q : 0 .. made]]
    /\ strayed \in SUBSET Sids

(* The count never exceeds what is queued, so that enqueue() refuses no    *)
(* payload there is room for, also after a dequeue() of a removed queue.   *)
NeverOvercounts == \A s \in Registered : bytes[s] <= BytesIn(queues[s])

(* The count is exact and the limit of bytes holds, unless a dequeue() of  *)
(* a removed queue has reduced the count of its successor.                 *)
ExactUnlessStrayed ==
    \A s \in Registered \ strayed :
        bytes[s] = BytesIn(queues[s]) /\ BytesIn(queues[s]) <= MaxBytes

(* A removed session keeps no count, unless such a dequeue() made one.     *)
ReleasesCounts == counted \subseteq Registered \cup strayed
=============================================================================
