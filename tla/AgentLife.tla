----------------------------- MODULE AgentLife -----------------------------
(***************************************************************************)
(* The life of an agent: AgentServer.start(), stop() and _cleanup(), and   *)
(* _handle_bridge() with _handle_bridge_inner() around the frames, of      *)
(* networkusb/agent/server.py.  start() and stop() each run _cleanup(), at *)
(* the same time over the same sets; cpc tells where each of them waits.   *)
(* hp[e] is the await the handler of connection e is at.  A cancellation   *)
(* of start() (asyncio.run() makes one of an interrupt) finds it binding   *)
(* or serving.                                                             *)
(***************************************************************************)
EXTENDS Dialogue

CONSTANT MaxSess    \* bound on the sessions of one connection

ASSUME AgentLifeAssumption == MaxSess \in Nat

VARIABLES
    cpc,            \* where start() and stop() are
    waits,          \* waits[k]: the handlers that k's gather() waits for
    server,         \* _server: "none", "open", or "closing" after close()
    stopEvent,      \* _stop_event
    tasks,          \* _bridge_tasks
    hp,             \* the await of a connection's handler
    leaving,        \* handlers in the finally block of _handle_bridge_inner()
    hcancel,        \* handlers that are cancelled and do not know yet
    sess            \* sess[e]: how many sessions are in the map of e

cleanupVars == <<cpc, waits, server, stopEvent>>
handlerVars == <<tasks, hp, leaving, hcancel, sess>>
agentVars == <<cleanupVars, handlerVars>>

Runners == {"start", "stop"}
Phases == {"none", "tls", "created", "auth", "serve", "join", "uxClose",
           "writerWait", "final", "ended"}

AgentInit ==
    /\ cpc = [k \in Runners |-> IF k = "start" THEN "binding" ELSE "idle"]
    /\ waits = [k \in Runners |-> {}]
    /\ server = "none"
    /\ stopEvent = FALSE
    /\ tasks = {} /\ leaving = {} /\ hcancel = {}
    /\ hp = [e \in Conns |-> "none"]
    /\ sess = [e \in Conns |-> 0]

Closing(S) == aend' = [e \in Conns |-> IF e \in S THEN Shut(aend[e]) ELSE aend[e]]
Moves(e, phase) == hp' = [hp EXCEPT ![e] = phase]

-----------------------------------------------------------------------------
(* _cleanup() *)

(* _bridge_writers: a handler is in it from its first step to its last     *)
(* finally block.                                                          *)
Writers == {e \in Conns : hp[e] \in {"auth", "serve", "join", "uxClose", "writerWait"}}

(* Step 3: the listener is closed and waited for, 2 s at most.             *)
ClosesListener(k) ==
    /\ server' = IF server = "none" THEN "none" ELSE "closing"
    /\ cpc' = [cpc EXCEPT ![k] = IF server = "none" THEN "ended" ELSE "waitClosed"]

(* Mutant of CleansUp: the handlers are cancelled, but their connections   *)
(* left open.                                                              *)
CleansUpTasks(k) ==
    /\ hcancel' = hcancel \cup tasks
    /\ waits' = [waits EXCEPT ![k] = tasks]
    /\ \/ tasks # {} /\ cpc' = [cpc EXCEPT ![k] = "gather"] /\ UNCHANGED server
       \/ tasks = {} /\ ClosesListener(k)
    /\ UNCHANGED <<aend, tasks>>

(* Steps 1 and 2: every connection is closed, every handler cancelled and  *)
(* gathered.                                                               *)
CleansUp(k) ==
    /\ Closing(Writers)
    /\ hcancel' = hcancel \cup tasks
    /\ waits' = [waits EXCEPT ![k] = tasks]
    /\ \/ tasks # {} /\ cpc' = [cpc EXCEPT ![k] = "gather"] /\ UNCHANGED server
       \/ tasks = {} /\ ClosesListener(k)
    /\ UNCHANGED tasks

Gathered(k) ==
    /\ cpc[k] = "gather"
    /\ \A e \in waits[k] : hp[e] = "ended"
    /\ tasks' = {}
    /\ ClosesListener(k)
    /\ UNCHANGED <<lineVars, waits, stopEvent, hp, leaving, hcancel, sess>>

ServerClosed(k) ==
    /\ cpc[k] = "waitClosed"
    /\ server' = "none"
    /\ cpc' = [cpc EXCEPT ![k] = "ended"]
    /\ UNCHANGED <<lineVars, waits, stopEvent, handlerVars>>

-----------------------------------------------------------------------------
(* start() and stop() *)

(* The listener is there; the event is cleared, set or not. *)
Bound ==
    /\ cpc["start"] = "binding"
    /\ server' = "open"
    /\ stopEvent' = FALSE
    /\ cpc' = [cpc EXCEPT !["start"] = "serving"]
    /\ UNCHANGED <<lineVars, waits, handlerVars>>

(* start_server() raises or is cancelled. *)
BindFails ==
    /\ cpc["start"] = "binding"
    /\ cpc' = [cpc EXCEPT !["start"] = "ended"]
    /\ UNCHANGED <<lineVars, waits, server, stopEvent, handlerVars>>

Woken == cpc["start"] = "serving" /\ stopEvent

(* The event is set: the finally block. *)
StopSeen ==
    /\ Woken
    /\ CleansUp("start")
    /\ UNCHANGED <<bend, said, cut, stopEvent, hp, leaving, sess>>

(* start() is cancelled while it waits for the event. *)
Interrupted ==
    /\ cpc["start"] = "serving"
    /\ CleansUp("start")
    /\ UNCHANGED <<bend, said, cut, stopEvent, hp, leaving, sess>>

StopCalled ==
    /\ cpc["stop"] = "idle"
    /\ stopEvent' = TRUE
    /\ CleansUp("stop")
    /\ UNCHANGED <<bend, said, cut, hp, leaving, sess>>

-----------------------------------------------------------------------------
(* A connection up to AUTH *)

(* The listener accepts; TLS comes next. *)
Admits(e) ==
    /\ server = "open"
    /\ hp[e] = "none"
    /\ aend' = [aend EXCEPT ![e] = "open"]
    /\ Moves(e, "tls")
    /\ UNCHANGED <<cleanupVars, tasks, leaving, hcancel, sess>>

(* The handler's task is created, whatever has become of the listener ...  *)
HandshakeDone(e) ==
    /\ hp[e] = "tls"
    /\ Moves(e, "created")
    /\ UNCHANGED <<lineVars, cleanupVars, tasks, leaving, hcancel, sess>>

(* ... or TLS fails, or takes too long. *)
HandshakeFails(e) ==
    /\ hp[e] = "tls"
    /\ Moves(e, "ended")
    /\ Closing({e})
    /\ UNCHANGED <<bend, said, cut, cleanupVars, tasks, leaving, hcancel, sess>>

HandlerStarts(e) ==
    /\ hp[e] = "created"
    /\ tasks' = tasks \cup {e}
    /\ Moves(e, "auth")
    /\ UNCHANGED <<lineVars, cleanupVars, leaving, hcancel, sess>>

(* The finally block of _handle_bridge(). *)
Leaves(e) ==
    /\ Moves(e, "final")
    /\ tasks' = tasks \ {e}
    /\ Closing({e})

(* OK goes out; on a connection that is being closed it is dropped, and    *)
(* drain() may raise.                                                      *)
Authenticates(e) ==
    /\ hp[e] = "auth" /\ e \notin hcancel
    /\ said[e] = "AUTH"
    /\ said' = [said EXCEPT ![e] = IF aend[e] = "open" THEN "OK" ELSE @]
    /\ \/ Moves(e, "serve") /\ UNCHANGED <<aend, tasks>>
       \/ aend[e] = "closed" /\ Leaves(e)
    /\ UNCHANGED <<bend, cut, cleanupVars, leaving, hcancel, sess>>

(* Mutant of Rejects: there is no time limit. *)
RejectsLineOnly(e) ==
    /\ hp[e] = "auth" /\ e \notin hcancel
    /\ \/ said[e] = "AUTH" \/ aend[e] = "closed"
       \/ bend[e] = "closed" /\ e \notin cut
    /\ Leaves(e)
    /\ UNCHANGED <<bend, said, cut, cleanupVars, leaving, hcancel, sess>>

(* A line that is not AUTH with the token, the end of the connection, or   *)
(* neither for 10 s.                                                       *)
Rejects(e) ==
    /\ hp[e] = "auth" /\ e \notin hcancel
    /\ said' = [said EXCEPT ![e] = IF @ = "AUTH" THEN "FAIL" ELSE @]
    /\ Leaves(e)
    /\ UNCHANGED <<bend, cut, cleanupVars, leaving, hcancel, sess>>

-----------------------------------------------------------------------------
(* The dispatch loop, as far as it opens and closes sessions *)

SessionOpens(e) ==
    /\ hp[e] = "serve" /\ e \notin hcancel
    /\ bend[e] = "open" /\ e \notin cut
    /\ sess[e] < MaxSess
    /\ sess' = [sess EXCEPT ![e] = @ + 1]
    /\ UNCHANGED <<lineVars, cleanupVars, tasks, hp, leaving, hcancel>>

(* usbmuxd closes a session: its relay takes it out of the map.            *)
SessionEnds(e) ==
    /\ sess[e] > 0
    /\ sess' = [sess EXCEPT ![e] = @ - 1]
    /\ UNCHANGED <<lineVars, cleanupVars, tasks, hp, leaving, hcancel>>

(* Mutant of ClosesSession: the id need not be in the map. *)
ClosesSessionUnknown(e) ==
    /\ sess' = [sess EXCEPT ![e] = @ - 1]
    /\ Moves(e, "join")

(* close_session(), up to the await of the relay. *)
ClosesSession(e) ==
    /\ sess[e] > 0
    /\ sess' = [sess EXCEPT ![e] = @ - 1]
    /\ Moves(e, "join")

CloseTaken(e) ==
    /\ hp[e] = "serve" /\ e \notin hcancel
    /\ ClosesSession(e)
    /\ UNCHANGED <<lineVars, cleanupVars, tasks, leaving, hcancel>>

(* The relay is over.  UsbmuxdSession.close() ignores the CancelledError   *)
(* it meets here, be it the relay's or the handler's own.                  *)
RelayJoined(e) ==
    /\ hp[e] = "join"
    /\ hcancel' = hcancel \ {e}
    /\ Moves(e, "uxClose")
    /\ UNCHANGED <<lineVars, cleanupVars, tasks, leaving, sess>>

(* Mutant of Finally: one session is forgotten. *)
FinallyButOne(e) ==
    /\ leaving' = leaving \cup {e}
    /\ \/ sess[e] > 1 /\ ClosesSession(e) /\ UNCHANGED aend
       \/ sess[e] <= 1 /\ Moves(e, "writerWait") /\ Closing({e}) /\ UNCHANGED sess

(* The finally block: the next session, or the connection.                 *)
Finally(e) ==
    /\ leaving' = leaving \cup {e}
    /\ \/ ClosesSession(e) /\ UNCHANGED aend
       \/ sess[e] = 0 /\ Moves(e, "writerWait") /\ Closing({e}) /\ UNCHANGED sess

UxClosed(e) ==
    /\ hp[e] = "uxClose" /\ e \notin hcancel
    /\ \/ e \in leaving /\ Finally(e)
       \/ e \notin leaving /\ Moves(e, "serve") /\ UNCHANGED <<aend, leaving, sess>>
    /\ UNCHANGED <<bend, said, cut, cleanupVars, tasks, hcancel>>

(* read_frame() or a send meets the end of the connection. *)
LoopEnds(e) ==
    /\ hp[e] = "serve" /\ e \notin hcancel
    /\ AgentSeesEnd(e) \/ aend[e] = "closed"
    /\ Finally(e)
    /\ UNCHANGED <<bend, said, cut, cleanupVars, tasks, hcancel>>

InLoop(e) == hp[e] = "serve" \/ (hp[e] \in {"join", "uxClose"} /\ e \notin leaving)

(* Mutant of Watchdog: it looks only while a frame is read. *)
WatchdogOfRead(e) ==
    /\ hp[e] = "serve" /\ ~AgentSeesEnd(e)
    /\ aend[e] = "open"
    /\ Closing({e})
    /\ UNCHANGED <<bend, said, cut, agentVars>>

(* heartbeat_watchdog() has missed the heartbeats. *)
Watchdog(e) ==
    /\ InLoop(e)
    /\ aend[e] = "open"
    /\ Closing({e})
    /\ UNCHANGED <<bend, said, cut, agentVars>>

WriterClosed(e) ==
    /\ hp[e] = "writerWait" /\ e \notin hcancel
    /\ Leaves(e)
    /\ UNCHANGED <<bend, said, cut, cleanupVars, leaving, hcancel, sess>>

(* The bounded wait of the last finally block is over. *)
HandlerEnds(e) ==
    /\ hp[e] = "final"
    /\ Moves(e, "ended")
    /\ UNCHANGED <<lineVars, cleanupVars, tasks, leaving, hcancel, sess>>

(* The handler's cancellation is delivered.  In the loop it leads to the   *)
(* finally block; inside that block, to its caller's at once, whatever is  *)
(* still open.                                                             *)
Cancelled(e) ==
    /\ e \in hcancel
    /\ hcancel' = hcancel \ {e}
    /\ \/ /\ hp[e] \in {"serve", "uxClose"} /\ e \notin leaving
          /\ Finally(e)
          /\ UNCHANGED tasks
       \/ /\ hp[e] \in {"auth", "writerWait"} \/ (hp[e] = "uxClose" /\ e \in leaving)
          /\ Leaves(e)
          /\ UNCHANGED <<leaving, sess>>
    /\ UNCHANGED <<bend, said, cut, cleanupVars>>

-----------------------------------------------------------------------------
(* Steps of a handler that come as soon as they can. *)
HandlerSteps(e) ==
    \/ HandlerStarts(e) \/ Authenticates(e) \/ Rejects(e)
    \/ UxClosed(e) \/ WriterClosed(e) \/ HandlerEnds(e) \/ Cancelled(e)

AgentSteps ==
    \/ Bound \/ BindFails \/ StopSeen \/ Interrupted \/ StopCalled
    \/ \E k \in Runners : Gathered(k) \/ ServerClosed(k)
    \/ \E e \in Conns :
          \/ HandshakeDone(e) \/ HandshakeFails(e) \/ HandlerSteps(e)
          \/ SessionOpens(e) \/ SessionEnds(e) \/ CloseTaken(e)
          \/ RelayJoined(e) \/ LoopEnds(e)

AgentTypeOK ==
    /\ cpc \in [Runners -> {"idle", "binding", "serving", "gather", "waitClosed", "ended"}]
    /\ waits \in [Runners -> SUBSET Conns]
    /\ server \in {"none", "open", "closing"}
    /\ stopEvent \in BOOLEAN
    /\ tasks \in SUBSET Conns
    /\ hp \in [Conns -> Phases]
    /\ leaving \in SUBSET Conns
    /\ hcancel \in SUBSET Conns
    /\ sess \in [Conns -> 0 .. MaxSess]
=============================================================================
