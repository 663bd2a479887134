----------------------------- MODULE BridgeLife -----------------------------
(***************************************************************************)
(* The life of a bridge: BridgeClient.run() with _connect_and_serve(),     *)
(* _start_unix_server() and _teardown() of networkusb/bridge/client.py.    *)
(* It dials, authenticates, offers the UNIX socket, serves until the       *)
(* connection ends, tears down, sleeps and dials again; stop() and a       *)
(* cancellation (what asyncio.run() makes of an interrupt) may come at any *)
(* of its awaits.  bpc is the await run()'s task is at.                    *)
(***************************************************************************)
EXTENDS Dialogue

CONSTANTS
    MaxCancels,         \* bound on cancellations of run()
    WaitClosedBlocks    \* Server.wait_closed() waits for accepted connections
                        \* (Python 3.12 and later)

ASSUME BridgeLifeAssumption ==
    /\ MaxCancels \in Nat
    /\ WaitClosedBlocks \in BOOLEAN

VARIABLES
    bpc,            \* the await run() is at
    running,        \* _running
    cancelling,     \* cancel() was called and is not delivered yet
    cancels,        \* how often it was called
    dialled,        \* the newest connection: `writer` of _connect_and_serve()
    agentWriter,    \* _agent_writer, 0 for None
    hb,             \* the heartbeat task
    unixServer,     \* _unix_server: "none", "open", or "closing" after close()
    socketFile,     \* something is at socket_path
    active,         \* active.json exists
    attached,       \* the programs that the server in _unix_server has accepted ...
    former,         \* ... and those of servers before it: "accepted" if there is
                    \* one whose handler has not run yet, "registered" if there
                    \* is one with a writer in _local_clients
    unlisted        \* history: the last _start_unix_server() raised with its server
                    \* open, and nothing has been torn down since

sockVars == <<unixServer, socketFile, active, attached, former, unlisted>>
bridgeVars == <<bpc, running, cancelling, cancels, dialled, agentWriter, hb,
                sockVars>>

BridgeInit ==
    /\ bpc = "dial"
    /\ running = TRUE
    /\ cancelling = FALSE /\ cancels = 0
    /\ dialled = 0 /\ agentWriter = 0
    /\ hb = "none"
    /\ unixServer = "none"
    /\ socketFile = FALSE /\ active = FALSE
    /\ attached = {} /\ former = {} /\ unlisted = FALSE

-----------------------------------------------------------------------------
(* _teardown() *)

ClosingEnds(S) == [e \in Conns |-> IF e \in S THEN Shut(bend[e]) ELSE bend[e]]

(* The registered programs are closed; one that is only accepted is not.   *)
ClosesPrograms ==
    /\ attached' = {}
    /\ former' = (attached \cup former) \ {"registered"}

(* Mutant of Releases: active.json stays. *)
ReleasesButMetadata(S) ==
    /\ unixServer' = "none"
    /\ socketFile' = FALSE
    /\ active' = active
    /\ unlisted' = FALSE
    /\ ClosesPrograms
    /\ bend' = ClosingEnds(S \cup {agentWriter})
    /\ agentWriter' = 0

(* What follows wait_closed(): the socket file and active.json go, the     *)
(* local programs and the connection to the agent are closed.              *)
Releases(S) ==
    /\ unixServer' = "none"
    /\ socketFile' = FALSE
    /\ active' = FALSE
    /\ unlisted' = FALSE
    /\ ClosesPrograms
    /\ bend' = ClosingEnds(S \cup {agentWriter})
    /\ agentWriter' = 0

(* Up to wait_closed(), and on to its end where that does not wait.  It    *)
(* waits for the programs of its own server.  The ends in S were closed    *)
(* before.                                                                 *)
WaitsForPrograms == unixServer # "none" /\ WaitClosedBlocks /\ attached # {}

TearsDown(S, waiting, next) ==
    \/ /\ WaitsForPrograms
       /\ bpc' = waiting
       /\ unixServer' = "closing"
       /\ bend' = ClosingEnds(S)
       /\ UNCHANGED <<agentWriter, socketFile, active, attached, former, unlisted>>
    \/ /\ ~WaitsForPrograms
       /\ bpc' = next
       /\ Releases(S)

-----------------------------------------------------------------------------
(* run() *)

(* Mutant of LeavesLoop: nothing is torn down after the loop. *)
LeavesLoopOnly(S) ==
    /\ bpc' = "ended"
    /\ bend' = ClosingEnds(S)
    /\ UNCHANGED <<agentWriter, sockVars>>

(* The loop is left: the final _teardown(). *)
LeavesLoop(S) == TearsDown(S, "final", "ended")

(* _connect_and_serve() raised, with the ends in S closed. *)
Fails(S) ==
    \/ running /\ bpc' = "sleep" /\ bend' = ClosingEnds(S)
               /\ UNCHANGED <<agentWriter, sockVars>>
    \/ ~running /\ LeavesLoop(S)

(* The backoff's sleep is over.  It lasts a second or more: the handler of *)
(* a program that was accepted before the teardown has run by then.        *)
Wakes ==
    /\ bpc = "sleep" /\ ~cancelling
    /\ "accepted" \notin former
    /\ \/ running /\ bpc' = "dial" /\ UNCHANGED <<bend, agentWriter, sockVars>>
       \/ ~running /\ LeavesLoop({})
    /\ UNCHANGED <<aend, said, cut, running, cancelling, cancels, dialled, hb>>

(* The second _teardown() of a cancelled run(): its wait is over. *)
FinalWaitEnds ==
    /\ bpc = "final" /\ ~cancelling
    /\ attached = {}
    /\ bpc' = "ended"
    /\ Releases({})
    /\ UNCHANGED <<aend, said, cut, running, cancelling, cancels, dialled, hb>>

(* stop() *)
Stop ==
    /\ running /\ bpc # "ended"
    /\ running' = FALSE
    /\ UNCHANGED <<lineVars, bpc, cancelling, cancels, dialled, agentWriter, hb,
                   sockVars>>

(* cancel() of run()'s task: delivered where the task waits. *)
Cancel ==
    /\ cancels < MaxCancels
    /\ bpc # "ended" /\ ~cancelling
    /\ cancels' = cancels + 1
    /\ cancelling' = TRUE
    /\ UNCHANGED <<lineVars, bpc, running, dialled, agentWriter, hb, sockVars>>

-----------------------------------------------------------------------------
(* _connect_and_serve() *)

(* TCP connects to a listening agent; TLS comes next. *)
Dials(e) ==
    /\ bpc = "dial" /\ ~cancelling
    /\ e = dialled + 1 /\ e \in Conns
    /\ dialled' = e
    /\ bend' = [bend EXCEPT ![e] = "open"]
    /\ bpc' = "tls"
    /\ UNCHANGED <<said, cut, running, cancelling, cancels, agentWriter, hb,
                   sockVars>>

(* open_connection() raises: nobody listens, or TLS fails ... *)
DialFails ==
    /\ bpc \in {"dial", "tls"} /\ ~cancelling
    /\ Fails(IF bpc = "tls" THEN {dialled} ELSE {})
    /\ UNCHANGED <<aend, said, cut, running, cancelling, cancels, dialled, hb>>

(* ... or _verify_fingerprint() does, which leaves the connection open.    *)
PinFails ==
    /\ bpc = "tls" /\ ~cancelling
    /\ Fails({})
    /\ UNCHANGED <<aend, said, cut, running, cancelling, cancels, dialled, hb>>

SendsAuth ==
    /\ bpc = "tls" /\ ~cancelling
    /\ ~BridgeSeesEnd(dialled)
    /\ said' = [said EXCEPT ![dialled] = "AUTH"]
    /\ bpc' = "auth"
    /\ UNCHANGED <<bend, aend, cut, running, cancelling, cancels, dialled,
                   agentWriter, hb, sockVars>>

(* _start_unix_server() begins by removing what is at the path, if it can. *)
Unlinks ==
    /\ socketFile' \in {FALSE, socketFile}
    /\ UNCHANGED <<unixServer, active, attached, former, unlisted>>

(* Mutant of Authenticated: an _agent_writer that is set is kept. *)
AuthenticatedOnce ==
    /\ bpc = "auth" /\ ~cancelling
    /\ said[dialled] = "OK"
    /\ said' = [said EXCEPT ![dialled] = "nothing"]
    /\ agentWriter' = IF agentWriter = 0 THEN dialled ELSE agentWriter
    /\ bpc' = "listen"
    /\ Unlinks
    /\ UNCHANGED <<bend, aend, cut, running, cancelling, cancels, dialled, hb>>

(* readline() yields OK: _agent_writer is set, the socket comes next.      *)
Authenticated ==
    /\ bpc = "auth" /\ ~cancelling
    /\ said[dialled] = "OK"
    /\ said' = [said EXCEPT ![dialled] = "nothing"]
    /\ agentWriter' = dialled
    /\ bpc' = "listen"
    /\ Unlinks
    /\ UNCHANGED <<bend, aend, cut, running, cancelling, cancels, dialled, hb>>

(* It yields FAIL or the end of the connection, or nothing for 10 s.       *)
AuthFails ==
    /\ bpc = "auth" /\ ~cancelling
    /\ Fails({dialled})
    /\ UNCHANGED <<aend, said, cut, running, cancelling, cancels, dialled, hb>>

(* The socket is bound.  A server that an earlier attempt has left open is *)
(* forgotten, with its programs still attached.                            *)
Binds ==
    /\ unixServer' = "open" /\ socketFile' = TRUE
    /\ attached' = {}
    /\ former' = former \cup attached

(* _start_unix_server() returns.  active.json is written, or the error of  *)
(* writing it ignored; the heartbeat task is started.                      *)
Listens ==
    /\ bpc = "listen" /\ ~cancelling
    /\ Binds
    /\ active' \in {active, TRUE}
    /\ unlisted' = FALSE
    /\ hb' = "runs"
    /\ bpc' = "serve"
    /\ UNCHANGED <<lineVars, running, cancelling, cancels, dialled, agentWriter>>

(* The socket cannot be bound.  The finally block is not active yet: the   *)
(* connection is left open, and _agent_writer set.                         *)
ListenFails ==
    /\ bpc = "listen" /\ ~cancelling
    /\ Fails({})
    /\ UNCHANGED <<aend, said, cut, running, cancelling, cancels, dialled, hb>>

(* The socket is bound, but the directory of active.json cannot be made:   *)
(* the server is left open as well.  If stop() was called the final        *)
(* _teardown() follows at once, before anybody could attach.               *)
MetadataFails ==
    /\ bpc = "listen" /\ ~cancelling
    /\ \/ /\ running /\ bpc' = "sleep"
          /\ Binds
          /\ unlisted' = TRUE
          /\ UNCHANGED <<bend, agentWriter, active>>
       \/ /\ ~running /\ bpc' = "ended"
          /\ Releases({})
    /\ UNCHANGED <<aend, said, cut, running, cancelling, cancels, dialled, hb>>

(* The finally block: the heartbeat task is cancelled and, unless it is    *)
(* over already, waited for; then _teardown().                             *)
AfterServing == IF running' THEN "sleep" ELSE "ended"

LeavesReader ==
    /\ hb' = "none"
    /\ \/ hb = "runs" /\ bpc' = "joinHb" /\ UNCHANGED <<bend, agentWriter, sockVars>>
       \/ hb = "over" /\ TearsDown({}, "teardown", AfterServing)

(* The reader loop meets the end of the connection. *)
ConnectionEnds ==
    /\ bpc = "serve" /\ ~cancelling
    /\ BridgeSeesEnd(dialled)
    /\ running' = running
    /\ LeavesReader
    /\ UNCHANGED <<aend, said, cut, cancelling, cancels, dialled>>

(* A heartbeat could not be sent: its task ends by itself. *)
HbEnds ==
    /\ hb = "runs"
    /\ BridgeSeesEnd(dialled)
    /\ hb' = "over"
    /\ UNCHANGED <<lineVars, bpc, running, cancelling, cancels, dialled,
                   agentWriter, sockVars>>

(* The heartbeat task is over.  "except (CancelledError, Exception): pass" *)
(* is meant for its cancellation, but swallows one of run() as well.       *)
HbJoined ==
    /\ bpc = "joinHb"
    /\ cancelling' = FALSE
    /\ running' = running
    /\ TearsDown({}, "teardown", AfterServing)
    /\ UNCHANGED <<aend, said, cut, cancels, dialled, hb>>

WaitClosedReturns ==
    /\ bpc = "teardown" /\ ~cancelling
    /\ attached = {}
    /\ running' = running
    /\ bpc' = AfterServing
    /\ Releases({})
    /\ UNCHANGED <<aend, said, cut, cancelling, cancels, dialled, hb>>

-----------------------------------------------------------------------------
(* A cancellation is delivered.  run() clears _running once the exception  *)
(* has come up to it; nobody else reads the flag, so it is cleared at once.*)

(* While run() sleeps (_running stays), dials, authenticates or creates    *)
(* the socket.  open_connection() closes what it has opened; the others    *)
(* leave the connection as it is.  In create_unix_server() the socket may  *)
(* be bound already, but _unix_server is not set.                          *)
CancelledBeforeServing ==
    /\ bpc \in {"sleep", "dial", "tls", "auth", "listen"}
    /\ cancelling
    /\ cancelling' = FALSE
    /\ running' = (running /\ bpc = "sleep")
    /\ LeavesLoop(IF bpc = "tls" THEN {dialled} ELSE {})
    /\ UNCHANGED <<aend, said, cut, cancels, dialled, hb>>

(* Mutant of CancelledServing: the exception ends in the loop's            *)
(* "except Exception", as any other does.                                  *)
CancelledServingOnly ==
    /\ bpc = "serve"
    /\ cancelling
    /\ cancelling' = FALSE
    /\ running' = running
    /\ LeavesReader
    /\ UNCHANGED <<aend, said, cut, cancels, dialled>>

(* In the reader loop: the finally block runs as after any other end.      *)
CancelledServing ==
    /\ bpc = "serve"
    /\ cancelling
    /\ cancelling' = FALSE
    /\ running' = FALSE
    /\ LeavesReader
    /\ UNCHANGED <<aend, said, cut, cancels, dialled>>

(* In the finally block's wait_closed(): the teardown is given up, and the *)
(* final one begins.                                                       *)
CancelledInTeardown ==
    /\ bpc = "teardown"
    /\ cancelling
    /\ cancelling' = FALSE
    /\ running' = FALSE
    /\ LeavesLoop({})
    /\ UNCHANGED <<aend, said, cut, cancels, dialled, hb>>

(* In the final wait_closed(): run() raises at once. *)
CancelledInFinal ==
    /\ bpc = "final"
    /\ cancelling
    /\ cancelling' = FALSE
    /\ bpc' = "ended"
    /\ UNCHANGED <<lineVars, running, cancels, dialled, agentWriter, hb, sockVars>>

-----------------------------------------------------------------------------
(* Local programs, the garbage collector and the end of the process *)

LocalAttaches ==
    /\ unixServer = "open" /\ socketFile
    /\ "accepted" \notin attached
    /\ attached' = attached \cup {"accepted"}
    /\ UNCHANGED <<lineVars, bpc, running, cancelling, cancels, dialled,
                   agentWriter, hb, unixServer, socketFile, active, former, unlisted>>

(* _handle_local_client() of an accepted program starts: its writer is     *)
(* registered, or closed again where CONNECT cannot be sent.               *)
Handled(programs) ==
    (programs \ {"accepted"}) \cup (IF agentWriter # 0 THEN {"registered"} ELSE {})

ProgramHandled ==
    /\ \/ "accepted" \in attached /\ attached' = Handled(attached) /\ UNCHANGED former
       \/ "accepted" \in former /\ former' = Handled(former) /\ UNCHANGED attached
    /\ UNCHANGED <<lineVars, bpc, running, cancelling, cancels, dialled,
                   agentWriter, hb, unixServer, socketFile, active, unlisted>>

(* The last program of a kind closes, or its session ends.                 *)
LocalLeaves ==
    /\ \/ \E p \in attached : attached' = attached \ {p} /\ UNCHANGED former
       \/ \E p \in former : former' = former \ {p} /\ UNCHANGED attached
    /\ UNCHANGED <<lineVars, bpc, running, cancelling, cancels, dialled,
                   agentWriter, hb, unixServer, socketFile, active, unlisted>>

(* A connection nothing refers to any more: the StreamWriter may close it  *)
(* when it is collected, and the end of the process does.                  *)
Forgotten(e) ==
    /\ bend[e] = "open"
    /\ e # agentWriter
    /\ e = dialled => bpc \in {"dial", "sleep", "ended"}

Collects(e) ==
    /\ Forgotten(e)
    /\ bend' = ClosingEnds({e})
    /\ UNCHANGED <<aend, said, cut, bridgeVars>>

ProcessExits ==
    /\ bpc = "ended"
    /\ \E e \in Conns : bend[e] = "open"
    /\ bend' = ClosingEnds(Conns)
    /\ UNCHANGED <<aend, said, cut, bridgeVars>>

(* Steps run()'s task takes as soon as it is able to. *)
RunSteps ==
    \/ Wakes \/ FinalWaitEnds \/ DialFails \/ SendsAuth \/ Authenticated \/ AuthFails
    \/ Listens \/ ListenFails \/ MetadataFails
    \/ ConnectionEnds \/ HbJoined \/ WaitClosedReturns
    \/ CancelledBeforeServing \/ CancelledServing \/ CancelledInTeardown
    \/ CancelledInFinal \/ ProcessExits

BridgeSteps ==
    \/ RunSteps \/ PinFails \/ HbEnds
    \/ Stop \/ Cancel \/ LocalAttaches \/ ProgramHandled \/ LocalLeaves
    \/ \E e \in Conns : Collects(e)

BridgePc == {"dial", "tls", "auth", "listen", "serve", "joinHb", "teardown", "sleep",
             "final", "ended"}

BridgeTypeOK ==
    /\ bpc \in BridgePc
    /\ running \in BOOLEAN
    /\ cancelling \in BOOLEAN
    /\ cancels \in 0 .. MaxCancels
    /\ dialled \in Conns \cup {0}
    /\ agentWriter \in Conns \cup {0}
    /\ hb \in {"none", "runs", "over"}
    /\ unixServer \in {"none", "open", "closing"}
    /\ socketFile \in BOOLEAN
    /\ active \in BOOLEAN
    /\ attached \in SUBSET {"accepted", "registered"}
    /\ former \in SUBSET {"accepted", "registered"}
    /\ unlisted \in BOOLEAN
=============================================================================
