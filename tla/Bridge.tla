------------------------------- MODULE Bridge -------------------------------
(***************************************************************************)
(* BridgeClient (networkusb/bridge/client.py): the UNIX socket local       *)
(* programs connect to, one handler task per local client, the loop that   *)
(* reads the agent's frames, the heartbeat task and the teardown.          *)
(*                                                                         *)
(* A step of the model is what a task does between two points where it     *)
(* really waits.  The write lock is never contended (nothing is awaited    *)
(* under it), so a send is one append to the channel; drain() waits only   *)
(* while the channel is over its mark.                                     *)
(***************************************************************************)
EXTENDS Wire, FiniteSets

CONSTANTS
    MaxUp,              \* bound on the pieces the local clients write, in all
    MaxBeats,           \* bound on the heartbeats the bridge sends
    WaitClosedBlocks    \* whether Server.wait_closed() waits for the accepted
                        \* connections (Python 3.12 and later) or returns at
                        \* once after close() (Python 3.11)

ASSUME BridgeAssumption ==
    /\ MaxUp \in Nat
    /\ MaxBeats \in Nat
    /\ WaitClosedBlocks \in BOOLEAN

VARIABLES
    \* the connection to the agent
    bpc,            \* where _connect_and_serve() is
    drained,        \* what the reader loop's drain() waits for: <<id, client>>
    agentWriter,    \* _agent_writer: the connection it writes to, 0 for None
    connCount,      \* connections made so far
    unixServer,     \* whether the UNIX socket accepts clients
    hbpc,           \* the heartbeat task
    beats,          \* heartbeats sent so far
    \* the local clients
    nextId,         \* the allocator's next candidate (see SessionIds)
    localClients,   \* _local_clients: whose writer is under an id
    hpc,            \* hpc[c]: where c's _handle_local_client() is
    sid,            \* sid[c]: its session_id (0 before it has one)
    sendConn,       \* sendConn[c]: connection its last frame was written to
    lt,             \* lt[c]: the bridge's transport to c
    app,            \* app[c]: c's own end of it
    upSent, upRead, \* pieces c has written, its handler has read
    toLocal,        \* toLocal[c]: pieces the bridge has written to c
    downRead        \* how many of them c has read

connVars == <<bpc, drained, agentWriter, connCount, unixServer>>
hbVars == <<hbpc, beats>>
handlerVars == <<nextId, hpc, sid, sendConn>>
appVars == <<app, upSent, upRead>>
downVars == <<toLocal, downRead>>
bridgeVars == <<connVars, hbVars, handlerVars, localClients, lt, appVars, downVars>>

BridgePc == {"down", "read", "localDrain", "sendDrain", "waitClosed"}
HandlerPc == {"none", "accepted", "connectDrain", "read", "dataDrain",
              "closeDrain", "done"}
Transport == {"none", "open", "closing", "lost"}

BridgeInit ==
    /\ bpc = "down"
    /\ drained = <<0, NoClient>>
    /\ agentWriter = 0
    /\ connCount = 0
    /\ unixServer = FALSE
    /\ hbpc = "off"
    /\ beats = 0
    /\ nextId = 1
    /\ localClients = [s \in Sids |-> NoClient]
    /\ hpc = [c \in Clients |-> "none"]
    /\ sid = [c \in Clients |-> 0]
    /\ sendConn = [c \in Clients |-> 0]
    /\ lt = [c \in Clients |-> "none"]
    /\ app = [c \in Clients |-> "none"]
    /\ upSent = [c \in Clients |-> 0]
    /\ upRead = [c \in Clients |-> 0]
    /\ toLocal = [c \in Clients |-> <<>>]
    /\ downRead = [c \in Clients |-> 0]

-----------------------------------------------------------------------------
(* _send_frame().  It appends to the channel of the connection that        *)
(* _agent_writer holds now; with no connection, or a closing one, it       *)
(* raises.  A transport that does not know yet that its peer is gone drops *)
(* the frame: asyncio's write() after connection loss does nothing.        *)
Connected == agentWriter # 0 /\ link[agentWriter] = "up"
BridgeSends(frame) ==
    /\ Connected
    /\ b2a' = [b2a EXCEPT ![agentWriter] = Append(@, frame)]
BridgeSendRaises == ~Connected /\ b2a' = b2a
BridgeSendDropped == agentWriter # 0 /\ ~Connected /\ b2a' = b2a

(* Where a task goes on after its send: on, or into drain().               *)
AfterSend(drain, next) == IF Full(b2a'[agentWriter]) THEN drain ELSE next

(* drain() of connection e: it returns once there is room, or raises or    *)
(* returns once the connection is lost.                                    *)
DrainReturns(e) == ~Full(b2a[e]) \/ link[e] # "up"
DrainRaises(e) == link[e] # "up"

Pop(id) == localClients' = [localClients EXCEPT ![id] = NoClient]
ClosedWriter(state) == IF state = "open" THEN "closing" ELSE state
CloseWriter(c) == lt' = [lt EXCEPT ![c] = ClosedWriter(@)]
GoesTo(c, label) == hpc' = [hpc EXCEPT ![c] = label]

-----------------------------------------------------------------------------
(* _handle_local_client() *)

(* The client is given id s: its writer is registered and CONNECT sent.    *)
Registers(c, s) ==
    /\ sid' = [sid EXCEPT ![c] = s]
    /\ \/ /\ BridgeSends(Connect(s, c))
          /\ GoesTo(c, AfterSend("connectDrain", "read"))
          /\ localClients' = [localClients EXCEPT ![s] = c]
          /\ UNCHANGED lt
       \/ /\ BridgeSendDropped
          /\ GoesTo(c, "read")
          /\ localClients' = [localClients EXCEPT ![s] = c]
          /\ UNCHANGED lt
       \/ /\ BridgeSendRaises
          /\ GoesTo(c, "done")
          /\ CloseWriter(c)
          /\ UNCHANGED localClients
    /\ sendConn' = [sendConn EXCEPT ![c] = agentWriter]
    /\ UNCHANGED <<faults, link, a2b, connVars, hbVars, appVars, downVars>>

(* Mutant of HandlerStarts: the lowest free id instead of the next one. *)
HandlerStartsLow(c) ==
    /\ hpc[c] = "accepted"
    /\ \E s \in Sids : /\ localClients[s] = NoClient
                       /\ \A t \in Sids : t < s => localClients[t] # NoClient
                       /\ Registers(c, s)
    /\ UNCHANGED nextId

(* The task's first step, possibly long after the client was accepted.     *)
HandlerStarts(c) ==
    /\ hpc[c] = "accepted"
    /\ nextId \in Sids
    /\ nextId' = nextId + 1
    /\ Registers(c, nextId)

ConnectDrained(c) ==
    /\ hpc[c] = "connectDrain"
    /\ DrainReturns(sendConn[c])
    /\ GoesTo(c, "read")
    /\ UNCHANGED <<wireVars, connVars, hbVars, nextId, sid, sendConn,
                   localClients, lt, appVars, downVars>>

(* The drain of CONNECT raises: close the client, no CLOSE frame. *)
ConnectFails(c) ==
    /\ hpc[c] = "connectDrain"
    /\ DrainRaises(sendConn[c])
    /\ GoesTo(c, "done")
    /\ Pop(sid[c])
    /\ CloseWriter(c)
    /\ UNCHANGED <<wireVars, connVars, hbVars, nextId, sid, sendConn,
                   appVars, downVars>>

(* The handler's finally block: CLOSE on the connection of the moment, and *)
(* once that is drained the pop and the close.                             *)
Leaves(c) ==
    /\ GoesTo(c, "done")
    /\ Pop(sid[c])
    /\ CloseWriter(c)

(* Mutant of Finally: the handler ends without telling the agent. *)
FinallySilently(c) == b2a' = b2a /\ sendConn' = sendConn /\ Leaves(c)

Finally(c) ==
    \/ /\ BridgeSends(Control("CLOSE", sid[c]))
       /\ sendConn' = [sendConn EXCEPT ![c] = agentWriter]
       /\ IF Full(b2a'[agentWriter])
          THEN GoesTo(c, "closeDrain") /\ UNCHANGED <<localClients, lt>>
          ELSE Leaves(c)
    \/ /\ BridgeSendRaises
       /\ Leaves(c)
       /\ UNCHANGED sendConn

(* reader.read() returns data.  What was in the StreamReader when the      *)
(* transport closed is still read.                                         *)
HandlerReads(c) ==
    /\ hpc[c] = "read"
    /\ upRead[c] < upSent[c]
    /\ upRead' = [upRead EXCEPT ![c] = @ + 1]
    /\ \/ /\ BridgeSends(Data(sid[c], c, upRead[c] + 1))
          /\ sendConn' = [sendConn EXCEPT ![c] = agentWriter]
          /\ GoesTo(c, AfterSend("dataDrain", "read"))
          /\ UNCHANGED <<localClients, lt>>
       \/ /\ BridgeSendDropped
          /\ UNCHANGED <<hpc, sendConn, localClients, lt>>
       \/ /\ BridgeSendRaises
          /\ Leaves(c)
          /\ UNCHANGED sendConn
    /\ UNCHANGED <<faults, link, a2b, connVars, hbVars, nextId, sid, app, upSent,
                   downVars>>

(* reader.read() returns nothing or raises: the client closed its end and  *)
(* all it wrote was read, or the transport is lost.                        *)
HandlerEOF(c) ==
    /\ hpc[c] = "read"
    /\ \/ app[c] = "closed" /\ upRead[c] = upSent[c]
       \/ lt[c] = "lost"
    /\ Finally(c)
    /\ UNCHANGED <<faults, link, a2b, connVars, hbVars, nextId, sid, appVars,
                   downVars>>

(* Mutant of DataDrained: the frame that had to wait is sent again. *)
DataDrainedAgain(c) ==
    /\ hpc[c] = "dataDrain"
    /\ DrainReturns(sendConn[c])
    /\ GoesTo(c, "read")
    /\ BridgeSends(Data(sid[c], c, upRead[c]))
    /\ UNCHANGED <<faults, link, a2b, connVars, hbVars, nextId, sid, sendConn,
                   localClients, lt, appVars, downVars>>

DataDrained(c) ==
    /\ hpc[c] = "dataDrain"
    /\ DrainReturns(sendConn[c])
    /\ GoesTo(c, "read")
    /\ UNCHANGED <<wireVars, connVars, hbVars, nextId, sid, sendConn,
                   localClients, lt, appVars, downVars>>

DataFails(c) ==
    /\ hpc[c] = "dataDrain"
    /\ DrainRaises(sendConn[c])
    /\ Finally(c)
    /\ UNCHANGED <<faults, link, a2b, connVars, hbVars, nextId, sid, appVars,
                   downVars>>

(* The drain of CLOSE returns or raises, which the finally block ignores.  *)
CloseDrained(c) ==
    /\ hpc[c] = "closeDrain"
    /\ DrainReturns(sendConn[c])
    /\ Leaves(c)
    /\ UNCHANGED <<wireVars, connVars, hbVars, nextId, sid, sendConn,
                   appVars, downVars>>

Handler(c) ==
    \/ HandlerStarts(c) \/ ConnectDrained(c) \/ ConnectFails(c)
    \/ HandlerReads(c) \/ HandlerEOF(c)
    \/ DataDrained(c) \/ DataFails(c) \/ CloseDrained(c)

-----------------------------------------------------------------------------
(* _agent_reader_loop() *)

Receives(e, type) ==
    /\ bpc = "read"
    /\ e = agentWriter
    /\ a2b[e] # <<>>
    /\ Head(a2b[e]).type = type
    /\ a2b' = [a2b EXCEPT ![e] = Tail(@)]

(* DATA: write to the local client and drain, or answer with CLOSE. *)
BridgeReceivesData(e) ==
    /\ Receives(e, "DATA")
    /\ LET frame == Head(a2b[e])
           c == localClients[frame.sid]
       IN \/ /\ c = NoClient
             /\ \/ /\ BridgeSends(Control("CLOSE", frame.sid))
                   /\ bpc' = AfterSend("sendDrain", "read")
                \/ BridgeSendRaises /\ UNCHANGED bpc
             /\ UNCHANGED <<drained, downVars>>
          \/ /\ c # NoClient
             /\ toLocal' = [toLocal EXCEPT ![c] =
                              IF lt[c] = "open" THEN Append(@, frame.data) ELSE @]
             /\ bpc' = IF lt[c] = "lost" \/ Len(toLocal'[c]) - downRead[c] > HighWater
                       THEN "localDrain" ELSE "read"
             /\ drained' = IF bpc' = "read" THEN drained ELSE <<frame.sid, c>>
             /\ UNCHANGED <<b2a, downRead>>
    /\ UNCHANGED <<faults, link, agentWriter, connCount, unixServer, hbVars, handlerVars,
                   localClients, lt, appVars>>

(* The drain of the local writer returns, or it raises and the id goes.    *)
LocalDrained ==
    /\ bpc = "localDrain"
    /\ LET s == drained[1]
           c == drained[2]
       IN \/ /\ \/ lt[c] = "lost"
                \/ Len(toLocal[c]) - downRead[c] <= HighWater
             /\ UNCHANGED localClients
          \/ lt[c] = "lost" /\ Pop(s)
    /\ bpc' = "read"
    /\ drained' = <<0, NoClient>>
    /\ UNCHANGED <<wireVars, agentWriter, connCount, unixServer, hbVars,
                   handlerVars, lt, appVars, downVars>>

(* Mutant of BridgeReceivesClose: the local client is not closed. *)
BridgeReceivesCloseOnly(e) ==
    /\ Receives(e, "CLOSE")
    /\ Pop(Head(a2b[e]).sid)
    /\ UNCHANGED <<faults, link, b2a, connVars, hbVars, handlerVars, lt, appVars,
                   downVars>>

(* CLOSE: the id is popped and the local client closed. *)
BridgeReceivesClose(e) ==
    /\ Receives(e, "CLOSE")
    /\ LET s == Head(a2b[e]).sid
       IN /\ Pop(s)
          /\ lt' = [c \in Clients |-> IF c = localClients[s]
                                      THEN ClosedWriter(lt[c]) ELSE lt[c]]
    /\ UNCHANGED <<faults, link, b2a, connVars, hbVars, handlerVars, appVars, downVars>>

BridgeReceivesHeartbeat(e) ==
    /\ Receives(e, "HEARTBEAT")
    /\ UNCHANGED <<faults, link, b2a, bridgeVars>>

(* The drain of a CLOSE for an unknown session. *)
SendDrained ==
    /\ bpc = "sendDrain"
    /\ DrainReturns(agentWriter)
    /\ bpc' = "read"
    /\ UNCHANGED <<wireVars, drained, agentWriter, connCount, unixServer, hbVars,
                   handlerVars, localClients, lt, appVars, downVars>>

ReaderLoop ==
    \/ \E e \in Conns : \/ BridgeReceivesData(e) \/ BridgeReceivesClose(e)
                        \/ BridgeReceivesHeartbeat(e)
    \/ LocalDrained \/ SendDrained

-----------------------------------------------------------------------------
(* _heartbeat_loop() *)

Beat ==
    /\ hbpc = "sleep"
    /\ beats < MaxBeats
    /\ \/ /\ BridgeSends(Control("HEARTBEAT", 0))
          /\ beats' = beats + 1
          /\ hbpc' = AfterSend("drain", "sleep")
       \/ BridgeSendRaises /\ hbpc' = "off" /\ UNCHANGED beats
    /\ UNCHANGED <<faults, link, a2b, connVars, handlerVars, localClients, lt, appVars,
                   downVars>>

BeatDrained ==
    /\ hbpc = "drain"
    /\ DrainReturns(agentWriter)
    /\ \/ hbpc' = "sleep"
       \/ DrainRaises(agentWriter) /\ hbpc' = "off"
    /\ UNCHANGED <<wireVars, connVars, beats, handlerVars, localClients, lt,
                   appVars, downVars>>

-----------------------------------------------------------------------------
(* _connect_and_serve() and _teardown() *)

(* Mutant of BridgeConnects: a new allocator for every connection. *)
BridgeConnectsAnew ==
    /\ bpc = "down"
    /\ connCount < MaxConns
    /\ connCount' = connCount + 1
    /\ agentWriter' = connCount'
    /\ link' = [link EXCEPT ![connCount'] = "up"]
    /\ unixServer' = TRUE
    /\ hbpc' = "sleep"
    /\ bpc' = "read"
    /\ nextId' = 1
    /\ UNCHANGED <<faults, b2a, a2b, drained, beats, hpc, sid, sendConn,
                   localClients, lt, appVars, downVars>>

(* Authenticated: _agent_writer is set, the UNIX socket created and the    *)
(* heartbeat task started.  The handshake before it is not modelled here.  *)
BridgeConnects ==
    /\ bpc = "down"
    /\ connCount < MaxConns
    /\ connCount' = connCount + 1
    /\ agentWriter' = connCount'
    /\ link' = [link EXCEPT ![connCount'] = "up"]
    /\ unixServer' = TRUE
    /\ hbpc' = "sleep"
    /\ bpc' = "read"
    /\ UNCHANGED <<faults, b2a, a2b, drained, beats, handlerVars, localClients, lt,
                   appVars, downVars>>

(* Mutant of TearsDown: the clients are forgotten, not closed. *)
TearsDownOnly ==
    /\ localClients' = [s \in Sids |-> NoClient]
    /\ link' = [link EXCEPT ![agentWriter] = Closed(@, "bclosed")]
    /\ a2b' = [a2b EXCEPT ![agentWriter] = <<>>]
    /\ agentWriter' = 0
    /\ bpc' = "down"
    /\ UNCHANGED lt

(* The second half of _teardown(): it closes every local client that is    *)
(* registered, forgets them and closes the connection.                     *)
TearsDown ==
    /\ lt' = [c \in Clients |-> IF \E s \in Sids : localClients[s] = c
                                THEN ClosedWriter(lt[c]) ELSE lt[c]]
    /\ localClients' = [s \in Sids |-> NoClient]
    /\ link' = [link EXCEPT ![agentWriter] = Closed(@, "bclosed")]
    /\ a2b' = [a2b EXCEPT ![agentWriter] = <<>>]
    /\ agentWriter' = 0
    /\ bpc' = "down"

(* The server still has an accepted connection. *)
Attached == \E c \in Clients : lt[c] \in {"open", "closing"}

(* Mutant of BridgeEOF: the local clients are waited for, not closed. *)
BridgeEOFWaits ==
    /\ bpc = "read"
    /\ link[agentWriter] \in {"dead", "aclosed"}
    /\ unixServer' = FALSE
    /\ hbpc' = "off"
    /\ bpc' = "waitClosed"
    /\ UNCHANGED <<wireVars, drained, connCount, beats, handlerVars, lt,
                   localClients, agentWriter, appVars, downVars>>

(* read_frame() meets the end of the connection: the heartbeat task is     *)
(* cancelled and _teardown() starts, closing the UNIX server first.        *)
BridgeEOF ==
    /\ bpc = "read"
    /\ \/ link[agentWriter] = "dead"
       \/ link[agentWriter] = "aclosed" /\ a2b[agentWriter] = <<>>
    /\ unixServer' = FALSE
    /\ hbpc' = "off"
    /\ IF WaitClosedBlocks /\ Attached
       THEN bpc' = "waitClosed" /\ UNCHANGED <<lt, localClients, link, a2b, agentWriter>>
       ELSE TearsDown
    /\ UNCHANGED <<faults, b2a, drained, connCount, beats, handlerVars, appVars, downVars>>

(* wait_closed() returns once the last accepted connection is lost. *)
WaitClosedReturns ==
    /\ bpc = "waitClosed"
    /\ ~Attached
    /\ TearsDown
    /\ UNCHANGED <<faults, b2a, drained, connCount, unixServer, hbVars, handlerVars,
                   appVars, downVars>>

-----------------------------------------------------------------------------
(* The transports to the local clients *)

(* A closing transport is lost once its buffer is flushed, any transport   *)
(* when the bytes it holds cannot be delivered any more.                   *)
LocalTransportLost(c) ==
    /\ \/ lt[c] = "closing" /\ Len(toLocal[c]) - downRead[c] <= HighWater
       \/ lt[c] = "closing" /\ app[c] = "closed"
       \/ lt[c] = "open" /\ app[c] = "closed" /\ downRead[c] < Len(toLocal[c])
    /\ lt' = [lt EXCEPT ![c] = "lost"]
    /\ UNCHANGED <<wireVars, connVars, hbVars, handlerVars, localClients, appVars,
                   downVars>>

-----------------------------------------------------------------------------
(* The local programs.  What a program does with an end whose other end is *)
(* lost concerns nobody else and is left out.                              *)

AppConnects(c) ==
    /\ app[c] = "none"
    /\ unixServer
    /\ app' = [app EXCEPT ![c] = "open"]
    /\ lt' = [lt EXCEPT ![c] = "open"]
    /\ GoesTo(c, "accepted")
    /\ UNCHANGED <<wireVars, connVars, hbVars, nextId, sid, sendConn,
                   localClients, upSent, upRead, downVars>>

AllUpSent == {p \in Clients \X (1 .. MaxUp) : p[2] <= upSent[p[1]]}

AppWrites(c) ==
    /\ app[c] = "open"
    /\ lt[c] = "open"
    /\ Cardinality(AllUpSent) < MaxUp
    /\ upSent' = [upSent EXCEPT ![c] = @ + 1]
    /\ UNCHANGED <<wireVars, connVars, hbVars, handlerVars, localClients, lt, app,
                   upRead, downVars>>

AppReads(c) ==
    /\ app[c] = "open"
    /\ lt[c] # "lost"
    /\ downRead[c] < Len(toLocal[c])
    /\ downRead' = [downRead EXCEPT ![c] = @ + 1]
    /\ UNCHANGED <<wireVars, connVars, hbVars, handlerVars, localClients, lt,
                   appVars, toLocal>>

AppCloses(c) ==
    /\ app[c] = "open"
    /\ lt[c] # "lost"
    /\ app' = [app EXCEPT ![c] = "closed"]
    /\ UNCHANGED <<wireVars, connVars, hbVars, handlerVars, localClients, lt,
                   upSent, upRead, downVars>>

App(c) == AppConnects(c) \/ AppWrites(c) \/ AppReads(c) \/ AppCloses(c)

-----------------------------------------------------------------------------
BridgeTypeOK ==
    /\ bpc \in BridgePc
    /\ drained \in (Sids \cup {0}) \X (Clients \cup {NoClient})
    /\ agentWriter \in Conns \cup {0}
    /\ connCount \in 0 .. MaxConns
    /\ unixServer \in BOOLEAN
    /\ hbpc \in {"off", "sleep", "drain"}
    /\ beats \in Nat
    /\ nextId \in 1 .. (MaxSessions + 1)
    /\ localClients \in [Sids -> Clients \cup {NoClient}]
    /\ hpc \in [Clients -> HandlerPc]
    /\ sid \in [Clients -> Sids \cup {0}]
    /\ sendConn \in [Clients -> Conns \cup {0}]
    /\ lt \in [Clients -> Transport]
    /\ app \in [Clients -> {"none", "open", "closed"}]
    /\ upSent \in [Clients -> Nat]
    /\ upRead \in [Clients -> Nat]
    /\ toLocal \in [Clients -> Seq(Piece)]
    /\ downRead \in [Clients -> Nat]
=============================================================================
