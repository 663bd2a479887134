------------------------------ MODULE TunnelProofs ------------------------------
(***************************************************************************)
(* The tunnel never mixes two sessions up, and what a connection held is   *)
(* released when it ends: TypeOK, DownIsolation and UpIsolation,           *)
(* AgentReleasesAll and BridgeReleasesAll, for every number of clients,    *)
(* connections and faults.                                                 *)
(***************************************************************************)
EXTENDS Tunnel, TLAPS

USE WireAssumption

(***************************************************************************)
(* Types.  A step preserves TypeOK with three facts besides: a handler     *)
(* that sends has an id (Started), a dispatch loop that works on a session *)
(* has its id (Working), and a relay that runs has a client (Opened).      *)
(***************************************************************************)

(* The variables a handler's step may change, apart from the ids.          *)
HandlerTyped ==
    /\ b2a \in [Conns -> Seq(UpFrame)]
    /\ hpc \in [Clients -> HandlerPc]
    /\ sendConn \in [Clients -> Conns \cup {0}]
    /\ localClients \in [Sids -> Clients \cup {NoClient}]
    /\ lt \in [Clients -> Transport]

-----------------------------------------------------------------------------
(* Adding to a channel and taking from it keep what it carries typed.      *)
LEMMA AppendTyped ==
    ASSUME NEW F, NEW D, NEW ch \in [D -> Seq(F)], NEW e, NEW f \in F
    PROVE  [ch EXCEPT ![e] = Append(@, f)] \in [D -> Seq(F)]
<1>1. CASE e \in D
  BY <1>1
<1>2. CASE e \notin D
  BY <1>2
<1> QED BY <1>1, <1>2

LEMMA TailTyped ==
    ASSUME NEW F, NEW D, NEW ch \in [D -> Seq(F)], NEW e \in D, ch[e] # <<>>
    PROVE  /\ Head(ch[e]) \in F
           /\ [ch EXCEPT ![e] = Tail(@)] \in [D -> Seq(F)]
OBVIOUS

LEMMA EmptyTyped ==
    ASSUME NEW F, NEW D, NEW ch \in [D -> Seq(F)], NEW e
    PROVE  [ch EXCEPT ![e] = <<>>] \in [D -> Seq(F)]
<1>1. <<>> \in Seq(F)
  OBVIOUS
<1> QED BY <1>1

(* The frames both sides build are frames of the wire.                     *)
LEMMA FramesTyped ==
    /\ \A s \in Sids : /\ Control("CLOSE", s) \in UpFrame
                       /\ Control("CLOSE", s) \in DownFrame
    /\ Control("HEARTBEAT", 0) \in UpFrame
    /\ Control("HEARTBEAT", 0) \in DownFrame
    /\ \A s \in Sids, c \in Clients : Connect(s, c) \in UpFrame
    /\ \A s \in Sids, c \in Clients, n \in Nat :
          Data(s, c, n) \in UpFrame /\ Data(s, c, n) \in DownFrame
BY DEF Connect, Data, Control, UpFrame, DownFrame, ControlFrame, Piece, Empty

(* What a frame's type says of its fields.                                 *)
LEMMA UpFields ==
    ASSUME NEW f \in UpFrame
    PROVE  /\ f.type \in {"CONNECT", "DATA", "CLOSE"} => f.sid \in Sids
           /\ f.type \in {"CONNECT", "DATA"} => f.data \in Piece
BY DEF UpFrame, ControlFrame

LEMMA DownFields ==
    ASSUME NEW f \in DownFrame
    PROVE  /\ f.type \in {"DATA", "CLOSE"} => f.sid \in Sids
           /\ f.type = "DATA" => f.data \in Piece
BY DEF DownFrame, ControlFrame

-----------------------------------------------------------------------------
(* The bridge *)

LEMMA BridgeSendsTyped ==
    ASSUME WireTypeOK, NEW f \in UpFrame,
           BridgeSends(f) \/ BridgeSendRaises \/ BridgeSendDropped
    PROVE  b2a' \in [Conns -> Seq(UpFrame)]
<1>1. b2a \in [Conns -> Seq(UpFrame)]
  BY DEF WireTypeOK
<1>2. [b2a EXCEPT ![agentWriter] = Append(@, f)] \in [Conns -> Seq(UpFrame)]
  BY <1>1, AppendTyped
<1> QED BY <1>1, <1>2 DEF BridgeSends, BridgeSendRaises, BridgeSendDropped

LEMMA LeavesTyped ==
    ASSUME BridgeTypeOK, NEW c \in Clients, Leaves(c)
    PROVE  /\ hpc' \in [Clients -> HandlerPc]
           /\ localClients' \in [Sids -> Clients \cup {NoClient}]
           /\ lt' \in [Clients -> Transport]
BY DEF BridgeTypeOK, Leaves, GoesTo, Pop, CloseWriter, ClosedWriter,
       HandlerPc, Transport

(* A handler beyond its first step has an id. *)
LEMMA HasId ==
    ASSUME BridgeTypeOK, Started, NEW c \in Clients,
           hpc[c] \notin {"none", "accepted"}
    PROVE  sid[c] \in Sids
<1>1. sid[c] \in 1 .. (nextId - 1)
  BY DEF Started
<1>2. nextId \in 1 .. (MaxSessions + 1)
  BY DEF BridgeTypeOK
<1> QED BY <1>1, <1>2 DEF Sids

LEMMA FinallyTyped ==
    ASSUME WireTypeOK, BridgeTypeOK, NEW c \in Clients, sid[c] \in Sids, Finally(c)
    PROVE  HandlerTyped'
<1>1. b2a' \in [Conns -> Seq(UpFrame)]
  BY BridgeSendsTyped, FramesTyped DEF Finally
<1>2. sendConn' \in [Clients -> Conns \cup {0}]
  BY DEF Finally, BridgeTypeOK
<1>3. /\ hpc' \in [Clients -> HandlerPc]
      /\ localClients' \in [Sids -> Clients \cup {NoClient}]
      /\ lt' \in [Clients -> Transport]
  BY LeavesTyped DEF Finally, BridgeTypeOK, GoesTo, HandlerPc
<1> QED BY <1>1, <1>2, <1>3 DEF HandlerTyped

LEMMA HandlerStartsTyped ==
    ASSUME WireTypeOK, BridgeTypeOK, NEW c \in Clients, HandlerStarts(c)
    PROVE  WireTypeOK' /\ BridgeTypeOK'
<1>1. nextId \in Sids /\ Connect(nextId, c) \in UpFrame
  BY FramesTyped DEF HandlerStarts
<1>2. /\ nextId' \in 1 .. (MaxSessions + 1)
      /\ sid' \in [Clients -> Sids \cup {0}]
      /\ sendConn' \in [Clients -> Conns \cup {0}]
  <2>1. nextId' \in 1 .. (MaxSessions + 1)
    BY <1>1 DEF HandlerStarts, BridgeTypeOK, Sids
  <2>2. sid' \in [Clients -> Sids \cup {0}]
    BY <1>1 DEF HandlerStarts, Registers, BridgeTypeOK
  <2>3. sendConn' \in [Clients -> Conns \cup {0}]
    BY <1>1 DEF HandlerStarts, Registers, BridgeTypeOK
  <2> QED BY <2>1, <2>2, <2>3
<1>3. b2a' \in [Conns -> Seq(UpFrame)]
  BY <1>1, BridgeSendsTyped DEF HandlerStarts, Registers
<1>4. hpc' \in [Clients -> HandlerPc]
  BY <1>1 DEF HandlerStarts, Registers, BridgeTypeOK, GoesTo, AfterSend, HandlerPc
<1>5. lt' \in [Clients -> Transport]
  BY <1>1 DEF HandlerStarts, Registers, BridgeTypeOK, CloseWriter, ClosedWriter,
              Transport
<1>6. localClients' \in [Sids -> Clients \cup {NoClient}]
  BY <1>1 DEF HandlerStarts, Registers, BridgeTypeOK
<1> QED
  BY <1>2, <1>3, <1>4, <1>5, <1>6
  DEF HandlerStarts, Registers, BridgeTypeOK, WireTypeOK, connVars, hbVars,
      appVars, downVars

LEMMA HandlerReadsTyped ==
    ASSUME WireTypeOK, BridgeTypeOK, Started, NEW c \in Clients, HandlerReads(c)
    PROVE  WireTypeOK' /\ BridgeTypeOK'
<1>1. upRead[c] + 1 \in Nat /\ upRead' \in [Clients -> Nat]
  BY DEF HandlerReads, BridgeTypeOK
<1>2. sid[c] \in Sids
  BY HasId DEF HandlerReads
<1>3. Data(sid[c], c, upRead[c] + 1) \in UpFrame
  BY <1>1, <1>2, FramesTyped
<1>4. b2a' \in [Conns -> Seq(UpFrame)]
  BY <1>3, BridgeSendsTyped DEF HandlerReads
<1>5. /\ hpc' \in [Clients -> HandlerPc]
      /\ localClients' \in [Sids -> Clients \cup {NoClient}]
      /\ lt' \in [Clients -> Transport]
  BY LeavesTyped DEF HandlerReads, BridgeTypeOK, GoesTo, AfterSend, HandlerPc
<1>6. sendConn' \in [Clients -> Conns \cup {0}]
  BY DEF HandlerReads, BridgeTypeOK
<1> QED
  BY <1>1, <1>4, <1>5, <1>6
  DEF HandlerReads, BridgeTypeOK, WireTypeOK, connVars, hbVars, appVars, downVars

LEMMA HandlerStepTyped ==
    ASSUME WireTypeOK, BridgeTypeOK, Started, NEW c \in Clients, Handler(c)
    PROVE  WireTypeOK' /\ BridgeTypeOK'
<1> USE DEF connVars, hbVars, appVars, downVars, wireVars, channels
<1>1. CASE HandlerStarts(c)
  BY <1>1, HandlerStartsTyped
<1>2. CASE HandlerReads(c)
  BY <1>2, HandlerReadsTyped
<1>3. CASE ConnectDrained(c) \/ DataDrained(c)
  BY <1>3 DEF ConnectDrained, DataDrained, GoesTo, HandlerPc, WireTypeOK, BridgeTypeOK
<1>4. CASE ConnectFails(c) \/ CloseDrained(c)
  <2>1. Leaves(c)
    BY <1>4 DEF ConnectFails, CloseDrained, Leaves
  <2> QED
    BY <1>4, <2>1, LeavesTyped DEF ConnectFails, CloseDrained, WireTypeOK, BridgeTypeOK
<1>5. CASE HandlerEOF(c) \/ DataFails(c)
  <2>1. sid[c] \in Sids /\ Finally(c)
    BY <1>5, HasId DEF HandlerEOF, DataFails
  <2>2. HandlerTyped'
    BY <2>1, FinallyTyped
  <2> QED
    BY <1>5, <2>2 DEF HandlerEOF, DataFails, HandlerTyped, WireTypeOK, BridgeTypeOK
<1> QED BY <1>1, <1>2, <1>3, <1>4, <1>5 DEF Handler

LEMMA ReceivesTyped ==
    ASSUME WireTypeOK, BridgeTypeOK, NEW e \in Conns, NEW type, Receives(e, type)
    PROVE  /\ a2b' \in [Conns -> Seq(DownFrame)]
           /\ Head(a2b[e]) \in DownFrame
           /\ Head(a2b[e]).type = type
           /\ type \in {"DATA", "CLOSE"} => Head(a2b[e]).sid \in Sids
           /\ type = "DATA" => Head(a2b[e]).data \in Piece
<1>1. a2b \in [Conns -> Seq(DownFrame)] /\ a2b[e] # <<>>
  BY DEF WireTypeOK, Receives
<1>2. Head(a2b[e]) \in DownFrame /\ a2b' \in [Conns -> Seq(DownFrame)]
  BY <1>1, TailTyped DEF Receives
<1> QED BY <1>2, DownFields DEF Receives

LEMMA BridgeReceivesDataTyped ==
    ASSUME WireTypeOK, BridgeTypeOK, NEW e \in Conns, BridgeReceivesData(e)
    PROVE  WireTypeOK' /\ BridgeTypeOK'
<1> DEFINE frame == Head(a2b[e])
           c == localClients[frame.sid]
<1>1. /\ a2b' \in [Conns -> Seq(DownFrame)]
      /\ frame.sid \in Sids
      /\ frame.data \in Piece
  BY ReceivesTyped DEF BridgeReceivesData
<1>2. CASE c = NoClient
  <2>1. /\ \/ /\ BridgeSends(Control("CLOSE", frame.sid))
              /\ bpc' = AfterSend("sendDrain", "read")
           \/ BridgeSendRaises /\ UNCHANGED bpc
        /\ UNCHANGED <<drained, downVars>>
    BY <1>2 DEF BridgeReceivesData
  <2>2. b2a' \in [Conns -> Seq(UpFrame)]
    BY <1>1, <2>1, FramesTyped, BridgeSendsTyped
  <2>3. bpc' \in BridgePc
    BY <2>1 DEF AfterSend, BridgePc, BridgeTypeOK
  <2> QED
    BY <1>1, <2>1, <2>2, <2>3
    DEF BridgeReceivesData, WireTypeOK, BridgeTypeOK, hbVars, handlerVars, appVars,
        downVars
<1>3. CASE c # NoClient
  <2>1. /\ toLocal' = [toLocal EXCEPT ![c] =
                         IF lt[c] = "open" THEN Append(@, frame.data) ELSE @]
        /\ bpc' = IF lt[c] = "lost" \/ Len(toLocal'[c]) - downRead[c] > HighWater
                  THEN "localDrain" ELSE "read"
        /\ drained' = IF bpc' = "read" THEN drained ELSE <<frame.sid, c>>
        /\ UNCHANGED <<b2a, downRead>>
    BY <1>3 DEF BridgeReceivesData
  <2>2. c \in Clients
    BY <1>1, <1>3 DEF BridgeTypeOK
  <2>3. toLocal' \in [Clients -> Seq(Piece)]
    BY <1>1, <2>1, <2>2 DEF BridgeTypeOK
  <2>4. /\ bpc' \in BridgePc
        /\ drained' \in (Sids \cup {0}) \X (Clients \cup {NoClient})
    BY <1>1, <2>1, <2>2 DEF BridgePc, BridgeTypeOK
  <2> QED
    BY <1>1, <2>1, <2>3, <2>4
    DEF BridgeReceivesData, WireTypeOK, BridgeTypeOK, hbVars, handlerVars, appVars
<1> QED BY <1>2, <1>3

LEMMA ReaderLoopTyped ==
    ASSUME WireTypeOK, BridgeTypeOK, ReaderLoop
    PROVE  WireTypeOK' /\ BridgeTypeOK'
<1> USE DEF connVars, hbVars, handlerVars, appVars, downVars, wireVars, channels,
            WireTypeOK, BridgeTypeOK
<1>1. ASSUME NEW e \in Conns, BridgeReceivesData(e)
      PROVE  WireTypeOK' /\ BridgeTypeOK'
  BY <1>1, BridgeReceivesDataTyped
<1>2. ASSUME NEW e \in Conns, BridgeReceivesClose(e)
      PROVE  WireTypeOK' /\ BridgeTypeOK'
  <2>1. a2b' \in [Conns -> Seq(DownFrame)]
    BY <1>2, ReceivesTyped DEF BridgeReceivesClose
  <2>2. /\ localClients' \in [Sids -> Clients \cup {NoClient}]
        /\ lt' \in [Clients -> Transport]
    BY <1>2 DEF BridgeReceivesClose, Pop, ClosedWriter, Transport
  <2> QED BY <1>2, <2>1, <2>2 DEF BridgeReceivesClose
<1>3. ASSUME NEW e \in Conns, BridgeReceivesHeartbeat(e)
      PROVE  WireTypeOK' /\ BridgeTypeOK'
  <2>1. a2b' \in [Conns -> Seq(DownFrame)]
    BY <1>3, ReceivesTyped DEF BridgeReceivesHeartbeat
  <2> QED BY <1>3, <2>1 DEF BridgeReceivesHeartbeat, bridgeVars
<1>4. CASE LocalDrained
  <2>1. localClients' \in [Sids -> Clients \cup {NoClient}]
    BY <1>4 DEF LocalDrained, Pop
  <2> QED BY <1>4, <2>1 DEF LocalDrained, BridgePc
<1>5. CASE SendDrained
  BY <1>5 DEF SendDrained, BridgePc
<1> QED BY <1>1, <1>2, <1>3, <1>4, <1>5 DEF ReaderLoop

LEMMA TearsDownTyped ==
    ASSUME WireTypeOK, BridgeTypeOK, TearsDown
    PROVE  /\ bpc' \in BridgePc
           /\ agentWriter' \in Conns \cup {0}
           /\ lt' \in [Clients -> Transport]
           /\ localClients' \in [Sids -> Clients \cup {NoClient}]
           /\ link' \in [Conns -> LinkState]
           /\ a2b' \in [Conns -> Seq(DownFrame)]
<1>1. lt' \in [Clients -> Transport]
  BY DEF TearsDown, BridgeTypeOK, ClosedWriter, Transport
<1>2. localClients' \in [Sids -> Clients \cup {NoClient}]
  BY DEF TearsDown
<1>3. \A e \in Conns : Closed(link[e], "bclosed") \in LinkState
  BY DEF WireTypeOK, Closed, LinkState
<1>4. link' \in [Conns -> LinkState]
  BY <1>3 DEF TearsDown, WireTypeOK
<1>5. a2b' \in [Conns -> Seq(DownFrame)]
  BY EmptyTyped DEF TearsDown, WireTypeOK
<1> QED
  BY <1>1, <1>2, <1>4, <1>5 DEF TearsDown, BridgePc

LEMMA ConnectsTyped ==
    ASSUME WireTypeOK, BridgeTypeOK, BridgeConnects
    PROVE  WireTypeOK' /\ BridgeTypeOK' /\ connCount' \in Conns
BY DEF BridgeConnects, WireTypeOK, BridgeTypeOK, BridgePc, LinkState, Conns,
       handlerVars, appVars, downVars

LEMMA BridgeStepTyped ==
    ASSUME WireTypeOK, BridgeTypeOK, Started, BridgeStep
    PROVE  WireTypeOK' /\ BridgeTypeOK'
<1> USE DEF connVars, hbVars, handlerVars, appVars, downVars, wireVars, channels
<1>1. CASE ReaderLoop
  BY <1>1, ReaderLoopTyped
<1>2. CASE Beat
  <2>1. b2a' \in [Conns -> Seq(UpFrame)]
    BY <1>2, FramesTyped, BridgeSendsTyped DEF Beat
  <2>2. hbpc' \in {"off", "sleep", "drain"} /\ beats' \in Nat
    BY <1>2 DEF Beat, AfterSend, BridgeTypeOK
  <2> QED BY <1>2, <2>1, <2>2 DEF Beat, WireTypeOK, BridgeTypeOK
<1>3. CASE BeatDrained
  BY <1>3 DEF BeatDrained, WireTypeOK, BridgeTypeOK
<1>4. CASE BridgeEOF
  <2>1. CASE TearsDown
    BY <1>4, <2>1, TearsDownTyped DEF BridgeEOF, WireTypeOK, BridgeTypeOK
  <2>2. CASE bpc' = "waitClosed" /\ UNCHANGED <<lt, localClients, link, a2b, agentWriter>>
    BY <1>4, <2>2 DEF BridgeEOF, WireTypeOK, BridgeTypeOK, BridgePc
  <2> QED BY <1>4, <2>1, <2>2 DEF BridgeEOF
<1>5. CASE WaitClosedReturns
  BY <1>5, TearsDownTyped DEF WaitClosedReturns, WireTypeOK, BridgeTypeOK
<1>6. ASSUME NEW c \in Clients, Handler(c)
      PROVE  WireTypeOK' /\ BridgeTypeOK'
  BY <1>6, HandlerStepTyped
<1>7. ASSUME NEW c \in Clients, LocalTransportLost(c)
      PROVE  WireTypeOK' /\ BridgeTypeOK'
  BY <1>7 DEF LocalTransportLost, WireTypeOK, BridgeTypeOK, Transport
<1> QED BY <1>1, <1>2, <1>3, <1>4, <1>5, <1>6, <1>7 DEF BridgeStep

LEMMA AppTyped ==
    ASSUME WireTypeOK, BridgeTypeOK, NEW c \in Clients, App(c)
    PROVE  WireTypeOK' /\ BridgeTypeOK'
<1> USE DEF connVars, hbVars, handlerVars, appVars, downVars, wireVars, channels,
            WireTypeOK, BridgeTypeOK
<1>1. CASE AppConnects(c)
  BY <1>1 DEF AppConnects, GoesTo, HandlerPc, Transport
<1>2. CASE AppWrites(c)
  BY <1>2 DEF AppWrites
<1>3. CASE AppReads(c)
  BY <1>3 DEF AppReads
<1>4. CASE AppCloses(c)
  BY <1>4 DEF AppCloses
<1> QED BY <1>1, <1>2, <1>3, <1>4 DEF App

-----------------------------------------------------------------------------
(* The agent *)

LEMMA AgentSendsTyped ==
    ASSUME WireTypeOK, NEW e \in Conns, NEW f \in DownFrame,
           AgentSends(e, f) \/ AgentSendLost(e)
    PROVE  a2b' \in [Conns -> Seq(DownFrame)]
<1>1. a2b \in [Conns -> Seq(DownFrame)]
  BY DEF WireTypeOK
<1>2. [a2b EXCEPT ![e] = Append(@, f)] \in [Conns -> Seq(DownFrame)]
  BY <1>1, AppendTyped
<1> QED BY <1>1, <1>2 DEF AgentSends, AgentSendLost

LEMMA RepliesTyped ==
    ASSUME WireTypeOK, AgentTypeOK, NEW e \in Conns, NEW f \in DownFrame,
           NEW drain \in {"replyDrain", "notifyDrain"}, Replies(e, f, drain)
    PROVE  /\ a2b' \in [Conns -> Seq(DownFrame)]
           /\ apc' \in [Conns -> AgentPc]
<1>1. a2b' \in [Conns -> Seq(DownFrame)]
  BY AgentSendsTyped DEF Replies
<1>2. apc' \in [Conns -> AgentPc]
  BY DEF Replies, Goes, AgentPc, AgentTypeOK
<1> QED BY <1>1, <1>2

LEMMA ClosesSessionTyped ==
    ASSUME AgentTypeOK, NEW e \in Conns, NEW s \in Sids,
           NEW return \in {"read", "notify", "cleanup"}, ClosesSession(e, s, return)
    PROVE  /\ apc' \in [Conns -> AgentPc]
           /\ acur' \in [Conns -> Sids \cup {0}]
           /\ after' \in [Conns -> {"read", "notify", "cleanup"}]
           /\ sessions' \in [Conns -> SUBSET Sids]
           /\ rpc' \in [Links -> RelayPc]
BY DEF ClosesSession, Goes, CancelsRelay, AgentTypeOK, AgentPc, RelayPc

LEMMA TakesTyped ==
    ASSUME WireTypeOK, NEW e \in Conns, NEW type, Takes(e, type)
    PROVE  /\ b2a' \in [Conns -> Seq(UpFrame)]
           /\ Head(b2a[e]) \in UpFrame
           /\ Head(b2a[e]).type = type
           /\ type \in {"CONNECT", "DATA", "CLOSE"} => Head(b2a[e]).sid \in Sids
           /\ type \in {"CONNECT", "DATA"} => Head(b2a[e]).data \in Piece
<1>1. b2a \in [Conns -> Seq(UpFrame)] /\ b2a[e] # <<>>
  BY DEF WireTypeOK, Takes
<1>2. Head(b2a[e]) \in UpFrame /\ b2a' \in [Conns -> Seq(UpFrame)]
  BY <1>1, TailTyped DEF Takes
<1> QED BY <1>2, UpFields DEF Takes

(* The id of the session a dispatch loop works on. *)
LEMMA WorkingLink ==
    ASSUME Working, NEW e \in Conns,
           apc[e] \in {"open", "uxDrain", "closeTask", "closeUx"}
    PROVE  acur[e] \in Sids /\ <<e, acur[e]>> \in Links
BY DEF Working, Links

LEMMA ReceivesTypedAtAgent ==
    ASSUME WireTypeOK, AgentTypeOK, NEW e \in Conns,
           \/ AgentReceivesConnect(e) \/ AgentReceivesStaleData(e)
           \/ AgentReceivesData(e) \/ AgentReceivesClose(e)
           \/ AgentReceivesHeartbeat(e)
    PROVE  WireTypeOK' /\ AgentTypeOK'
<1> USE DEF WireTypeOK, AgentTypeOK, uxVars
<1>1. CASE AgentReceivesConnect(e)
  <2>1. /\ b2a' \in [Conns -> Seq(UpFrame)]
        /\ Head(b2a[e]).sid \in Sids
        /\ Head(b2a[e]).data.client \in Clients
    BY <1>1, TakesTyped DEF AgentReceivesConnect, Piece
  <2> QED BY <1>1, <2>1 DEF AgentReceivesConnect, Goes, AgentPc
<1>2. CASE AgentReceivesStaleData(e)
  <2>1. /\ b2a' \in [Conns -> Seq(UpFrame)]
        /\ Control("CLOSE", Head(b2a[e]).sid) \in DownFrame
    BY <1>2, TakesTyped, FramesTyped DEF AgentReceivesStaleData
  <2>2. a2b' \in [Conns -> Seq(DownFrame)] /\ apc' \in [Conns -> AgentPc]
    BY <1>2, <2>1, RepliesTyped DEF AgentReceivesStaleData
  <2> QED BY <1>2, <2>1, <2>2 DEF AgentReceivesStaleData
<1>3. CASE AgentReceivesData(e)
  <2> DEFINE frame == Head(b2a[e])
             l == <<e, frame.sid>>
  <2>1. /\ b2a' \in [Conns -> Seq(UpFrame)]
        /\ frame.sid \in Sids
        /\ frame.data \in Piece
        /\ l \in Links
    BY <1>3, TakesTyped DEF AgentReceivesData, Links
  <2>2. toUx' \in [Links -> Seq(Piece)]
    BY <1>3, <2>1, AppendTyped DEF AgentReceivesData
  <2>3. apc' \in [Conns -> AgentPc] /\ acur' \in [Conns -> Sids \cup {0}]
    BY <1>3, <2>1 DEF AgentReceivesData, Goes, AgentPc
  <2> QED BY <1>3, <2>1, <2>2, <2>3 DEF AgentReceivesData
<1>4. CASE AgentReceivesClose(e)
  <2>1. b2a' \in [Conns -> Seq(UpFrame)] /\ Head(b2a[e]).sid \in Sids
    BY <1>4, TakesTyped DEF AgentReceivesClose
  <2>2. CASE ClosesSession(e, Head(b2a[e]).sid, "read")
    BY <1>4, <2>1, <2>2, ClosesSessionTyped DEF AgentReceivesClose
  <2>3. CASE UNCHANGED <<apc, acur, after, sessions, rpc>>
    BY <1>4, <2>1, <2>3 DEF AgentReceivesClose
  <2> QED BY <1>4, <2>2, <2>3 DEF AgentReceivesClose
<1>5. CASE AgentReceivesHeartbeat(e)
  <2>1. b2a' \in [Conns -> Seq(UpFrame)]
    BY <1>5, TakesTyped DEF AgentReceivesHeartbeat
  <2>2. a2b' \in [Conns -> Seq(DownFrame)] /\ apc' \in [Conns -> AgentPc]
    BY <1>5, FramesTyped, RepliesTyped DEF AgentReceivesHeartbeat
  <2> QED BY <1>5, <2>1, <2>2 DEF AgentReceivesHeartbeat
<1> QED BY <1>1, <1>2, <1>3, <1>4, <1>5

LEMMA SessionTyped ==
    ASSUME WireTypeOK, AgentTypeOK, Working, NEW e \in Conns,
           \/ UxOpens(e) \/ UxRefuses(e) \/ UxDrained(e) \/ UxWriteFails(e)
           \/ RelayJoined(e) \/ UxClosed(e)
    PROVE  WireTypeOK' /\ AgentTypeOK'
<1> DEFINE s == acur[e]
           l == <<e, s>>
<1> USE DEF WireTypeOK, AgentTypeOK, uxVars, wireVars, channels
<1>s. s \in Sids /\ l \in Links /\ Control("CLOSE", s) \in DownFrame
  BY WorkingLink, FramesTyped
  DEF UxOpens, UxRefuses, UxDrained, UxWriteFails, RelayJoined, UxClosed, At
<1>i. ASSUME Idle(e)
      PROVE  acur' \in [Conns -> Sids \cup {0}]
  BY <1>i DEF Idle
<1>1. CASE UxOpens(e)
  BY <1>1, <1>s, <1>i DEF UxOpens, Goes, AgentPc, RelayPc, UxTransport
<1>2. CASE UxRefuses(e)
  <2>1. a2b' \in [Conns -> Seq(DownFrame)] /\ apc' \in [Conns -> AgentPc]
    BY <1>2, <1>s, RepliesTyped DEF UxRefuses
  <2> QED BY <1>2, <1>i, <2>1 DEF UxRefuses
<1>3. CASE UxDrained(e)
  BY <1>3, <1>i DEF UxDrained, Goes, AgentPc
<1>4. CASE UxWriteFails(e)
  <2>1. CASE ClosesSession(e, s, "notify") /\ UNCHANGED a2b
    BY <1>4, <1>s, <2>1, ClosesSessionTyped DEF UxWriteFails
  <2>2. CASE /\ Replies(e, Control("CLOSE", s), "notifyDrain")
             /\ Idle(e)
             /\ UNCHANGED <<after, sessions, rpc>>
    <3>1. a2b' \in [Conns -> Seq(DownFrame)] /\ apc' \in [Conns -> AgentPc]
      BY <1>s, <2>2, RepliesTyped
    <3> QED BY <1>4, <1>i, <2>2, <3>1 DEF UxWriteFails
  <2> QED BY <1>4, <2>1, <2>2 DEF UxWriteFails
<1>5. CASE RelayJoined(e)
  BY <1>5, <1>s DEF RelayJoined, Goes, AgentPc, ClosedUx, UxTransport
<1>6. CASE UxClosed(e)
  <2>1. a2b' \in [Conns -> Seq(DownFrame)] /\ apc' \in [Conns -> AgentPc]
    BY <1>6, <1>s, RepliesTyped DEF UxClosed, Goes, AgentPc
  <2>2. after' \in [Conns -> {"read", "notify", "cleanup"}]
    BY <1>6 DEF UxClosed
  <2> QED BY <1>6, <1>i, <2>1, <2>2 DEF UxClosed
<1> QED BY <1>1, <1>2, <1>3, <1>4, <1>5, <1>6

LEMMA DispatchTyped ==
    ASSUME WireTypeOK, AgentTypeOK, Working, NEW e \in Conns, Dispatch(e)
    PROVE  WireTypeOK' /\ AgentTypeOK'
<1> USE DEF WireTypeOK, AgentTypeOK, uxVars, wireVars, channels
<1>1. CASE \/ AgentReceivesConnect(e) \/ AgentReceivesStaleData(e)
           \/ AgentReceivesData(e) \/ AgentReceivesClose(e)
           \/ AgentReceivesHeartbeat(e)
  BY <1>1, ReceivesTypedAtAgent
<1>2. CASE \/ UxOpens(e) \/ UxRefuses(e) \/ UxDrained(e) \/ UxWriteFails(e)
           \/ RelayJoined(e) \/ UxClosed(e)
  BY <1>2, SessionTyped
<1>3. CASE ReplyDrained(e)
  BY <1>3 DEF ReplyDrained, Goes, AgentPc
<1>4. CASE AgentEOF(e)
  BY <1>4, EmptyTyped DEF AgentEOF, Goes, AgentPc
<1>5. CASE CleansUp(e)
  <2>1. PICK s \in Sids : ClosesSession(e, s, "cleanup")
    BY <1>5 DEF CleansUp
  <2> QED BY <1>5, <2>1, ClosesSessionTyped DEF CleansUp
<1>6. CASE CleanedUp(e)
  <2>1. link' \in [Conns -> LinkState]
    BY <1>6 DEF CleanedUp, Closed, LinkState
  <2> QED BY <1>6, <2>1 DEF CleanedUp, Goes, AgentPc
<1> QED BY <1>1, <1>2, <1>3, <1>4, <1>5, <1>6 DEF Dispatch

(* A relay that runs sends its client's data. *)
LEMMA RelayTyped ==
    ASSUME WireTypeOK, AgentTypeOK, Opened, NEW l \in Links, Relay(l)
    PROVE  WireTypeOK' /\ AgentTypeOK'
<1> USE DEF WireTypeOK, AgentTypeOK, uxVars, dispatchVars, wireVars, channels
<1>l. l[1] \in Conns /\ l[2] \in Sids /\ l = <<l[1], l[2]>>
  BY DEF Links
<1>g. ASSUME NEW label \in RelayPc, RelayGoes(l, label)
      PROVE  rpc' \in [Links -> RelayPc]
  BY <1>g DEF RelayGoes
<1>v. ASSUME RelayLeaves(l)
      PROVE  /\ rpc' \in [Links -> RelayPc]
             /\ sessions' \in [Conns -> SUBSET Sids]
             /\ ut' \in [Links -> UxTransport]
  BY <1>v, <1>l DEF RelayLeaves, RelayGoes, RelayPc, ClosedUx, UxTransport
<1>f. ASSUME RelayFinally(l)
      PROVE  /\ a2b' \in [Conns -> Seq(DownFrame)]
             /\ rpc' \in [Links -> RelayPc]
             /\ sessions' \in [Conns -> SUBSET Sids]
             /\ ut' \in [Links -> UxTransport]
  <2>1. a2b' \in [Conns -> Seq(DownFrame)]
    BY <1>f, <1>l, FramesTyped, AgentSendsTyped DEF RelayFinally
  <2> QED BY <1>f, <1>v, <1>g, <2>1 DEF RelayFinally, RelayPc
<1>1. CASE RelayStarts(l) \/ RelayDataDrained(l)
  BY <1>1, <1>g DEF RelayStarts, RelayDataDrained, RelayPc
<1>2. CASE RelayReads(l)
  <2>1. peer[l] \in Clients /\ relayRead[l] + 1 \in Nat
    BY <1>2, <1>l DEF RelayReads, Opened, Alive
  <2>2. Data(l[2], peer[l], relayRead[l] + 1) \in DownFrame
    BY <1>l, <2>1, FramesTyped
  <2>3. a2b' \in [Conns -> Seq(DownFrame)]
    BY <1>2, <1>l, <2>2, AgentSendsTyped DEF RelayReads
  <2>4. /\ rpc' \in [Links -> RelayPc]
        /\ sessions' \in [Conns -> SUBSET Sids]
        /\ ut' \in [Links -> UxTransport]
    BY <1>2, <1>g, <1>v DEF RelayReads, RelayPc
  <2>5. relayRead' \in [Links -> Nat]
    BY <1>2, <2>1 DEF RelayReads
  <2> QED BY <1>2, <2>3, <2>4, <2>5 DEF RelayReads
<1>3. CASE RelayEOF(l)
  BY <1>3, <1>f DEF RelayEOF
<1>4. CASE RelayDataFails(l)
  BY <1>4, <1>f DEF RelayDataFails
<1>5. CASE RelayCancelled(l)
  BY <1>5, <1>f DEF RelayCancelled
<1>6. CASE RelayCloseDrained(l)
  BY <1>6, <1>v DEF RelayCloseDrained
<1> QED BY <1>1, <1>2, <1>3, <1>4, <1>5, <1>6 DEF Relay

LEMMA UsbmuxdTyped ==
    ASSUME WireTypeOK, AgentTypeOK, NEW l \in Links,
           Usbmuxd(l) \/ UxTransportLost(l)
    PROVE  WireTypeOK' /\ AgentTypeOK'
<1> USE DEF WireTypeOK, AgentTypeOK, uxVars, dispatchVars, wireVars, channels
<1>1. CASE UxWrites(l)
  BY <1>1 DEF UxWrites
<1>2. CASE UxReads(l)
  BY <1>2 DEF UxReads
<1>3. CASE UxCloses(l)
  BY <1>3 DEF UxCloses
<1>4. CASE UxTransportLost(l)
  BY <1>4 DEF UxTransportLost, UxTransport
<1> QED BY <1>1, <1>2, <1>3, <1>4 DEF Usbmuxd

-----------------------------------------------------------------------------
(***************************************************************************)
(* Isolation.  The invariant that carries the proof is IInv of Tunnel.     *)
(*                                                                         *)
(* The first step of a handler gives its client an id.  Every other step   *)
(* is summed up by what it does to the variables IInv relates (Effect,     *)
(* below); that such a step preserves IInv is then shown once.             *)
(***************************************************************************)

(* f carries what the client with f's id wrote, or what usbmuxd wrote on   *)
(* that client's connection.                                               *)
True(f) == f.type \in {"CONNECT", "DATA"} => sid[f.data.client] = f.sid

(* Nothing but true frames is added to the channels. *)
AddsTruth(old, new) == \A f \in Elems(new) : f \in Elems(old) \/ True(f)
ChannelEffect ==
    \A e \in Conns : AddsTruth(b2a[e], b2a'[e]) /\ AddsTruth(a2b[e], a2b'[e])

(* At the bridge: every client keeps its id, a writer is only removed, and *)
(* what is written to a client is that client's.                           *)
BridgeEffect ==
    /\ UNCHANGED <<sid, nextId>>
    /\ \A c \in Clients :
          /\ hpc'[c] \in {"none", "accepted"} <=> hpc[c] \in {"none", "accepted"}
          /\ app'[c] = "none" => app[c] = "none" /\ (hpc[c] = "none" => hpc'[c] = "none")
          /\ \A p \in Elems(toLocal'[c]) : p \in Elems(toLocal[c]) \/ p.client = c
    /\ \A s \in Sids : localClients'[s] \in {localClients[s], NoClient}

(* At the agent: a link gets a client at most once, the one with its id,   *)
(* before anything happens on it, and usbmuxd is written that client's.    *)
AgentEffect ==
    /\ \A l \in Links :
          /\ \/ peer'[l] = peer[l]
             \/ peer[l] = NoClient /\ peer'[l] # NoClient /\ sid[peer'[l]] = l[2]
          /\ \A p \in Elems(toUx'[l]) : p \in Elems(toUx[l]) \/ p.client = peer[l]
    /\ \A e \in Conns, s \in Sids :
          Alive(e, s)' => Alive(e, s) \/ peer'[<<e, s>>] # NoClient
    /\ Working'

Effect == BridgeEffect /\ ChannelEffect /\ AgentEffect

-----------------------------------------------------------------------------
LEMMA ElemsAppend ==
    ASSUME NEW F, NEW s \in Seq(F), NEW x
    PROVE  Elems(Append(s, x)) = Elems(s) \cup {x}
BY DEF Elems

LEMMA ElemsTail ==
    ASSUME NEW F, NEW s \in Seq(F), s # <<>>
    PROVE  Head(s) \in Elems(s) /\ Elems(Tail(s)) \subseteq Elems(s)
BY DEF Elems

LEMMA ElemsEmpty == Elems(<<>>) = {}
BY DEF Elems

LEMMA ElemsTyped ==
    ASSUME NEW F, NEW s \in Seq(F), NEW x \in Elems(s)
    PROVE  x \in F
BY DEF Elems

(* Truth in the channels, stated frame by frame. *)
LEMMA TrueFrames ==
    ASSUME IInv, NEW e \in Conns
    PROVE  /\ \A f \in Elems(b2a[e]) : True(f) /\ f \in UpFrame
           /\ \A f \in Elems(a2b[e]) : True(f) /\ f \in DownFrame
BY ElemsTyped DEF IInv, Truthful, True, TypeOK, WireTypeOK

(* A step with this effect preserves the invariant.                        *)
LEMMA EffectKeepsIInv ==
    ASSUME IInv, TypeOK', Effect
    PROVE  IInv'
<1>1. Started' /\ Arrived' /\ UniqueIds'
  BY DEF IInv, Started, Arrived, UniqueIds, Effect, BridgeEffect
<1>2. Registered'
  BY DEF IInv, Registered, Effect, BridgeEffect
<1>3. Truthful'
  BY DEF IInv, Truthful, Effect, BridgeEffect, ChannelEffect, AddsTruth, True
<1>4. Peers'
  BY DEF IInv, Peers, Effect, BridgeEffect, AgentEffect
<1>5. Opened'
  BY DEF IInv, Opened, Effect, AgentEffect, Links
<1>6. DownIsolation'
  BY DEF IInv, DownIsolation, Effect, BridgeEffect
<1>7. UpIsolation'
  <2> SUFFICES ASSUME NEW l \in Links, NEW p \in Elems(toUx'[l])
               PROVE  p.client = peer'[l]
    BY DEF UpIsolation
  <2>1. p.client = peer[l]
    BY DEF IInv, UpIsolation, Effect, AgentEffect
  <2>2. p \in Piece
    BY ElemsTyped DEF TypeOK, AgentTypeOK
  <2> QED BY <2>1, <2>2 DEF Effect, AgentEffect, Piece
<1> QED BY <1>1, <1>2, <1>3, <1>4, <1>5, <1>6, <1>7 DEF IInv, Effect, AgentEffect

(* What a side that stands still contributes. *)
LEMMA BridgeStandsStill ==
    ASSUME UNCHANGED bridgeVars
    PROVE  BridgeEffect
BY DEF BridgeEffect, bridgeVars, connVars, handlerVars, appVars, downVars

LEMMA AgentStandsStill ==
    ASSUME IInv, UNCHANGED agentVars
    PROVE  AgentEffect
<1>1. UNCHANGED <<apc, acur, sessions, peer, rpc, toUx>>
  BY DEF agentVars, dispatchVars
<1>2. Working'
  BY <1>1 DEF IInv, Working
<1> QED BY <1>1, <1>2 DEF AgentEffect, Alive, At

LEMMA ChannelsStandStill ==
    ASSUME UNCHANGED <<b2a, a2b>>
    PROVE  ChannelEffect
BY DEF ChannelEffect, AddsTruth

-----------------------------------------------------------------------------
(* The bridge *)

LEMMA SendsTruth ==
    ASSUME WireTypeOK, NEW f, True(f), NEW e \in Conns,
           BridgeSends(f) \/ BridgeSendRaises \/ BridgeSendDropped
    PROVE  AddsTruth(b2a[e], b2a'[e])
<1>1. CASE b2a'[e] = b2a[e]
  BY <1>1 DEF AddsTruth
<1>2. CASE b2a'[e] = Append(b2a[e], f)
  BY <1>2, ElemsAppend DEF AddsTruth, WireTypeOK
<1> QED BY <1>1, <1>2 DEF BridgeSends, BridgeSendRaises, BridgeSendDropped, WireTypeOK

LEMMA BridgeSendsTruth ==
    ASSUME WireTypeOK, NEW f, True(f), UNCHANGED a2b,
           BridgeSends(f) \/ BridgeSendRaises \/ BridgeSendDropped
    PROVE  ChannelEffect
BY SendsTruth DEF ChannelEffect, AddsTruth

LEMMA ControlIsTrue ==
    \A s : True(Control("CLOSE", s)) /\ True(Control("HEARTBEAT", s))
BY DEF True, Control

(* Taking the first frame of a channel adds none. *)
LEMMA TailTrue ==
    ASSUME NEW F, NEW ch \in [Conns -> Seq(F)], NEW x \in Conns, ch[x] # <<>>,
           NEW e \in Conns
    PROVE  AddsTruth(ch[e], [ch EXCEPT ![x] = Tail(@)][e])
BY ElemsTail DEF AddsTruth

(* A handler that has its id. *)
LEMMA HandlerEffect ==
    ASSUME IInv, NEW c \in Clients, Handler(c), ~HandlerStarts(c)
    PROVE  BridgeEffect /\ ChannelEffect
<1> USE DEF connVars, hbVars, appVars, downVars, wireVars, channels
<1>t. WireTypeOK /\ BridgeTypeOK /\ Started
  BY DEF IInv, TypeOK
<1>v. ASSUME Leaves(c), hpc[c] \notin {"none", "accepted"},
             UNCHANGED <<sid, nextId, app, toLocal>>
      PROVE  BridgeEffect
  BY <1>v, <1>t DEF Leaves, GoesTo, Pop, BridgeEffect, BridgeTypeOK
<1>g. ASSUME NEW label \in HandlerPc \ {"none", "accepted"}, GoesTo(c, label),
             hpc[c] \notin {"none", "accepted"},
             UNCHANGED <<sid, nextId, app, toLocal, localClients>>
      PROVE  BridgeEffect
  BY <1>g, <1>t DEF GoesTo, BridgeEffect, BridgeTypeOK
<1>f. ASSUME Finally(c), hpc[c] \notin {"none", "accepted"},
             UNCHANGED <<sid, nextId, app, toLocal, a2b>>
      PROVE  BridgeEffect /\ ChannelEffect
  <2>1. ChannelEffect
    BY <1>f, <1>t, ControlIsTrue, BridgeSendsTruth DEF Finally
  <2>2. BridgeEffect
    BY <1>f, <1>g, <1>v DEF Finally, HandlerPc
  <2> QED BY <2>1, <2>2
<1>1. CASE HandlerReads(c)
  <2>1. True(Data(sid[c], c, upRead[c] + 1))
    BY DEF True, Data
  <2>2. ChannelEffect
    BY <1>1, <1>t, <2>1, BridgeSendsTruth DEF HandlerReads
  <2>3. /\ hpc[c] \notin {"none", "accepted"}
        /\ UNCHANGED <<sid, nextId, app, toLocal>>
    BY <1>1 DEF HandlerReads
  <2>4. CASE Leaves(c)
    BY <1>v, <2>2, <2>3, <2>4
  <2>5. CASE UNCHANGED <<localClients, lt>> /\ GoesTo(c, AfterSend("dataDrain", "read"))
    BY <1>g, <2>2, <2>3, <2>5 DEF AfterSend, HandlerPc
  <2>6. CASE UNCHANGED <<localClients, lt, hpc>>
    BY <2>2, <2>3, <2>6 DEF BridgeEffect
  <2> QED BY <1>1, <2>4, <2>5, <2>6 DEF HandlerReads
<1>2. CASE ConnectDrained(c) \/ DataDrained(c)
  BY <1>2, <1>g, ChannelsStandStill DEF ConnectDrained, DataDrained, HandlerPc
<1>3. CASE ConnectFails(c) \/ CloseDrained(c)
  BY <1>3, <1>v, ChannelsStandStill DEF ConnectFails, CloseDrained, Leaves
<1>4. CASE HandlerEOF(c) \/ DataFails(c)
  BY <1>4, <1>f DEF HandlerEOF, DataFails
<1> QED BY <1>1, <1>2, <1>3, <1>4 DEF Handler

(* A piece for a client that is registered was written for this client:    *)
(* the id under which its writer is found is its own.                      *)
LEMMA BridgeReceivesDataEffect ==
    ASSUME IInv, NEW e \in Conns, BridgeReceivesData(e)
    PROVE  BridgeEffect /\ ChannelEffect
<1> DEFINE frame == Head(a2b[e])
           c == localClients[frame.sid]
<1>t. /\ a2b[e] # <<>> /\ a2b' = [a2b EXCEPT ![e] = Tail(@)]
      /\ frame.type = "DATA"
      /\ frame.sid \in Sids /\ frame.data \in Piece
      /\ a2b \in [Conns -> Seq(DownFrame)]
      /\ WireTypeOK /\ BridgeTypeOK
  BY ReceivesTyped DEF BridgeReceivesData, Receives, IInv, TypeOK, WireTypeOK
<1>u. UNCHANGED <<sid, nextId, hpc, app, localClients>>
  BY DEF BridgeReceivesData, handlerVars, appVars
<1>c. \A x \in Conns : AddsTruth(a2b[x], a2b'[x])
  BY <1>t, TailTrue
<1>1. CASE c = NoClient
  <2>1. BridgeSends(Control("CLOSE", frame.sid)) \/ BridgeSendRaises
    BY <1>1 DEF BridgeReceivesData
  <2>2. \A x \in Conns : AddsTruth(b2a[x], b2a'[x])
    BY <1>t, <2>1, ControlIsTrue, SendsTruth
  <2>3. UNCHANGED toLocal
    BY <1>1 DEF BridgeReceivesData, downVars
  <2> QED BY <1>u, <1>c, <2>2, <2>3 DEF BridgeEffect, ChannelEffect
<1>2. CASE c # NoClient
  <2>1. /\ toLocal' = [toLocal EXCEPT ![c] =
                         IF lt[c] = "open" THEN Append(@, frame.data) ELSE @]
        /\ UNCHANGED b2a
    BY <1>2 DEF BridgeReceivesData
  <2>2. frame \in Elems(a2b[e])
    BY <1>t, ElemsTail
  <2>3. sid[frame.data.client] = frame.sid
    BY <1>t, <2>2 DEF IInv, Truthful
  <2>4. c \in Clients /\ sid[c] = frame.sid
    BY <1>t, <1>2 DEF IInv, Registered, BridgeTypeOK
  <2>5. frame.data.client = c
    BY <1>t, <2>3, <2>4 DEF IInv, UniqueIds, Piece, Sids
  <2>6. toLocal'[c] \in {toLocal[c], Append(toLocal[c], frame.data)}
    BY <1>t, <2>1, <2>4 DEF BridgeTypeOK
  <2>7. \A p \in Elems(toLocal'[c]) : p \in Elems(toLocal[c]) \/ p.client = c
    <3>1. toLocal[c] \in Seq(Piece)
      BY <1>t, <2>4 DEF BridgeTypeOK
    <3>2. Elems(Append(toLocal[c], frame.data)) = Elems(toLocal[c]) \cup {frame.data}
      BY <3>1, ElemsAppend
    <3> QED BY <2>5, <2>6, <3>2
  <2>8. \A d \in Clients \ {c} : toLocal'[d] = toLocal[d]
    BY <1>t, <2>1 DEF BridgeTypeOK
  <2>9. BridgeEffect
    BY <1>u, <2>7, <2>8 DEF BridgeEffect
  <2> QED BY <1>c, <2>1, <2>9 DEF ChannelEffect, AddsTruth
<1> QED BY <1>1, <1>2

LEMMA BridgeStepEffect ==
    ASSUME IInv, BridgeStep, ~(\E c \in Clients : HandlerStarts(c))
    PROVE  BridgeEffect /\ ChannelEffect
<1> USE DEF connVars, hbVars, handlerVars, appVars, downVars, wireVars, channels
<1>t. /\ WireTypeOK /\ BridgeTypeOK /\ Started
      /\ a2b \in [Conns -> Seq(DownFrame)]
  BY DEF IInv, TypeOK, WireTypeOK
<1>u. ASSUME UNCHANGED <<sid, nextId, hpc, app, toLocal>>,
             \A s \in Sids : localClients'[s] \in {localClients[s], NoClient}
      PROVE  BridgeEffect
  BY <1>u DEF BridgeEffect
<1>a. ASSUME NEW e \in Conns, NEW type, Receives(e, type), UNCHANGED b2a
      PROVE  ChannelEffect
  <2>1. \A x \in Conns : AddsTruth(a2b[x], a2b'[x])
    BY <1>a, <1>t, TailTrue DEF Receives
  <2> QED BY <1>a, <2>1 DEF ChannelEffect, AddsTruth
<1>d. ASSUME TearsDown, UNCHANGED <<b2a, sid, nextId, hpc, app, toLocal>>
      PROVE  BridgeEffect /\ ChannelEffect
  <2>1. \A x \in Conns : a2b'[x] = a2b[x] \/ a2b'[x] = <<>>
    BY <1>d, <1>t DEF TearsDown
  <2>2. ChannelEffect
    BY <1>d, <2>1, ElemsEmpty DEF ChannelEffect, AddsTruth
  <2> QED BY <1>d, <1>u, <2>2 DEF TearsDown
<1>1. ASSUME NEW e \in Conns, BridgeReceivesData(e)
      PROVE  BridgeEffect /\ ChannelEffect
  BY <1>1, BridgeReceivesDataEffect
<1>2. ASSUME NEW e \in Conns, BridgeReceivesClose(e)
      PROVE  BridgeEffect /\ ChannelEffect
  BY <1>2, <1>t, <1>u, <1>a DEF BridgeReceivesClose, Pop, BridgeTypeOK
<1>3. ASSUME NEW e \in Conns, BridgeReceivesHeartbeat(e)
      PROVE  BridgeEffect /\ ChannelEffect
  BY <1>3, <1>u, <1>a DEF BridgeReceivesHeartbeat, bridgeVars
<1>4. CASE LocalDrained
  BY <1>4, <1>t, <1>u, ChannelsStandStill DEF LocalDrained, Pop, BridgeTypeOK
<1>5. CASE SendDrained
  BY <1>5, <1>u, ChannelsStandStill DEF SendDrained
<1>6. CASE Beat
  BY <1>6, <1>t, <1>u, ControlIsTrue, BridgeSendsTruth DEF Beat
<1>7. CASE BeatDrained
  BY <1>7, <1>u, ChannelsStandStill DEF BeatDrained
<1>8. CASE BridgeEOF
  <2>1. CASE TearsDown
    BY <1>8, <1>d, <2>1 DEF BridgeEOF
  <2>2. CASE UNCHANGED <<lt, localClients, link, a2b, agentWriter>>
    BY <1>8, <1>u, <2>2, ChannelsStandStill DEF BridgeEOF
  <2> QED BY <1>8, <2>1, <2>2 DEF BridgeEOF
<1>9. CASE WaitClosedReturns
  BY <1>9, <1>d DEF WaitClosedReturns
<1>10. ASSUME NEW c \in Clients, Handler(c)
       PROVE  BridgeEffect /\ ChannelEffect
  BY <1>10, HandlerEffect
<1>11. ASSUME NEW c \in Clients, LocalTransportLost(c)
       PROVE  BridgeEffect /\ ChannelEffect
  BY <1>11, <1>u, ChannelsStandStill DEF LocalTransportLost
<1> QED
  BY <1>1, <1>2, <1>3, <1>4, <1>5, <1>6, <1>7, <1>8, <1>9, <1>10, <1>11
  DEF BridgeStep, ReaderLoop

LEMMA AppEffect ==
    ASSUME IInv, NEW c \in Clients, App(c)
    PROVE  BridgeEffect /\ ChannelEffect
<1> USE DEF connVars, hbVars, handlerVars, appVars, downVars, wireVars, channels
<1>t. BridgeTypeOK /\ Arrived
  BY DEF IInv, TypeOK
<1>1. CASE AppConnects(c)
  <2>1. hpc[c] = "none" /\ hpc' = [hpc EXCEPT ![c] = "accepted"]
    BY <1>1, <1>t DEF AppConnects, GoesTo, Arrived
  <2>2. BridgeEffect
    BY <1>1, <1>t, <2>1 DEF AppConnects, BridgeEffect, BridgeTypeOK
  <2> QED BY <1>1, <2>2, ChannelsStandStill DEF AppConnects
<1>2. CASE AppWrites(c) \/ AppReads(c)
  BY <1>2, ChannelsStandStill DEF AppWrites, AppReads, BridgeEffect
<1>3. CASE AppCloses(c)
  BY <1>3, <1>t, ChannelsStandStill DEF AppCloses, BridgeEffect, BridgeTypeOK
<1> QED BY <1>1, <1>2, <1>3 DEF App

(* The first step of a handler: the id it takes is nobody's yet, so nobody *)
(* has a writer, a frame or a session under it.                            *)
LEMMA HandlerStartsKeepsIInv ==
    ASSUME IInv, TypeOK', UNCHANGED agentVars, NEW c \in Clients, HandlerStarts(c)
    PROVE  IInv'
<1>t. /\ WireTypeOK /\ BridgeTypeOK
      /\ nextId \in Sids /\ nextId # 0
      /\ hpc[c] = "accepted"
  BY DEF IInv, TypeOK, HandlerStarts, Sids
<1>u. UNCHANGED <<a2b, apc, acur, sessions, peer, rpc, toUx, toLocal, app>>
  BY DEF HandlerStarts, Registers, agentVars, dispatchVars, appVars, downVars
<1>1. /\ sid' = [sid EXCEPT ![c] = nextId]
      /\ nextId' = nextId + 1
      /\ \/ localClients' = [localClients EXCEPT ![nextId] = c]
         \/ UNCHANGED localClients
  BY DEF HandlerStarts, Registers
<1>2. /\ sid[c] = 0
      /\ \A d \in Clients : sid[d] \in 0 .. (nextId - 1)
  BY <1>t DEF IInv, Started, BridgeTypeOK, Sids
<1>3. /\ sid'[c] = nextId
      /\ \A d \in Clients : sid[d] # 0 => d # c /\ sid'[d] = sid[d]
      /\ \A d \in Clients \ {c} : sid'[d] = sid[d]
  BY <1>t, <1>1, <1>2 DEF BridgeTypeOK
<1>4. /\ hpc'[c] \notin {"none", "accepted"}
      /\ \A d \in Clients \ {c} : hpc'[d] = hpc[d]
  BY <1>t DEF HandlerStarts, Registers, GoesTo, AfterSend, BridgeTypeOK
<1>5. Started'
  <2> SUFFICES ASSUME NEW d \in Clients
               PROVE  IF hpc'[d] \in {"none", "accepted"} THEN sid'[d] = 0
                      ELSE sid'[d] \in 1 .. (nextId' - 1)
    BY DEF Started
  <2>1. CASE d = c
    BY <1>t, <1>1, <1>3, <1>4, <2>1 DEF Sids
  <2>2. CASE d # c
    BY <1>t, <1>1, <1>3, <1>4, <2>2 DEF IInv, Started, Sids
  <2> QED BY <2>1, <2>2
<1>6. Arrived'
  BY <1>t, <1>u, <1>4 DEF IInv, Arrived
<1>7. UniqueIds'
  BY <1>t, <1>2, <1>3 DEF IInv, UniqueIds, Sids
<1>8. Registered'
  <2> SUFFICES ASSUME NEW s \in Sids, localClients'[s] # NoClient
               PROVE  sid'[localClients'[s]] = s
    BY DEF Registered
  <2>1. CASE localClients'[s] = localClients[s]
    <3>1. localClients[s] \in Clients /\ sid[localClients[s]] = s
      BY <2>1 DEF IInv, Registered, TypeOK, BridgeTypeOK
    <3> QED BY <1>3, <2>1, <3>1 DEF Sids
  <2>2. CASE s = nextId /\ localClients'[s] = c
    BY <1>3, <2>2
  <2> QED BY <1>t, <1>1, <2>1, <2>2 DEF BridgeTypeOK
<1>9. Truthful'
  <2> SUFFICES ASSUME NEW e \in Conns, NEW f \in Elems(b2a'[e]) \cup Elems(a2b'[e]),
                      f.type \in {"CONNECT", "DATA"}
               PROVE  sid'[f.data.client] = f.sid
    BY DEF Truthful
  <2>1. \/ f \in Elems(b2a[e]) \cup Elems(a2b[e])
        \/ f = Connect(nextId, c)
    <3>1. b2a'[e] \in {b2a[e], Append(b2a[e], Connect(nextId, c))}
      BY <1>t DEF HandlerStarts, Registers, BridgeSends, BridgeSendRaises,
                  BridgeSendDropped, WireTypeOK
    <3>2. b2a[e] \in Seq(UpFrame)
      BY <1>t DEF WireTypeOK
    <3>3. Elems(Append(b2a[e], Connect(nextId, c))) = Elems(b2a[e]) \cup {Connect(nextId, c)}
      BY <3>2, ElemsAppend
    <3> QED BY <1>u, <3>1, <3>3
  <2>2. CASE f = Connect(nextId, c)
    BY <1>3, <2>2 DEF Connect
  <2>3. CASE f \in Elems(b2a[e]) \cup Elems(a2b[e])
    <3>1. sid[f.data.client] = f.sid
      BY <2>3 DEF IInv, Truthful
    <3>2. f.data \in Piece /\ f.sid \in Sids
      BY <2>3, TrueFrames, UpFields, DownFields DEF DownFrame, ControlFrame
    <3> QED BY <1>3, <3>1, <3>2 DEF Piece, Sids
  <2> QED BY <2>1, <2>2, <2>3
<1>10. Peers'
  <2> SUFFICES ASSUME NEW l \in Links, peer[l] # NoClient
               PROVE  sid'[peer[l]] = l[2]
    BY <1>u DEF Peers
  <2>1. peer[l] \in Clients /\ sid[peer[l]] = l[2] /\ l[2] # 0
    BY DEF IInv, Peers, TypeOK, AgentTypeOK, Links, Sids
  <2> QED BY <1>3, <2>1
<1>11. Opened' /\ Working'
  BY <1>u DEF IInv, Opened, Alive, At, Working
<1>12. DownIsolation' /\ UpIsolation'
  BY <1>u DEF IInv, DownIsolation, UpIsolation
<1> QED
  BY <1>5, <1>6, <1>7, <1>8, <1>9, <1>10, <1>11, <1>12 DEF IInv

-----------------------------------------------------------------------------
(* The agent *)

LEMMA AgentSendsTruth ==
    ASSUME WireTypeOK, NEW e \in Conns, NEW f, True(f), NEW x \in Conns,
           AgentSends(e, f) \/ AgentSendLost(e)
    PROVE  AddsTruth(a2b[x], a2b'[x])
<1>1. CASE a2b'[x] = a2b[x]
  BY <1>1 DEF AddsTruth
<1>2. CASE a2b'[x] = Append(a2b[x], f)
  <2>1. a2b[x] \in Seq(DownFrame)
    BY DEF WireTypeOK
  <2> QED BY <1>2, <2>1, ElemsAppend DEF AddsTruth
<1> QED BY <1>1, <1>2 DEF AgentSends, AgentSendLost, WireTypeOK

LEMMA RepliesTruth ==
    ASSUME WireTypeOK, NEW e \in Conns, NEW f, True(f), NEW drain, NEW x \in Conns,
           Replies(e, f, drain)
    PROVE  AddsTruth(a2b[x], a2b'[x])
BY AgentSendsTruth DEF Replies

LEMMA TakesTruth ==
    ASSUME WireTypeOK, NEW e \in Conns, NEW type, Takes(e, type), NEW x \in Conns
    PROVE  AddsTruth(b2a[x], b2a'[x])
BY TailTrue DEF Takes, WireTypeOK

(* Where a reply leaves the dispatch loop. *)
LEMMA RepliesTo ==
    ASSUME AgentTypeOK, NEW e \in Conns, NEW f,
           NEW drain \in {"replyDrain", "notifyDrain"}, Replies(e, f, drain)
    PROVE  /\ apc'[e] \in {"read", "cleanup", "replyDrain", "notifyDrain"}
           /\ \A x \in Conns \ {e} : apc'[x] = apc[x]
BY DEF Replies, Goes, AgentTypeOK

(* A step of connection e's tasks that adds nothing to its map, leaves the *)
(* links' clients alone and works on a session only if it has its id.      *)
LEMMA Quietly ==
    ASSUME IInv, NEW e \in Conns,
           UNCHANGED <<peer, toUx>>,
           \A x \in Conns \ {e} : apc'[x] = apc[x] /\ acur'[x] = acur[x],
           \A x \in Conns : sessions'[x] \subseteq sessions[x],
           \A l \in Links : rpc[l] = "none" => rpc'[l] = "none",
           apc'[e] # "open",
           apc'[e] \in {"uxDrain", "closeTask", "closeUx"} => acur'[e] \in Sids
    PROVE  AgentEffect
<1>1. Working'
  BY DEF IInv, Working
<1>2. \A x \in Conns, s \in Sids : Alive(x, s)' => Alive(x, s)
  BY DEF Alive, At, Links
<1> QED BY <1>1, <1>2 DEF AgentEffect

LEMMA AgentReceivesEffect ==
    ASSUME IInv, NEW e \in Conns,
           \/ AgentReceivesConnect(e) \/ AgentReceivesData(e)
    PROVE  AgentEffect /\ ChannelEffect
<1> DEFINE frame == Head(b2a[e])
           l == <<e, frame.sid>>
<1>t. /\ WireTypeOK /\ AgentTypeOK
      /\ b2a[e] \in Seq(UpFrame) /\ b2a[e] # <<>>
      /\ frame.type \in {"CONNECT", "DATA"}
      /\ frame.sid \in Sids /\ frame.data \in Piece /\ l \in Links
  BY TakesTyped DEF IInv, TypeOK, WireTypeOK, AgentReceivesConnect,
                    AgentReceivesData, Takes, Links
<1>f. sid[frame.data.client] = frame.sid /\ frame.data.client \in Clients
  <2>1. frame \in Elems(b2a[e])
    BY <1>t, ElemsTail
  <2> QED BY <1>t, <2>1 DEF IInv, Truthful, Piece
<1>c. ChannelEffect
  <2>1. \A x \in Conns : AddsTruth(b2a[x], b2a'[x])
    BY <1>t, TakesTruth DEF AgentReceivesConnect, AgentReceivesData
  <2> QED
    BY <2>1 DEF ChannelEffect, AddsTruth, AgentReceivesConnect, AgentReceivesData
(* A link that already has a client has this one: their ids are the same. *)
<1>p. peer[l] # NoClient => peer[l] = frame.data.client
  <2> HAVE peer[l] # NoClient
  <2>1. peer[l] \in Clients /\ sid[peer[l]] = frame.sid
    BY <1>t DEF IInv, Peers, AgentTypeOK
  <2>2. frame.sid # 0
    BY <1>t DEF Sids
  <2> QED BY <1>f, <2>1, <2>2 DEF IInv, UniqueIds
<1>1. CASE AgentReceivesConnect(e)
  <2>1. /\ peer' = [peer EXCEPT ![l] = frame.data.client]
        /\ acur' = [acur EXCEPT ![e] = frame.sid]
        /\ apc' = [apc EXCEPT ![e] = "open"]
        /\ UNCHANGED <<sessions, rpc, toUx>>
    BY <1>1 DEF AgentReceivesConnect, Goes
  <2>2. /\ peer'[l] = frame.data.client
        /\ \A k \in Links \ {l} : peer'[k] = peer[k]
    BY <1>t, <2>1 DEF AgentTypeOK
  <2>3. /\ apc'[e] = "open" /\ acur'[e] = frame.sid
        /\ \A x \in Conns \ {e} : apc'[x] = apc[x] /\ acur'[x] = acur[x]
    BY <1>t, <2>1 DEF AgentTypeOK
  <2>4. \A k \in Links :
           \/ peer'[k] = peer[k]
           \/ peer[k] = NoClient /\ peer'[k] # NoClient /\ sid[peer'[k]] = k[2]
    BY <1>t, <1>f, <1>p, <2>2
  <2>5. \A x \in Conns, s \in Sids :
           Alive(x, s)' => Alive(x, s) \/ peer'[<<x, s>>] # NoClient
    <3> SUFFICES ASSUME NEW x \in Conns, NEW s \in Sids, Alive(x, s)', ~Alive(x, s)
                 PROVE  peer'[<<x, s>>] # NoClient
      OBVIOUS
    <3>1. x = e /\ s = frame.sid
      BY <2>1, <2>3 DEF Alive, At
    <3> QED BY <1>f, <2>2, <3>1
  <2>6. Working'
    BY <1>t, <2>3 DEF IInv, Working
  <2> QED BY <1>c, <2>1, <2>4, <2>5, <2>6 DEF AgentEffect
<1>2. CASE AgentReceivesData(e)
  <2>1. /\ toUx' = [toUx EXCEPT ![l] =
                      IF ut[l] = "open" THEN Append(@, frame.data) ELSE @]
        /\ apc' = [apc EXCEPT ![e] = IF ut[l] = "lost" \/ Len(toUx'[l]) - uxRead[l] > HighWater
                                     THEN "uxDrain" ELSE "read"]
        /\ acur' = [acur EXCEPT ![e] = IF apc'[e] = "read" THEN 0 ELSE frame.sid]
        /\ frame.sid \in sessions[e]
        /\ UNCHANGED <<sessions, peer, rpc>>
    BY <1>2 DEF AgentReceivesData, Goes
  <2>2. peer[l] = frame.data.client
    BY <1>t, <1>p, <2>1 DEF IInv, Opened, Alive
  <2>3. /\ toUx'[l] \in {toUx[l], Append(toUx[l], frame.data)}
        /\ \A k \in Links \ {l} : toUx'[k] = toUx[k]
    BY <1>t, <2>1 DEF AgentTypeOK
  <2>4. Elems(toUx'[l]) \subseteq Elems(toUx[l]) \cup {frame.data}
    <3>1. toUx[l] \in Seq(Piece)
      BY <1>t DEF AgentTypeOK
    <3>2. Elems(Append(toUx[l], frame.data)) = Elems(toUx[l]) \cup {frame.data}
      BY <3>1, ElemsAppend
    <3> QED BY <2>3, <3>2
  <2>5. \A k \in Links : \A p \in Elems(toUx'[k]) :
           p \in Elems(toUx[k]) \/ p.client = peer[k]
    BY <2>2, <2>3, <2>4
  <2>6. /\ apc'[e] \in {"uxDrain", "read"}
        /\ apc'[e] = "uxDrain" => acur'[e] \in Sids
        /\ \A x \in Conns \ {e} : apc'[x] = apc[x] /\ acur'[x] = acur[x]
    BY <1>t, <2>1 DEF AgentTypeOK
  <2>7. Working'
    BY <2>6 DEF IInv, Working
  <2>8. \A x \in Conns, s \in Sids : Alive(x, s)' => Alive(x, s)
    BY <2>1, <2>6 DEF Alive, At
  <2> QED BY <1>c, <2>1, <2>5, <2>7, <2>8 DEF AgentEffect
<1> QED BY <1>1, <1>2

LEMMA ClosesSessionQuietly ==
    ASSUME IInv, NEW e \in Conns, NEW s \in Sids, NEW return,
           ClosesSession(e, s, return), UNCHANGED <<peer, toUx>>
    PROVE  AgentEffect
<1>1. /\ apc'[e] = "closeTask" /\ acur'[e] = s
      /\ \A x \in Conns \ {e} : apc'[x] = apc[x] /\ acur'[x] = acur[x]
      /\ \A x \in Conns : sessions'[x] \subseteq sessions[x]
  BY DEF ClosesSession, Goes, IInv, TypeOK, AgentTypeOK
<1>2. \A l \in Links : rpc[l] = "none" => rpc'[l] = "none"
  BY DEF ClosesSession, CancelsRelay, IInv, TypeOK, AgentTypeOK
<1> QED BY <1>1, <1>2, Quietly

(* The dispatch loop answers or goes on, and works on no session then. *)
LEMMA RepliesQuietly ==
    ASSUME IInv, NEW e \in Conns, NEW f,
           NEW drain \in {"replyDrain", "notifyDrain"}, Replies(e, f, drain),
           Idle(e) \/ UNCHANGED acur, UNCHANGED <<sessions, peer, rpc, toUx>>
    PROVE  AgentEffect
<1>1. \A x \in Conns \ {e} : apc'[x] = apc[x] /\ acur'[x] = acur[x]
  BY RepliesTo DEF Idle, IInv, TypeOK, AgentTypeOK
<1>2. apc'[e] \in {"read", "cleanup", "replyDrain", "notifyDrain"}
  BY RepliesTo DEF IInv, TypeOK
<1> QED BY <1>1, <1>2, Quietly

LEMMA GoesQuietly ==
    ASSUME IInv, NEW e \in Conns,
           NEW label \in {"read", "cleanup", "done", "closeUx"}, Goes(e, label),
           apc[e] = "closeTask" \/ label # "closeUx",
           UNCHANGED acur \/ (Idle(e) /\ label # "closeUx"),
           UNCHANGED <<sessions, peer, rpc, toUx>>
    PROVE  AgentEffect
<1>1. /\ apc'[e] = label
      /\ \A x \in Conns \ {e} : apc'[x] = apc[x] /\ acur'[x] = acur[x]
  BY DEF Goes, Idle, IInv, TypeOK, AgentTypeOK
<1>2. label = "closeUx" => acur'[e] \in Sids
  BY DEF IInv, Working
<1> QED BY <1>1, <1>2, Quietly

LEMMA DispatchEffect ==
    ASSUME IInv, NEW e \in Conns, Dispatch(e)
    PROVE  AgentEffect /\ ChannelEffect
<1> USE DEF uxVars, wireVars, channels
<1>t. WireTypeOK /\ AgentTypeOK /\ Working
  BY DEF IInv, TypeOK
<1>b. ASSUME \A x \in Conns : AddsTruth(b2a[x], b2a'[x]),
             \A x \in Conns : AddsTruth(a2b[x], a2b'[x])
      PROVE  ChannelEffect
  BY <1>b DEF ChannelEffect
<1>s. \A x \in Conns : /\ b2a'[x] = b2a[x] => AddsTruth(b2a[x], b2a'[x])
                       /\ b2a'[x] = <<>> => AddsTruth(b2a[x], b2a'[x])
                       /\ a2b'[x] = a2b[x] => AddsTruth(a2b[x], a2b'[x])
  BY ElemsEmpty DEF AddsTruth
<1>1. CASE AgentReceivesConnect(e) \/ AgentReceivesData(e)
  BY <1>1, AgentReceivesEffect
<1>2. CASE UxOpens(e)
  <2>1. /\ sessions' = [sessions EXCEPT ![e] = @ \cup {acur[e]}]
        /\ rpc' = [rpc EXCEPT ![<<e, acur[e]>>] = "created"]
        /\ apc[e] = "open" /\ apc' = [apc EXCEPT ![e] = "read"]
        /\ acur' = [acur EXCEPT ![e] = 0]
        /\ UNCHANGED <<b2a, a2b, peer, toUx>>
    BY <1>2 DEF UxOpens, At, Goes, Idle
  <2>2. acur[e] \in Sids
    BY <1>t, <2>1, WorkingLink
  <2>3. \A x \in Conns, s \in Sids : Alive(x, s)' => Alive(x, s)
    BY <1>t, <2>1, <2>2 DEF Alive, At, AgentTypeOK, Links
  <2>4. Working'
    BY <1>t, <2>1 DEF Working, AgentTypeOK
  <2>5. AgentEffect
    BY <2>1, <2>3, <2>4 DEF AgentEffect
  <2> QED BY <2>1, <2>5, ChannelsStandStill
<1>3. CASE UxRefuses(e)
  <2>1. AgentEffect
    BY <1>3, RepliesQuietly DEF UxRefuses
  <2> QED BY <1>3, <1>t, <1>b, <1>s, <2>1, RepliesTruth, ControlIsTrue DEF UxRefuses
<1>4. CASE AgentReceivesStaleData(e)
  <2>1. AgentEffect
    BY <1>4, RepliesQuietly DEF AgentReceivesStaleData
  <2> QED
    BY <1>4, <1>t, <1>b, <2>1, TakesTruth, RepliesTruth, ControlIsTrue
    DEF AgentReceivesStaleData
<1>5. CASE UxDrained(e)
  BY <1>5, GoesQuietly, ChannelsStandStill DEF UxDrained
<1>6. CASE UxWriteFails(e)
  <2>1. acur[e] \in Sids
    BY <1>6, <1>t, WorkingLink DEF UxWriteFails, At
  <2>2. CASE ClosesSession(e, acur[e], "notify") /\ UNCHANGED a2b
    BY <1>6, <2>1, <2>2, ClosesSessionQuietly, ChannelsStandStill DEF UxWriteFails
  <2>3. CASE /\ Replies(e, Control("CLOSE", acur[e]), "notifyDrain")
             /\ Idle(e)
             /\ UNCHANGED <<after, sessions, rpc>>
    <3>1. AgentEffect
      BY <1>6, <2>3, RepliesQuietly DEF UxWriteFails
    <3> QED
      BY <1>6, <1>t, <1>b, <1>s, <2>3, <3>1, RepliesTruth, ControlIsTrue DEF UxWriteFails
  <2> QED BY <1>6, <2>2, <2>3 DEF UxWriteFails
<1>7. CASE AgentReceivesClose(e)
  <2>1. Head(b2a[e]).sid \in Sids
    BY <1>7, <1>t, TakesTyped DEF AgentReceivesClose
  <2>2. ChannelEffect
    BY <1>7, <1>t, <1>b, <1>s, TakesTruth DEF AgentReceivesClose
  <2>3. CASE ClosesSession(e, Head(b2a[e]).sid, "read")
    BY <1>7, <2>1, <2>2, <2>3, ClosesSessionQuietly DEF AgentReceivesClose
  <2>4. CASE UNCHANGED <<apc, acur, after, sessions, rpc>>
    <3>1. Working'
      BY <1>t, <2>4 DEF Working
    <3> QED BY <1>7, <2>2, <2>4, <3>1 DEF AgentReceivesClose, AgentEffect, Alive, At
  <2> QED BY <1>7, <2>3, <2>4 DEF AgentReceivesClose
<1>8. CASE AgentReceivesHeartbeat(e)
  <2>1. AgentEffect
    BY <1>8, RepliesQuietly DEF AgentReceivesHeartbeat
  <2> QED
    BY <1>8, <1>t, <1>b, <2>1, TakesTruth, RepliesTruth, ControlIsTrue
    DEF AgentReceivesHeartbeat
<1>9. CASE ReplyDrained(e)
  BY <1>9, GoesQuietly, ChannelsStandStill DEF ReplyDrained
<1>10. CASE RelayJoined(e)
  BY <1>10, GoesQuietly, ChannelsStandStill DEF RelayJoined, At
<1>11. CASE UxClosed(e)
  <2>1. CASE after[e] \in {"read", "cleanup"} /\ Goes(e, after[e]) /\ UNCHANGED a2b
    BY <1>11, <2>1, GoesQuietly, ChannelsStandStill DEF UxClosed
  <2>2. CASE Replies(e, Control("CLOSE", acur[e]), "notifyDrain")
    <3>1. AgentEffect
      BY <1>11, <2>2, RepliesQuietly DEF UxClosed
    <3> QED
      BY <1>11, <1>t, <1>b, <1>s, <2>2, <3>1, RepliesTruth, ControlIsTrue DEF UxClosed
  <2> QED BY <1>11, <2>1, <2>2 DEF UxClosed
<1>12. CASE AgentEOF(e)
  <2>1. \A x \in Conns : b2a'[x] = b2a[x] \/ b2a'[x] = <<>>
    BY <1>12, <1>t DEF AgentEOF, WireTypeOK
  <2>2. ChannelEffect
    BY <1>12, <1>b, <1>s, <2>1 DEF AgentEOF
  <2> QED BY <1>12, <2>2, GoesQuietly DEF AgentEOF
<1>13. CASE CleansUp(e)
  <2>1. PICK s \in Sids : ClosesSession(e, s, "cleanup")
    BY <1>13, <1>t DEF CleansUp, AgentTypeOK
  <2> QED BY <1>13, <2>1, ClosesSessionQuietly, ChannelsStandStill DEF CleansUp
<1>14. CASE CleanedUp(e)
  <2>1. \A x \in Conns : b2a'[x] = b2a[x] \/ b2a'[x] = <<>>
    BY <1>14, <1>t DEF CleanedUp, WireTypeOK
  <2>2. ChannelEffect
    BY <1>14, <1>b, <1>s, <2>1 DEF CleanedUp
  <2> QED BY <1>14, <2>2, GoesQuietly DEF CleanedUp
<1> QED
  BY <1>1, <1>2, <1>3, <1>4, <1>5, <1>6, <1>7, <1>8, <1>9, <1>10, <1>11, <1>12,
     <1>13, <1>14
  DEF Dispatch

LEMMA RelayEffect ==
    ASSUME IInv, NEW l \in Links, Relay(l)
    PROVE  AgentEffect /\ ChannelEffect
<1> USE DEF uxVars, dispatchVars, wireVars, channels
<1>t. /\ WireTypeOK /\ AgentTypeOK
      /\ l[1] \in Conns /\ l[2] \in Sids /\ l = <<l[1], l[2]>>
      /\ rpc[l] # "none"
  BY DEF IInv, TypeOK, Links, Relay, RelayStarts, RelayReads, RelayEOF,
         RelayDataDrained, RelayDataFails, RelayCancelled, RelayCloseDrained
<1>q. ASSUME UNCHANGED <<apc, acur, peer, toUx>>,
             \A e \in Conns : sessions'[e] \subseteq sessions[e],
             \A k \in Links : rpc[k] = "none" => rpc'[k] = "none"
      PROVE  AgentEffect
  <2>1. Working'
    BY <1>q DEF IInv, Working
  <2>2. \A e \in Conns, s \in Sids : Alive(e, s)' => Alive(e, s)
    BY <1>q DEF Alive, At, Links
  <2> QED BY <1>q, <2>1, <2>2 DEF AgentEffect
<1>g. ASSUME NEW label, RelayGoes(l, label), UNCHANGED <<apc, acur, peer, toUx, sessions>>
      PROVE  AgentEffect
  BY <1>g, <1>t, <1>q DEF RelayGoes, AgentTypeOK
<1>v. ASSUME RelayLeaves(l), UNCHANGED <<apc, acur, peer, toUx>>
      PROVE  AgentEffect
  BY <1>v, <1>t, <1>q DEF RelayLeaves, RelayGoes, AgentTypeOK
<1>b. ASSUME NEW f, True(f), AgentSends(l[1], f) \/ AgentSendLost(l[1]), UNCHANGED b2a
      PROVE  ChannelEffect
  BY <1>b, <1>t, AgentSendsTruth DEF ChannelEffect, AddsTruth
<1>f. ASSUME RelayFinally(l), UNCHANGED <<apc, acur, peer, toUx, b2a>>
      PROVE  AgentEffect /\ ChannelEffect
  <2>1. ChannelEffect
    BY <1>f, <1>b, ControlIsTrue DEF RelayFinally
  <2> QED BY <1>f, <1>g, <1>v, <2>1 DEF RelayFinally
<1>1. CASE RelayStarts(l) \/ RelayDataDrained(l)
  BY <1>1, <1>g, ChannelsStandStill DEF RelayStarts, RelayDataDrained
<1>2. CASE RelayReads(l)
(* The client the link was opened for has the link's id. *)
  <2>1. sid[peer[l]] = l[2]
    BY <1>t DEF IInv, Opened, Alive, Peers
  <2>2. True(Data(l[2], peer[l], relayRead[l] + 1))
    BY <2>1 DEF True, Data
  <2>3. ChannelEffect
    BY <1>2, <1>b, <2>2 DEF RelayReads
  <2>4. CASE UNCHANGED <<rpc, sessions, ut>>
    BY <1>2, <1>q, <2>3, <2>4 DEF RelayReads
  <2>5. CASE RelayLeaves(l)
    BY <1>2, <1>v, <2>3, <2>5 DEF RelayReads
  <2>6. CASE /\ RelayGoes(l, IF Full(a2b'[l[1]]) THEN "dataDrain" ELSE "read")
             /\ UNCHANGED <<sessions, ut>>
    BY <1>2, <1>g, <2>3, <2>6 DEF RelayReads
  <2> QED BY <1>2, <2>4, <2>5, <2>6 DEF RelayReads
<1>3. CASE RelayEOF(l)
  BY <1>3, <1>f DEF RelayEOF
<1>4. CASE RelayDataFails(l)
  BY <1>4, <1>f DEF RelayDataFails
<1>5. CASE RelayCancelled(l)
  BY <1>5, <1>f DEF RelayCancelled
<1>6. CASE RelayCloseDrained(l)
  BY <1>6, <1>v, ChannelsStandStill DEF RelayCloseDrained
<1> QED BY <1>1, <1>2, <1>3, <1>4, <1>5, <1>6 DEF Relay

LEMMA UsbmuxdEffect ==
    ASSUME IInv, NEW l \in Links, Usbmuxd(l) \/ UxTransportLost(l)
    PROVE  AgentEffect /\ ChannelEffect
<1>1. UNCHANGED <<b2a, a2b, apc, acur, sessions, peer, rpc, toUx>>
  BY DEF Usbmuxd, UxWrites, UxReads, UxCloses, UxTransportLost, wireVars, channels,
         dispatchVars
<1>2. Working'
  BY <1>1 DEF IInv, Working
<1>3. AgentEffect
  BY <1>1, <1>2 DEF AgentEffect, Alive, At
<1> QED BY <1>1, <1>3, ChannelsStandStill

-----------------------------------------------------------------------------
(* The whole *)

LEMMA InitIInv == Init => IInv
<1> SUFFICES ASSUME Init PROVE IInv
  OBVIOUS
<1> USE DEF Init, WireInit, BridgeInit, AgentInit
<1>1. WireTypeOK
  BY DEF WireTypeOK, LinkState
<1>2. BridgeTypeOK
  <2>1. /\ drained \in (Sids \cup {0}) \X (Clients \cup {NoClient})
        /\ localClients \in [Sids -> Clients \cup {NoClient}]
        /\ connCount \in 0 .. MaxConns
        /\ nextId \in 1 .. (MaxSessions + 1)
    OBVIOUS
  <2>2. /\ toLocal \in [Clients -> Seq(Piece)]
        /\ sid \in [Clients -> Sids \cup {0}]
        /\ sendConn \in [Clients -> Conns \cup {0}]
        /\ app \in [Clients -> {"none", "open", "closed"}]
    OBVIOUS
  <2>3. /\ hpc \in [Clients -> HandlerPc]
        /\ lt \in [Clients -> Transport]
        /\ bpc \in BridgePc
    BY DEF BridgePc, HandlerPc, Transport
  <2> QED BY <2>1, <2>2, <2>3 DEF BridgeTypeOK
<1>3. AgentTypeOK
  BY DEF AgentTypeOK, AgentPc, RelayPc, UxTransport
<1>4. Started /\ Arrived /\ UniqueIds /\ Registered
  BY DEF Started, Arrived, UniqueIds, Registered
<1>5. Truthful
  BY ElemsEmpty DEF Truthful
<1>6. Peers /\ Opened /\ Working
  BY DEF Peers, Opened, Alive, At, Working, Links
<1>7. DownIsolation /\ UpIsolation
  BY ElemsEmpty DEF DownIsolation, UpIsolation
<1> QED BY <1>1, <1>2, <1>3, <1>4, <1>5, <1>6, <1>7 DEF IInv, TypeOK

(* Types of what a step of one side leaves alone. *)
LEMMA StillTyped ==
    /\ BridgeTypeOK /\ UNCHANGED bridgeVars => BridgeTypeOK'
    /\ AgentTypeOK /\ UNCHANGED agentVars => AgentTypeOK'
BY DEF BridgeTypeOK, bridgeVars, connVars, hbVars, handlerVars, appVars, downVars,
       AgentTypeOK, agentVars, dispatchVars, uxVars

(* Authentication, a watchdog that fires and a lost connection concern     *)
(* neither channels nor ids.                                               *)
LEMMA LinkStepKeepsIInv ==
    ASSUME IInv,
           \/ Connects
           \/ \E e \in Conns : Watchdog(e) /\ UNCHANGED bridgeVars
           \/ \E e \in Conns : LinkLost(e) /\ UNCHANGED <<bridgeVars, agentVars>>
    PROVE  IInv'
<1>t. WireTypeOK /\ BridgeTypeOK /\ AgentTypeOK
  BY DEF IInv, TypeOK
<1>1. CASE Connects
  <2>1. /\ WireTypeOK' /\ BridgeTypeOK'
        /\ connCount' \in Conns
    BY <1>1, <1>t, ConnectsTyped DEF Connects
  <2>2. /\ apc' = [apc EXCEPT ![connCount'] = "read"]
        /\ UNCHANGED <<b2a, a2b, acur, after, sessions, peer, rpc, ut, ux, uxRead,
                       downSent, toUx, relayRead>>
        /\ UNCHANGED <<sid, nextId, hpc, app, toLocal, localClients>>
    BY <1>1 DEF Connects, Accepts, Goes, BridgeConnects, uxVars, handlerVars, appVars,
                downVars
  <2>3. AgentTypeOK'
    BY <1>t, <2>1, <2>2 DEF AgentTypeOK, AgentPc
  <2>4. \A e \in Conns : apc'[e] \in {apc[e], "read"}
    BY <1>t, <2>2 DEF AgentTypeOK
  <2>5. Working'
    BY <2>2, <2>4 DEF IInv, Working
  <2>6. \A e \in Conns, s \in Sids : Alive(e, s)' => Alive(e, s)
    BY <2>2, <2>4 DEF Alive, At
  <2>7. AgentEffect
    BY <2>2, <2>5, <2>6 DEF AgentEffect
  <2>8. BridgeEffect /\ ChannelEffect
    BY <2>2, ChannelsStandStill DEF BridgeEffect
  <2> QED BY <2>1, <2>3, <2>7, <2>8, EffectKeepsIInv DEF Effect, TypeOK
<1>2. CASE \/ \E e \in Conns : Watchdog(e) /\ UNCHANGED bridgeVars
           \/ \E e \in Conns : LinkLost(e) /\ UNCHANGED <<bridgeVars, agentVars>>
  <2>1. UNCHANGED <<bridgeVars, agentVars, b2a, a2b>>
    BY <1>2 DEF Watchdog, LinkLost
  <2>2. link' \in [Conns -> LinkState] /\ faults' \in Nat
    <3>1. \A e \in Conns : Closed(link[e], "aclosed") \in LinkState
      BY <1>t DEF WireTypeOK, Closed, LinkState
    <3>2. ASSUME NEW e \in Conns, Watchdog(e)
          PROVE  link' \in [Conns -> LinkState] /\ faults' \in Nat
      BY <1>t, <3>1, <3>2 DEF Watchdog, Fault, WireTypeOK
    <3>3. ASSUME NEW e \in Conns, LinkLost(e)
          PROVE  link' \in [Conns -> LinkState] /\ faults' \in Nat
      BY <1>t, <3>3 DEF LinkLost, Fault, WireTypeOK, LinkState
    <3> QED BY <1>2, <3>2, <3>3
  <2>3. TypeOK'
    BY <1>t, <2>1, <2>2, StillTyped DEF TypeOK, WireTypeOK
  <2> QED
    BY <2>1, <2>3, BridgeStandsStill, AgentStandsStill, ChannelsStandStill,
       EffectKeepsIInv
    DEF Effect
<1> QED BY <1>1, <1>2

LEMMA StepKeepsIInv == IInv /\ [Next]_vars => IInv'
<1> SUFFICES ASSUME IInv, [Next]_vars PROVE IInv'
  OBVIOUS
<1>t. WireTypeOK /\ BridgeTypeOK /\ AgentTypeOK /\ Started /\ Opened /\ Working
  BY DEF IInv, TypeOK
<1>1. CASE \/ Connects
           \/ \E e \in Conns : Watchdog(e) /\ UNCHANGED bridgeVars
           \/ \E e \in Conns : LinkLost(e) /\ UNCHANGED <<bridgeVars, agentVars>>
  BY <1>1, LinkStepKeepsIInv
<1>2. CASE BridgeStep /\ UNCHANGED agentVars
  <2>1. TypeOK'
    BY <1>t, <1>2, BridgeStepTyped, StillTyped DEF TypeOK
  <2>2. CASE \E c \in Clients : HandlerStarts(c)
    BY <1>2, <2>1, <2>2, HandlerStartsKeepsIInv
  <2>3. CASE ~(\E c \in Clients : HandlerStarts(c))
    BY <1>2, <2>1, <2>3, BridgeStepEffect, AgentStandsStill, EffectKeepsIInv DEF Effect
  <2> QED BY <2>2, <2>3
<1>3. CASE AgentStep /\ UNCHANGED bridgeVars
  <2>1. TypeOK'
    BY <1>t, <1>3, DispatchTyped, RelayTyped, UsbmuxdTyped, StillTyped
    DEF TypeOK, AgentStep
  <2>2. AgentEffect /\ ChannelEffect
    BY <1>3, DispatchEffect, RelayEffect, UsbmuxdEffect DEF AgentStep
  <2> QED BY <1>3, <2>1, <2>2, BridgeStandsStill, EffectKeepsIInv DEF Effect
<1>4. ASSUME NEW c \in Clients, App(c), UNCHANGED agentVars
      PROVE  IInv'
  <2>1. TypeOK'
    BY <1>t, <1>4, AppTyped, StillTyped DEF TypeOK
  <2> QED BY <1>4, <2>1, AppEffect, AgentStandsStill, EffectKeepsIInv DEF Effect
<1>5. ASSUME NEW l \in Links, Usbmuxd(l), UNCHANGED bridgeVars
      PROVE  IInv'
  <2>1. TypeOK'
    BY <1>t, <1>5, UsbmuxdTyped, StillTyped DEF TypeOK
  <2> QED BY <1>5, <2>1, UsbmuxdEffect, BridgeStandsStill, EffectKeepsIInv DEF Effect
<1>6. CASE UNCHANGED vars
  <2>1. UNCHANGED <<wireVars, bridgeVars, agentVars>>
    BY <1>6 DEF vars
  <2>2. TypeOK'
    BY <1>t, <2>1, StillTyped DEF TypeOK, WireTypeOK, wireVars, channels
  <2> QED
    BY <2>1, <2>2, BridgeStandsStill, AgentStandsStill, ChannelsStandStill,
       EffectKeepsIInv
    DEF Effect, wireVars, channels
<1> QED BY <1>1, <1>2, <1>3, <1>4, <1>5, <1>6 DEF Next

(* IInv holds in every behaviour.                                          *)
THEOREM Invariance == Spec => []IInv
BY InitIInv, StepKeepsIInv, PTL DEF Spec

(* Types are kept: no handler sends without an id, no relay without a      *)
(* client, no loop works on a session it has no id of.                     *)
THEOREM TypeCorrect == Spec => []TypeOK
<1>1. IInv => TypeOK
  BY DEF IInv
<1> QED BY <1>1, Invariance, PTL

(* _agent_reader_loop() never writes one client's data to another one.     *)
THEOREM NoCrossTalkDown == Spec => []DownIsolation
<1>1. IInv => DownIsolation
  BY DEF IInv
<1> QED BY <1>1, Invariance, PTL

(* _handle_bridge_inner() never writes one client's data to the usbmuxd    *)
(* connection of another one.                                              *)
THEOREM NoCrossTalkUp == Spec => []UpIsolation
<1>1. IInv => UpIsolation
  BY DEF IInv
<1> QED BY <1>1, Invariance, PTL

-----------------------------------------------------------------------------
(***************************************************************************)
(* Release.  At the agent whatever of a session still runs or is open must *)
(* be found by the cleanup, so it is in the map, or close_session() has it *)
(* in hand (Findable).  At the bridge a client with an open transport must *)
(* be found by the teardown, so its writer is registered (Reachable), and  *)
(* nobody registers one while there is no connection (Disconnected).       *)
(***************************************************************************)

(* The agent *)

Busy(l) == rpc[l] \notin {"none", "done"} \/ ut[l] = "open"

FindableAt(e) ==
    \A s \in Sids : Busy(<<e, s>>) =>
        s \in sessions[e] \/ (At(e, "closeTask") /\ acur[e] = s)
EmptiedAt(e) == At(e, "done") => sessions[e] = {}

Findable == \A e \in Conns : FindableAt(e) /\ EmptiedAt(e)

(* The bridge *)

Reachable ==
    \A c \in Clients : lt[c] = "open" =>
        hpc[c] = "accepted" \/ (sid[c] # 0 /\ localClients[sid[c]] = c)

Disconnected ==
    /\ bpc = "down" <=> agentWriter = 0
    /\ bpc = "down" => \A s \in Sids : localClients[s] = NoClient

(* The id and the writer whose drain() the reader loop waits in.           *)
Draining ==
    bpc = "localDrain" =>
        drained[1] \in Sids /\ drained[2] \in Clients /\ sid[drained[2]] = drained[1]

Reach == Reachable /\ Disconnected /\ Draining

-----------------------------------------------------------------------------
LEMMA FindableReleases ==
    ASSUME Findable
    PROVE  AgentReleasesAll
BY DEF Findable, FindableAt, EmptiedAt, AgentReleasesAll, Busy, At, Links

LEMMA ReachableReleases ==
    ASSUME Reach, BridgeTypeOK
    PROVE  BridgeReleasesAll
<1> SUFFICES ASSUME bpc = "down", NEW c \in Clients, lt[c] = "open", hpc[c] # "accepted"
             PROVE  FALSE
  BY DEF BridgeReleasesAll
<1>1. sid[c] \in Sids /\ localClients[sid[c]] = c
  BY DEF Reach, Reachable, BridgeTypeOK
<1> QED BY <1>1, WireAssumption DEF Reach, Disconnected

-----------------------------------------------------------------------------
(* Other connections do not notice a step of connection e. *)
OthersRest(e) ==
    \A x \in Conns \ {e} :
        /\ apc'[x] = apc[x] /\ acur'[x] = acur[x] /\ sessions'[x] = sessions[x]
        /\ \A s \in Sids : rpc'[<<x, s>>] = rpc[<<x, s>>] /\ ut'[<<x, s>>] = ut[<<x, s>>]

LEMMA OneConnection ==
    ASSUME Findable, NEW e \in Conns, OthersRest(e), FindableAt(e)', EmptiedAt(e)'
    PROVE  Findable'
BY DEF Findable, FindableAt, EmptiedAt, Busy, At, OthersRest

(* The dispatch loop goes somewhere else: nothing starts, nothing leaves   *)
(* the map.                                                                *)
LEMMA Elsewhere ==
    ASSUME AgentTypeOK, Findable, NEW e \in Conns,
           apc[e] \notin {"closeTask", "done"}, apc'[e] # "done",
           \A x \in Conns \ {e} : apc'[x] = apc[x] /\ acur'[x] = acur[x],
           UNCHANGED <<sessions, rpc, ut>>
    PROVE  Findable'
<1>1. FindableAt(e)' /\ EmptiedAt(e)'
  BY DEF Findable, FindableAt, EmptiedAt, Busy, At
<1> QED BY <1>1, OneConnection DEF OthersRest

LEMMA ClosesSessionFindable ==
    ASSUME AgentTypeOK, Findable, NEW e \in Conns, NEW s \in Sids, NEW return,
           apc[e] # "closeTask", ClosesSession(e, s, return), UNCHANGED ut
    PROVE  Findable'
<1>1. /\ apc'[e] = "closeTask" /\ acur'[e] = s
      /\ sessions'[e] = sessions[e] \ {s}
      /\ \A x \in Conns \ {e} :
            apc'[x] = apc[x] /\ acur'[x] = acur[x] /\ sessions'[x] = sessions[x]
  BY DEF ClosesSession, Goes, AgentTypeOK
<1>2. \A l \in Links : l # <<e, s>> => rpc'[l] = rpc[l]
  BY DEF ClosesSession, CancelsRelay, AgentTypeOK
<1>3. FindableAt(e)'
  <2> SUFFICES ASSUME NEW t \in Sids, Busy(<<e, t>>)', t # s
               PROVE  t \in sessions'[e]
    BY <1>1 DEF FindableAt, At
  <2>1. Busy(<<e, t>>)
    BY <1>2 DEF Busy, Links
  <2>2. t \in sessions[e]
    BY <2>1 DEF Findable, FindableAt, At
  <2> QED BY <1>1, <2>2
<1>4. EmptiedAt(e)'
  BY <1>1 DEF EmptiedAt, At
<1>5. OthersRest(e)
  BY <1>1, <1>2 DEF OthersRest, Links
<1> QED BY <1>3, <1>4, <1>5, OneConnection

LEMMA DispatchFindable ==
    ASSUME IInv, Findable, NEW e \in Conns, Dispatch(e)
    PROVE  Findable'
<1> USE DEF uxVars, wireVars, channels
<1>t. WireTypeOK /\ AgentTypeOK /\ Working
  BY DEF IInv, TypeOK
<1>r. ASSUME NEW f, NEW drain \in {"replyDrain", "notifyDrain"}, Replies(e, f, drain),
             Idle(e) \/ UNCHANGED acur, UNCHANGED <<sessions, rpc, ut>>,
             apc[e] \notin {"closeTask", "done"}
      PROVE  Findable'
  <2>0. /\ apc'[e] # "done"
        /\ \A x \in Conns \ {e} : apc'[x] = apc[x]
    BY <1>t, <1>r, RepliesTo
  <2>1. /\ apc'[e] # "done"
        /\ \A x \in Conns \ {e} : apc'[x] = apc[x] /\ acur'[x] = acur[x]
    BY <1>t, <1>r, <2>0 DEF Idle, AgentTypeOK
  <2> QED BY <1>t, <1>r, <2>1, Elsewhere
<1>g. ASSUME NEW label, label # "done", Goes(e, label),
             \A x \in Conns \ {e} : acur'[x] = acur[x],
             UNCHANGED <<sessions, rpc, ut>>, apc[e] \notin {"closeTask", "done"}
      PROVE  Findable'
  <2>1. /\ apc'[e] # "done"
        /\ \A x \in Conns \ {e} : apc'[x] = apc[x] /\ acur'[x] = acur[x]
    BY <1>t, <1>g DEF Goes, AgentTypeOK
  <2> QED BY <1>t, <1>g, <2>1, Elsewhere
<1>i. Idle(e) => \A x \in Conns \ {e} : acur'[x] = acur[x]
  BY <1>t DEF Idle, AgentTypeOK
<1>1. CASE AgentReceivesConnect(e)
  BY <1>1, <1>g, <1>t DEF AgentReceivesConnect, Takes, At, AgentTypeOK
<1>2. CASE AgentReceivesData(e)
  BY <1>2, <1>g, <1>t DEF AgentReceivesData, Takes, At, AgentTypeOK
<1>3. CASE UxOpens(e)
  <2>1. /\ sessions' = [sessions EXCEPT ![e] = @ \cup {acur[e]}]
        /\ rpc' = [rpc EXCEPT ![<<e, acur[e]>>] = "created"]
        /\ ut' = [ut EXCEPT ![<<e, acur[e]>>] = "open"]
        /\ apc[e] = "open" /\ apc' = [apc EXCEPT ![e] = "read"]
        /\ acur' = [acur EXCEPT ![e] = 0]
    BY <1>3 DEF UxOpens, At, Goes, Idle
  <2>2. acur[e] \in Sids
    BY <1>t, <2>1, WorkingLink
  <2>3. \A l \in Links : l # <<e, acur[e]>> => rpc'[l] = rpc[l] /\ ut'[l] = ut[l]
    BY <1>t, <2>1 DEF AgentTypeOK
  <2>4. /\ apc'[e] = "read"
        /\ sessions'[e] = sessions[e] \cup {acur[e]}
        /\ \A x \in Conns \ {e} :
              apc'[x] = apc[x] /\ acur'[x] = acur[x] /\ sessions'[x] = sessions[x]
    BY <1>t, <2>1 DEF AgentTypeOK
  <2>5. FindableAt(e)'
    <3> SUFFICES ASSUME NEW s \in Sids, Busy(<<e, s>>)', s # acur[e]
                 PROVE  s \in sessions'[e]
      BY <2>4 DEF FindableAt
    <3>1. Busy(<<e, s>>)
      BY <2>3 DEF Busy, Links
    <3> QED BY <2>1, <2>4, <3>1 DEF Findable, FindableAt, At
  <2>6. EmptiedAt(e)' /\ OthersRest(e)
    BY <2>3, <2>4 DEF EmptiedAt, At, OthersRest, Links
  <2> QED BY <2>5, <2>6, OneConnection
<1>4. CASE UxRefuses(e)
  BY <1>4, <1>r DEF UxRefuses, At
<1>5. CASE AgentReceivesStaleData(e) \/ AgentReceivesHeartbeat(e)
  BY <1>5, <1>r DEF AgentReceivesStaleData, AgentReceivesHeartbeat, Takes, At
<1>6. CASE UxDrained(e)
  BY <1>6, <1>g, <1>i DEF UxDrained, At
<1>7. CASE UxWriteFails(e)
  <2>1. acur[e] \in Sids
    BY <1>7, <1>t, WorkingLink DEF UxWriteFails, At
  <2> QED BY <1>7, <1>t, <1>r, <2>1, ClosesSessionFindable DEF UxWriteFails, At
<1>8. CASE AgentReceivesClose(e)
  <2>1. Head(b2a[e]).sid \in Sids
    BY <1>8, <1>t, TakesTyped DEF AgentReceivesClose
  <2>2. apc[e] = "read" /\ UNCHANGED ut
    BY <1>8 DEF AgentReceivesClose, Takes, At
  <2>3. CASE ClosesSession(e, Head(b2a[e]).sid, "read")
    BY <1>t, <2>1, <2>2, <2>3, ClosesSessionFindable
  <2>4. CASE UNCHANGED <<apc, acur, after, sessions, rpc>>
    BY <1>t, <2>2, <2>4, Elsewhere
  <2> QED BY <1>8, <2>3, <2>4 DEF AgentReceivesClose
<1>9. CASE ReplyDrained(e)
  BY <1>9, <1>g DEF ReplyDrained, At
<1>10. CASE RelayJoined(e)
  <2>1. /\ apc[e] = "closeTask" /\ apc' = [apc EXCEPT ![e] = "closeUx"]
        /\ rpc[<<e, acur[e]>>] = "done"
        /\ ut' = [ut EXCEPT ![<<e, acur[e]>>] = ClosedUx(@)]
        /\ UNCHANGED <<acur, sessions, rpc>>
    BY <1>10 DEF RelayJoined, At, Goes
  <2>2. acur[e] \in Sids
    BY <1>t, <2>1, WorkingLink
  <2>3. /\ ut'[<<e, acur[e]>>] # "open"
        /\ \A l \in Links : l # <<e, acur[e]>> => ut'[l] = ut[l]
    BY <1>t, <2>1, <2>2 DEF ClosedUx, AgentTypeOK, Links
  <2>4. FindableAt(e)'
    <3> SUFFICES ASSUME NEW s \in Sids, Busy(<<e, s>>)'
                 PROVE  s \in sessions[e]
      BY <2>1 DEF FindableAt
    <3>1. s # acur[e]
      BY <2>1, <2>3 DEF Busy
    <3>2. Busy(<<e, s>>)
      BY <2>1, <2>3, <3>1 DEF Busy, Links
    <3> QED BY <3>1, <3>2 DEF Findable, FindableAt
  <2>5. EmptiedAt(e)' /\ OthersRest(e)
    BY <1>t, <2>1, <2>3 DEF EmptiedAt, At, OthersRest, Links, AgentTypeOK
  <2> QED BY <2>4, <2>5, OneConnection
<1>11. CASE UxClosed(e)
  BY <1>11, <1>t, <1>g, <1>r, <1>i DEF UxClosed, At
<1>12. CASE AgentEOF(e)
  BY <1>12, <1>g DEF AgentEOF, At
<1>13. CASE CleansUp(e)
  <2>1. PICK s \in Sids : ClosesSession(e, s, "cleanup")
    BY <1>13, <1>t DEF CleansUp, AgentTypeOK
  <2> QED BY <1>13, <1>t, <2>1, ClosesSessionFindable DEF CleansUp, At
<1>14. CASE CleanedUp(e)
  <2>1. /\ apc[e] = "cleanup" /\ sessions[e] = {}
        /\ apc' = [apc EXCEPT ![e] = "done"]
        /\ UNCHANGED <<acur, sessions, rpc, ut>>
    BY <1>14 DEF CleanedUp, At, Goes
  <2>2. FindableAt(e)' /\ EmptiedAt(e)' /\ OthersRest(e)
    BY <1>t, <2>1 DEF Findable, FindableAt, EmptiedAt, OthersRest, Busy, At, AgentTypeOK
  <2> QED BY <2>2, OneConnection
<1> QED
  BY <1>1, <1>2, <1>3, <1>4, <1>5, <1>6, <1>7, <1>8, <1>9, <1>10, <1>11, <1>12,
     <1>13, <1>14
  DEF Dispatch

(* The end of a relay's finally block: the session is out of the map, and  *)
(* nothing of it is left.                                                  *)
LEMMA RelayLeavesFindable ==
    ASSUME AgentTypeOK, Findable, NEW l \in Links, RelayLeaves(l), UNCHANGED <<apc, acur>>
    PROVE  Findable'
<1>1. l[1] \in Conns /\ l[2] \in Sids /\ l = <<l[1], l[2]>>
  BY DEF Links
<1>2. /\ sessions'[l[1]] = sessions[l[1]] \ {l[2]}
      /\ \A x \in Conns \ {l[1]} : sessions'[x] = sessions[x]
      /\ rpc'[l] = "done" /\ ut'[l] # "open"
      /\ \A k \in Links : k # l => rpc'[k] = rpc[k] /\ ut'[k] = ut[k]
  BY <1>1 DEF RelayLeaves, RelayGoes, ClosedUx, AgentTypeOK
<1>3. FindableAt(l[1])'
  <2> SUFFICES ASSUME NEW s \in Sids, Busy(<<l[1], s>>)'
               PROVE  s \in sessions'[l[1]] \/ (At(l[1], "closeTask") /\ acur[l[1]] = s)
    BY DEF FindableAt, At
  <2>1. s # l[2]
    BY <1>1, <1>2 DEF Busy
  <2>2. Busy(<<l[1], s>>)
    BY <1>1, <1>2, <2>1 DEF Busy, Links
  <2> QED BY <1>1, <1>2, <2>1, <2>2 DEF Findable, FindableAt
<1>4. EmptiedAt(l[1])' /\ OthersRest(l[1])
  BY <1>1, <1>2 DEF Findable, EmptiedAt, At, OthersRest, Links
<1> QED BY <1>1, <1>3, <1>4, OneConnection

(* A relay that goes on, or usbmuxd and its transports: what is busy was.  *)
LEMMA NoBusier ==
    ASSUME Findable, UNCHANGED <<apc, acur, sessions>>, \A l \in Links : Busy(l)' => Busy(l)
    PROVE  Findable'
BY DEF Findable, FindableAt, EmptiedAt, At, Links

LEMMA RelayFindable ==
    ASSUME IInv, Findable, NEW l \in Links, Relay(l)
    PROVE  Findable'
<1> USE DEF uxVars, dispatchVars, wireVars, channels
<1>t. AgentTypeOK
  BY DEF IInv, TypeOK
<1>g. ASSUME NEW label, RelayGoes(l, label), rpc[l] \notin {"none", "done"},
             UNCHANGED <<apc, acur, sessions, ut>>
      PROVE  Findable'
  <2>1. \A k \in Links : Busy(k)' => Busy(k)
    BY <1>t, <1>g DEF RelayGoes, Busy, AgentTypeOK
  <2> QED BY <1>g, <2>1, NoBusier
<1>f. ASSUME RelayFinally(l), rpc[l] \notin {"none", "done"}, UNCHANGED <<apc, acur>>
      PROVE  Findable'
  BY <1>f, <1>t, <1>g, RelayLeavesFindable DEF RelayFinally
<1>1. CASE RelayStarts(l) \/ RelayDataDrained(l)
  BY <1>1, <1>g DEF RelayStarts, RelayDataDrained
<1>2. CASE RelayReads(l)
  <2>1. CASE RelayLeaves(l)
    BY <1>2, <1>t, <2>1, RelayLeavesFindable DEF RelayReads
  <2>2. CASE UNCHANGED <<rpc, sessions, ut>>
    BY <1>2, <2>2, NoBusier DEF RelayReads, Busy
  <2>3. CASE /\ RelayGoes(l, IF Full(a2b'[l[1]]) THEN "dataDrain" ELSE "read")
             /\ UNCHANGED <<sessions, ut>>
    BY <1>2, <1>g, <2>3 DEF RelayReads
  <2> QED BY <1>2, <2>1, <2>2, <2>3 DEF RelayReads
<1>3. CASE RelayEOF(l) \/ RelayDataFails(l) \/ RelayCancelled(l)
  BY <1>3, <1>f DEF RelayEOF, RelayDataFails, RelayCancelled
<1>4. CASE RelayCloseDrained(l)
  BY <1>4, <1>t, RelayLeavesFindable DEF RelayCloseDrained
<1> QED BY <1>1, <1>2, <1>3, <1>4 DEF Relay

LEMMA UsbmuxdFindable ==
    ASSUME IInv, Findable, NEW l \in Links, Usbmuxd(l) \/ UxTransportLost(l)
    PROVE  Findable'
<1>t. AgentTypeOK
  BY DEF IInv, TypeOK
<1>1. UNCHANGED <<apc, acur, sessions, rpc>>
  BY DEF Usbmuxd, UxWrites, UxReads, UxCloses, UxTransportLost, dispatchVars
<1>2. \A k \in Links : ut'[k] \in {ut[k], "lost"}
  BY <1>t DEF Usbmuxd, UxWrites, UxReads, UxCloses, UxTransportLost, AgentTypeOK
<1> QED BY <1>1, <1>2, NoBusier DEF Busy

LEMMA StepKeepsFindable ==
    ASSUME IInv, Findable, [Next]_vars
    PROVE  Findable'
<1>t. AgentTypeOK
  BY DEF IInv, TypeOK
<1>0. ASSUME UNCHANGED agentVars
      PROVE  Findable'
  BY <1>0, NoBusier DEF agentVars, dispatchVars, Busy
<1>1. CASE Connects
  <2>1. /\ apc[connCount'] = "none" /\ apc' = [apc EXCEPT ![connCount'] = "read"]
        /\ UNCHANGED <<acur, sessions, rpc, ut>>
    BY <1>1 DEF Connects, Accepts, At, Goes
  <2>2. connCount' \in Conns
    BY <1>1, ConnectsTyped DEF Connects, IInv, TypeOK
  <2>3. /\ apc'[connCount'] = "read"
        /\ \A x \in Conns \ {connCount'} : apc'[x] = apc[x] /\ acur'[x] = acur[x]
    BY <1>t, <2>1, <2>2 DEF AgentTypeOK
  <2> QED BY <1>t, <2>1, <2>2, <2>3, Elsewhere
<1>2. CASE AgentStep
  BY <1>2, DispatchFindable, RelayFindable, UsbmuxdFindable DEF AgentStep
<1>3. CASE \E l \in Links : Usbmuxd(l)
  BY <1>3, UsbmuxdFindable
<1>4. CASE UNCHANGED vars
  BY <1>4, <1>0 DEF vars
<1>5. ASSUME NEW e \in Conns, Watchdog(e)
      PROVE  Findable'
  BY <1>0, <1>5 DEF Watchdog
<1> QED BY <1>0, <1>1, <1>2, <1>3, <1>4, <1>5 DEF Next

-----------------------------------------------------------------------------
(* What a step of the bridge's tasks does to the local clients: it opens   *)
(* nothing, and who loses its registration is closed or was lost before.   *)
ReachEffect ==
    /\ UNCHANGED sid
    /\ \A c \in Clients :
          /\ lt'[c] = "open" => lt[c] = "open"
          /\ hpc[c] = "accepted" => hpc'[c] = "accepted"
          /\ lt'[c] = "open" /\ sid[c] # 0 /\ localClients[sid[c]] = c
                => localClients'[sid[c]] = c
    /\ \A s \in Sids : localClients[s] = NoClient => localClients'[s] = NoClient

LEMMA ReachEffectKeeps ==
    ASSUME Reachable, ReachEffect
    PROVE  Reachable'
BY DEF Reachable, ReachEffect

(* With that, and no change to where the connection is.                    *)
LEMMA ReachRests ==
    ASSUME Reach, ReachEffect, UNCHANGED <<bpc, agentWriter, drained>>
    PROVE  Reach'
BY ReachEffectKeeps DEF Reach, ReachEffect, Disconnected, Draining

(* A handler ends: it closes its own client and forgets its own id.        *)
LEMMA LeavesReach ==
    ASSUME IInv, NEW c \in Clients, sid[c] \in Sids, Leaves(c), hpc[c] # "accepted",
           UNCHANGED sid
    PROVE  ReachEffect
<1>t. BridgeTypeOK /\ UniqueIds
  BY DEF IInv, TypeOK
<1>1. /\ \A d \in Clients \ {c} : lt'[d] = lt[d] /\ hpc'[d] = hpc[d]
      /\ lt'[c] # "open"
      /\ localClients'[sid[c]] = NoClient
      /\ \A s \in Sids \ {sid[c]} : localClients'[s] = localClients[s]
  BY <1>t DEF Leaves, GoesTo, Pop, CloseWriter, ClosedWriter, BridgeTypeOK
<1>2. \A d \in Clients \ {c} : sid[d] # 0 => sid[d] \in Sids \ {sid[c]}
  BY <1>t DEF UniqueIds, BridgeTypeOK
<1> QED BY <1>1, <1>2 DEF ReachEffect

LEMMA HandlerReach ==
    ASSUME IInv, Reach, NEW c \in Clients, Handler(c)
    PROVE  Reach'
<1> USE DEF connVars, hbVars, appVars, downVars, wireVars, channels
<1>t. BridgeTypeOK /\ Started /\ UniqueIds /\ Registered
  BY DEF IInv, TypeOK
<1>s. hpc[c] \notin {"none", "accepted"} => sid[c] \in Sids
  BY <1>t, HasId
<1>g. ASSUME NEW label, GoesTo(c, label), hpc[c] # "accepted",
             UNCHANGED <<sid, lt, localClients, bpc, agentWriter, drained>>
      PROVE  Reach'
  <2>1. ReachEffect
    BY <1>g, <1>t DEF GoesTo, ReachEffect, BridgeTypeOK
  <2> QED BY <1>g, <2>1, ReachRests
<1>v. ASSUME Leaves(c), hpc[c] \notin {"none", "accepted"},
             UNCHANGED <<sid, bpc, agentWriter, drained>>
      PROVE  Reach'
  BY <1>s, <1>v, LeavesReach, ReachRests
<1>f. ASSUME Finally(c), hpc[c] \notin {"none", "accepted"},
             UNCHANGED <<sid, bpc, agentWriter, drained>>
      PROVE  Reach'
  BY <1>f, <1>g, <1>v DEF Finally
<1>1. CASE HandlerStarts(c)
  <2>1. /\ nextId \in Sids /\ hpc[c] = "accepted"
        /\ sid' = [sid EXCEPT ![c] = nextId]
        /\ UNCHANGED <<bpc, agentWriter, drained>>
    BY <1>1 DEF HandlerStarts, Registers
  <2>2. /\ sid[c] = 0
        /\ \A d \in Clients : sid[d] # 0 => sid[d] # nextId
    BY <1>t, <2>1 DEF Started, BridgeTypeOK, Sids
  <2>3. \/ /\ localClients' = [localClients EXCEPT ![nextId] = c]
           /\ agentWriter # 0
           /\ UNCHANGED lt
        \/ CloseWriter(c) /\ UNCHANGED localClients
    BY <1>1 DEF HandlerStarts, Registers, BridgeSends, BridgeSendDropped, Connected
  <2>4. \A d \in Clients \ {c} : hpc'[d] = hpc[d] /\ sid'[d] = sid[d]
    BY <1>1, <1>t DEF HandlerStarts, Registers, GoesTo, BridgeTypeOK
  <2>5. sid'[c] = nextId /\ nextId # 0
    BY <1>t, <2>1 DEF BridgeTypeOK, Sids
  <2>6. Reachable'
    <3>1. CASE localClients' = [localClients EXCEPT ![nextId] = c] /\ UNCHANGED lt
      BY <1>t, <2>1, <2>2, <2>4, <2>5, <3>1 DEF Reach, Reachable, BridgeTypeOK
    <3>2. CASE CloseWriter(c) /\ UNCHANGED localClients
      <4>1. lt'[c] # "open" /\ \A d \in Clients \ {c} : lt'[d] = lt[d]
        BY <1>t, <3>2 DEF CloseWriter, ClosedWriter, BridgeTypeOK
      <4> QED BY <2>4, <3>2, <4>1 DEF Reach, Reachable
    <3> QED BY <2>3, <3>1, <3>2
  <2>7. Disconnected'
    BY <2>1, <2>3 DEF Reach, Disconnected
  <2>8. Draining'
    <3> SUFFICES ASSUME bpc = "localDrain"
                 PROVE  /\ drained[1] \in Sids /\ drained[2] \in Clients
                        /\ sid'[drained[2]] = drained[1]
      BY <2>1 DEF Draining
    <3>1. /\ drained[1] \in Sids /\ drained[2] \in Clients
          /\ sid[drained[2]] = drained[1] /\ drained[1] # 0
      BY DEF Reach, Draining, Sids
    <3> QED BY <2>2, <2>4, <3>1
  <2> QED BY <2>6, <2>7, <2>8 DEF Reach
<1>2. CASE ConnectDrained(c) \/ DataDrained(c)
  BY <1>2, <1>g DEF ConnectDrained, DataDrained
<1>3. CASE ConnectFails(c) \/ CloseDrained(c)
  BY <1>3, <1>v DEF ConnectFails, CloseDrained, Leaves
<1>4. CASE HandlerEOF(c) \/ DataFails(c)
  BY <1>4, <1>f DEF HandlerEOF, DataFails
<1>5. CASE HandlerReads(c)
  <2>1. CASE Leaves(c)
    BY <1>5, <1>v, <2>1 DEF HandlerReads
  <2>2. CASE UNCHANGED <<localClients, lt>> /\ GoesTo(c, AfterSend("dataDrain", "read"))
    BY <1>5, <1>g, <2>2 DEF HandlerReads
  <2>3. CASE UNCHANGED <<hpc, localClients, lt>>
    BY <1>5, <2>3, ReachRests DEF HandlerReads, ReachEffect
  <2> QED BY <1>5, <2>1, <2>2, <2>3 DEF HandlerReads
<1> QED BY <1>1, <1>2, <1>3, <1>4, <1>5 DEF Handler

(* The reader loop, the heartbeat task and the teardown. *)
LEMMA BridgeStepReach ==
    ASSUME IInv, Reach, BridgeStep
    PROVE  Reach'
<1> USE DEF connVars, hbVars, handlerVars, appVars, downVars, wireVars, channels
<1>t. /\ WireTypeOK /\ BridgeTypeOK /\ UniqueIds /\ Registered
      /\ a2b \in [Conns -> Seq(DownFrame)]
  BY DEF IInv, TypeOK, WireTypeOK
<1>r. ASSUME UNCHANGED <<bpc, agentWriter, drained, sid, lt, hpc, localClients>>
      PROVE  Reach'
  BY <1>r DEF Reach, Reachable, Disconnected, Draining
(* The loop goes on, or into a drain(), and a lost writer may go. *)
<1>l. ASSUME bpc # "down", bpc' # "down", Draining',
             UNCHANGED <<agentWriter, sid, lt, hpc, localClients>>
      PROVE  Reach'
  BY <1>l DEF Reach, Reachable, Disconnected
<1>d. ASSUME TearsDown, bpc # "down", UNCHANGED <<sid, hpc>>
      PROVE  Reach'
  <2>1. /\ \A c \in Clients : lt'[c] = "open"
              => lt[c] = "open" /\ \A s \in Sids : localClients[s] # c
        /\ \A s \in Sids : localClients'[s] = NoClient
        /\ bpc' = "down" /\ agentWriter' = 0
    BY <1>d DEF TearsDown, ClosedWriter
  <2>2. Reachable'
    BY <1>t, <1>d, <2>1 DEF Reach, Reachable, BridgeTypeOK
  <2> QED BY <2>1, <2>2 DEF Reach, Disconnected, Draining
<1>1. ASSUME NEW e \in Conns, BridgeReceivesData(e)
      PROVE  Reach'
  <2> DEFINE frame == Head(a2b[e])
             c == localClients[frame.sid]
  <2>1. /\ bpc = "read" /\ frame.sid \in Sids
        /\ UNCHANGED <<agentWriter, sid, lt, hpc, localClients>>
    BY <1>1, <1>t, ReceivesTyped DEF BridgeReceivesData, Receives
  <2>2. CASE c = NoClient
    <3>1. bpc' \in {"read", "sendDrain"}
      BY <1>1, <2>1, <2>2 DEF BridgeReceivesData, AfterSend
    <3> QED BY <1>l, <2>1, <3>1 DEF Draining
  <2>3. CASE c # NoClient
    <3>1. /\ bpc' \in {"read", "localDrain"}
          /\ bpc' = "localDrain" => drained' = <<frame.sid, c>>
      BY <1>1, <2>3 DEF BridgeReceivesData
    <3>2. c \in Clients /\ sid[c] = frame.sid
      BY <1>t, <2>1, <2>3 DEF BridgeTypeOK, Registered
    <3>3. Draining'
      BY <2>1, <3>1, <3>2 DEF Draining
    <3> QED BY <1>l, <2>1, <3>1, <3>3
  <2> QED BY <2>2, <2>3
<1>2. ASSUME NEW e \in Conns, BridgeReceivesClose(e)
      PROVE  Reach'
  <2> DEFINE s == Head(a2b[e]).sid
  <2>1. /\ s \in Sids
        /\ localClients' = [localClients EXCEPT ![s] = NoClient]
        /\ \A c \in Clients : lt'[c] = "open" => lt[c] = "open" /\ localClients[s] # c
        /\ UNCHANGED <<bpc, agentWriter, drained, sid, hpc>>
    BY <1>2, <1>t, ReceivesTyped DEF BridgeReceivesClose, Pop, ClosedWriter
  <2>2. \A t \in Sids : localClients'[t] = IF t = s THEN NoClient ELSE localClients[t]
    BY <1>t, <2>1 DEF BridgeTypeOK
  <2>3. ReachEffect
    BY <1>t, <2>1, <2>2 DEF ReachEffect, BridgeTypeOK
  <2> QED BY <2>1, <2>3, ReachRests
<1>3. ASSUME NEW e \in Conns, BridgeReceivesHeartbeat(e)
      PROVE  Reach'
  BY <1>3, <1>r DEF BridgeReceivesHeartbeat, bridgeVars
<1>4. CASE LocalDrained
  <2>1. /\ bpc = "localDrain" /\ bpc' = "read"
        /\ UNCHANGED <<agentWriter, sid, lt, hpc>>
        /\ \/ UNCHANGED localClients
           \/ /\ lt[drained[2]] = "lost"
              /\ localClients' = [localClients EXCEPT ![drained[1]] = NoClient]
    BY <1>4 DEF LocalDrained, Pop
  <2>2. /\ drained[1] \in Sids /\ drained[2] \in Clients
        /\ sid[drained[2]] = drained[1] /\ drained[1] # 0
    BY <2>1 DEF Reach, Draining, Sids
  <2>3. CASE UNCHANGED localClients
    BY <1>l, <2>1, <2>3 DEF Draining
  <2>4. CASE /\ lt[drained[2]] = "lost"
             /\ localClients' = [localClients EXCEPT ![drained[1]] = NoClient]
(* Only the owner of the id loses its registration, and it is lost. *)
    <3>1. \A t \in Sids : localClients'[t] = IF t = drained[1] THEN NoClient
                                                              ELSE localClients[t]
      BY <1>t, <2>4 DEF BridgeTypeOK
    <3>2. \A c \in Clients : lt[c] = "open" /\ sid[c] # 0 => sid[c] # drained[1]
      BY <1>t, <2>2, <2>4 DEF UniqueIds
    <3>3. ReachEffect
      BY <1>t, <2>1, <3>1, <3>2 DEF ReachEffect, BridgeTypeOK
    <3>4. Reachable'
      BY <3>3, ReachEffectKeeps DEF Reach
    <3> QED BY <2>1, <3>4 DEF Reach, Disconnected, Draining
  <2> QED BY <2>1, <2>3, <2>4
<1>5. CASE SendDrained
  BY <1>5, <1>l DEF SendDrained, Draining
<1>6. CASE Beat \/ BeatDrained
  BY <1>6, <1>r DEF Beat, BeatDrained
<1>7. CASE BridgeEOF
  <2>1. CASE TearsDown
    BY <1>7, <1>d, <2>1 DEF BridgeEOF
  <2>2. CASE bpc' = "waitClosed" /\ UNCHANGED <<lt, localClients, link, a2b, agentWriter>>
    BY <1>7, <1>l, <2>2 DEF BridgeEOF, Draining
  <2> QED BY <1>7, <2>1, <2>2 DEF BridgeEOF
<1>8. CASE WaitClosedReturns
  BY <1>8, <1>d DEF WaitClosedReturns
<1>9. ASSUME NEW c \in Clients, LocalTransportLost(c)
      PROVE  Reach'
  <2>1. ReachEffect
    BY <1>9, <1>t DEF LocalTransportLost, ReachEffect, BridgeTypeOK
  <2> QED BY <1>9, <2>1, ReachRests DEF LocalTransportLost
<1> QED
  BY <1>1, <1>2, <1>3, <1>4, <1>5, <1>6, <1>7, <1>8, <1>9, HandlerReach
  DEF BridgeStep, ReaderLoop

LEMMA AppReach ==
    ASSUME IInv, Reach, NEW c \in Clients, App(c)
    PROVE  Reach'
<1> USE DEF connVars, hbVars, handlerVars, appVars, downVars, wireVars, channels
<1>1. CASE AppConnects(c)
  <2>1. BridgeTypeOK
    BY DEF IInv, TypeOK
  <2>2. Reachable'
    BY <1>1, <2>1 DEF AppConnects, GoesTo, Reach, Reachable, BridgeTypeOK
  <2> QED BY <1>1, <2>2 DEF AppConnects, Reach, Disconnected, Draining
<1>2. CASE AppWrites(c) \/ AppReads(c) \/ AppCloses(c)
  BY <1>2 DEF AppWrites, AppReads, AppCloses, Reach, Reachable, Disconnected, Draining
<1> QED BY <1>1, <1>2 DEF App

LEMMA StepKeepsReach ==
    ASSUME IInv, Reach, [Next]_vars
    PROVE  Reach'
<1>0. ASSUME UNCHANGED bridgeVars
      PROVE  Reach'
  BY <1>0 DEF bridgeVars, connVars, handlerVars, Reach, Reachable, Disconnected, Draining
<1>1. CASE Connects
  <2>1. /\ bpc = "down" /\ bpc' = "read" /\ agentWriter' # 0
        /\ UNCHANGED <<sid, hpc, lt, localClients>>
    BY <1>1 DEF Connects, BridgeConnects, handlerVars, IInv, TypeOK, BridgeTypeOK
  <2> QED BY <2>1 DEF Reach, Reachable, Disconnected, Draining
<1>2. CASE BridgeStep
  BY <1>2, BridgeStepReach
<1>3. CASE \E c \in Clients : App(c)
  BY <1>3, AppReach
<1>4. CASE UNCHANGED vars
  BY <1>4, <1>0 DEF vars
<1> QED BY <1>0, <1>1, <1>2, <1>3, <1>4 DEF Next

-----------------------------------------------------------------------------
LEMMA InitReleases == Init => Findable /\ Reach
<1> SUFFICES ASSUME Init PROVE Findable /\ Reach
  OBVIOUS
<1>1. Findable
  BY DEF Init, AgentInit, Findable, FindableAt, EmptiedAt, Busy, At, Links
<1>2. Reach
  BY DEF Init, BridgeInit, Reach, Reachable, Disconnected, Draining
<1> QED BY <1>1, <1>2

(* When a dispatch loop is over, no relay of its connection runs and no    *)
(* transport to usbmuxd is open, however the relays' own ends, the         *)
(* cancellations by close_session() and the cleanup were interleaved.      *)
THEOREM AgentReleases == Spec => []AgentReleasesAll
<1>1. Init => Findable
  BY InitReleases
<1>2. IInv /\ Findable /\ [Next]_vars => Findable'
  BY StepKeepsFindable
<1>3. Findable => AgentReleasesAll
  BY FindableReleases
<1> QED BY <1>1, <1>2, <1>3, Invariance, PTL DEF Spec

(* After _teardown() no local client is left with an open transport but    *)
(* one whose handler has not run: every other one was registered, and is   *)
(* found, although handlers start and end while the teardown waits.        *)
THEOREM BridgeReleases == Spec => []BridgeReleasesAll
<1>1. Init => Reach
  BY InitReleases
<1>2. IInv /\ Reach /\ [Next]_vars => Reach'
  BY StepKeepsReach
<1>3. IInv /\ Reach => BridgeReleasesAll
  BY ReachableReleases DEF IInv, TypeOK
<1> QED BY <1>1, <1>2, <1>3, Invariance, PTL DEF Spec
=============================================================================
