----------------------------- MODULE TunnelRefines -----------------------------
(***************************************************************************)
(* The tunnel implements BytePipe: ImplementsPipes, for every number of    *)
(* clients, connections and faults.                                        *)
(*                                                                         *)
(* The steps of the tunnel that the programs or usbmuxd notice are steps   *)
(* of one pipe each; that of a lost connection closes several at once.     *)
(* What the tunnel passes on is the next piece because of Order, and was   *)
(* written because of Counted.  The mapping takes a client to its link:    *)
(* it has one at most, whatever connections came and went, because its id  *)
(* is asked for on one only (OneHome) and opened there once (Unopened).    *)
(***************************************************************************)
EXTENDS TunnelInOrder, TunnelPipes

(* A session is asked for on one connection only, and once. *)
OneHome == \A e, x \in Conns, s \in Sids : Home(e, s) /\ Home(x, s) => e = x

(* What a CONNECT on its way asks for was never opened, and what is being  *)
(* opened has no relay yet.                                                *)
Unopened ==
    \A e \in Conns :
        /\ \A s \in Sids : Sent(b2a[e], "CONNECT", s) => peer[<<e, s>>] = NoClient
        /\ At(e, "open") => rpc[<<e, acur[e]>>] = "none"

(* The two ends of the connection to a client come into being together.    *)
BothEnds == \A c \in Clients : lt[c] = "none" <=> app[c] = "none"

(* Nothing is read before it was written, nor on its way before it was     *)
(* read.                                                                   *)
Counted ==
    /\ \A c \in Clients : upRead[c] <= upSent[c]
    /\ \A l \in Links : relayRead[l] <= downSent[l]
    /\ \A e \in Conns :
          /\ \A f \in Elems(b2a[e]) : f.type = "DATA" => f.data.n <= upRead[f.data.client]
          /\ \A f \in Elems(a2b[e]) : f.type = "DATA" => f.data.n <= relayRead[<<e, f.sid>>]

Piped == OneHome /\ Unopened /\ BothEnds /\ Counted

-----------------------------------------------------------------------------
(* What a step of the bridge does to the clients' ends. *)
LEMMA BridgeEnds ==
    ASSUME IInv, BridgeStep
    PROVE  /\ UNCHANGED <<app, upSent>>
           /\ \A c \in Clients :
                 lt'[c] = lt[c] \/ (lt[c] \in {"open", "closing"} /\ lt'[c] \in {"closing", "lost"})
<1> USE DEF connVars, hbVars, handlerVars, appVars, downVars, wireVars, channels
<1>t. BridgeTypeOK
  BY DEF IInv, TypeOK
<1>w. ASSUME NEW c \in Clients, CloseWriter(c)
      PROVE  \A d \in Clients :
                lt'[d] = lt[d] \/ (lt[d] \in {"open", "closing"} /\ lt'[d] \in {"closing", "lost"})
  BY <1>t, <1>w DEF CloseWriter, ClosedWriter, BridgeTypeOK
<1>d. TearsDown => \A d \in Clients :
                lt'[d] = lt[d] \/ (lt[d] \in {"open", "closing"} /\ lt'[d] \in {"closing", "lost"})
  BY DEF TearsDown, ClosedWriter
<1>1. ASSUME NEW c \in Clients, Handler(c)
      PROVE  UNCHANGED <<app, upSent>> /\ (UNCHANGED lt \/ CloseWriter(c))
  BY <1>1 DEF Handler, HandlerStarts, Registers, ConnectDrained, ConnectFails, HandlerReads,
              HandlerEOF, DataDrained, DataFails, CloseDrained, Finally, Leaves
<1>2. CASE ReaderLoop
  BY <1>2, <1>t DEF ReaderLoop, BridgeReceivesData, BridgeReceivesClose, ClosedWriter,
                    BridgeReceivesHeartbeat, bridgeVars, LocalDrained, SendDrained
<1>3. CASE Beat \/ BeatDrained
  BY <1>3 DEF Beat, BeatDrained
<1>4. CASE BridgeEOF \/ WaitClosedReturns
  BY <1>4, <1>d DEF BridgeEOF, WaitClosedReturns
<1>5. ASSUME NEW c \in Clients, LocalTransportLost(c)
      PROVE  /\ UNCHANGED <<app, upSent>>
             /\ \A d \in Clients :
                   lt'[d] = lt[d] \/ (lt[d] \in {"open", "closing"} /\ lt'[d] \in {"closing", "lost"})
  BY <1>5, <1>t DEF LocalTransportLost, BridgeTypeOK
<1> QED BY <1>w, <1>1, <1>2, <1>3, <1>4, <1>5 DEF BridgeStep

-----------------------------------------------------------------------------
(* Piped is preserved. *)

(* Authentication, a watchdog that fires and a lost connection leave       *)
(* everything but the state of the connections as it is.                   *)
LEMMA LinkStepStands ==
    ASSUME \/ Connects
           \/ \E e \in Conns : Watchdog(e) /\ UNCHANGED bridgeVars
           \/ \E e \in Conns : LinkLost(e) /\ UNCHANGED <<bridgeVars, agentVars>>
           \/ UNCHANGED vars
    PROVE  /\ UNCHANGED <<b2a, a2b, acur, peer, rpc, ut, toUx, downSent, relayRead>>
           /\ UNCHANGED <<lt, app, upSent, upRead, toLocal>>
           /\ \A e \in Conns : At(e, "open")' => At(e, "open")
<1> USE DEF bridgeVars, connVars, hbVars, handlerVars, appVars, downVars, agentVars,
            dispatchVars, uxVars, wireVars, channels
<1>1. CASE Connects
  <2>1. /\ UNCHANGED <<b2a, a2b, acur, peer, rpc, ut, toUx, downSent, relayRead>>
        /\ UNCHANGED <<lt, app, upSent, upRead, toLocal>>
        /\ Accepts(connCount')
    BY <1>1 DEF Connects, BridgeConnects
  <2>2. \A e \in Conns : At(e, "open")' => At(e, "open")
    BY <2>1 DEF Accepts, At, Goes
  <2> QED BY <2>1, <2>2
<1>2. CASE \/ \E e \in Conns : Watchdog(e) /\ UNCHANGED bridgeVars
           \/ \E e \in Conns : LinkLost(e) /\ UNCHANGED <<bridgeVars, agentVars>>
           \/ UNCHANGED vars
  BY <1>2 DEF Watchdog, LinkLost, vars, At
<1> QED BY <1>1, <1>2

LEMMA BridgeOneHome ==
    ASSUME IInv, OneHome, UNCHANGED agentVars, BridgeStep \/ \E c \in Clients : App(c)
    PROVE  OneHome'
<1> SUFFICES ASSUME NEW e \in Conns, NEW x \in Conns, NEW s \in Sids,
                    Home(e, s)', Home(x, s)'
             PROVE  e = x
  BY DEF OneHome
<1>1. CASE s # nextId \/ ~\E c \in Clients : HandlerStarts(c)
  BY <1>1, BridgeKeepsHome DEF OneHome
<1>2. CASE s = nextId
  <2>1. ~Home(e, s) /\ ~Home(x, s)
    BY <1>2, NoHomeYet DEF IInv, TypeOK, BridgeTypeOK, Sids
  <2>2. Wired(e) /\ Wired(x)
    BY <2>1, BridgeKeepsHome
  <2> QED BY <2>2 DEF Wired
<1> QED BY <1>1, <1>2

LEMMA BridgeUnopened ==
    ASSUME IInv, Unopened, UNCHANGED agentVars, BridgeStep \/ \E c \in Clients : App(c)
    PROVE  Unopened'
<1> SUFFICES ASSUME NEW e \in Conns, NEW s \in Sids, Sent(b2a'[e], "CONNECT", s)
             PROVE  peer[<<e, s>>] = NoClient
  BY DEF Unopened, agentVars, dispatchVars, At
<1>t. b2a[e] \in Seq(UpFrame)
  BY DEF IInv, TypeOK, WireTypeOK
<1>1. CASE Sent(b2a[e], "CONNECT", s)
  BY <1>1 DEF Unopened
<1>2. CASE ~Sent(b2a[e], "CONNECT", s)
  <2>1. PICK f : /\ b2a'[e] = Append(b2a[e], f)
                 /\ f.type = "CONNECT" => f.sid = nextId
    BY <1>2, BridgeAdds
  <2>2. s = nextId
    BY <1>t, <1>2, <2>1, SentAppend
  <2> QED BY <2>2, NoHomeYet DEF Home, IInv, TypeOK, BridgeTypeOK, Sids
<1> QED BY <1>1, <1>2

LEMMA BridgeBothEnds ==
    ASSUME IInv, BothEnds, BridgeStep \/ \E c \in Clients : App(c)
    PROVE  BothEnds'
<1>1. CASE BridgeStep
  BY <1>1, BridgeEnds DEF BothEnds
<1>2. ASSUME NEW c \in Clients, App(c) PROVE BothEnds'
  BY <1>2 DEF BothEnds, App, AppConnects, AppWrites, AppReads, AppCloses, appVars, IInv,
              TypeOK, BridgeTypeOK
<1> QED BY <1>1, <1>2

(* The bridge takes frames from the agent and adds none to them. *)
LEMMA BridgeTakes ==
    ASSUME IInv, BridgeStep \/ \E c \in Clients : App(c), NEW e \in Conns
    PROVE  Elems(a2b'[e]) \subseteq Elems(a2b[e])
<1>t. a2b \in [Conns -> Seq(DownFrame)] /\ a2b[e] \in Seq(DownFrame)
  BY DEF IInv, TypeOK, WireTypeOK
<1>1. ASSUME NEW c \in Clients, HandlerStarts(c)
      PROVE  UNCHANGED a2b
  BY <1>1 DEF HandlerStarts, Registers
<1>2. ASSUME NEW x \in Conns, BridgeReceivesData(x)
      PROVE  a2b'[e] = a2b[e] \/ (a2b[e] # <<>> /\ a2b'[e] = Tail(a2b[e]))
  BY <1>2, <1>t DEF BridgeReceivesData, Receives
<1>3. \/ a2b'[e] = a2b[e]
      \/ a2b[e] # <<>> /\ a2b'[e] = Tail(a2b[e])
      \/ a2b'[e] = <<>>
  BY <1>1, <1>2, BridgeIsResting DEF BridgeRests
<1> QED BY <1>t, <1>3, ElemsTail, ElemsEmpty
LEMMA AddsOne ==
    ASSUME WireTypeOK, NEW f, Adds(f), NEW e \in Conns, NEW g \in Elems(b2a'[e])
    PROVE  g \in Elems(b2a[e]) \/ g = f
<1>1. CASE b2a'[e] = b2a[e]
  BY <1>1
<1>2. CASE b2a'[e] = Append(b2a[e], f)
  <2>1. Elems(Append(b2a[e], f)) = Elems(b2a[e]) \cup {f}
    BY ElemsAppend DEF WireTypeOK
  <2>2. g \in Elems(Append(b2a[e], f))
    BY <1>2
  <2> QED BY <2>1, <2>2
<1> QED BY <1>1, <1>2 DEF Adds

LEMMA BridgeCounted ==
    ASSUME IInv, Counted, UNCHANGED agentVars, BridgeStep \/ \E c \in Clients : App(c)
    PROVE  Counted'
<1>t. /\ WireTypeOK /\ BridgeTypeOK
      /\ upRead \in [Clients -> Nat] /\ upSent \in [Clients -> Nat]
      /\ \A e \in Conns : b2a[e] \in Seq(UpFrame)
  BY DEF IInv, TypeOK, WireTypeOK, BridgeTypeOK
<1>u. UNCHANGED <<relayRead, downSent>>
  BY DEF agentVars, uxVars
<1>s. \A c \in Clients : upSent'[c] \in Nat /\ upSent[c] <= upSent'[c]
  <2>1. ASSUME NEW c \in Clients, App(c)
        PROVE  \A d \in Clients : upSent'[d] \in Nat /\ upSent[d] <= upSent'[d]
    BY <1>t, <2>1 DEF App, AppConnects, AppWrites, AppReads, AppCloses, appVars
  <2> QED BY <1>t, <2>1, BridgeEnds
<1>a. ASSUME NEW e \in Conns, NEW f \in Elems(a2b'[e]), f.type = "DATA"
      PROVE  f.data.n <= relayRead'[<<e, f.sid>>]
  BY <1>a, <1>u, BridgeTakes DEF Counted
<1>f. ASSUME NEW e \in Conns, NEW f \in Elems(b2a[e]), f.type = "DATA"
      PROVE  f.data.client \in Clients /\ f.data.n \in Nat /\ f.data.n <= upRead[f.data.client]
  <2>1. f \in UpFrame
    BY <1>t, <1>f, ElemsTyped
  <2>2. f.data \in Piece
    BY <1>f, <2>1, UpFields
  <2>3. f.data.client \in Clients /\ f.data.n \in Nat
    BY <2>2 DEF Piece
  <2> QED BY <1>f, <2>3 DEF Counted
<1>1. CASE PlainStep
  <2>1. ASSUME NEW e \in Conns, NEW f \in Elems(b2a'[e]), f.type = "DATA"
        PROVE  f.data.n <= upRead'[f.data.client]
    <3>1. PICK g : Plain(g) /\ Adds(g)
      BY <1>1 DEF PlainStep
    <3>2. f \in Elems(b2a[e])
      BY <1>t, <2>1, <3>1, AddsOne DEF Plain
    <3> QED BY <1>1, <1>f, <2>1, <3>2 DEF PlainStep
  <2>2. \A c \in Clients : upRead'[c] <= upSent'[c]
    BY <1>1, <1>s, <1>t DEF PlainStep, Counted
  <2> QED BY <1>a, <1>u, <2>1, <2>2 DEF Counted
<1>2. ASSUME NEW c \in Clients, HandlerStarts(c)
      PROVE  Counted'
  <2>1. UNCHANGED upRead
    BY <1>2 DEF HandlerStarts, Registers, appVars
  <2>2. Adds(Connect(nextId, c))
    BY <1>2, <1>t, BridgeSendsAdds DEF HandlerStarts, Registers
  <2>3. ASSUME NEW e \in Conns, NEW f \in Elems(b2a'[e]), f.type = "DATA"
        PROVE  f.data.n <= upRead'[f.data.client]
    <3>1. Connect(nextId, c).type # "DATA"
      BY DEF Connect
    <3>2. f \in Elems(b2a[e])
      BY <1>t, <2>2, <2>3, <3>1, AddsOne
    <3> QED BY <1>f, <2>1, <2>3, <3>2
  <2>4. \A d \in Clients : upRead'[d] <= upSent'[d]
    BY <1>s, <1>t, <2>1 DEF Counted
  <2> QED BY <1>a, <1>u, <2>3, <2>4 DEF Counted
<1>3. ASSUME NEW c \in Clients, HandlerReads(c)
      PROVE  Counted'
  <2>1. upRead' = [upRead EXCEPT ![c] = @ + 1] /\ upRead[c] < upSent[c]
    BY <1>3 DEF HandlerReads
  <2>2. Adds(Data(sid[c], c, upRead[c] + 1))
    BY <1>3, <1>t, BridgeSendsAdds DEF HandlerReads
  <2>3. ASSUME NEW e \in Conns, NEW f \in Elems(b2a'[e]), f.type = "DATA"
        PROVE  f.data.n <= upRead'[f.data.client]
    <3>1. CASE f \in Elems(b2a[e])
      BY <1>f, <1>t, <2>1, <2>3, <3>1
    <3>2. CASE f = Data(sid[c], c, upRead[c] + 1)
      BY <1>t, <2>1, <3>2 DEF Data
    <3> QED BY <1>t, <2>2, <3>1, <3>2, AddsOne
  <2>4. \A d \in Clients : upRead'[d] <= upSent'[d]
    <3> SUFFICES ASSUME NEW d \in Clients PROVE upRead'[d] <= upSent'[d]
      OBVIOUS
    <3>1. UNCHANGED upSent
      BY <1>3 DEF HandlerReads
    <3> QED BY <1>t, <2>1, <3>1 DEF Counted
  <2> QED BY <1>a, <1>u, <2>3, <2>4 DEF Counted
<1> QED BY <1>1, <1>2, <1>3, BridgeIsPlain

LEMMA AgentOneHome ==
    ASSUME IInv, OneHome, AgentStep \/ \E l \in Links : Usbmuxd(l)
    PROVE  OneHome'
BY AgentKeepsHome DEF OneHome

(* A session that is being opened was not open before: its CONNECT was the *)
(* only one with its id.                                                   *)
LEMMA AgentUnopened ==
    ASSUME IInv, Starts, Unopened, AgentStep \/ \E l \in Links : Usbmuxd(l)
    PROVE  Unopened'
<1>t. /\ AgentTypeOK
      /\ \A e \in Conns : b2a[e] \in Seq(UpFrame)
  BY DEF IInv, TypeOK, WireTypeOK
<1>l. \A e \in Conns, s \in Sids : <<e, s>> \in Links
  BY DEF Links
<1>1. CASE RelaySide
  <2>1. \A e \in Conns : At(e, "open") => acur[e] \in Sids
    BY DEF IInv, Working, At
  <2> QED BY <1>1, <1>l, <2>1 DEF RelaySide, Unopened, At
<1>2. ASSUME NEW e \in Conns, OnlyCloses(e)
      PROVE  Unopened'
  <2>1. ASSUME NEW x \in Conns, NEW s \in Sids, Sent(b2a'[x], "CONNECT", s)
        PROVE  peer'[<<x, s>>] = NoClient
    <3>1. Sent(b2a[x], "CONNECT", s)
      BY <1>2, <1>t, <2>1, SentTail, SentEmpty DEF OnlyCloses, LeavesOthers
    <3> QED BY <1>2, <3>1 DEF OnlyCloses, Unopened
  <2>2. ASSUME NEW x \in Conns, At(x, "open")'
        PROVE  rpc'[<<x, acur'[x]>>] = "none"
    <3>1. x # e /\ At(x, "open") /\ acur'[x] = acur[x]
      BY <1>2, <2>2 DEF OnlyCloses, LeavesOthers, At
    <3>2. acur[x] \in Sids /\ rpc[<<x, acur[x]>>] = "none"
      BY <3>1 DEF IInv, Working, At, Unopened
    <3> QED BY <1>2, <3>1, <3>2 DEF OnlyCloses, LeavesOthers
  <2> QED BY <2>1, <2>2 DEF Unopened
<1>3. ASSUME NEW e \in Conns, AgentReceivesConnect(e)
      PROVE  Unopened'
  <2> DEFINE s == Head(b2a[e]).sid
  <2>1. /\ b2a[e] # <<>> /\ b2a' = [b2a EXCEPT ![e] = Tail(@)]
        /\ Head(b2a[e]).type = "CONNECT" /\ Head(b2a[e]) \in Elems(b2a[e])
        /\ s \in Sids
    BY <1>3, <1>t, TakesTyped, ElemsTail DEF AgentReceivesConnect, Takes, IInv, TypeOK
  <2>2. Sent(b2a[e], "CONNECT", s)
    BY <2>1 DEF Sent
  <2>3. ~Sent(Tail(b2a[e]), "CONNECT", s)
    <3>1. ConnectsFirst(b2a[e])
      BY DEF Starts
    <3> QED BY <1>t, <2>1, <3>1 DEF ConnectsFirst, Sent, Elems
  <2>4. rpc[<<e, s>>] = "none"
    BY <2>1, <2>2 DEF Unopened, IInv, Opened, Alive
  <2>5. /\ peer' = [peer EXCEPT ![<<e, s>>] = Head(b2a[e]).data.client]
        /\ acur' = [acur EXCEPT ![e] = s]
        /\ Goes(e, "open")
        /\ UNCHANGED rpc
    BY <1>3 DEF AgentReceivesConnect
  <2>6. ASSUME NEW x \in Conns, NEW r \in Sids, Sent(b2a'[x], "CONNECT", r)
        PROVE  peer'[<<x, r>>] = NoClient
    <3>1. Sent(b2a[x], "CONNECT", r) /\ <<x, r>> # <<e, s>>
      BY <1>t, <2>1, <2>3, <2>6, SentTail DEF WireTypeOK, IInv, TypeOK
    <3> QED BY <1>l, <1>t, <2>5, <3>1 DEF Unopened, AgentTypeOK
  <2>7. ASSUME NEW x \in Conns, At(x, "open")'
        PROVE  rpc'[<<x, acur'[x]>>] = "none"
    BY <1>t, <2>4, <2>5, <2>7 DEF Goes, At, Unopened, AgentTypeOK
  <2> QED BY <2>6, <2>7 DEF Unopened
<1>4. ASSUME NEW e \in Conns, UxOpens(e) \/ AgentReceivesData(e)
      PROVE  Unopened'
  <2>1. UNCHANGED peer
    BY <1>4 DEF UxOpens, AgentReceivesData
  <2>2. \A x \in Conns : b2a'[x] = b2a[x] \/ (b2a[x] # <<>> /\ b2a'[x] = Tail(b2a[x]))
    BY <1>4, <1>t DEF UxOpens, AgentReceivesData, Takes, wireVars, channels, IInv, TypeOK,
                      WireTypeOK
  <2>3. \A x \in Conns, s \in Sids :
            Sent(b2a'[x], "CONNECT", s) => Sent(b2a[x], "CONNECT", s)
    BY <1>t, <2>2, SentTail
  <2>4. ASSUME NEW x \in Conns, At(x, "open")'
        PROVE  rpc'[<<x, acur'[x]>>] = "none"
    <3>1. x # e /\ At(x, "open") /\ acur'[x] = acur[x]
      BY <1>4, <1>t, <2>4 DEF UxOpens, AgentReceivesData, Goes, Idle, At, AgentTypeOK
    <3>2. rpc'[<<x, acur[x]>>] = rpc[<<x, acur[x]>>]
      BY <1>4, <1>t, <1>l, <3>1 DEF UxOpens, AgentReceivesData, AgentTypeOK, IInv, Working, At
    <3> QED BY <3>1, <3>2 DEF Unopened
  <2> QED BY <2>1, <2>3, <2>4 DEF Unopened
<1> QED BY <1>1, <1>2, <1>3, <1>4, DispatchCloses, RelayIsSide DEF AgentStep

(* What a step of the agent does to the frames on their way to it. *)
LEMMA AgentTakes ==
    ASSUME IInv, AgentStep \/ \E l \in Links : Usbmuxd(l), NEW e \in Conns
    PROVE  Elems(b2a'[e]) \subseteq Elems(b2a[e])
<1>1. b2a[e] \in Seq(UpFrame)
  BY DEF IInv, TypeOK, WireTypeOK
<1> QED BY <1>1, AgentIsWired, ElemsTail, ElemsEmpty DEF AgentWires

LEMMA AgentCounted ==
    ASSUME IInv, Counted, UNCHANGED bridgeVars, AgentStep \/ \E l \in Links : Usbmuxd(l)
    PROVE  Counted'
<1>t. /\ relayRead \in [Links -> Nat] /\ downSent \in [Links -> Nat]
      /\ \A e \in Conns : a2b[e] \in Seq(DownFrame)
  BY DEF IInv, TypeOK, WireTypeOK, AgentTypeOK
<1>u. UNCHANGED <<upRead, upSent>>
  BY DEF bridgeVars, appVars
<1>d. ASSUME NEW l \in Links
      PROVE  downSent'[l] \in Nat /\ downSent[l] <= downSent'[l]
  <2>1. ASSUME NEW e \in Conns, Dispatch(e)
        PROVE  UNCHANGED downSent
    BY <2>1, DispatchCloses DEF OnlyCloses, AgentReceivesConnect, UxOpens,
                                AgentReceivesData, uxVars
  <2>2. ASSUME NEW k \in Links, Relay(k) \/ UxTransportLost(k)
        PROVE  UNCHANGED downSent
    BY <2>2 DEF Relay, RelayStarts, RelayReads, RelayEOF, RelayDataDrained, RelayDataFails,
                RelayCancelled, RelayCloseDrained, UxTransportLost, uxVars
  <2>3. ASSUME NEW k \in Links, Usbmuxd(k)
        PROVE  downSent'[l] \in Nat /\ downSent[l] <= downSent'[l]
    BY <1>t, <2>3 DEF Usbmuxd, UxWrites, UxReads, UxCloses
  <2> QED BY <1>t, <2>1, <2>2, <2>3 DEF AgentStep
<1>b. ASSUME NEW e \in Conns, NEW f \in Elems(b2a'[e]), f.type = "DATA"
      PROVE  f.data.n <= upRead'[f.data.client]
  BY <1>b, <1>u, AgentTakes DEF Counted
<1>f. ASSUME NEW e \in Conns, NEW f \in Elems(a2b[e]), f.type = "DATA"
      PROVE  /\ <<e, f.sid>> \in Links /\ f.data.n \in Nat
             /\ f.data.n <= relayRead[<<e, f.sid>>]
  <2>1. f \in DownFrame
    BY <1>t, <1>f, ElemsTyped
  <2>2. f.sid \in Sids /\ f.data \in Piece
    BY <1>f, <2>1, DownFields
  <2> QED BY <1>f, <2>2 DEF Counted, Piece, Links
<1>1. CASE ~(\E l \in Links : RelayReads(l))
  <2>1. ASSUME NEW e \in Conns, NEW f \in Elems(a2b'[e]), f.type = "DATA"
        PROVE  f.data.n <= relayRead'[<<e, f.sid>>]
    <3>1. UNCHANGED relayRead
      BY <1>1, AgentAnswers
    <3>2. f \in Elems(a2b[e])
      <4>1. CASE a2b'[e] = a2b[e]
        BY <4>1
      <4>2. ASSUME NEW g, Plain(g), a2b'[e] = Append(a2b[e], g)
            PROVE  f \in Elems(a2b[e])
        <5>1. Elems(Append(a2b[e], g)) = Elems(a2b[e]) \cup {g}
          BY <1>t, ElemsAppend
        <5>2. f \in Elems(Append(a2b[e], g))
          BY <4>2
        <5> QED BY <2>1, <4>2, <5>1, <5>2 DEF Plain
      <4> QED BY <1>1, <4>1, <4>2, AgentAnswers
    <3> QED BY <1>f, <2>1, <3>1, <3>2
  <2>2. ASSUME NEW l \in Links PROVE UNCHANGED relayRead
    <3>1. l[1] \in Conns
      BY DEF Links
    <3> QED BY <1>1, <3>1, AgentAnswers
  <2>3. \A l \in Links : relayRead'[l] <= downSent'[l]
    BY <1>d, <1>t, <2>2 DEF Counted
  <2> QED BY <1>b, <1>u, <2>1, <2>3 DEF Counted
<1>2. ASSUME NEW l \in Links, RelayReads(l)
      PROVE  Counted'
  <2>1. /\ relayRead' = [relayRead EXCEPT ![l] = @ + 1]
        /\ relayRead[l] < downSent[l]
        /\ UNCHANGED downSent
    BY <1>2 DEF RelayReads, uxVars
  <2>2. \A k \in Links : relayRead'[k] <= downSent'[k]
    BY <1>t, <2>1 DEF Counted
  <2>3. /\ \A k \in Links : relayRead'[k] \in Nat /\ relayRead[k] <= relayRead'[k]
        /\ relayRead'[l] = relayRead[l] + 1
    BY <1>t, <2>1
  <2>4. ASSUME NEW e \in Conns, NEW f \in Elems(a2b'[e]), f.type = "DATA"
        PROVE  f.data.n <= relayRead'[<<e, f.sid>>]
    <3>1. CASE f \in Elems(a2b[e])
      <4>1. <<e, f.sid>> \in Links /\ f.data.n \in Nat /\ f.data.n <= relayRead[<<e, f.sid>>]
        BY <1>f, <2>4, <3>1
      <4>2. /\ relayRead[<<e, f.sid>>] \in Nat /\ relayRead'[<<e, f.sid>>] \in Nat
            /\ relayRead[<<e, f.sid>>] <= relayRead'[<<e, f.sid>>]
        BY <1>t, <2>3, <4>1
      <4> QED BY <4>1, <4>2
    <3>2. CASE f \notin Elems(a2b[e])
      <4> DEFINE g == Data(l[2], peer[l], relayRead[l] + 1)
      <4>1. e = l[1] /\ a2b'[e] = Append(a2b[e], g)
        BY <1>2, <2>4, <3>2 DEF RelayReads, AgentSends, AgentSendLost, IInv, TypeOK,
                                WireTypeOK
      <4>2. Elems(Append(a2b[e], g)) = Elems(a2b[e]) \cup {g}
        BY <1>t, ElemsAppend
      <4>3. f \in Elems(Append(a2b[e], g))
        BY <4>1
      <4>4. f = g
        BY <3>2, <4>2, <4>3
      <4>5. f.sid = l[2] /\ f.data.n = relayRead[l] + 1
        BY <4>4 DEF Data
      <4>6. <<e, f.sid>> = l
        BY <4>1, <4>5 DEF Links
      <4>7. relayRead'[<<e, f.sid>>] = relayRead[l] + 1 /\ relayRead[l] \in Nat
        BY <1>t, <2>3, <4>6
      <4> QED BY <4>5, <4>7
    <3> QED BY <3>1, <3>2
  <2> QED BY <1>b, <1>u, <2>2, <2>4 DEF Counted
<1> QED BY <1>1, <1>2

LEMMA StepKeepsPiped ==
    ASSUME IInv, Starts, Piped, [Next]_vars
    PROVE  Piped'
<1> USE DEF Piped
<1>1. CASE \/ Connects
           \/ \E e \in Conns : Watchdog(e) /\ UNCHANGED bridgeVars
           \/ \E e \in Conns : LinkLost(e) /\ UNCHANGED <<bridgeVars, agentVars>>
           \/ UNCHANGED vars
  <2>1. UNCHANGED <<b2a, a2b, acur, peer, rpc, downSent, relayRead, lt, app, upSent, upRead>>
    BY <1>1, LinkStepStands
  <2>2. \A e \in Conns : At(e, "open")' => At(e, "open")
    BY <1>1, LinkStepStands
  <2> QED BY <2>1, <2>2 DEF OneHome, Home, Sent, Unopened, BothEnds, Counted
<1>2. CASE (BridgeStep \/ \E c \in Clients : App(c)) /\ UNCHANGED agentVars
  BY <1>2, BridgeOneHome, BridgeUnopened, BridgeBothEnds, BridgeCounted
<1>3. CASE (AgentStep \/ \E l \in Links : Usbmuxd(l)) /\ UNCHANGED bridgeVars
  <2>1. BothEnds'
    BY <1>3 DEF BothEnds, bridgeVars, appVars
  <2> QED BY <1>3, <2>1, AgentOneHome, AgentUnopened, AgentCounted
<1> QED BY <1>1, <1>2, <1>3 DEF Next

LEMMA InitPiped == Init => Piped
<1> SUFFICES ASSUME Init PROVE Piped
  OBVIOUS
<1> USE DEF Init, WireInit, BridgeInit, AgentInit
<1>1. \A e \in Conns, s \in Sids : ~Home(e, s) /\ ~Sent(b2a[e], "CONNECT", s)
  BY SentEmpty DEF Home, Links
<1>2. \A e \in Conns : Elems(b2a[e]) = {} /\ Elems(a2b[e]) = {}
  BY ElemsEmpty
<1>3. OneHome /\ Unopened
  BY <1>1 DEF OneHome, Unopened, At
<1>4. BothEnds /\ Counted
  BY <1>2 DEF BothEnds, Counted
<1> QED BY <1>3, <1>4 DEF Piped

-----------------------------------------------------------------------------
(* The mapping, seen from the links: a client has one at most. *)
OneLink == \A k, l \in Links : peer[k] = peer[l] /\ peer[k] # NoClient => k = l

Mapped ==
    \A c \in Clients :
        /\ \A l \in Links : peer[l] = c =>
              Far[c] = End(ut[l]) /\ UpGot[c] = toUx[l] /\ DownSent[c] = downSent[l]
        /\ (\A l \in Links : peer[l] # c) =>
              Far[c] = "none" /\ UpGot[c] = <<>> /\ DownSent[c] = 0

LEMMA IsOneLink ==
    ASSUME IInv, OneHome
    PROVE  OneLink
<1> SUFFICES ASSUME NEW k \in Links, NEW l \in Links, peer[k] = peer[l], peer[k] # NoClient
             PROVE  k = l
  BY DEF OneLink
<1>1. sid[peer[k]] = k[2] /\ sid[peer[l]] = l[2]
  BY DEF IInv, Peers
<1>2. /\ k = <<k[1], k[2]>> /\ l = <<l[1], l[2]>>
      /\ k[1] \in Conns /\ l[1] \in Conns /\ k[2] \in Sids
  BY DEF Links
<1>3. Home(k[1], k[2]) /\ Home(l[1], k[2])
  BY <1>1, <1>2 DEF Home
<1> QED BY <1>1, <1>2, <1>3 DEF OneHome

LEMMA IsMapped == OneLink => Mapped
<1> SUFFICES ASSUME OneLink, NEW c \in Clients
             PROVE  /\ \A l \in Links : peer[l] = c =>
                          /\ Far[c] = End(ut[l])
                          /\ UpGot[c] = toUx[l]
                          /\ DownSent[c] = downSent[l]
                    /\ (\A l \in Links : peer[l] # c) =>
                          Far[c] = "none" /\ UpGot[c] = <<>> /\ DownSent[c] = 0
  BY DEF Mapped
<1>1. ASSUME NEW l \in Links, peer[l] = c
      PROVE  HasLink(c) /\ LinkOf(c) = l
  <2>1. HasLink(c)
    BY <1>1 DEF HasLink
  <2>2. LinkOf(c) \in Links /\ peer[LinkOf(c)] = c
    BY <1>1 DEF LinkOf
  <2>3. c # NoClient
    BY WireAssumption
  <2> QED BY <1>1, <2>1, <2>2, <2>3 DEF OneLink
<1>2. ASSUME \A l \in Links : peer[l] # c
      PROVE  ~HasLink(c)
  BY <1>2 DEF HasLink
<1>3. End("none") = "none"
  BY DEF End
<1> QED BY <1>1, <1>2, <1>3 DEF Far, UpGot, DownSent, OfLink

(* The clients keep their links, and one that gets a link gets it unused.  *)
KeepsLinks ==
    /\ \A l \in Links : peer[l] # NoClient => peer'[l] = peer[l]
    /\ \A l \in Links : peer'[l] # peer[l] =>
          ut'[l] = "none" /\ toUx'[l] = <<>> /\ downSent'[l] = 0

LEMMA KeptLinks ==
    ASSUME OneLink', Mapped, Mapped', KeepsLinks, NEW c \in Clients
    PROVE  \/ \E l \in Links :
                 /\ peer[l] = c /\ peer'[l] = c
                 /\ Far[c] = End(ut[l]) /\ Far'[c] = End(ut'[l])
                 /\ UpGot[c] = toUx[l] /\ UpGot'[c] = toUx'[l]
                 /\ DownSent[c] = downSent[l] /\ DownSent'[c] = downSent'[l]
           \/ /\ \A l \in Links : peer[l] # c
              /\ Far[c] = "none" /\ Far'[c] = "none"
              /\ UpGot[c] = <<>> /\ UpGot'[c] = <<>>
              /\ DownSent[c] = 0 /\ DownSent'[c] = 0
<1>n. c # NoClient
  BY WireAssumption
<1>1. ASSUME NEW l \in Links, peer[l] = c
      PROVE  /\ peer'[l] = c
             /\ Far[c] = End(ut[l]) /\ Far'[c] = End(ut'[l])
             /\ UpGot[c] = toUx[l] /\ UpGot'[c] = toUx'[l]
             /\ DownSent[c] = downSent[l] /\ DownSent'[c] = downSent'[l]
  <2>1. peer'[l] = c
    BY <1>n, <1>1 DEF KeepsLinks
  <2> QED BY <1>1, <2>1 DEF Mapped
<1>2. ASSUME \A l \in Links : peer[l] # c
      PROVE  /\ Far[c] = "none" /\ Far'[c] = "none"
             /\ UpGot[c] = <<>> /\ UpGot'[c] = <<>>
             /\ DownSent[c] = 0 /\ DownSent'[c] = 0
  <2>1. Far[c] = "none" /\ UpGot[c] = <<>> /\ DownSent[c] = 0
    BY <1>2 DEF Mapped
  <2>2. CASE \A l \in Links : peer'[l] # c
    BY <2>1, <2>2 DEF Mapped
  <2>3. ASSUME NEW l \in Links, peer'[l] = c
        PROVE  Far'[c] = "none" /\ UpGot'[c] = <<>> /\ DownSent'[c] = 0
    <3>1. ut'[l] = "none" /\ toUx'[l] = <<>> /\ downSent'[l] = 0
      BY <1>2, <2>3 DEF KeepsLinks
    <3>2. Far'[c] = End(ut'[l]) /\ UpGot'[c] = toUx'[l] /\ DownSent'[c] = downSent'[l]
      BY <2>3 DEF Mapped
    <3> QED BY <3>1, <3>2 DEF End
  <2> QED BY <2>1, <2>2, <2>3
<1> QED BY <1>1, <1>2

LEMMA SameFunction ==
    ASSUME NEW D, NEW f, NEW g,
           f = [x \in D |-> f[x]], g = [x \in D |-> g[x]], \A x \in D : g[x] = f[x]
    PROVE  g = f
OBVIOUS

LEMMA UpdatedFunction ==
    ASSUME NEW D, NEW f, NEW g, NEW c \in D,
           f = [x \in D |-> f[x]], g = [x \in D |-> g[x]],
           \A x \in D \ {c} : g[x] = f[x]
    PROVE  g = [f EXCEPT ![c] = g[c]]
OBVIOUS

LEMMA Shapes ==
    /\ Near = [c \in Clients |-> Near[c]]
    /\ Far = [c \in Clients |-> Far[c]]
    /\ UpGot = [c \in Clients |-> UpGot[c]]
    /\ DownSent = [c \in Clients |-> DownSent[c]]
    /\ Near' = [c \in Clients |-> Near'[c]]
    /\ Far' = [c \in Clients |-> Far'[c]]
    /\ UpGot' = [c \in Clients |-> UpGot'[c]]
    /\ DownSent' = [c \in Clients |-> DownSent'[c]]
BY DEF Near, Far, UpGot, DownSent

(* A step that changes nothing on any link ...                             *)
LEMMA TouchesNone ==
    ASSUME OneLink', Mapped, Mapped', KeepsLinks, UNCHANGED <<ut, toUx, downSent>>
    PROVE  UNCHANGED <<Far, UpGot, DownSent>>
<1>1. ASSUME NEW c \in Clients
      PROVE  Far'[c] = Far[c] /\ UpGot'[c] = UpGot[c] /\ DownSent'[c] = DownSent[c]
  BY KeptLinks
<1>2. Far' = Far
  BY <1>1, Shapes, SameFunction
<1>3. UpGot' = UpGot
  BY <1>1, Shapes, SameFunction
<1>4. DownSent' = DownSent
  BY <1>1, Shapes, SameFunction
<1> QED BY <1>2, <1>3, <1>4

(* ... or on one, that of a client.                                        *)
LEMMA TouchesOne ==
    ASSUME OneLink', Mapped, Mapped', UNCHANGED peer,
           NEW l \in Links, NEW c \in Clients, peer[l] = c,
           \A k \in Links \ {l} :
               ut'[k] = ut[k] /\ toUx'[k] = toUx[k] /\ downSent'[k] = downSent[k]
    PROVE  /\ Far[c] = End(ut[l]) /\ UpGot[c] = toUx[l] /\ DownSent[c] = downSent[l]
           /\ Far' = [Far EXCEPT ![c] = End(ut'[l])]
           /\ UpGot' = [UpGot EXCEPT ![c] = toUx'[l]]
           /\ DownSent' = [DownSent EXCEPT ![c] = downSent'[l]]
<1>k. KeepsLinks
  BY DEF KeepsLinks
<1>1. /\ Far[c] = End(ut[l]) /\ Far'[c] = End(ut'[l])
      /\ UpGot[c] = toUx[l] /\ UpGot'[c] = toUx'[l]
      /\ DownSent[c] = downSent[l] /\ DownSent'[c] = downSent'[l]
  BY DEF Mapped
<1>2. ASSUME NEW d \in Clients \ {c}
      PROVE  Far'[d] = Far[d] /\ UpGot'[d] = UpGot[d] /\ DownSent'[d] = DownSent[d]
  BY <1>k, KeptLinks
<1>3. Far' = [Far EXCEPT ![c] = Far'[c]]
  BY <1>2, Shapes, UpdatedFunction
<1>4. UpGot' = [UpGot EXCEPT ![c] = UpGot'[c]]
  BY <1>2, Shapes, UpdatedFunction
<1>5. DownSent' = [DownSent EXCEPT ![c] = DownSent'[c]]
  BY <1>2, Shapes, UpdatedFunction
<1> QED BY <1>1, <1>3, <1>4, <1>5

(* What is written to a link that runs is written for a client.            *)
LEMMA Owned ==
    ASSUME IInv, Untouched, NEW l \in Links, ut[l] # "none" \/ rpc[l] # "none"
    PROVE  peer[l] \in Clients
<1>1. l[1] \in Conns /\ l[2] \in Sids /\ l = <<l[1], l[2]>>
  BY DEF Links
<1>2. rpc[l] # "none"
  BY DEF Untouched, UntouchedLink
<1> QED BY <1>1, <1>2 DEF IInv, Opened, Alive, TypeOK, AgentTypeOK

Stands == UNCHANGED <<Near, upSent, toLocal>>
PipeStep == Pipes!Next \/ UNCHANGED <<Near, Far, upSent, UpGot, DownSent, toLocal>>

(* A transport to usbmuxd closes or is lost.                               *)
LEMMA FarCloses ==
    ASSUME IInv, Untouched, OneLink', Mapped, Mapped', Stands,
           UNCHANGED <<peer, toUx, downSent>>, NEW l \in Links, NEW v \in {"closing", "lost"},
           ut' = [ut EXCEPT ![l] = v], ut[l] # "none"
    PROVE  PipeStep
<1> DEFINE c == peer[l]
<1>1. c \in Clients
  BY Owned
<1>2. /\ Far[c] = End(ut[l])
      /\ Far' = [Far EXCEPT ![c] = End(ut'[l])]
      /\ UpGot' = [UpGot EXCEPT ![c] = toUx'[l]] /\ UpGot[c] = toUx[l]
      /\ DownSent' = [DownSent EXCEPT ![c] = downSent'[l]] /\ DownSent[c] = downSent[l]
  BY <1>1, TouchesOne
<1>3. UNCHANGED <<UpGot, DownSent>>
  BY <1>2, Shapes
<1>4. ut[l] \in {"open", "closing", "lost"} /\ End(ut'[l]) = "closed"
  BY DEF IInv, TypeOK, AgentTypeOK, UxTransport, End
<1>5. CASE ut[l] = "open"
  <2>1. Far[c] = "open" /\ Far' = [Far EXCEPT ![c] = "closed"]
    BY <1>2, <1>4, <1>5 DEF End
  <2>2. Pipes!ClosesFar(c)
    BY <1>3, <2>1 DEF Stands, Pipes!ClosesFar
  <2> QED BY <1>1, <2>2 DEF PipeStep, Pipes!Next
<1>6. CASE ut[l] # "open"
  <2>1. UNCHANGED Far
    BY <1>2, <1>4, <1>6, Shapes DEF End
  <2> QED BY <1>3, <2>1 DEF PipeStep, Stands
<1> QED BY <1>5, <1>6

(* The end of close_session() and of a relay's finally block.              *)
LEMMA ClosesOneUx ==
    ASSUME IInv, Untouched, OneLink', Mapped, Mapped', Stands,
           UNCHANGED <<peer, toUx, downSent>>, NEW l \in Links,
           ut' = [ut EXCEPT ![l] = ClosedUx(@)]
    PROVE  PipeStep
<1>t. ut \in [Links -> UxTransport]
  BY DEF IInv, TypeOK, AgentTypeOK
<1>1. CASE ut[l] = "open"
  <2>1. ut' = [ut EXCEPT ![l] = "closing"]
    BY <1>1 DEF ClosedUx
  <2> QED BY <1>1, <2>1, FarCloses
<1>2. CASE ut[l] # "open"
  <2>1. UNCHANGED ut
    BY <1>t, <1>2 DEF ClosedUx
  <2> QED BY <2>1, TouchesNone DEF PipeStep, Stands, KeepsLinks
<1> QED BY <1>1, <1>2

LEMMA AgentStands ==
    ASSUME UNCHANGED bridgeVars
    PROVE  Stands
BY DEF Stands, Near, bridgeVars, appVars, downVars

LEMMA ConnectStutters ==
    ASSUME IInv, Starts, Unopened, OneLink', Mapped, Mapped', Stands,
           NEW e \in Conns, AgentReceivesConnect(e)
    PROVE  PipeStep
<1> DEFINE s == Head(b2a[e]).sid
           l == <<e, s>>
<1>1. b2a[e] \in Seq(UpFrame) /\ b2a[e] # <<>> /\ Head(b2a[e]).type = "CONNECT"
  BY DEF IInv, TypeOK, WireTypeOK, AgentReceivesConnect, Takes
<1>2. s \in Sids /\ Sent(b2a[e], "CONNECT", s)
  <2>1. Head(b2a[e]) \in UpFrame /\ Head(b2a[e]) \in Elems(b2a[e])
    BY <1>1, ElemsTail, ElemsTyped
  <2> QED BY <1>1, <2>1, UpFields DEF Sent
<1>3. l \in Links /\ peer[l] = NoClient /\ rpc[l] = "none"
  BY <1>2 DEF Unopened, IInv, Opened, Alive, Links
<1>4. ut[l] = "none" /\ toUx[l] = <<>> /\ downSent[l] = 0
  BY <1>3 DEF Starts, Untouched, UntouchedLink
<1>5. \A k \in Links : k # l => peer'[k] = peer[k]
  BY DEF AgentReceivesConnect, IInv, TypeOK, AgentTypeOK
<1>6. UNCHANGED <<ut, toUx, downSent>>
  BY DEF AgentReceivesConnect, uxVars
<1>7. KeepsLinks
  BY <1>3, <1>4, <1>5, <1>6 DEF KeepsLinks
<1> QED BY <1>6, <1>7, TouchesNone DEF PipeStep, Stands

LEMMA OpensThePipe ==
    ASSUME IInv, Starts, Unopened, BothEnds, OneLink', Mapped, Mapped', Stands,
           NEW e \in Conns, UxOpens(e)
    PROVE  PipeStep
<1> DEFINE l == <<e, acur[e]>>
           c == peer[l]
<1>t. AgentTypeOK /\ BridgeTypeOK
  BY DEF IInv, TypeOK
<1>1. /\ acur[e] \in Sids /\ l \in Links /\ rpc[l] = "none" /\ ut[l] = "none"
  <2>1. At(e, "open") /\ acur[e] \in Sids
    BY DEF UxOpens, At, IInv, Working
  <2> QED BY <2>1 DEF Unopened, Links, Starts, Untouched, UntouchedLink
<1>2. c \in Clients
  BY <1>1, <1>t DEF UxOpens, IInv, Opened, Alive, AgentTypeOK
<1>3. /\ ut' = [ut EXCEPT ![l] = "open"]
      /\ UNCHANGED <<peer, toUx, downSent>>
  BY DEF UxOpens, uxVars
<1>4. /\ Far[c] = End(ut[l]) /\ Far' = [Far EXCEPT ![c] = End(ut'[l])]
      /\ UpGot' = [UpGot EXCEPT ![c] = toUx'[l]] /\ UpGot[c] = toUx[l]
      /\ DownSent' = [DownSent EXCEPT ![c] = downSent'[l]] /\ DownSent[c] = downSent[l]
  BY <1>1, <1>2, <1>3, <1>t, TouchesOne
<1>5. UNCHANGED <<UpGot, DownSent>>
  BY <1>3, <1>4, Shapes
<1>6. Far[c] = "none" /\ Far' = [Far EXCEPT ![c] = "open"]
  BY <1>1, <1>3, <1>4, <1>t DEF End, AgentTypeOK
<1>7. Near[c] # "none"
  <2>1. sid[c] = acur[e] /\ sid[c] # 0
    BY <1>1, <1>2, WireAssumption DEF IInv, Peers, Sids
  <2>2. hpc[c] # "none"
    BY <1>2, <2>1 DEF IInv, Started
  <2>3. lt[c] # "none"
    BY <1>2, <2>2 DEF IInv, Arrived, BothEnds
  <2> QED BY <1>2, <2>3 DEF Near, End
<1>8. Pipes!OpensFar(c)
  BY <1>5, <1>6, <1>7 DEF Stands, Pipes!OpensFar
<1> QED BY <1>2, <1>8 DEF PipeStep, Pipes!Next

LEMMA PassesThePieceUp ==
    ASSUME IInv, Starts, Order, Counted, OneLink', Mapped, Mapped', Stands,
           NEW e \in Conns, AgentReceivesData(e)
    PROVE  PipeStep
<1> DEFINE f == Head(b2a[e])
           l == <<e, f.sid>>
           c == peer[l]
<1>t. /\ AgentTypeOK /\ BridgeTypeOK
      /\ b2a[e] \in Seq(UpFrame) /\ b2a[e] # <<>>
      /\ f.type = "DATA" /\ f \in Elems(b2a[e])
  BY ElemsTail DEF IInv, TypeOK, WireTypeOK, AgentReceivesData, Takes
<1>1. f.sid \in Sids /\ f.data \in Piece /\ f.sid \in sessions[e] /\ l \in Links
  <2>1. f \in UpFrame
    BY <1>t
  <2> QED BY <1>t, <2>1, UpFields DEF AgentReceivesData, Links
<1>2. c \in Clients /\ sid[c] = f.sid
  BY <1>1, <1>t, WireAssumption DEF IInv, Opened, Alive, AgentTypeOK, Peers
<1>3. /\ toUx' = [toUx EXCEPT ![l] = IF ut[l] = "open" THEN Append(@, f.data) ELSE @]
      /\ UNCHANGED <<peer, ut, downSent>>
  BY DEF AgentReceivesData, uxVars
<1>4. CASE ut[l] # "open"
  <2>1. UNCHANGED toUx
    BY <1>1, <1>3, <1>4, <1>t DEF AgentTypeOK
  <2> QED BY <1>3, <2>1, TouchesNone DEF PipeStep, Stands, KeepsLinks
<1>5. CASE ut[l] = "open"
  <2>1. toUx' = [toUx EXCEPT ![l] = Append(@, f.data)]
    BY <1>3, <1>5
  <2>2. /\ Far[c] = End(ut[l]) /\ Far' = [Far EXCEPT ![c] = End(ut'[l])]
        /\ UpGot' = [UpGot EXCEPT ![c] = toUx'[l]] /\ UpGot[c] = toUx[l]
        /\ DownSent' = [DownSent EXCEPT ![c] = downSent'[l]] /\ DownSent[c] = downSent[l]
    BY <1>1, <1>2, <1>3, <1>t, <2>1, TouchesOne DEF AgentTypeOK
  <2>3. UNCHANGED <<Far, DownSent>> /\ Far[c] = "open"
    BY <1>3, <1>5, <2>2, Shapes DEF End
  <2>4. UpGot' = [UpGot EXCEPT ![c] = Append(toUx[l], f.data)]
    BY <1>1, <1>t, <2>1, <2>2 DEF AgentTypeOK
(* The piece is the next one, of this client, and it was written.          *)
  <2>5. f.data.client = c
    <3>1. f.data.client \in Clients /\ sid[f.data.client] = f.sid
      BY <1>1, <1>t DEF IInv, Truthful, Piece
    <3> QED BY <1>1, <1>2, <3>1 DEF IInv, UniqueIds, Sids
  <2>6. f.data.n = Len(toUx[l]) + 1
    <3>1. UpLive(e, f.sid)
      BY <1>1, <1>5 DEF UpLive
    <3>2. Follows(b2a[e], f.sid, Len(toUx[l]))
      BY <1>1, <3>1 DEF Order, UpOrder
    <3>3. Len(toUx[l]) \in Nat /\ IsData(f, f.sid)
      BY <1>1, <1>t DEF AgentTypeOK, IsData
    <3>4. \A i \in 1 .. Len(b2a[e]) : IsData(b2a[e][i], f.sid) => b2a[e][i].data.n \in Nat
      <4> SUFFICES ASSUME NEW i \in 1 .. Len(b2a[e]), IsData(b2a[e][i], f.sid)
                   PROVE  b2a[e][i].data.n \in Nat
        OBVIOUS
      <4>1. b2a[e][i] \in UpFrame
        BY <1>t
      <4> QED BY <4>1, UpFields DEF IsData, Piece
    <3> QED BY <1>t, <3>2, <3>3, <3>4, FirstFollows
  <2>7. f.data = [client |-> c, n |-> Len(toUx[l]) + 1]
    BY <1>1, <2>5, <2>6 DEF Piece
  <2>8. Len(toUx[l]) < upSent[c]
    <3>1. f.data.n <= upRead[c] /\ upRead[c] <= upSent[c]
      BY <1>2, <1>t, <2>5 DEF Counted
    <3>2. upRead[c] \in Nat /\ upSent[c] \in Nat /\ Len(toUx[l]) \in Nat
      BY <1>1, <1>2, <1>t DEF AgentTypeOK, BridgeTypeOK
    <3> QED BY <2>6, <3>1, <3>2
  <2>9. UpGot' = [UpGot EXCEPT ![c] = Pipes!NextPiece(c, @)] /\ Len(UpGot[c]) < upSent[c]
    BY <2>2, <2>4, <2>7, <2>8 DEF Pipes!NextPiece
  <2>10. Pipes!PassesUp(c)
    BY <2>3, <2>9 DEF Stands, Pipes!PassesUp
  <2> QED BY <1>2, <2>10 DEF PipeStep, Pipes!Next
<1> QED BY <1>4, <1>5

LEMMA WritesThePieceDown ==
    ASSUME IInv, Starts, OneLink', Mapped, Mapped', Stands, NEW l \in Links, UxWrites(l)
    PROVE  PipeStep
<1> DEFINE c == peer[l]
<1>1. /\ ut[l] = "open" /\ downSent' = [downSent EXCEPT ![l] = @ + 1]
      /\ UNCHANGED <<peer, ut, toUx>>
  BY DEF UxWrites, dispatchVars
<1>2. c \in Clients
  BY <1>1, Owned DEF Starts
<1>3. downSent'[l] = downSent[l] + 1 /\ \A k \in Links \ {l} : downSent'[k] = downSent[k]
  BY <1>1 DEF IInv, TypeOK, AgentTypeOK
<1>4. /\ Far[c] = End(ut[l]) /\ Far' = [Far EXCEPT ![c] = End(ut'[l])]
      /\ UpGot' = [UpGot EXCEPT ![c] = toUx'[l]] /\ UpGot[c] = toUx[l]
      /\ DownSent' = [DownSent EXCEPT ![c] = downSent'[l]] /\ DownSent[c] = downSent[l]
  BY <1>1, <1>2, <1>3, TouchesOne
<1>5. UNCHANGED <<Far, UpGot>> /\ Far[c] = "open"
  BY <1>1, <1>4, Shapes DEF End
<1>6. Pipes!WritesDown(c)
  BY <1>3, <1>4, <1>5 DEF Stands, Pipes!WritesDown
<1> QED BY <1>2, <1>6 DEF PipeStep, Pipes!Next

LEMMA AgentStepsThePipes ==
    ASSUME IInv, Starts, Order, Piped, OneLink', Mapped, Mapped', UNCHANGED bridgeVars,
           AgentStep \/ \E l \in Links : Usbmuxd(l)
    PROVE  PipeStep
<1> USE DEF Piped
<1>s. Stands /\ Untouched
  BY AgentStands DEF Starts
<1>k. ASSUME UNCHANGED <<peer, ut, toUx, downSent>>
      PROVE  PipeStep
  BY <1>s, <1>k, TouchesNone DEF PipeStep, Stands, KeepsLinks
<1>1. ASSUME NEW e \in Conns, Dispatch(e)
      PROVE  PipeStep
  <2>1. CASE AgentReceivesConnect(e)
    BY <1>s, <2>1, ConnectStutters
  <2>2. CASE UxOpens(e)
    BY <1>s, <2>2, OpensThePipe
  <2>3. CASE AgentReceivesData(e)
    BY <1>s, <2>3, PassesThePieceUp
  <2>4. CASE RelayJoined(e)
    <3>1. <<e, acur[e]>> \in Links
      BY <2>4 DEF RelayJoined, At, IInv, Working, Links
    <3>2. /\ ut' = [ut EXCEPT ![<<e, acur[e]>>] = ClosedUx(@)]
          /\ UNCHANGED <<peer, toUx, downSent>>
      BY <2>4 DEF RelayJoined, uxVars
    <3> QED BY <1>s, <3>1, <3>2, ClosesOneUx
  <2>5. CASE UxRefuses(e) \/ AgentReceivesStaleData(e) \/ UxDrained(e) \/ UxWriteFails(e)
    BY <1>k, <2>5 DEF UxRefuses, AgentReceivesStaleData, UxDrained, UxWriteFails, uxVars
  <2>6. CASE AgentReceivesClose(e) \/ AgentReceivesHeartbeat(e) \/ ReplyDrained(e) \/ UxClosed(e)
    BY <1>k, <2>6 DEF AgentReceivesClose, AgentReceivesHeartbeat, ReplyDrained, UxClosed, uxVars
  <2>7. CASE AgentEOF(e) \/ CleansUp(e) \/ CleanedUp(e)
    BY <1>k, <2>7 DEF AgentEOF, CleansUp, CleanedUp, uxVars
  <2> QED BY <1>1, <2>1, <2>2, <2>3, <2>4, <2>5, <2>6, <2>7 DEF Dispatch
<1>2. ASSUME NEW l \in Links, Relay(l)
      PROVE  PipeStep
  <2>1. UNCHANGED <<peer, toUx, downSent>>
    BY <1>2 DEF Relay, RelayStarts, RelayReads, RelayEOF, RelayDataDrained, RelayDataFails,
                RelayCancelled, RelayCloseDrained, dispatchVars, uxVars
  <2>2. UNCHANGED ut \/ ut' = [ut EXCEPT ![l] = ClosedUx(@)]
    BY <1>2 DEF Relay, RelayStarts, RelayReads, RelayEOF, RelayDataDrained, RelayDataFails,
                RelayCancelled, RelayCloseDrained, RelayFinally, RelayLeaves
  <2> QED BY <1>k, <1>s, <2>1, <2>2, ClosesOneUx
<1>3. ASSUME NEW l \in Links, UxTransportLost(l)
      PROVE  PipeStep
  <2>1. /\ ut' = [ut EXCEPT ![l] = "lost"] /\ ut[l] # "none"
        /\ UNCHANGED <<peer, toUx, downSent>>
    BY <1>3 DEF UxTransportLost, dispatchVars, uxVars
  <2> QED BY <1>s, <2>1, FarCloses
<1>4. ASSUME NEW l \in Links, Usbmuxd(l)
      PROVE  PipeStep
  <2>1. CASE UxWrites(l)
    BY <1>s, <2>1, WritesThePieceDown
  <2>2. CASE UxReads(l) \/ UxCloses(l)
    BY <1>k, <2>2 DEF UxReads, UxCloses, dispatchVars
  <2> QED BY <1>4, <2>1, <2>2 DEF Usbmuxd
<1> QED BY <1>1, <1>2, <1>3, <1>4 DEF AgentStep

-----------------------------------------------------------------------------
(* The steps of the bridge *)

LEMMA LinksStand ==
    ASSUME OneLink', Mapped, Mapped', UNCHANGED agentVars
    PROVE  UNCHANGED <<Far, UpGot, DownSent>>
BY TouchesNone DEF KeepsLinks, agentVars, dispatchVars, uxVars

LEMMA NearCloses ==
    ASSUME IInv, OneLink', Mapped, Mapped', UNCHANGED agentVars, BridgeStep,
           UNCHANGED toLocal
    PROVE  PipeStep
<1> DEFINE S == {c \in Clients : lt[c] = "open" /\ lt'[c] # "open"}
<1>1. UNCHANGED <<Far, UpGot, DownSent, upSent, toLocal>>
  BY LinksStand, BridgeEnds
<1>2. \A c \in Clients : Near[c] = End(lt[c]) /\ Near'[c] = End(lt'[c])
  BY DEF Near
<1>3. \A c \in Clients :
          lt'[c] = lt[c] \/ (lt[c] \in {"open", "closing"} /\ lt'[c] \in {"closing", "lost"})
  BY BridgeEnds
<1>4. S \in SUBSET {c \in Clients : Near[c] = "open"}
  BY <1>2 DEF End
<1>5. \A c \in Clients : Near'[c] = IF c \in S THEN "closed" ELSE Near[c]
  BY <1>2, <1>3 DEF End
<1>6. Near' = Pipes!ClosedAmong(Near, S)
  BY <1>5, Shapes DEF Pipes!ClosedAmong
<1>7. Pipes!ClosesNear
  BY <1>1, <1>4, <1>6 DEF Pipes!ClosesNear
<1> QED BY <1>7 DEF PipeStep, Pipes!Next

LEMMA PassesThePieceDown ==
    ASSUME IInv, Starts, Order, Counted, OneLink', Mapped, Mapped', UNCHANGED agentVars,
           NEW e \in Conns, BridgeReceivesData(e)
    PROVE  PipeStep
<1> DEFINE f == Head(a2b[e])
           c == localClients[f.sid]
           l == <<e, f.sid>>
<1>t. /\ AgentTypeOK /\ BridgeTypeOK
      /\ a2b[e] \in Seq(DownFrame) /\ a2b[e] # <<>> /\ e = agentWriter
      /\ f.type = "DATA" /\ f \in Elems(a2b[e])
  BY ElemsTail DEF IInv, TypeOK, WireTypeOK, BridgeReceivesData, Receives
<1>1. f.sid \in Sids /\ f.data \in Piece /\ l \in Links
  <2>1. f \in DownFrame
    BY <1>t
  <2> QED BY <1>t, <2>1, DownFields DEF Links
<1>2. UNCHANGED <<Far, UpGot, DownSent, upSent, Near>>
  BY LinksStand DEF BridgeReceivesData, appVars, Near
<1>3. CASE c = NoClient \/ lt[c] # "open"
  <2>1. UNCHANGED toLocal
    BY <1>1, <1>3, <1>t DEF BridgeReceivesData, downVars, BridgeTypeOK
  <2> QED BY <1>2, <2>1 DEF PipeStep
<1>4. CASE c # NoClient /\ lt[c] = "open"
  <2>1. c \in Clients /\ sid[c] = f.sid
    BY <1>1, <1>4, <1>t DEF BridgeTypeOK, IInv, Registered
  <2>2. toLocal' = [toLocal EXCEPT ![c] = Append(@, f.data)]
    BY <1>4 DEF BridgeReceivesData
(* The piece is the next one, of this client, and it was written.          *)
  <2>3. f.data.client = c
    <3>1. f.data.client \in Clients /\ sid[f.data.client] = f.sid
      BY <1>1, <1>t DEF IInv, Truthful, Piece
    <3> QED BY <1>1, <2>1, <3>1 DEF IInv, UniqueIds, Sids
  <2>4. peer[l] = c
    <3>1. peer[l] # NoClient
      BY <1>1, <1>t DEF Starts, Answered, Sent
    <3>2. peer[l] \in Clients /\ sid[peer[l]] = f.sid
      BY <1>1, <1>t, <3>1 DEF AgentTypeOK, IInv, Peers
    <3> QED BY <1>1, <2>1, <3>2 DEF IInv, UniqueIds, Sids
  <2>5. f.data.n = Len(toLocal[c]) + 1
    <3>1. DownLive(e, c)
      BY <1>1, <1>4, <1>t, <2>1, <2>4 DEF DownLive, Home, Sids
    <3>2. Follows(a2b[e], f.sid, Len(toLocal[c]))
      BY <2>1, <3>1 DEF Order, DownOrder
    <3>3. Len(toLocal[c]) \in Nat /\ IsData(f, f.sid)
      BY <1>t, <2>1 DEF BridgeTypeOK, IsData
    <3>4. \A i \in 1 .. Len(a2b[e]) : IsData(a2b[e][i], f.sid) => a2b[e][i].data.n \in Nat
      <4> SUFFICES ASSUME NEW i \in 1 .. Len(a2b[e]), IsData(a2b[e][i], f.sid)
                   PROVE  a2b[e][i].data.n \in Nat
        OBVIOUS
      <4>1. a2b[e][i] \in DownFrame
        BY <1>t
      <4> QED BY <4>1, DownFields DEF IsData, Piece
    <3> QED BY <1>t, <3>2, <3>3, <3>4, FirstFollows
  <2>6. f.data = [client |-> c, n |-> Len(toLocal[c]) + 1]
    BY <1>1, <2>3, <2>5 DEF Piece
  <2>7. Len(toLocal[c]) < DownSent[c]
    <3>1. DownSent[c] = downSent[l]
      BY <1>1, <2>1, <2>4 DEF Mapped
    <3>2. f.data.n <= relayRead[l] /\ relayRead[l] <= downSent[l]
      BY <1>1, <1>t DEF Counted
    <3>3. relayRead[l] \in Nat /\ downSent[l] \in Nat /\ Len(toLocal[c]) \in Nat
      BY <1>1, <1>t, <2>1 DEF AgentTypeOK, BridgeTypeOK
    <3> QED BY <2>5, <3>1, <3>2, <3>3
  <2>8. Near[c] = "open"
    BY <1>4, <2>1 DEF Near, End
  <2>9. toLocal' = [toLocal EXCEPT ![c] = Pipes!NextPiece(c, @)]
    BY <2>2, <2>6 DEF Pipes!NextPiece
  <2>10. Pipes!PassesDown(c)
    BY <1>2, <2>7, <2>8, <2>9 DEF Pipes!PassesDown
  <2> QED BY <2>1, <2>10 DEF PipeStep, Pipes!Next
<1> QED BY <1>3, <1>4

LEMMA BridgeStepsThePipes ==
    ASSUME IInv, Starts, Order, Piped, OneLink', Mapped, Mapped', UNCHANGED agentVars,
           BridgeStep
    PROVE  PipeStep
<1>1. ASSUME NEW e \in Conns, BridgeReceivesData(e)
      PROVE  PipeStep
  BY <1>1, PassesThePieceDown DEF Piped
<1>2. ASSUME NEW c \in Clients, HandlerStarts(c)
      PROVE  PipeStep
  <2>1. UNCHANGED toLocal
    BY <1>2 DEF HandlerStarts, Registers, downVars
  <2> QED BY <2>1, NearCloses
<1>3. CASE BridgeRests
  BY <1>3, NearCloses DEF BridgeRests
<1> QED BY <1>1, <1>2, <1>3, BridgeIsResting

LEMMA AppStepsThePipes ==
    ASSUME IInv, Piped, OneLink', Mapped, Mapped', UNCHANGED agentVars,
           NEW c \in Clients, App(c)
    PROVE  PipeStep
<1>t. lt \in [Clients -> Transport]
  BY DEF IInv, TypeOK, BridgeTypeOK
<1>1. UNCHANGED <<Far, UpGot, DownSent>>
  BY LinksStand
<1>2. CASE AppConnects(c)
  <2>1. lt' = [lt EXCEPT ![c] = "open"] /\ lt[c] = "none" /\ UNCHANGED <<upSent, toLocal>>
    BY <1>2 DEF AppConnects, downVars, Piped, BothEnds
  <2>2. Near[c] = "none" /\ Near'[c] = "open" /\ \A d \in Clients \ {c} : Near'[d] = Near[d]
    BY <1>t, <2>1 DEF Near, End
  <2>3. Near' = [Near EXCEPT ![c] = Near'[c]]
    BY <2>2, Shapes, UpdatedFunction
  <2>4. Pipes!OpensNear(c)
    BY <1>1, <2>1, <2>2, <2>3 DEF Pipes!OpensNear
  <2> QED BY <2>4 DEF PipeStep, Pipes!Next
<1>3. CASE AppWrites(c)
  <2>1. /\ upSent' = [upSent EXCEPT ![c] = @ + 1] /\ lt[c] = "open"
        /\ UNCHANGED <<Near, toLocal>>
    BY <1>3 DEF AppWrites, downVars, Near
  <2>2. Near[c] = "open"
    BY <2>1 DEF Near, End
  <2>3. Pipes!WritesUp(c)
    BY <1>1, <2>1, <2>2 DEF Pipes!WritesUp
  <2> QED BY <2>3 DEF PipeStep, Pipes!Next
<1>4. CASE AppReads(c) \/ AppCloses(c)
  BY <1>1, <1>4 DEF AppReads, AppCloses, appVars, downVars, Near, PipeStep
<1> QED BY <1>2, <1>3, <1>4 DEF App

-----------------------------------------------------------------------------
LEMMA StepsThePipes ==
    ASSUME IInv, Starts, Order, Piped, OneLink', Mapped, Mapped', [Next]_vars
    PROVE  PipeStep
<1>1. CASE \/ Connects
           \/ \E e \in Conns : Watchdog(e) /\ UNCHANGED bridgeVars
           \/ \E e \in Conns : LinkLost(e) /\ UNCHANGED <<bridgeVars, agentVars>>
           \/ UNCHANGED vars
  <2>1. UNCHANGED <<peer, ut, toUx, downSent, lt, upSent, toLocal>>
    BY <1>1, LinkStepStands
  <2>2. UNCHANGED <<Far, UpGot, DownSent>>
    BY <2>1, TouchesNone DEF KeepsLinks
  <2> QED BY <2>1, <2>2 DEF PipeStep, Near
<1>2. CASE BridgeStep /\ UNCHANGED agentVars
  BY <1>2, BridgeStepsThePipes
<1>3. CASE (AgentStep \/ \E l \in Links : Usbmuxd(l)) /\ UNCHANGED bridgeVars
  BY <1>3, AgentStepsThePipes
<1>4. ASSUME NEW c \in Clients, App(c) /\ UNCHANGED agentVars
      PROVE  PipeStep
  BY <1>4, AppStepsThePipes
<1> QED BY <1>1, <1>2, <1>3, <1>4 DEF Next

LEMMA InitThePipes == Init => Pipes!Init
<1> SUFFICES ASSUME Init PROVE Pipes!Init
  OBVIOUS
<1> USE DEF Init, WireInit, BridgeInit, AgentInit
<1>1. \A c \in Clients : ~HasLink(c)
  BY WireAssumption DEF HasLink
<1> QED BY <1>1 DEF Pipes!Init, Near, Far, UpGot, DownSent, OfLink, End

(* Every behaviour of the tunnel, seen from the programs and from usbmuxd, *)
(* is one of BytePipe: whatever _handle_local_client(),                    *)
(* _agent_reader_loop(), the dispatch loop, the relays and the teardowns   *)
(* do, each program has one connection to usbmuxd, which passes on what    *)
(* was written, in order and once, and nothing after it has closed.        *)
THEOREM Refines == Spec => ImplementsPipes
<1>1. Init => (Starts /\ Order) /\ Piped
  BY InitOrder, InitPiped
<1>2. IInv /\ ((Starts /\ Order) /\ Piped) /\ [Next]_vars => ((Starts /\ Order) /\ Piped)'
  BY StepKeepsStarts, StepKeepsOrder, StepKeepsPiped
<1>3. IInv /\ Piped => OneLink
  BY IsOneLink DEF Piped
<1>4. /\ IInv /\ ((Starts /\ Order) /\ Piped)
      /\ OneLink' /\ Mapped /\ Mapped' /\ [Next]_vars
      => [Pipes!Next]_(Pipes!pipeVars)
  BY StepsThePipes DEF PipeStep, Pipes!pipeVars
<1> QED
  BY <1>1, <1>2, <1>3, <1>4, InitThePipes, IsMapped, Invariance, PTL
  DEF Spec, ImplementsPipes, Pipes!Spec
=============================================================================
