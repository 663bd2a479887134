-------------------------------- MODULE Agent --------------------------------
(***************************************************************************)
(* AgentServer (networkusb/agent/server.py) after authentication: for each *)
(* bridge connection e the dispatch loop of _handle_bridge_inner(), its    *)
(* map of sessions, one relay task per session, the heartbeat watchdog and *)
(* the cleanup in the finally block.  A session of connection e is the     *)
(* link <<e, s>>; usbmuxd is the peer at the other end of it.              *)
(***************************************************************************)
EXTENDS Wire, FiniteSets

CONSTANTS
    MaxDown,        \* bound on the pieces usbmuxd writes, in all
    WatchdogRuns    \* whether the watchdog may time out at all

ASSUME AgentAssumption == MaxDown \in Nat /\ WatchdogRuns \in BOOLEAN

VARIABLES
    apc,            \* apc[e]: where the dispatch loop of e is
    acur,           \* acur[e]: the session id it works on
    after,          \* after[e]: where close_session() returns to
    sessions,       \* sessions[e]: the ids in the map of e
    peer,           \* history: the client a link was opened for
    rpc,            \* rpc[l]: where the relay task of l is
    ut,             \* ut[l]: the agent's transport to usbmuxd
    ux,             \* ux[l]: usbmuxd's own end of it
    toUx,           \* toUx[l]: pieces the agent has written to usbmuxd
    uxRead,         \* how many of them usbmuxd has read
    downSent,       \* pieces usbmuxd has written on l
    relayRead       \* how many of them the relay has read

dispatchVars == <<apc, acur, after, sessions, peer>>
uxVars == <<ux, uxRead, downSent>>
agentVars == <<dispatchVars, rpc, ut, uxVars, toUx, relayRead>>

AgentPc == {"none", "read", "open", "uxDrain", "replyDrain", "notifyDrain",
            "closeTask", "closeUx", "cleanup", "done"}
RelayPc == {"none", "created", "read", "dataDrain", "cancelled", "closeDrain", "done"}
UxTransport == {"none", "open", "closing", "lost"}

AgentInit ==
    /\ apc = [e \in Conns |-> "none"]
    /\ acur = [e \in Conns |-> 0]
    /\ after = [e \in Conns |-> "read"]
    /\ sessions = [e \in Conns |-> {}]
    /\ peer = [l \in Links |-> NoClient]
    /\ rpc = [l \in Links |-> "none"]
    /\ ut = [l \in Links |-> "none"]
    /\ ux = [l \in Links |-> "none"]
    /\ toUx = [l \in Links |-> <<>>]
    /\ uxRead = [l \in Links |-> 0]
    /\ downSent = [l \in Links |-> 0]
    /\ relayRead = [l \in Links |-> 0]

-----------------------------------------------------------------------------
(* send_frame(): one append; a closed connection drops the frame, and then *)
(* drain() raises or, on a transport that is only closing, returns.        *)
AgentSends(e, frame) ==
    /\ link[e] = "up"
    /\ a2b' = [a2b EXCEPT ![e] = Append(@, frame)]
AgentSendLost(e) == link[e] # "up" /\ a2b' = a2b

(* drain() of connection e *)
AgentDrainReturns(e) == ~Full(a2b[e]) \/ link[e] # "up"
AgentDrainRaises(e) == link[e] # "up"

At(e, label) == apc[e] = label
Goes(e, label) == apc' = [apc EXCEPT ![e] = label]

(* The loop is done with the session it worked on. *)
Idle(e) == acur' = [acur EXCEPT ![e] = 0]

(* The dispatch loop sends a frame and goes back to read_frame().  A raise *)
(* of the send leaves the loop for the cleanup, unless the code ignores it *)
(* (drain is then "notifyDrain").                                          *)
Replies(e, frame, drain) ==
    \/ /\ AgentSends(e, frame)
       /\ Goes(e, IF Full(a2b'[e]) THEN drain ELSE "read")
    \/ AgentSendLost(e) /\ Goes(e, "read")
    \/ AgentSendLost(e) /\ drain = "replyDrain" /\ Goes(e, "cleanup")

(* UsbmuxdSession.close(), up to its first await: the session is out of    *)
(* the map and the relay cancelled.  A relay that has not run yet ends at  *)
(* once, without its finally block; one that waits to send its CLOSE is    *)
(* torn out of the finally block, before the pop and the close.            *)
CancelsRelay(l) ==
    rpc' = [rpc EXCEPT ![l] = CASE @ \in {"created", "closeDrain"} -> "done"
                                [] @ \in {"read", "dataDrain"} -> "cancelled"
                                [] OTHER -> @]

(* Mutant of ClosesSession: the relay is not cancelled. *)
ClosesSessionOnly(e, s, return) ==
    /\ sessions' = [sessions EXCEPT ![e] = @ \ {s}]
    /\ acur' = [acur EXCEPT ![e] = s]
    /\ after' = [after EXCEPT ![e] = return]
    /\ Goes(e, "closeUx")
    /\ UNCHANGED rpc

(* close_session(s) for an s in the map; `return` says where it returns.   *)
ClosesSession(e, s, return) ==
    /\ sessions' = [sessions EXCEPT ![e] = @ \ {s}]
    /\ acur' = [acur EXCEPT ![e] = s]
    /\ after' = [after EXCEPT ![e] = return]
    /\ Goes(e, "closeTask")
    /\ CancelsRelay(<<e, s>>)

ClosedUx(state) == IF state = "open" THEN "closing" ELSE state

-----------------------------------------------------------------------------
(* The dispatch loop *)

Takes(e, type) ==
    /\ At(e, "read")
    /\ b2a[e] # <<>>
    /\ Head(b2a[e]).type = type
    /\ b2a' = [b2a EXCEPT ![e] = Tail(@)]

(* Mutant of AgentReceivesConnect: the id is not kept over the await. *)
AgentReceivesConnectOnly(e) ==
    /\ Takes(e, "CONNECT")
    /\ Goes(e, "open")
    /\ UNCHANGED <<faults, link, a2b, acur, after, sessions, peer, rpc, ut, uxVars,
                   toUx, relayRead>>

(* CONNECT: open_unix_connection() is awaited. *)
AgentReceivesConnect(e) ==
    /\ Takes(e, "CONNECT")
    /\ acur' = [acur EXCEPT ![e] = Head(b2a[e]).sid]
    /\ peer' = [peer EXCEPT ![<<e, Head(b2a[e]).sid>>] = Head(b2a[e]).data.client]
    /\ Goes(e, "open")
    /\ UNCHANGED <<faults, link, a2b, after, sessions, rpc, ut, uxVars, toUx, relayRead>>

(* usbmuxd accepted: the session enters the map, its relay is created.     *)
UxOpens(e) ==
    LET s == acur[e]
        l == <<e, s>>
    IN /\ At(e, "open")
       /\ sessions' = [sessions EXCEPT ![e] = @ \cup {s}]
       /\ rpc' = [rpc EXCEPT ![l] = "created"]
       /\ ut' = [ut EXCEPT ![l] = "open"]
       /\ ux' = [ux EXCEPT ![l] = "open"]
       /\ Goes(e, "read")
       /\ Idle(e)
       /\ UNCHANGED <<wireVars, after, peer, toUx, uxRead, downSent, relayRead>>

(* usbmuxd is not there: CLOSE goes back. *)
UxRefuses(e) ==
    /\ At(e, "open")
    /\ Replies(e, Control("CLOSE", acur[e]), "replyDrain")
    /\ Idle(e)
    /\ UNCHANGED <<faults, link, b2a, after, sessions, peer, rpc, ut, uxVars, toUx, relayRead>>

(* DATA of a session that is not in the map (it was never opened, or has   *)
(* ended): CLOSE goes back.                                                *)
AgentReceivesStaleData(e) ==
    /\ Takes(e, "DATA")
    /\ Head(b2a[e]).sid \notin sessions[e]
    /\ Replies(e, Control("CLOSE", Head(b2a[e]).sid), "replyDrain")
    /\ UNCHANGED <<faults, link, acur, after, sessions, peer, rpc, ut, uxVars, toUx, relayRead>>

(* Mutant of AgentReceivesData: a closed transport takes the piece, too. *)
AgentReceivesDataLate(e) ==
    LET frame == Head(b2a[e])
        l == <<e, frame.sid>>
    IN /\ Takes(e, "DATA")
       /\ frame.sid \in sessions[e]
       /\ toUx' = [toUx EXCEPT ![l] = Append(@, frame.data)]
       /\ Goes(e, "read")
       /\ UNCHANGED <<faults, link, a2b, acur, after, sessions, peer, rpc, ut, uxVars,
                      relayRead>>

(* DATA: write to usbmuxd and drain. *)
AgentReceivesData(e) ==
    LET frame == Head(b2a[e])
        l == <<e, frame.sid>>
    IN /\ Takes(e, "DATA")
       /\ frame.sid \in sessions[e]
       /\ toUx' = [toUx EXCEPT ![l] =
                     IF ut[l] = "open" THEN Append(@, frame.data) ELSE @]
       /\ Goes(e, IF ut[l] = "lost" \/ Len(toUx'[l]) - uxRead[l] > HighWater
                  THEN "uxDrain" ELSE "read")
       /\ acur' = [acur EXCEPT ![e] = IF apc'[e] = "read" THEN 0 ELSE frame.sid]
       /\ UNCHANGED <<faults, link, a2b, after, sessions, peer, rpc, ut, uxVars, relayRead>>

UxDrained(e) ==
    LET l == <<e, acur[e]>>
    IN /\ At(e, "uxDrain")
       /\ \/ ut[l] = "lost"
          \/ Len(toUx[l]) - uxRead[l] <= HighWater
       /\ Goes(e, "read")
       /\ Idle(e)
       /\ UNCHANGED <<wireVars, after, sessions, peer, rpc, ut, uxVars, toUx, relayRead>>

(* Mutant of UxWriteFails: CLOSE goes back, but the session stays. *)
UxWriteFailsOnly(e) ==
    /\ At(e, "uxDrain")
    /\ ut[<<e, acur[e]>>] = "lost"
    /\ Replies(e, Control("CLOSE", acur[e]), "notifyDrain")
    /\ Idle(e)
    /\ UNCHANGED <<faults, link, b2a, after, sessions, peer, rpc, ut, uxVars, toUx,
                   relayRead>>

(* The write or its drain raises: close_session(), then CLOSE goes back.   *)
UxWriteFails(e) ==
    LET s == acur[e]
    IN /\ At(e, "uxDrain")
       /\ ut[<<e, s>>] = "lost"
       /\ \/ /\ s \in sessions[e]
             /\ ClosesSession(e, s, "notify")
             /\ UNCHANGED a2b
          \/ /\ s \notin sessions[e]
             /\ Replies(e, Control("CLOSE", s), "notifyDrain")
             /\ Idle(e)
             /\ UNCHANGED <<after, sessions, rpc>>
       /\ UNCHANGED <<faults, link, b2a, peer, ut, uxVars, toUx, relayRead>>

(* CLOSE: close_session(); an unknown id is ignored. *)
AgentReceivesClose(e) ==
    LET s == Head(b2a[e]).sid
    IN /\ Takes(e, "CLOSE")
       /\ \/ s \in sessions[e] /\ ClosesSession(e, s, "read")
          \/ s \notin sessions[e] /\ UNCHANGED <<apc, acur, after, sessions, rpc>>
       /\ UNCHANGED <<faults, link, a2b, peer, ut, uxVars, toUx, relayRead>>

(* HEARTBEAT is echoed. *)
AgentReceivesHeartbeat(e) ==
    /\ Takes(e, "HEARTBEAT")
    /\ Replies(e, Control("HEARTBEAT", 0), "replyDrain")
    /\ UNCHANGED <<faults, link, acur, after, sessions, peer, rpc, ut, uxVars, toUx, relayRead>>

(* The drain after a reply; one of a notification is ignored when it raises. *)
ReplyDrained(e) ==
    /\ \/ At(e, "replyDrain") \/ At(e, "notifyDrain")
    /\ AgentDrainReturns(e)
    /\ \/ Goes(e, "read")
       \/ At(e, "replyDrain") /\ AgentDrainRaises(e) /\ Goes(e, "cleanup")
    /\ UNCHANGED <<wireVars, acur, after, sessions, peer, rpc, ut, uxVars, toUx, relayRead>>

(* Mutant of RelayJoined: the transport is left to the relay's finally. *)
RelayJoinedOnly(e) ==
    /\ At(e, "closeTask")
    /\ rpc[<<e, acur[e]>>] = "done"
    /\ Goes(e, IF after[e] = "cleanup" THEN "cleanup" ELSE "read")
    /\ UNCHANGED <<wireVars, acur, after, sessions, peer, rpc, ut, uxVars, toUx,
                   relayRead>>

(* close_session(): the relay is over, close the transport to usbmuxd ...  *)
RelayJoined(e) ==
    LET l == <<e, acur[e]>>
    IN /\ At(e, "closeTask")
       /\ rpc[l] = "done"
       /\ ut' = [ut EXCEPT ![l] = ClosedUx(@)]
       /\ Goes(e, "closeUx")
       /\ UNCHANGED <<wireVars, acur, after, sessions, peer, rpc, uxVars, toUx, relayRead>>

(* ... and wait until it is closed. *)
UxClosed(e) ==
    /\ At(e, "closeUx")
    /\ ut[<<e, acur[e]>>] = "lost"
    /\ \/ after[e] \in {"read", "cleanup"} /\ Goes(e, after[e]) /\ UNCHANGED a2b
       \/ after[e] = "notify" /\ Replies(e, Control("CLOSE", acur[e]), "notifyDrain")
    /\ Idle(e)
    /\ after' = [after EXCEPT ![e] = "read"]
    /\ UNCHANGED <<faults, link, b2a, sessions, peer, rpc, ut, uxVars, toUx, relayRead>>

(* read_frame() meets the end of the connection, the bridge's end of it or *)
(* the watchdog's.                                                         *)
AgentEOF(e) ==
    /\ At(e, "read")
    /\ \/ link[e] \in {"dead", "aclosed"}
       \/ link[e] = "bclosed" /\ b2a[e] = <<>>
    /\ b2a' = [b2a EXCEPT ![e] = <<>>]
    /\ Goes(e, "cleanup")
    /\ UNCHANGED <<faults, link, a2b, acur, after, sessions, peer, rpc, ut, uxVars, toUx,
                   relayRead>>

(* The finally block: one session after the other, in the map's order.     *)
CleansUp(e) ==
    /\ At(e, "cleanup")
    /\ \E s \in sessions[e] :
          /\ \A t \in sessions[e] : s <= t
          /\ ClosesSession(e, s, "cleanup")
    /\ UNCHANGED <<wireVars, peer, ut, uxVars, toUx, relayRead>>

(* No session is left: the connection is closed. *)
CleanedUp(e) ==
    /\ At(e, "cleanup")
    /\ sessions[e] = {}
    /\ Goes(e, "done")
    /\ link' = [link EXCEPT ![e] = Closed(@, "aclosed")]
    /\ b2a' = [b2a EXCEPT ![e] = <<>>]
    /\ UNCHANGED <<faults, a2b, acur, after, sessions, peer, rpc, ut, uxVars, toUx, relayRead>>

Dispatch(e) ==
    \/ AgentReceivesConnect(e) \/ UxOpens(e) \/ UxRefuses(e)
    \/ AgentReceivesStaleData(e) \/ AgentReceivesData(e)
    \/ UxDrained(e) \/ UxWriteFails(e)
    \/ AgentReceivesClose(e) \/ AgentReceivesHeartbeat(e) \/ ReplyDrained(e)
    \/ RelayJoined(e) \/ UxClosed(e)
    \/ AgentEOF(e) \/ CleansUp(e) \/ CleanedUp(e)

(* The connection is authenticated: the dispatch loop starts. *)
Accepts(e) == At(e, "none") /\ Goes(e, "read")

(* The dispatch loop is inside its try block. *)
Serving(e) ==
    \/ apc[e] \in {"read", "open", "uxDrain", "replyDrain", "notifyDrain"}
    \/ apc[e] \in {"closeTask", "closeUx"} /\ after[e] # "cleanup"

(* Mutant of Watchdog: a timeout of read_frame() alone. *)
WatchdogOfRead(e) ==
    /\ WatchdogRuns
    /\ At(e, "read")
    /\ link[e] \in {"up", "bclosed"}
    /\ Fault
    /\ link' = [link EXCEPT ![e] = Closed(@, "aclosed")]
    /\ UNCHANGED <<b2a, a2b, agentVars>>

(* heartbeat_watchdog(): no HEARTBEAT was taken for more than 90 s.  Time  *)
(* is not modelled: it may fire whenever the loop is held up outside       *)
(* read_frame(); while the loop reads it takes a fault, of the network or  *)
(* of the bridge, for the HEARTBEATs to stay away.                         *)
Watchdog(e) ==
    /\ WatchdogRuns
    /\ Serving(e)
    /\ link[e] \in {"up", "bclosed"}
    /\ IF At(e, "read") THEN Fault ELSE UNCHANGED faults
    /\ link' = [link EXCEPT ![e] = Closed(@, "aclosed")]
    /\ UNCHANGED <<b2a, a2b, agentVars>>

-----------------------------------------------------------------------------
(* relay_usbmuxd_to_bridge() *)

RelayGoes(l, label) == rpc' = [rpc EXCEPT ![l] = label]

RelayStarts(l) ==
    /\ rpc[l] = "created"
    /\ RelayGoes(l, "read")
    /\ UNCHANGED <<wireVars, dispatchVars, ut, uxVars, toUx, relayRead>>

(* The end of the finally block. *)
RelayLeaves(l) ==
    /\ sessions' = [sessions EXCEPT ![l[1]] = @ \ {l[2]}]
    /\ ut' = [ut EXCEPT ![l] = ClosedUx(@)]
    /\ RelayGoes(l, "done")

(* Its beginning: CLOSE to the bridge. *)
RelayFinally(l) ==
    \/ /\ AgentSends(l[1], Control("CLOSE", l[2]))
       /\ IF Full(a2b'[l[1]])
          THEN RelayGoes(l, "closeDrain") /\ UNCHANGED <<sessions, ut>>
          ELSE RelayLeaves(l)
    \/ AgentSendLost(l[1]) /\ RelayLeaves(l)

(* Data from usbmuxd becomes a DATA frame. *)
RelayReads(l) ==
    /\ rpc[l] = "read"
    /\ relayRead[l] < downSent[l]
    /\ relayRead' = [relayRead EXCEPT ![l] = @ + 1]
    /\ \/ /\ AgentSends(l[1], Data(l[2], peer[l], relayRead[l] + 1))
          /\ RelayGoes(l, IF Full(a2b'[l[1]]) THEN "dataDrain" ELSE "read")
          /\ UNCHANGED <<sessions, ut>>
       \/ AgentSendLost(l[1]) /\ RelayLeaves(l)
       \/ AgentSendLost(l[1]) /\ UNCHANGED <<rpc, sessions, ut>>
    /\ UNCHANGED <<faults, link, b2a, apc, acur, after, peer, uxVars, toUx>>

(* usbmuxd closed its end and all it wrote was read, or the transport is   *)
(* lost.                                                                   *)
RelayEOF(l) ==
    /\ rpc[l] = "read"
    /\ \/ ux[l] = "closed" /\ relayRead[l] = downSent[l]
       \/ ut[l] = "lost"
    /\ RelayFinally(l)
    /\ UNCHANGED <<faults, link, b2a, apc, acur, after, peer, uxVars, toUx, relayRead>>

RelayDataDrained(l) ==
    /\ rpc[l] = "dataDrain"
    /\ AgentDrainReturns(l[1])
    /\ RelayGoes(l, "read")
    /\ UNCHANGED <<wireVars, dispatchVars, ut, uxVars, toUx, relayRead>>

RelayDataFails(l) ==
    /\ rpc[l] = "dataDrain"
    /\ AgentDrainRaises(l[1])
    /\ RelayFinally(l)
    /\ UNCHANGED <<faults, link, b2a, apc, acur, after, peer, uxVars, toUx, relayRead>>

(* Cancelled by close_session() while it read or sent: the finally block.  *)
RelayCancelled(l) ==
    /\ rpc[l] = "cancelled"
    /\ RelayFinally(l)
    /\ UNCHANGED <<faults, link, b2a, apc, acur, after, peer, uxVars, toUx, relayRead>>

RelayCloseDrained(l) ==
    /\ rpc[l] = "closeDrain"
    /\ AgentDrainReturns(l[1])
    /\ RelayLeaves(l)
    /\ UNCHANGED <<wireVars, apc, acur, after, peer, uxVars, toUx, relayRead>>

Relay(l) ==
    \/ RelayStarts(l) \/ RelayReads(l) \/ RelayEOF(l)
    \/ RelayDataDrained(l) \/ RelayDataFails(l)
    \/ RelayCancelled(l) \/ RelayCloseDrained(l)

-----------------------------------------------------------------------------
(* The transports to usbmuxd, and usbmuxd.  What usbmuxd does with an end  *)
(* whose other end is lost concerns nobody else and is left out.           *)

UxTransportLost(l) ==
    /\ \/ ut[l] = "closing" /\ Len(toUx[l]) - uxRead[l] <= HighWater
       \/ ut[l] = "closing" /\ ux[l] = "closed"
       \/ ut[l] = "open" /\ ux[l] = "closed" /\ uxRead[l] < Len(toUx[l])
    /\ ut' = [ut EXCEPT ![l] = "lost"]
    /\ UNCHANGED <<wireVars, dispatchVars, rpc, uxVars, toUx, relayRead>>

AllDownSent == {p \in Links \X (1 .. MaxDown) : p[2] <= downSent[p[1]]}

UxWrites(l) ==
    /\ ux[l] = "open"
    /\ ut[l] = "open"
    /\ Cardinality(AllDownSent) < MaxDown
    /\ downSent' = [downSent EXCEPT ![l] = @ + 1]
    /\ UNCHANGED <<wireVars, dispatchVars, rpc, ut, ux, uxRead, toUx, relayRead>>

UxReads(l) ==
    /\ ux[l] = "open"
    /\ ut[l] # "lost"
    /\ uxRead[l] < Len(toUx[l])
    /\ uxRead' = [uxRead EXCEPT ![l] = @ + 1]
    /\ UNCHANGED <<wireVars, dispatchVars, rpc, ut, ux, downSent, toUx, relayRead>>

UxCloses(l) ==
    /\ ux[l] = "open"
    /\ ut[l] # "lost"
    /\ ux' = [ux EXCEPT ![l] = "closed"]
    /\ UNCHANGED <<wireVars, dispatchVars, rpc, ut, uxRead, downSent, toUx, relayRead>>

Usbmuxd(l) == UxWrites(l) \/ UxReads(l) \/ UxCloses(l)

-----------------------------------------------------------------------------
AgentTypeOK ==
    /\ apc \in [Conns -> AgentPc]
    /\ acur \in [Conns -> Sids \cup {0}]
    /\ after \in [Conns -> {"read", "notify", "cleanup"}]
    /\ sessions \in [Conns -> SUBSET Sids]
    /\ peer \in [Links -> Clients \cup {NoClient}]
    /\ rpc \in [Links -> RelayPc]
    /\ ut \in [Links -> UxTransport]
    /\ ux \in [Links -> {"none", "open", "closed"}]
    /\ toUx \in [Links -> Seq(Piece)]
    /\ uxRead \in [Links -> Nat]
    /\ downSent \in [Links -> Nat]
    /\ relayRead \in [Links -> Nat]
=============================================================================
