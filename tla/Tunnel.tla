------------------------------- MODULE Tunnel -------------------------------
(***************************************************************************)
(* The bridge, the agent and the connections between them: a local program *)
(* on one machine talks to usbmuxd on another as if it were local.  Every  *)
(* step is a step of one task of one side, of the network, of a local      *)
(* program or of usbmuxd.                                                  *)
(***************************************************************************)
EXTENDS Bridge, Agent

CONSTANT SlowClients    \* local programs that may stop reading

ASSUME TunnelAssumption == SlowClients \subseteq Clients

vars == <<wireVars, bridgeVars, agentVars>>

Init == WireInit /\ BridgeInit /\ AgentInit

(* Authentication succeeds on both sides of a new connection. *)
Connects ==
    /\ BridgeConnects
    /\ Accepts(connCount')
    /\ UNCHANGED <<acur, after, sessions, peer, rpc, ut, uxVars, toUx, relayRead>>

(* The steps of the two programs and of their transports. *)
BridgeStep ==
    \/ ReaderLoop \/ Beat \/ BeatDrained \/ BridgeEOF \/ WaitClosedReturns
    \/ \E c \in Clients : Handler(c) \/ LocalTransportLost(c)

AgentStep ==
    \/ \E e \in Conns : Dispatch(e)
    \/ \E l \in Links : Relay(l) \/ UxTransportLost(l)

Next ==
    \/ Connects
    \/ BridgeStep /\ UNCHANGED agentVars
    \/ AgentStep /\ UNCHANGED bridgeVars
    \/ \E e \in Conns : Watchdog(e) /\ UNCHANGED bridgeVars
    \/ \E e \in Conns : LinkLost(e) /\ UNCHANGED <<bridgeVars, agentVars>>
    \/ \E c \in Clients : App(c) /\ UNCHANGED agentVars
    \/ \E l \in Links : Usbmuxd(l) /\ UNCHANGED bridgeVars

Spec == Init /\ [][Next]_vars

(* The event loops run every task that can go on; usbmuxd, and a program   *)
(* that is not slow, go on reading; run() always tries to connect again.   *)
(* The watchdog must fire only while the dispatch loop is held up          *)
(* somewhere else than in read_frame(): then no HEARTBEAT is taken and the *)
(* time passes.                                                            *)
Fairness ==
    /\ WF_vars(Connects)
    /\ WF_vars(ReaderLoop /\ UNCHANGED agentVars)
    /\ WF_vars(BridgeEOF /\ UNCHANGED agentVars)
    /\ WF_vars(WaitClosedReturns /\ UNCHANGED agentVars)
    /\ \A c \in Clients :
          /\ WF_vars(Handler(c) /\ UNCHANGED agentVars)
          /\ WF_vars(LocalTransportLost(c) /\ UNCHANGED agentVars)
          /\ c \notin SlowClients => WF_vars(AppReads(c) /\ UNCHANGED agentVars)
    /\ \A e \in Conns :
          /\ WF_vars(Dispatch(e) /\ UNCHANGED bridgeVars)
          /\ WF_vars(~At(e, "read") /\ Watchdog(e) /\ UNCHANGED bridgeVars)
    /\ \A l \in Links :
          /\ WF_vars(Relay(l) /\ UNCHANGED bridgeVars)
          /\ WF_vars(UxTransportLost(l) /\ UNCHANGED bridgeVars)
          /\ WF_vars(UxReads(l) /\ UNCHANGED bridgeVars)

FairSpec == Spec /\ Fairness

-----------------------------------------------------------------------------
TypeOK == WireTypeOK /\ BridgeTypeOK /\ AgentTypeOK

(* What a client reads was written by usbmuxd on the connection that was   *)
(* opened for this client: no reconnection, stale handler or late frame    *)
(* delivers another session's answer.                                      *)
DownIsolation ==
    \A c \in Clients : \A p \in Elems(toLocal[c]) : p.client = c

(* What usbmuxd reads on a connection was written by the client it was     *)
(* opened for.                                                             *)
UpIsolation ==
    \A l \in Links : \A p \in Elems(toUx[l]) : p.client = peer[l]

(* Nothing is lost from the middle, repeated or reordered: each side gets  *)
(* a prefix of what the other wrote.                                       *)
InOrder ==
    /\ \A c \in Clients : \A i \in 1 .. Len(toLocal[c]) : toLocal[c][i].n = i
    /\ \A l \in Links : \A i \in 1 .. Len(toUx[l]) : toUx[l][i].n = i

Sent(channel, type, s) == \E f \in Elems(channel) : f.type = type /\ f.sid = s

(* A CLOSE on its way to a session the agent serves was sent for that      *)
(* session's own end: its handler has left the loop or lost its writer.    *)
CloseIsEarnedUp ==
    \A c \in Clients : \A e \in Conns :
        (sid[c] \in sessions[e] /\ Sent(b2a[e], "CLOSE", sid[c]))
            => hpc[c] \in {"closeDrain", "done"} \/ localClients[sid[c]] # c

(* A CLOSE on its way to a registered client was sent for the end of its   *)
(* link: the relay is over, or is in its last send.                        *)
CloseIsEarnedDown ==
    \A c \in Clients : \A e \in Conns :
        (sid[c] # 0 /\ localClients[sid[c]] = c /\ agentWriter = e
            /\ Sent(a2b[e], "CLOSE", sid[c]))
            => /\ ~(At(e, "open") /\ acur[e] = sid[c])
               /\ sid[c] \in sessions[e] => rpc[<<e, sid[c]>>] \in {"closeDrain", "done"}

(* When the dispatch loop of a connection is over, nothing of it is left:  *)
(* no relay runs and no transport to usbmuxd is open, whatever order the   *)
(* relays, the cancellations and the loop's cleanup came in.               *)
AgentReleasesAll ==
    \A l \in Links : At(l[1], "done")
        => /\ rpc[l] \in {"none", "done"}
           /\ ut[l] # "open"
           /\ sessions[l[1]] = {}

(* While the bridge is not connected, no local client is left with an open *)
(* transport, except one whose handler has not run at all yet.             *)
BridgeReleasesAll ==
    bpc = "down" => \A c \in Clients : lt[c] = "open" => hpc[c] = "accepted"

(* Nothing is under way on connection e. *)
Quiet(e) ==
    /\ link[e] = "up" /\ bpc = "read" /\ agentWriter = e /\ At(e, "read")
    /\ b2a[e] = <<>> /\ a2b[e] = <<>>
    /\ \A c \in Clients :
          hpc[c] \in {"none", "done"} \/ (hpc[c] = "read" /\ lt[c] = "open")
    /\ \A s \in Sids : rpc[<<e, s>>] \in {"none", "read", "done"} /\ ut[<<e, s>>] # "lost"

(* In a quiet state the two sides agree on the sessions there are: no      *)
(* zombie session at the agent, no client that waits for a dead one.       *)
Agreement ==
    \A e \in Conns : Quiet(e) =>
        sessions[e] = {s \in Sids : localClients[s] # NoClient}

(* Why the isolation holds: the facts the two sides' steps preserve.  An   *)
(* id is given to one client only, ever; the writer under an id, the       *)
(* frames with it and the session opened for it are that client's.         *)
Started ==
    \A c \in Clients :
        IF hpc[c] \in {"none", "accepted"} THEN sid[c] = 0
                                         ELSE sid[c] \in 1 .. (nextId - 1)
Arrived ==
    \A c \in Clients : app[c] = "none" => hpc[c] = "none"
UniqueIds ==
    \A c, d \in Clients : sid[c] = sid[d] /\ sid[c] # 0 => c = d
Registered ==
    \A s \in Sids : localClients[s] # NoClient => sid[localClients[s]] = s
Truthful ==
    \A e \in Conns : \A f \in Elems(b2a[e]) \cup Elems(a2b[e]) :
        f.type \in {"CONNECT", "DATA"} => sid[f.data.client] = f.sid
Peers ==
    \A l \in Links : peer[l] # NoClient => sid[peer[l]] = l[2]
Alive(e, s) ==
    \/ rpc[<<e, s>>] # "none"
    \/ s \in sessions[e]
    \/ At(e, "open") /\ acur[e] = s
Opened ==
    \A e \in Conns : \A s \in Sids : Alive(e, s) => peer[<<e, s>>] # NoClient
Working ==
    \A e \in Conns :
        apc[e] \in {"open", "uxDrain", "closeTask", "closeUx"} => acur[e] \in Sids

IInv ==
    /\ TypeOK
    /\ Started /\ Arrived /\ UniqueIds /\ Registered
    /\ Truthful /\ Peers /\ Opened /\ Working
    /\ DownIsolation /\ UpIsolation

(* The dispatch loop of e waits, itself or through the relay it has        *)
(* cancelled, for the bridge to take frames.                               *)
WaitsForBridge(e) ==
    /\ Full(a2b[e])
    /\ \/ At(e, "replyDrain") \/ At(e, "notifyDrain")
       \/ At(e, "closeTask") /\ rpc[<<e, acur[e]>>] = "closeDrain"

(* The bridge's reader loop waits for the agent to take frames. *)
WaitsForAgent(e) == agentWriter = e /\ bpc = "sendDrain" /\ Full(b2a[e])

-----------------------------------------------------------------------------
(* A program that closes its end has its usbmuxd connection released.      *)
CloseReachesUsbmuxd ==
    \A c \in Clients : \A l \in Links :
        (app[c] = "closed" /\ peer[l] = c /\ ut[l] = "open") ~> ut[l] = "lost"

(* When usbmuxd closes a connection, the program at the other end sees it. *)
CloseReachesClient ==
    \A c \in Clients : \A l \in Links :
        (ux[l] = "closed" /\ peer[l] = c /\ lt[c] = "open") ~> lt[c] = "lost"

(* After any disconnect the bridge tears down, so that run() can reconnect. *)
DisconnectTearsDown ==
    \A e \in Conns : (agentWriter = e /\ link[e] # "up") ~> agentWriter # e

(* Both loops send from inside the loop that reads the other's frames, and *)
(* each may end up in a drain() that only the other could end.  They do    *)
(* not stay there: the watchdog closes the connection.                     *)
CyclicWaitEnds ==
    \A e \in Conns : (WaitsForBridge(e) /\ WaitsForAgent(e)) ~> link[e] # "up"

(* A connection that is lost, or given up by the watchdog, is cleaned up.  *)
DisconnectCleansUp ==
    \A e \in Conns : link[e] \in {"aclosed", "dead"} ~> At(e, "done")

(* A program that reads gets usbmuxd's answer, or is closed, also when     *)
(* another one does not read (PROBLEMS.md:34 wants it so).                 *)
OwnPace ==
    \A c \in Clients \ SlowClients : \A l \in Links :
        (peer[l] = c /\ downSent[l] > 0) ~> (toLocal[c] # <<>> \/ lt[c] # "open")
=============================================================================
