-------------------------------- MODULE Wire --------------------------------
(***************************************************************************)
(* What the bridge and the agent share: the frames of                      *)
(* networkusb/protocol.py and the TLS connections that carry them.  Every  *)
(* reconnection is a new element of Conns with two FIFO channels of its    *)
(* own; a connection is never reused.                                      *)
(*                                                                         *)
(* A channel stands for everything between the sender's write() and the    *)
(* receiver's read_frame(): the transport's buffer, the kernel's buffers   *)
(* and the StreamReader.  The sender's drain() waits while more than       *)
(* HighWater frames are in it.                                             *)
(***************************************************************************)
EXTENDS Naturals, Sequences

CONSTANTS
    Clients,        \* local programs that connect to the bridge's UNIX socket
    NoClient,       \* "no writer under this id"
    MaxConns,       \* bound on the connections the bridge makes to the agent
    MaxSessions,    \* bound on the session ids the bridge issues
    HighWater,      \* what every transport takes before drain() waits
    MaxFaults       \* bound on lost connections and missing heartbeats

ASSUME WireAssumption ==
    /\ NoClient \notin Clients
    /\ MaxConns \in Nat
    /\ MaxSessions \in Nat
    /\ HighWater \in Nat
    /\ MaxFaults \in Nat

VARIABLES
    link,   \* link[e]: state of connection e
    b2a,    \* b2a[e]: frames from the bridge to the agent
    a2b,    \* a2b[e]: frames from the agent to the bridge
    faults  \* lost connections and missing heartbeats so far

channels == <<link, b2a, a2b>>
wireVars == <<channels, faults>>

Conns == 1 .. MaxConns
Sids == 1 .. MaxSessions
Links == Conns \X Sids          \* a session as the agent knows it

(* "bclosed", "aclosed": the bridge, the agent has closed its transport;   *)
(* "dead": both have, or the network lost the connection.                  *)
LinkState == {"none", "up", "bclosed", "aclosed", "dead"}

(* The n-th piece a client writes, or the n-th piece usbmuxd writes on the *)
(* connection that was opened for a client.  Whose piece it is travels     *)
(* with it for the properties' sake: the code sees bytes.  CONNECT carries *)
(* its client for the same reason.                                         *)
Piece == [client : Clients, n : Nat]
Empty == <<>>

(* The frames each side sends.  read_frame() yields the fields that         *)
(* build_frame() was given; HEARTBEAT is sent with id 0.                   *)
Control(type, s) == [type |-> type, sid |-> s, data |-> Empty]
Connect(s, c) == [type |-> "CONNECT", sid |-> s, data |-> [client |-> c, n |-> 0]]
Data(s, c, i) == [type |-> "DATA", sid |-> s, data |-> [client |-> c, n |-> i]]

ControlFrame ==
    [type : {"CLOSE"}, sid : Sids, data : {Empty}]
        \cup [type : {"HEARTBEAT"}, sid : {0}, data : {Empty}]
UpFrame == ControlFrame \cup [type : {"CONNECT", "DATA"}, sid : Sids, data : Piece]
DownFrame == ControlFrame \cup [type : {"DATA"}, sid : Sids, data : Piece]

Elems(s) == {s[i] : i \in 1 .. Len(s)}

(* The transport has paused its writer. *)
Full(channel) == Len(channel) > HighWater

(* The peer has closed its end, or the connection is lost. *)
ClosedBy(side, e) == link[e] \in {"dead", side}

(* Closing one's own end of a connection. *)
Closed(state, side) ==
    CASE state = "up" -> side
      [] state \in {"aclosed", "bclosed"} /\ state # side -> "dead"
      [] OTHER -> state

WireInit ==
    /\ link = [e \in Conns |-> "none"]
    /\ b2a = [e \in Conns |-> <<>>]
    /\ a2b = [e \in Conns |-> <<>>]
    /\ faults = 0

Fault == faults < MaxFaults /\ faults' = faults + 1

(* The network loses a connection: a reset, a sleep, a roaming host.  What *)
(* the receiver has not read yet may still be read or be lost with it.     *)
LinkLost(e) ==
    /\ Fault
    /\ link[e] \in {"up", "aclosed", "bclosed"}
    /\ link' = [link EXCEPT ![e] = "dead"]
    /\ UNCHANGED <<b2a, a2b>>

WireTypeOK ==
    /\ link \in [Conns -> LinkState]
    /\ b2a \in [Conns -> Seq(UpFrame)]
    /\ a2b \in [Conns -> Seq(DownFrame)]
    /\ faults \in Nat
=============================================================================
