------------------------------ MODULE Dialogue ------------------------------
(***************************************************************************)
(* The connections between a bridge and an agent, from the TCP connection  *)
(* to the last close: the two ends and the one-line handshake.  What the   *)
(* tunnel sends on them after it is the concern of Tunnel.                 *)
(***************************************************************************)
EXTENDS Naturals, FiniteSets

CONSTANTS
    MaxConns,   \* bound on the connections the bridge makes
    MaxCuts     \* bound on connections the network loses

ASSUME DialogueAssumption == MaxConns \in Nat /\ MaxCuts \in Nat

VARIABLES
    bend,       \* bend[e]: the bridge's end of connection e
    aend,       \* aend[e]: the agent's end
    said,       \* said[e]: the line of the handshake that is under way
    cut         \* connections the network has lost

lineVars == <<bend, aend, said, cut>>

Conns == 1 .. MaxConns
Ends == {"none", "open", "closed"}
Lines == {"nothing", "AUTH", "OK", "FAIL"}

LineInit ==
    /\ bend = [e \in Conns |-> "none"]
    /\ aend = [e \in Conns |-> "none"]
    /\ said = [e \in Conns |-> "nothing"]
    /\ cut = {}

Shut(state) == IF state = "open" THEN "closed" ELSE state

(* What a read meets once nothing more can come. *)
BridgeSeesEnd(e) == e \in cut \/ aend[e] = "closed"
AgentSeesEnd(e) == e \in cut \/ bend[e] = "closed"

(* The network loses a connection. *)
LineCut(e) ==
    /\ Cardinality(cut) < MaxCuts
    /\ bend[e] # "none"
    /\ e \notin cut
    /\ cut' = cut \cup {e}
    /\ UNCHANGED <<bend, aend, said>>

LineTypeOK ==
    /\ bend \in [Conns -> Ends]
    /\ aend \in [Conns -> Ends]
    /\ said \in [Conns -> Lines]
    /\ cut \in SUBSET Conns
=============================================================================
