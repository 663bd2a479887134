------------------------------- MODULE Trust -------------------------------
(***************************************************************************)
(* Agents with the identities of their files, bridges with the pins of     *)
(* their users, and an operator who copies fingerprints from the banner,   *)
(* removes an agent's files or a user's known_hosts.                       *)
(***************************************************************************)
EXTENDS KnownHosts

vars == <<certVars, pinVars>>

Init == CertInit /\ PinInit

AgentStep == \E a \in Agents : AgentMain(a) \/ AgentEnds(a) \/ OperatorResets(a)

BridgeStep ==
    \/ \E b \in Bridges :
          \/ BridgeStarts(b) \/ Handshake(b) \/ Verifies(b) \/ SendsToken(b)
          \/ ConnectionEnds(b) \/ BridgeEnds(b)
    \/ \E h \in Homes : OperatorForgets(h)

Next ==
    \/ AgentStep /\ UNCHANGED pinVars
    \/ BridgeStep /\ UNCHANGED certVars

Spec == Init /\ [][Next]_vars

-----------------------------------------------------------------------------
VarTypes == CertTypeOK /\ PinTypeOK

(* The variables have their types, and an entry of known_hosts is the      *)
(* fingerprint of the agent it is entered for.                             *)
TypeOK ==
    /\ VarTypes
    /\ \A h \in Homes : \A a \in Agents : Pin(h, a) # None => Pin(h, a).agent = a

(* An agent is refused as changed only when the operator has changed it:   *)
(* restarts and crashes of agents and bridges, in whatever step, and lost  *)
(* or repeated pins never make a bridge refuse its own agent.              *)
NoFalseMismatch ==
    \A b \in Bridges : bpc[b] = "mismatch" => known[b].era # seen[b].era
=============================================================================
