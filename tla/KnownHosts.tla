---------------------------- MODULE KnownHosts ----------------------------
(***************************************************************************)
(* Certificate pinning: before it sends its token a bridge compares the    *)
(* agent's certificate with --expected-fingerprint, or with the entry of   *)
(* known_hosts, or enters it there.  known_hosts belongs to a user: all    *)
(* bridges of a home share it, without a lock, and each step below is one  *)
(* look at the file or one replacement of it.                              *)
(***************************************************************************)
EXTENDS CertStore

CONSTANTS
    Bridges,        \* bridge processes
    Homes,          \* home directories
    Home            \* whose known_hosts a bridge uses

ASSUME HomeAssumption == Home \in [Bridges -> Homes]

VARIABLES
    knownHosts,     \* per home: None, or the fingerprint entered per agent
    bpc,            \* where the bridge is
    target,         \* the agent a bridge connects to
    expected,       \* --expected-fingerprint
    seen,           \* the certificate the agent presented
    known,          \* what `seen' was compared with
    lines           \* the entries save_known_fingerprint() keeps

pinVars == <<knownHosts, bpc, target, expected, seen, known, lines>>

NoEntries == [a \in Agents |-> None]

Pin(h, a) == IF knownHosts[h] = None THEN None ELSE knownHosts[h][a]

File(b) == knownHosts[Home[b]]

PinInit ==
    /\ knownHosts = [h \in Homes |-> None]
    /\ bpc = [b \in Bridges |-> "down"]
    /\ target \in [Bridges -> Agents]
    /\ expected = [b \in Bridges |-> None]
    /\ seen = [b \in Bridges |-> None]
    /\ known = [b \in Bridges |-> None]
    /\ lines = [b \in Bridges |-> NoEntries]

(* The operator starts a bridge, with the fingerprint of the agent's last  *)
(* banner as --expected-fingerprint, or without one.                       *)
BridgeStarts(b) ==
    /\ bpc[b] = "down"
    /\ bpc' = [bpc EXCEPT ![b] = "idle"]
    /\ \E a \in Agents : \E f \in {None, printed[a]} :
          /\ target' = [target EXCEPT ![b] = a]
          /\ expected' = [expected EXCEPT ![b] = f]
    /\ UNCHANGED <<knownHosts, seen, known, lines>>

Goes(b, next) ==
    /\ bpc' = [bpc EXCEPT ![b] = next]
    /\ UNCHANGED <<knownHosts, target, expected, seen, known, lines>>

(* The locals of one connection are gone, and run() tries again.           *)
Disconnects(b, next) ==
    /\ bpc' = [bpc EXCEPT ![b] = next]
    /\ seen' = [seen EXCEPT ![b] = None]
    /\ known' = [known EXCEPT ![b] = None]
    /\ lines' = [lines EXCEPT ![b] = NoEntries]
    /\ UNCHANGED <<knownHosts, target, expected>>

(* Mutant of Verdict: a mismatch is only logged.                           *)
VerdictIgnored(fingerprint, f) == "verified"

Verdict(fingerprint, f) == IF fingerprint = f THEN "verified" ELSE "mismatch"

(* The handshake is over and the agent has presented its certificate.      *)
Handshake(b) ==
    /\ bpc[b] = "idle"
    /\ serving[target[b]] # None
    /\ seen' = [seen EXCEPT ![b] = serving[target[b]]]
    /\ known' = [known EXCEPT ![b] = expected[b]]
    /\ \/ /\ expected[b] # None
          /\ bpc' = [bpc EXCEPT ![b] = Verdict(expected[b], serving[target[b]])]
       \/ /\ expected[b] = None
          /\ bpc' = [bpc EXCEPT ![b] = "loadExists"]
    /\ UNCHANGED <<knownHosts, target, expected, lines>>

(* load_known_fingerprint(): exists(), then read_text().                   *)
LoadLooks(b) ==
    /\ bpc[b] = "loadExists"
    /\ \/ File(b) = None /\ Goes(b, "saveExists")
       \/ File(b) # None /\ Goes(b, "loadRead")

LoadReads(b) ==
    /\ bpc[b] = "loadRead"
    /\ File(b) # None
    /\ LET entry == Pin(Home[b], target[b])
       IN /\ known' = [known EXCEPT ![b] = entry]
          /\ bpc' = [bpc EXCEPT ![b] = IF entry = None THEN "saveExists"
                                       ELSE Verdict(entry, seen[b])]
    /\ UNCHANGED <<knownHosts, target, expected, seen, lines>>

(* save_known_fingerprint(): exists(), read_text(), replace().             *)
SaveLooks(b) ==
    /\ bpc[b] = "saveExists"
    /\ \/ File(b) = None /\ Goes(b, "saveReplace")
       \/ File(b) # None /\ Goes(b, "saveRead")

(* Mutant of SaveReads: the other entries are not kept.                    *)
SaveReadsNothing(b) ==
    /\ bpc[b] = "saveRead"
    /\ File(b) # None
    /\ Goes(b, "saveReplace")

SaveReads(b) ==
    /\ bpc[b] = "saveRead"
    /\ File(b) # None
    /\ lines' = [lines EXCEPT ![b] = [File(b) EXCEPT ![target[b]] = None]]
    /\ bpc' = [bpc EXCEPT ![b] = "saveReplace"]
    /\ UNCHANGED <<knownHosts, target, expected, seen, known>>

(* The file has been removed since exists(): read_text() raises.           *)
FileVanished(b) ==
    /\ bpc[b] \in {"loadRead", "saveRead"}
    /\ File(b) = None
    /\ Disconnects(b, "idle")

(* Mutant of SaveReplaces: the fingerprint is saved without its address.   *)
SaveReplacesAll(b) ==
    /\ bpc[b] = "saveReplace"
    /\ knownHosts' = [knownHosts EXCEPT ![Home[b]] = [a \in Agents |-> seen[b]]]
    /\ bpc' = [bpc EXCEPT ![b] = "verified"]
    /\ lines' = [lines EXCEPT ![b] = NoEntries]
    /\ UNCHANGED <<target, expected, seen, known>>

SaveReplaces(b) ==
    /\ bpc[b] = "saveReplace"
    /\ knownHosts' = [knownHosts EXCEPT ![Home[b]] = [lines[b] EXCEPT ![target[b]] = seen[b]]]
    /\ bpc' = [bpc EXCEPT ![b] = "verified"]
    /\ lines' = [lines EXCEPT ![b] = NoEntries]
    /\ UNCHANGED <<target, expected, seen, known>>

SendsToken(b) ==
    /\ bpc[b] = "verified"
    /\ Goes(b, "tokenSent")

(* The mismatch is raised, the agent rejects the token, or the connection  *)
(* ends, possibly long after the agent has.                                *)
ConnectionEnds(b) ==
    /\ bpc[b] \in {"mismatch", "verified", "tokenSent"}
    /\ Disconnects(b, "idle")

BridgeEnds(b) ==
    /\ bpc[b] # "down"
    /\ Disconnects(b, "down")

(* The operator removes known_hosts, as the mismatch message proposes.     *)
OperatorForgets(h) ==
    /\ knownHosts[h] # None
    /\ knownHosts' = [knownHosts EXCEPT ![h] = None]
    /\ UNCHANGED <<bpc, target, expected, seen, known, lines>>

Verifies(b) ==
    \/ LoadLooks(b) \/ LoadReads(b) \/ SaveLooks(b) \/ SaveReads(b)
    \/ FileVanished(b) \/ SaveReplaces(b)

PinTypeOK ==
    LET Known == Pairs \cup {None} IN
    /\ knownHosts \in [Homes -> [Agents -> Known] \cup {None}]
    /\ bpc \in [Bridges -> {"down", "idle", "loadExists", "loadRead", "saveExists", "saveRead",
                            "saveReplace", "verified", "mismatch", "tokenSent"}]
    /\ target \in [Bridges -> Agents]
    /\ expected \in [Bridges -> Known]
    /\ seen \in [Bridges -> Known]
    /\ known \in [Bridges -> Known]
    /\ lines \in [Bridges -> [Agents -> Known]]

(* Before a token is sent, and while it is valid, known_hosts has no other *)
(* entry for this agent than the certificate it was sent to.               *)
TokenGoesToPinned ==
    \A b \in Bridges :
        (bpc[b] \in {"verified", "tokenSent"} /\ expected[b] = None)
            => Pin(Home[b], target[b]) \in {seen[b], None}

(* An entry of known_hosts stays as it is until the operator removes the   *)
(* file: no bridge forgets or changes what another connection has pinned.  *)
PinKept ==
    [][\A h \in Homes : \A a \in Agents :
          Pin(h, a) # None => Pin(h, a)' = Pin(h, a) \/ knownHosts'[h] = None]_pinVars
=============================================================================
