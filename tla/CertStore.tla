----------------------------- MODULE CertStore -----------------------------
(***************************************************************************)
(* The TLS identity of an agent: two files, cert.pem and key.pem, that a   *)
(* start of the agent creates when one of them is missing and then loads.  *)
(* A crash, or launchd, may end the process between any two steps; the     *)
(* files stay.  One agent process at a time uses a directory.              *)
(***************************************************************************)
EXTENDS Naturals

CONSTANTS
    Agents,         \* agents, each on its own address and with its own files
    None,           \* no file, no fingerprint
    MaxResets,      \* bound: how often the operator removes an agent's files
    MaxMade         \* bound: key pairs an agent makes after a reset

ASSUME CertAssumption ==
    /\ MaxResets \in Nat
    /\ MaxMade \in Nat \ {0}

VARIABLES
    apc,            \* where the agent's main() is
    cert, key,      \* the files: the key pair each one belongs to
    fresh,          \* the pair in memory and in the temporary files
    serving,        \* the pair in the SSL context of the running agent
    printed,        \* the fingerprint of the last startup banner
    era,            \* history: resets of the files so far
    made            \* history: pairs made since the last reset

certVars == <<apc, cert, key, fresh, serving, printed, era, made>>

(* A key pair, by whose it is and when it was made: two calls of           *)
(* generate_private_key() never return the same.  A certificate and its    *)
(* fingerprint stand for the pair.                                         *)
Pairs == [agent : Agents, era : 0 .. MaxResets, n : 1 .. MaxMade]

ASSUME NoneAssumption == None \notin Pairs

Idle == {"down", "failed"}

CertInit ==
    /\ apc = [a \in Agents |-> "down"]
    /\ cert = [a \in Agents |-> None]
    /\ key = [a \in Agents |-> None]
    /\ fresh = [a \in Agents |-> None]
    /\ serving = [a \in Agents |-> None]
    /\ printed = [a \in Agents |-> None]
    /\ era = [a \in Agents |-> 0]
    /\ made = [a \in Agents |-> 0]

AgentStarts(a) ==
    /\ apc[a] \in Idle
    /\ apc' = [apc EXCEPT ![a] = "certExists"]
    /\ UNCHANGED <<cert, key, fresh, serving, printed, era, made>>

(* One of the files is missing: a new pair is made and written to          *)
(* temporary files, which nobody else knows.                               *)
Generates(a) ==
    /\ made[a] < MaxMade
    /\ made' = [made EXCEPT ![a] = @ + 1]
    /\ fresh' = [fresh EXCEPT ![a] = [agent |-> a, era |-> era[a], n |-> made[a] + 1]]
    /\ apc' = [apc EXCEPT ![a] = "replaceCert"]
    /\ UNCHANGED <<cert, key, serving, printed, era>>

Finds(a, next) ==
    /\ apc' = [apc EXCEPT ![a] = next]
    /\ UNCHANGED <<cert, key, fresh, serving, printed, era, made>>

(* Mutant of LooksForCert: only the certificate is looked for.             *)
LooksForCertOnly(a) ==
    /\ apc[a] = "certExists"
    /\ \/ cert[a] # None /\ Finds(a, "load")
       \/ cert[a] = None /\ Generates(a)

(* Mutant of LooksForCert: every start makes a new pair.                   *)
LooksForNothing(a) ==
    /\ apc[a] = "certExists"
    /\ Generates(a)

LooksForCert(a) ==
    /\ apc[a] = "certExists"
    /\ \/ cert[a] # None /\ Finds(a, "keyExists")
       \/ cert[a] = None /\ Generates(a)

LooksForKey(a) ==
    /\ apc[a] = "keyExists"
    /\ \/ key[a] # None /\ Finds(a, "load")
       \/ key[a] = None /\ Generates(a)

ReplacesCert(a) ==
    /\ apc[a] = "replaceCert"
    /\ cert' = [cert EXCEPT ![a] = fresh[a]]
    /\ apc' = [apc EXCEPT ![a] = "replaceKey"]
    /\ UNCHANGED <<key, fresh, serving, printed, era, made>>

ReplacesKey(a) ==
    /\ apc[a] = "replaceKey"
    /\ key' = [key EXCEPT ![a] = fresh[a]]
    /\ fresh' = [fresh EXCEPT ![a] = None]
    /\ apc' = [apc EXCEPT ![a] = "load"]
    /\ UNCHANGED <<cert, serving, printed, era, made>>

(* get_fingerprint() reads the certificate, make_server_ssl_context()      *)
(* reads both files and raises when they do not belong together; the       *)
(* banner is printed, and the server listens.  Nothing writes the files    *)
(* between the reads.                                                      *)
Loads(a) ==
    LET matches == cert[a] # None /\ cert[a] = key[a] IN
    /\ apc[a] = "load"
    /\ printed' = [printed EXCEPT ![a] = IF matches THEN cert[a] ELSE @]
    /\ serving' = [serving EXCEPT ![a] = IF matches THEN cert[a] ELSE None]
    /\ apc' = [apc EXCEPT ![a] = IF matches THEN "serving" ELSE "failed"]
    /\ UNCHANGED <<cert, key, fresh, era, made>>

(* The process ends, by a crash or a stop, wherever it is.                 *)
AgentEnds(a) ==
    /\ apc[a] \notin Idle
    /\ apc' = [apc EXCEPT ![a] = "down"]
    /\ fresh' = [fresh EXCEPT ![a] = None]
    /\ serving' = [serving EXCEPT ![a] = None]
    /\ UNCHANGED <<cert, key, printed, era, made>>

(* The operator removes the directory of an agent that does not run, to    *)
(* give it a new identity.                                                 *)
OperatorResets(a) ==
    /\ apc[a] \in Idle
    /\ era[a] < MaxResets
    /\ cert' = [cert EXCEPT ![a] = None]
    /\ key' = [key EXCEPT ![a] = None]
    /\ era' = [era EXCEPT ![a] = @ + 1]
    /\ made' = [made EXCEPT ![a] = 0]
    /\ UNCHANGED <<apc, fresh, serving, printed>>

AgentMain(a) ==
    \/ AgentStarts(a) \/ LooksForCert(a) \/ LooksForKey(a)
    \/ ReplacesCert(a) \/ ReplacesKey(a) \/ Loads(a)

CertTypeOK ==
    /\ apc \in [Agents -> Idle \cup {"certExists", "keyExists", "replaceCert",
                                     "replaceKey", "load", "serving"}]
    /\ cert \in [Agents -> Pairs \cup {None}]
    /\ key \in [Agents -> Pairs \cup {None}]
    /\ fresh \in [Agents -> Pairs \cup {None}]
    /\ serving \in [Agents -> Pairs \cup {None}]
    /\ printed \in [Agents -> Pairs \cup {None}]
    /\ era \in [Agents -> 0 .. MaxResets]
    /\ made \in [Agents -> 0 .. MaxMade]

(* No crash leaves files with which a later start fails: whatever was      *)
(* replaced before it, the next start makes a new pair or finds two files  *)
(* that belong together.                                                   *)
StartsClean == \A a \in Agents : apc[a] # "failed"
=============================================================================
