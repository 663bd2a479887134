---------------------------- MODULE TrustProofs ----------------------------
(***************************************************************************)
(* For any number of agents, bridges, users and restarts: an agent starts  *)
(* again after any crash, and a bridge never takes it for another one      *)
(* unless the operator has changed it.  For users with one bridge each:    *)
(* tokens go to pinned agents and pins are kept.                           *)
(***************************************************************************)
EXTENDS Trust, TLAPS

(* The certificate is replaced first, so the key is the last file of a     *)
(* pair to appear, and it never appears next to a foreign certificate.     *)
Files(a) ==
    /\ key[a] # None => cert[a] = key[a]
    /\ cert[a] # None => cert[a].era = era[a]
    /\ apc[a] \in {"replaceCert", "replaceKey"} =>
          /\ fresh[a] # None /\ fresh[a].agent = a /\ fresh[a].era = era[a]
          /\ key[a] = None
    /\ apc[a] = "replaceKey" => cert[a] = fresh[a]
    /\ apc[a] = "load" => key[a] # None
    /\ apc[a] # "failed"

(* f is somebody's idea of who a is.                                       *)
Fact(a, f) ==
    \/ f \in {key[a], printed[a], serving[a]}
    \/ \E b \in Bridges : target[b] = a /\ f \in {expected[b], seen[b], known[b]}
    \/ \E b \in Bridges : f = lines[b][a]
    \/ \E h \in Homes : f = Pin(h, a)

(* Every idea of a is a pair of a's, of each era of a there is one at      *)
(* most, and of the present era it is the pair in the files.               *)
OneIdentity(a) ==
    /\ \A f, g : (Fact(a, f) /\ Fact(a, g) /\ f # None /\ g # None /\ f.era = g.era) => f = g
    /\ \A f : (Fact(a, f) /\ f # None) => f.agent = a /\ (f.era < era[a] \/ f = key[a])

Compared(b) ==
    /\ bpc[b] = "down" => seen[b] = None /\ known[b] = None
    /\ bpc[b] \in {"loadExists", "loadRead"} => seen[b] # None
    /\ bpc[b] = "mismatch" => known[b] # None /\ seen[b] # None /\ known[b] # seen[b]

IInv ==
    /\ VarTypes
    /\ \A a \in Agents : Files(a) /\ OneIdentity(a)
    /\ \A b \in Bridges : Compared(b)

-----------------------------------------------------------------------------
(* The variables keep their types. *)
LEMMA CertTypes == CertTypeOK /\ AgentStep => CertTypeOK'
<1> SUFFICES ASSUME CertTypeOK, NEW a \in Agents, AgentMain(a) \/ AgentEnds(a) \/ OperatorResets(a)
             PROVE  CertTypeOK'
  BY DEF AgentStep
<1> USE CertAssumption DEF CertTypeOK, Idle
<1>1. CASE AgentStarts(a)
  BY <1>1 DEF AgentStarts
<1>2. ASSUME Generates(a) PROVE CertTypeOK'
  <2>1. [agent |-> a, era |-> era[a], n |-> made[a] + 1] \in Pairs
    BY <1>2 DEF Generates, Pairs
  <2> QED
    BY <1>2, <2>1 DEF Generates
<1>3. CASE LooksForCert(a)
  BY <1>2, <1>3 DEF LooksForCert, Finds
<1>4. CASE LooksForKey(a)
  BY <1>2, <1>4 DEF LooksForKey, Finds
<1>5. CASE ReplacesCert(a)
  BY <1>5 DEF ReplacesCert
<1>6. CASE ReplacesKey(a)
  BY <1>6 DEF ReplacesKey
<1>7. CASE Loads(a)
  BY <1>7 DEF Loads
<1>8. CASE AgentEnds(a)
  BY <1>8 DEF AgentEnds
<1>9. CASE OperatorResets(a)
  BY <1>9 DEF OperatorResets
<1> QED
  BY <1>1, <1>3, <1>4, <1>5, <1>6, <1>7, <1>8, <1>9 DEF AgentMain

LEMMA EntryType ==
    ASSUME PinTypeOK, NEW h \in Homes, NEW a \in Agents
    PROVE  Pin(h, a) \in Pairs \cup {None}
  BY DEF PinTypeOK, Pin

LEMMA PinTypes == VarTypes /\ BridgeStep => PinTypeOK'
<1> SUFFICES ASSUME VarTypes, BridgeStep PROVE PinTypeOK'
  OBVIOUS
<1> USE HomeAssumption DEF VarTypes, PinTypeOK, CertTypeOK
<1>1. ASSUME NEW b \in Bridges, BridgeStarts(b) PROVE PinTypeOK'
  BY <1>1 DEF BridgeStarts
<1>2. ASSUME NEW b \in Bridges, Handshake(b) PROVE PinTypeOK'
  BY <1>2 DEF Handshake, Verdict
<1>3. ASSUME NEW b \in Bridges, LoadLooks(b) PROVE PinTypeOK'
  BY <1>3 DEF LoadLooks, Goes
<1>4. ASSUME NEW b \in Bridges, LoadReads(b) PROVE PinTypeOK'
  <2>1. Pin(Home[b], target[b]) \in Pairs \cup {None}
    BY EntryType
  <2> QED
    BY <1>4, <2>1 DEF LoadReads, Verdict
<1>5. ASSUME NEW b \in Bridges, SaveLooks(b) PROVE PinTypeOK'
  BY <1>5 DEF SaveLooks, Goes
<1>6. ASSUME NEW b \in Bridges, SaveReads(b) PROVE PinTypeOK'
  <2>1. [File(b) EXCEPT ![target[b]] = None] \in [Agents -> Pairs \cup {None}]
    BY <1>6 DEF SaveReads, File
  <2> QED
    BY <1>6, <2>1 DEF SaveReads
<1>7. ASSUME NEW b \in Bridges, NEW next \in {"idle", "down"}, Disconnects(b, next)
      PROVE  PinTypeOK'
  BY <1>7 DEF Disconnects, NoEntries
<1>8. ASSUME NEW b \in Bridges, SaveReplaces(b) PROVE PinTypeOK'
  <2>1. [lines[b] EXCEPT ![target[b]] = seen[b]] \in [Agents -> Pairs \cup {None}]
    OBVIOUS
  <2> QED
    BY <1>8, <2>1 DEF SaveReplaces, NoEntries
<1>9. ASSUME NEW b \in Bridges, SendsToken(b) PROVE PinTypeOK'
  BY <1>9 DEF SendsToken, Goes
<1>10. ASSUME NEW h \in Homes, OperatorForgets(h) PROVE PinTypeOK'
  BY <1>10 DEF OperatorForgets
<1> QED
  BY <1>1, <1>2, <1>3, <1>4, <1>5, <1>6, <1>7, <1>8, <1>9, <1>10
  DEF BridgeStep, Verifies, FileVanished, ConnectionEnds, BridgeEnds

LEMMA Types == VarTypes /\ [Next]_vars => VarTypes'
<1> SUFFICES ASSUME VarTypes, [Next]_vars PROVE VarTypes'
  OBVIOUS
<1>1. CASE AgentStep /\ UNCHANGED pinVars
  <2>1. CertTypeOK'
    BY <1>1, CertTypes DEF VarTypes
  <2>2. PinTypeOK'
    BY <1>1 DEF VarTypes, PinTypeOK, pinVars
  <2> QED
    BY <2>1, <2>2 DEF VarTypes
<1>2. CASE BridgeStep /\ UNCHANGED certVars
  <2>1. PinTypeOK'
    BY <1>2, PinTypes
  <2>2. CertTypeOK'
    BY <1>2 DEF VarTypes, CertTypeOK, certVars
  <2> QED
    BY <2>1, <2>2 DEF VarTypes
<1>3. CASE UNCHANGED vars
  BY <1>3 DEF vars, certVars, pinVars, VarTypes, CertTypeOK, PinTypeOK
<1> QED
  BY <1>1, <1>2, <1>3 DEF Next

-----------------------------------------------------------------------------
(* No start, crash or reset of an agent spoils its files. *)
LEMMA FilesKept ==
    ASSUME CertTypeOK, AgentStep, \A a \in Agents : Files(a)
    PROVE  \A a \in Agents : Files(a)'
<1> SUFFICES ASSUME NEW x \in Agents, NEW a \in Agents,
                    AgentMain(x) \/ AgentEnds(x) \/ OperatorResets(x)
             PROVE  Files(a)'
  BY DEF AgentStep
<1>a. CertTypeOK /\ Files(a) /\ Files(x)
  OBVIOUS
<1> USE <1>a, CertAssumption, NoneAssumption DEF Files, CertTypeOK, Idle
<1>1. CASE AgentStarts(x)
  BY <1>1 DEF AgentStarts
<1>2. ASSUME Generates(x), cert[x] = None \/ key[x] = None PROVE Files(a)'
  <2>1. [agent |-> x, era |-> era[x], n |-> made[x] + 1] \in Pairs
    BY <1>2 DEF Generates, Pairs
  <2>2. key[x] = None
    BY <1>2
  <2> QED
    BY <1>2, <2>1, <2>2 DEF Generates
<1>3. CASE LooksForCert(x)
  BY <1>2, <1>3 DEF LooksForCert, Finds
<1>4. CASE LooksForKey(x)
  BY <1>2, <1>4 DEF LooksForKey, Finds
<1>5. CASE ReplacesCert(x)
  BY <1>5 DEF ReplacesCert
<1>6. CASE ReplacesKey(x)
  BY <1>6 DEF ReplacesKey
<1>7. CASE Loads(x)
  BY <1>7 DEF Loads
<1>8. CASE AgentEnds(x)
  BY <1>8 DEF AgentEnds
<1>9. CASE OperatorResets(x)
  BY <1>9 DEF OperatorResets
<1> QED
  BY <1>1, <1>3, <1>4, <1>5, <1>6, <1>7, <1>8, <1>9 DEF AgentMain

(* No bridge invents an identity: what it enters, keeps or compares it has *)
(* from the agent, from the banner or from the file.                       *)
LEMMA NothingInvented ==
    ASSUME VarTypes, BridgeStep, UNCHANGED certVars, NEW a \in Agents,
           \A b \in Bridges : Compared(b),
           NEW f, Fact(a, f)'
    PROVE  Fact(a, f) \/ f = None
<1> USE HomeAssumption DEF VarTypes, PinTypeOK, CertTypeOK, certVars
<1>1. ASSUME NEW b \in Bridges, BridgeStarts(b) PROVE Fact(a, f) \/ f = None
  BY <1>1 DEF BridgeStarts, Fact, Pin, Compared
<1>2. ASSUME NEW b \in Bridges, Handshake(b) PROVE Fact(a, f) \/ f = None
  BY <1>2 DEF Handshake, Fact, Pin
<1>3. ASSUME NEW b \in Bridges, LoadLooks(b) PROVE Fact(a, f) \/ f = None
  BY <1>3 DEF LoadLooks, Goes, Fact, Pin
<1>4. ASSUME NEW b \in Bridges, LoadReads(b) PROVE Fact(a, f) \/ f = None
  BY <1>4 DEF LoadReads, Fact, Pin
<1>5. ASSUME NEW b \in Bridges, SaveLooks(b) PROVE Fact(a, f) \/ f = None
  BY <1>5 DEF SaveLooks, Goes, Fact, Pin
<1>6. ASSUME NEW b \in Bridges, SaveReads(b) PROVE Fact(a, f) \/ f = None
  BY <1>6 DEF SaveReads, File, Fact, Pin
<1>7. ASSUME NEW b \in Bridges, NEW next, Disconnects(b, next) PROVE Fact(a, f) \/ f = None
  BY <1>7 DEF Disconnects, NoEntries, Fact, Pin
<1>8. ASSUME NEW b \in Bridges, SaveReplaces(b) PROVE Fact(a, f) \/ f = None
  BY <1>8 DEF SaveReplaces, NoEntries, Fact, Pin
<1>9. ASSUME NEW b \in Bridges, SendsToken(b) PROVE Fact(a, f) \/ f = None
  BY <1>9 DEF SendsToken, Goes, Fact, Pin
<1>10. ASSUME NEW h \in Homes, OperatorForgets(h) PROVE Fact(a, f) \/ f = None
  BY <1>10 DEF OperatorForgets, Fact, Pin
<1> QED
  BY <1>1, <1>2, <1>3, <1>4, <1>5, <1>6, <1>7, <1>8, <1>9, <1>10
  DEF BridgeStep, Verifies, FileVanished, ConnectionEnds, BridgeEnds

(* An agent adds an idea of itself only when it completes a new pair.      *)
LEMMA IdeasOfAgents ==
    ASSUME CertTypeOK, PinTypeOK, UNCHANGED pinVars, \A y \in Agents : Files(y),
           NEW x \in Agents, NEW a \in Agents,
           AgentMain(x) \/ AgentEnds(x) \/ OperatorResets(x),
           NEW f, Fact(a, f)'
    PROVE  \/ Fact(a, f) \/ f = None
           \/ ReplacesKey(a) /\ f = fresh[a]
<1> USE DEF CertTypeOK, Fact, Pin, pinVars
<1>1. CASE AgentStarts(x)
  BY <1>1 DEF AgentStarts
<1>2. CASE LooksForCert(x)
  BY <1>2 DEF LooksForCert, Finds, Generates
<1>3. CASE LooksForKey(x)
  BY <1>3 DEF LooksForKey, Finds, Generates
<1>4. CASE ReplacesCert(x)
  BY <1>4 DEF ReplacesCert
<1>5. CASE ReplacesKey(x)
  BY <1>5 DEF ReplacesKey
<1>6. CASE Loads(x)
  BY <1>6 DEF Loads, Files
<1>7. CASE AgentEnds(x)
  BY <1>7 DEF AgentEnds
<1>8. CASE OperatorResets(x)
  BY <1>8 DEF OperatorResets
<1> QED
  BY <1>1, <1>2, <1>3, <1>4, <1>5, <1>6, <1>7, <1>8 DEF AgentMain

LEMMA OneIdentityAgents ==
    ASSUME CertTypeOK, PinTypeOK, AgentStep, UNCHANGED pinVars,
           \A a \in Agents : Files(a) /\ OneIdentity(a), NEW a \in Agents
    PROVE  OneIdentity(a)'
<1>1. PICK x \in Agents : AgentMain(x) \/ AgentEnds(x) \/ OperatorResets(x)
  BY DEF AgentStep
<1>2. CASE ReplacesKey(a)
  <2>1. key[a] = None /\ fresh[a].agent = a /\ fresh[a].era = era[a] /\ era' = era /\ key'[a] = fresh[a]
    BY <1>2 DEF ReplacesKey, Files, CertTypeOK
  <2>2. \A f : Fact(a, f)' => Fact(a, f) \/ f = None \/ f = fresh[a]
    BY <1>1, IdeasOfAgents
  <2>3. \A f : Fact(a, f) /\ f # None => f.agent = a /\ f.era < era[a]
    BY <2>1 DEF OneIdentity
  <2>4. era[a] \in Nat
    BY CertAssumption DEF CertTypeOK
  <2> QED
    BY <2>1, <2>2, <2>3, <2>4 DEF OneIdentity
<1>3. CASE ~ReplacesKey(a)
  <2>1. \A f : Fact(a, f)' => Fact(a, f) \/ f = None
    BY <1>1, <1>3, IdeasOfAgents
  <2>2. CASE OperatorResets(a)
    <3>1. \A f : Fact(a, f) /\ f # None => f.era < era[a] \/ f.era = era[a]
      BY DEF OneIdentity, Files
    <3>2. era'[a] = era[a] + 1 /\ era[a] \in Nat
      BY <2>2, CertAssumption DEF OperatorResets, CertTypeOK
    <3>3. \A f : Fact(a, f) /\ f # None => f.era \in Nat
      BY CertAssumption, EntryType DEF Fact, CertTypeOK, PinTypeOK, Pairs
    <3> QED
      BY <2>1, <3>1, <3>2, <3>3 DEF OneIdentity
  <2>3. CASE ~OperatorResets(a)
    <3>1. key'[a] = key[a] /\ era'[a] = era[a]
      BY <1>1, <1>3, <2>3
      DEF CertTypeOK, AgentMain, AgentStarts, LooksForCert, LooksForKey, Finds, Generates,
          ReplacesCert, ReplacesKey, Loads, AgentEnds, OperatorResets
    <3> QED
      BY <2>1, <3>1 DEF OneIdentity
  <2> QED
    BY <2>2, <2>3
<1> QED
  BY <1>2, <1>3

(* What a bridge has compared stays as it was until its connection ends.   *)
LEMMA ComparedKept ==
    ASSUME VarTypes, BridgeStep, \A b \in Bridges : Compared(b), NEW c \in Bridges
    PROVE  Compared(c)'
<1>a. Compared(c)
  OBVIOUS
<1> USE <1>a, HomeAssumption DEF VarTypes, PinTypeOK, CertTypeOK, Compared
<1>1. ASSUME NEW b \in Bridges, BridgeStarts(b) PROVE Compared(c)'
  BY <1>1 DEF BridgeStarts
<1>2. ASSUME NEW b \in Bridges, Handshake(b) PROVE Compared(c)'
  BY <1>2 DEF Handshake, Verdict
<1>3. ASSUME NEW b \in Bridges, LoadLooks(b) PROVE Compared(c)'
  BY <1>3 DEF LoadLooks, Goes
<1>4. ASSUME NEW b \in Bridges, LoadReads(b) PROVE Compared(c)'
  BY <1>4 DEF LoadReads, Verdict
<1>5. ASSUME NEW b \in Bridges, SaveLooks(b) PROVE Compared(c)'
  BY <1>5 DEF SaveLooks, Goes
<1>6. ASSUME NEW b \in Bridges, SaveReads(b) PROVE Compared(c)'
  BY <1>6 DEF SaveReads
<1>7. ASSUME NEW b \in Bridges, NEW next \in {"idle", "down"}, Disconnects(b, next)
      PROVE  Compared(c)'
  BY <1>7 DEF Disconnects
<1>8. ASSUME NEW b \in Bridges, SaveReplaces(b) PROVE Compared(c)'
  BY <1>8 DEF SaveReplaces
<1>9. ASSUME NEW b \in Bridges, SendsToken(b) PROVE Compared(c)'
  BY <1>9 DEF SendsToken, Goes
<1>10. ASSUME NEW h \in Homes, OperatorForgets(h) PROVE Compared(c)'
  BY <1>10 DEF OperatorForgets
<1> QED
  BY <1>1, <1>2, <1>3, <1>4, <1>5, <1>6, <1>7, <1>8, <1>9, <1>10
  DEF BridgeStep, Verifies, FileVanished, ConnectionEnds, BridgeEnds

-----------------------------------------------------------------------------
LEMMA Initially == Init => IInv
<1> SUFFICES ASSUME Init PROVE IInv
  OBVIOUS
<1>1. VarTypes
  BY CertAssumption DEF Init, CertInit, PinInit, NoEntries, VarTypes, CertTypeOK, PinTypeOK, Idle
<1>2. \A a \in Agents : Files(a)
  BY DEF Init, CertInit, Files
<1>3. \A a \in Agents : \A f : Fact(a, f) => f = None
  BY DEF Init, CertInit, PinInit, NoEntries, Fact, Pin
<1>4. \A a \in Agents : OneIdentity(a)
  BY <1>3 DEF OneIdentity
<1>5. \A b \in Bridges : Compared(b)
  BY DEF Init, PinInit, Compared
<1> QED
  BY <1>1, <1>2, <1>4, <1>5 DEF IInv

LEMMA Inductive == IInv /\ [Next]_vars => IInv'
<1> SUFFICES ASSUME IInv, [Next]_vars PROVE IInv'
  OBVIOUS
<1>1. VarTypes'
  BY Types DEF IInv
<1>2. CASE AgentStep /\ UNCHANGED pinVars
  <2>1. \A a \in Agents : Files(a)'
    BY <1>2, FilesKept DEF IInv, VarTypes
  <2>2. \A a \in Agents : OneIdentity(a)'
    BY <1>2, OneIdentityAgents DEF IInv, VarTypes
  <2>3. \A b \in Bridges : Compared(b)'
    BY <1>2 DEF IInv, Compared, pinVars
  <2> QED
    BY <1>1, <2>1, <2>2, <2>3 DEF IInv
<1>3. CASE BridgeStep /\ UNCHANGED certVars
  <2>1. \A a \in Agents : Files(a)'
    BY <1>3 DEF IInv, Files, certVars
  <2>2. \A a \in Agents : OneIdentity(a)'
    BY <1>3, NothingInvented DEF IInv, OneIdentity, certVars
  <2>3. \A b \in Bridges : Compared(b)'
    BY <1>3, ComparedKept DEF IInv
  <2> QED
    BY <1>1, <2>1, <2>2, <2>3 DEF IInv
<1>4. CASE UNCHANGED vars
  BY <1>1, <1>4 DEF IInv, Files, OneIdentity, Fact, Pin, Compared, vars, certVars, pinVars
<1> QED
  BY <1>2, <1>3, <1>4 DEF Next

THEOREM Invariance == Spec => []IInv
  BY Initially, Inductive, PTL DEF Spec

(* The variables have their types, with any number of agents and bridges,  *)
(* and every entry of known_hosts is the fingerprint of its agent.         *)
THEOREM TypeCorrect == Spec => []TypeOK
<1>1. IInv => TypeOK
  BY DEF IInv, VarTypes, TypeOK, OneIdentity, Fact
<1> QED
  BY <1>1, Invariance, PTL

(* generate_self_signed() and the start of the agent survive every crash:  *)
(* no start of an agent fails because of what an earlier one has left.     *)
THEOREM CrashSafe == Spec => []StartsClean
<1>1. IInv => StartsClean
  BY DEF IInv, Files, StartsClean
<1> QED
  BY <1>1, Invariance, PTL

(* _verify_fingerprint() refuses only agents the operator has changed,     *)
(* whatever crashes, and however many bridges write to one known_hosts.    *)
THEOREM NoFalseAlarm == Spec => []NoFalseMismatch
<1>1. ASSUME IInv, NEW b \in Bridges, bpc[b] = "mismatch", known[b].era = seen[b].era
      PROVE  FALSE
  <2>1. target[b] \in Agents
    BY <1>1 DEF IInv, VarTypes, PinTypeOK
  <2>2. Fact(target[b], known[b]) /\ Fact(target[b], seen[b])
    BY DEF Fact
  <2>3. known[b] # None /\ seen[b] # None /\ known[b] # seen[b]
    BY <1>1 DEF IInv, Compared
  <2> QED
    BY <1>1, <2>1, <2>2, <2>3 DEF IInv, OneIdentity
<1>2. IInv => NoFalseMismatch
  BY <1>1 DEF NoFalseMismatch
<1> QED
  BY <1>2, Invariance, PTL

-----------------------------------------------------------------------------
(* From here on every user runs one bridge at a time.                      *)
OwnHome == \A b, c \in Bridges : Home[b] = Home[c] => b = c

(* What the bridge has read is still what the file says, unless the        *)
(* operator has removed it.                                                *)
Undisturbed(b) ==
    /\ bpc[b] \in {"saveExists", "saveRead", "saveReplace"} => Pin(Home[b], target[b]) = None
    /\ bpc[b] = "saveReplace" => \A a \in Agents : Pin(Home[b], a) \in {lines[b][a], None}
    /\ (bpc[b] \in {"verified", "tokenSent"} /\ expected[b] = None)
          => Pin(Home[b], target[b]) \in {seen[b], None}

OwnInv == VarTypes /\ \A b \in Bridges : Undisturbed(b)

LEMMA UndisturbedKept ==
    ASSUME OwnHome, VarTypes, BridgeStep, \A b \in Bridges : Undisturbed(b), NEW c \in Bridges
    PROVE  Undisturbed(c)'
<1>a. Undisturbed(c)
  OBVIOUS
<1> USE <1>a, HomeAssumption DEF VarTypes, PinTypeOK, CertTypeOK, Undisturbed, OwnHome
<1>1. ASSUME NEW b \in Bridges, BridgeStarts(b) PROVE Undisturbed(c)'
  BY <1>1 DEF BridgeStarts, Pin
<1>2. ASSUME NEW b \in Bridges, Handshake(b) PROVE Undisturbed(c)'
  BY <1>2 DEF Handshake, Verdict, Pin
<1>3. ASSUME NEW b \in Bridges, LoadLooks(b) PROVE Undisturbed(c)'
  BY <1>3 DEF LoadLooks, Goes, File, Pin
<1>4. ASSUME NEW b \in Bridges, LoadReads(b) PROVE Undisturbed(c)'
  BY <1>4 DEF LoadReads, Verdict, Pin
<1>5. ASSUME NEW b \in Bridges, SaveLooks(b) PROVE Undisturbed(c)'
  BY <1>5 DEF SaveLooks, Goes, File, Pin
<1>6. ASSUME NEW b \in Bridges, SaveReads(b) PROVE Undisturbed(c)'
  BY <1>6 DEF SaveReads, File, Pin
<1>7. ASSUME NEW b \in Bridges, NEW next \in {"idle", "down"}, Disconnects(b, next)
      PROVE  Undisturbed(c)'
  BY <1>7 DEF Disconnects, Pin
<1>8. ASSUME NEW b \in Bridges, SaveReplaces(b) PROVE Undisturbed(c)'
  BY <1>8 DEF SaveReplaces, Pin
<1>9. ASSUME NEW b \in Bridges, SendsToken(b) PROVE Undisturbed(c)'
  BY <1>9 DEF SendsToken, Goes, Pin
<1>10. ASSUME NEW h \in Homes, OperatorForgets(h) PROVE Undisturbed(c)'
  BY <1>10 DEF OperatorForgets, Pin
<1> QED
  BY <1>1, <1>2, <1>3, <1>4, <1>5, <1>6, <1>7, <1>8, <1>9, <1>10
  DEF BridgeStep, Verifies, FileVanished, ConnectionEnds, BridgeEnds

LEMMA OwnInvariance == ASSUME OwnHome PROVE Spec => []OwnInv
<1>1. Init => OwnInv
  <2>1. Init => VarTypes
    BY Initially DEF IInv
  <2> QED
    BY <2>1 DEF Init, PinInit, OwnInv, Undisturbed
<1>2. OwnInv /\ [Next]_vars => OwnInv'
  <2> SUFFICES ASSUME OwnInv, [Next]_vars PROVE OwnInv'
    OBVIOUS
  <2>1. VarTypes'
    BY Types DEF OwnInv
  <2>2. CASE UNCHANGED pinVars
    BY <2>1, <2>2 DEF OwnInv, Undisturbed, Pin, pinVars
  <2>3. CASE BridgeStep
    BY <2>1, <2>3, UndisturbedKept DEF OwnInv
  <2> QED
    BY <2>2, <2>3 DEF Next, vars
<1> QED
  BY <1>1, <1>2, PTL DEF Spec

(* _connect_and_serve() sends the token only where the pin points, even    *)
(* when the file is removed or the agent replaced in the middle.           *)
THEOREM TokenPinned == ASSUME OwnHome PROVE Spec => []TokenGoesToPinned
<1>1. OwnInv => TokenGoesToPinned
  BY DEF OwnInv, Undisturbed, TokenGoesToPinned
<1> QED
  BY <1>1, OwnInvariance, PTL

(* save_known_fingerprint() loses and changes no other entry.              *)
THEOREM PinsStay == ASSUME OwnHome PROVE Spec => PinKept
<1>1. ASSUME OwnInv, [Next]_vars, NEW h \in Homes, NEW a \in Agents, Pin(h, a) # None
      PROVE  Pin(h, a)' = Pin(h, a) \/ knownHosts'[h] = None
  <2>1. CASE \E b \in Bridges : SaveReplaces(b)
    <3>1. PICK b \in Bridges : SaveReplaces(b)
      BY <2>1
    <3>2. CASE h = Home[b]
      BY <1>1, <3>1, <3>2 DEF OwnInv, Undisturbed, VarTypes, PinTypeOK, SaveReplaces, Pin
    <3>3. CASE h # Home[b]
      BY <1>1, <3>1, <3>3 DEF OwnInv, VarTypes, PinTypeOK, SaveReplaces, Pin
    <3> QED
      BY <3>2, <3>3
  <2>2. CASE \E g \in Homes : OperatorForgets(g)
    BY <1>1, <2>2 DEF OwnInv, VarTypes, PinTypeOK, OperatorForgets, Pin
  <2>3. CASE UNCHANGED knownHosts
    BY <2>3 DEF Pin
  <2> QED
    BY <1>1, <2>1, <2>2, <2>3
    DEF Next, vars, pinVars, BridgeStep, BridgeStarts, Handshake, Verifies, LoadLooks, LoadReads,
        SaveLooks, SaveReads, FileVanished, Goes, Disconnects, SendsToken, ConnectionEnds, BridgeEnds
<1>2. OwnInv /\ [Next]_vars =>
         [\A h \in Homes : \A a \in Agents :
             Pin(h, a) # None => Pin(h, a)' = Pin(h, a) \/ knownHosts'[h] = None]_pinVars
  BY <1>1
<1> QED
  BY <1>2, OwnInvariance, PTL DEF Spec, PinKept
=============================================================================
