-------------------------- MODULE SessionIdsProofs --------------------------
(***************************************************************************)
(* Proofs about the session id allocator, for every width of the id and    *)
(* every argument of the constructor.                                      *)
(***************************************************************************)
EXTENDS SessionIds, TLAPS

(* The counter's step, without the remainder: the next id, and 1 after the *)
(* largest one.                                                            *)
LEMMA AdvanceValue ==
    ASSUME NEW id \in Ids
    PROVE  Advance(id) = IF id = MaxId THEN 1 ELSE id + 1
<1> MaxId \in Nat \ {0}
  BY IdAssumption
<1>1. CASE id = MaxId
  <2>1. (id + 1) % (MaxId + 1) = 0
    BY <1>1
  <2> QED BY <1>1, <2>1 DEF Advance
<1>2. CASE id # MaxId
  <2>1. (id + 1) \in 0 .. MaxId
    BY <1>2 DEF Ids
  <2>2. (id + 1) % (MaxId + 1) = id + 1
    BY <2>1
  <2> QED BY <1>2, <2>1, <2>2 DEF Advance, Ids
<1> QED BY <1>1, <1>2

(* Whatever the constructor is given, the first candidate is an id.        *)
LEMMA InitialIdIsId == \A start \in Nat : InitialId(start) \in Ids
<1> TAKE start \in Nat
<1>1. MaxId \in Nat \ {0}
  BY IdAssumption
<1>2. start % (MaxId + 1) \in 0 .. MaxId
  BY <1>1
<1> QED BY <1>1, <1>2 DEF InitialId, Ids

(* One step of the counter moves every other id one further behind it.     *)
LEMMA PastAfterAdvance ==
    ASSUME NEW id \in Ids, current \in Ids, current' = Advance(current)
    PROVE  Past(id)' = IF id = current THEN 1 ELSE Past(id) + 1
<1> MaxId \in Nat \ {0}
  BY IdAssumption
<1>1. current' = IF current = MaxId THEN 1 ELSE current + 1
  BY AdvanceValue
<1> QED BY <1>1 DEF Past, Ids

-----------------------------------------------------------------------------
(* Type correctness: in particular 0, the id of HEARTBEAT frames, is never *)
(* a candidate and never a session's id.                                   *)
THEOREM TypeCorrect == Spec => []TypeOK
<1> USE IdAssumption
<1>1. Init => TypeOK
  <2> SUFFICES ASSUME Init PROVE TypeOK
    OBVIOUS
  <2>1. current \in Ids
    BY InitialIdIsId DEF Init
  <2> QED BY <2>1 DEF Init, TypeOK
<1>2. TypeOK /\ [Next]_vars => TypeOK'
  <2> SUFFICES ASSUME TypeOK, [Next]_vars PROVE TypeOK'
    OBVIOUS
  <2> USE DEF TypeOK
  <2>1. CASE Call
    BY <2>1 DEF Call
  <2>2. CASE Skip
    <3>1. current' \in Ids
      BY <2>2, AdvanceValue DEF Skip, Ids
    <3> QED BY <2>2, <3>1 DEF Skip
  <2>3. CASE Issue
    <3>1. current' \in Ids
      BY <2>3, AdvanceValue DEF Issue, Ids
    <3>2. seen' \in [Ids -> SUBSET Ids]
      BY <2>3 DEF Issue
    <3> QED BY <2>3, <3>1, <3>2 DEF Issue
  <2>4. CASE Exhaust
    BY <2>4 DEF Exhaust
  <2>5. CASE Recover
    BY <2>5 DEF Recover
  <2>6. ASSUME NEW id \in Ids, Release(id) PROVE TypeOK'
    BY <2>6 DEF Release
  <2>7. CASE UNCHANGED vars
    BY <2>7 DEF vars
  <2> QED BY <2>1, <2>2, <2>3, <2>4, <2>5, <2>6, <2>7 DEF Next
<1> QED BY <1>1, <1>2, PTL DEF Spec

(* The scan invariant is an invariant of the allocator.                    *)
THEOREM ScanCorrect == Spec => []ScanInvariant
<1> USE IdAssumption
<1>1. Init => ScanInvariant /\ FullTurn
  BY DEF Init, ScanInvariant, FullTurn
<1>2. TypeOK /\ TypeOK' /\ ScanInvariant /\ FullTurn /\ [Next]_vars
        => ScanInvariant' /\ FullTurn'
  <2> SUFFICES ASSUME TypeOK, TypeOK', ScanInvariant, FullTurn, [Next]_vars
               PROVE  ScanInvariant' /\ FullTurn'
    OBVIOUS
  <2> USE DEF FullTurn
  <2>1. CASE Call
    <3>1. ASSUME NEW id \in Ids, Past(id)' <= tries' PROVE FALSE
      BY <2>1, <3>1 DEF Call, Past, Ids, TypeOK
    <3> QED BY <2>1, <3>1 DEF Call, ScanInvariant, Scanned
  <2>2. CASE Skip
    <3>1. ASSUME NEW id \in Ids, Past(id)' <= tries' PROVE id \in active'
      <4>1. CASE id = current
        BY <2>2, <4>1 DEF Skip
      <4>2. CASE id # current
        <5>1. Past(id)' = Past(id) + 1
          BY <2>2, <4>2, PastAfterAdvance DEF Skip, TypeOK
        <5>2. Past(id) <= tries
          BY <2>2, <3>1, <5>1 DEF Skip, TypeOK, Past, Ids
        <5>3. id \in active
          BY <2>2, <5>2 DEF Skip, ScanInvariant, Scanned
        <5> QED BY <2>2, <5>3 DEF Skip
      <4> QED BY <4>1, <4>2
    <3> QED BY <2>2, <3>1 DEF Skip, ScanInvariant, Scanned
  <2>3. CASE Issue
    BY <2>3 DEF Issue, ScanInvariant
  <2>4. CASE Exhaust
    BY <2>4 DEF Exhaust, ScanInvariant, Scanned, Past
  <2>5. CASE Recover
    BY <2>5 DEF Recover, ScanInvariant
  <2>6. ASSUME NEW id \in Ids, Release(id) PROVE ScanInvariant' /\ FullTurn'
    BY <2>6 DEF Release, ScanInvariant
  <2>7. CASE UNCHANGED vars
    BY <2>7 DEF vars, ScanInvariant, Scanned, Past
  <2> QED BY <2>1, <2>2, <2>3, <2>4, <2>5, <2>6, <2>7 DEF Next
<1> QED BY <1>1, <1>2, TypeCorrect, PTL DEF Spec

(* next_id() raises its error only when no id is free: a failed call has   *)
(* looked MaxId times, so every id is in what it has scanned.              *)
THEOREM ExhaustionIsReal == Spec => []NoSpuriousExhaustion
<1>1. TypeOK /\ ScanInvariant /\ FullTurn => NoSpuriousExhaustion
  <2> SUFFICES ASSUME TypeOK, ScanInvariant, FullTurn, pc = "exhausted"
               PROVE  active = Ids
    BY DEF NoSpuriousExhaustion
  <2>1. ASSUME NEW id \in Ids PROVE Past(id) <= tries
    BY IdAssumption DEF Past, Ids, TypeOK, FullTurn
  <2> QED BY <2>1 DEF ScanInvariant, Scanned, TypeOK
<1>2. Spec => []FullTurn
  <2>1. Init => FullTurn
    BY DEF Init, FullTurn
  <2>2. FullTurn /\ [Next]_vars => FullTurn'
    BY DEF FullTurn, Next, Call, Skip, Issue, Exhaust, Recover, Release, vars
  <2> QED BY <2>1, <2>2, PTL DEF Spec
<1> QED BY <1>1, <1>2, TypeCorrect, ScanCorrect, PTL

-----------------------------------------------------------------------------
(* What makes LateReuse inductive: the ids that were a candidate after id  *)
(* are among those seen since its issue.                                   *)
SeenBehind ==
    \A id \in Ids : \A x \in Ids \ {id} : Past(x) < Past(id) => x \in seen[id]

(* A step of the counter that notes the candidate keeps it so: the others  *)
(* keep their order behind the counter, and the candidate goes last.       *)
LEMMA SeenBehindAdvances ==
    ASSUME TypeOK, SeenBehind, current' = Advance(current),
           \A id \in Ids : id # current => seen[id] \cup {current} \subseteq seen'[id]
    PROVE  SeenBehind'
<1> SUFFICES ASSUME NEW id \in Ids, NEW x \in Ids \ {id}, Past(x)' < Past(id)'
             PROVE  x \in seen'[id]
  BY DEF SeenBehind
<1>1. MaxId \in Nat \ {0} /\ current \in Ids
  BY IdAssumption DEF TypeOK
<1>2. /\ Past(id) \in Nat \ {0} /\ Past(x) \in Nat \ {0}
      /\ Past(id)' = IF id = current THEN 1 ELSE Past(id) + 1
      /\ Past(x)' = IF x = current THEN 1 ELSE Past(x) + 1
  BY <1>1, PastAfterAdvance DEF Past, Ids
<1>3. id # current
  BY <1>2
<1>4. CASE x = current
  BY <1>3, <1>4
<1>5. CASE x # current
  <2>1. Past(x) < Past(id)
    BY <1>2, <1>3, <1>5
  <2> QED BY <1>3, <2>1 DEF SeenBehind
<1> QED BY <1>4, <1>5

LEMMA SeenBehindStep ==
    ASSUME TypeOK, SeenBehind, [Next]_vars
    PROVE  SeenBehind'
<1>1. CASE Skip
  BY <1>1, SeenBehindAdvances DEF Skip
<1>2. CASE Issue
  BY <1>2, SeenBehindAdvances DEF Issue
<1>3. ASSUME UNCHANGED <<current, seen>> PROVE SeenBehind'
  BY <1>3 DEF SeenBehind, Past
<1>4. CASE Call \/ Exhaust \/ Recover
  BY <1>3, <1>4 DEF Call, Exhaust, Recover
<1>5. CASE \E id \in Ids : Release(id)
  BY <1>3, <1>5 DEF Release
<1>6. CASE UNCHANGED vars
  BY <1>3, <1>6 DEF vars
<1> QED BY <1>1, <1>2, <1>4, <1>5, <1>6 DEF Next

(* An id that becomes a key was the candidate: all others are behind it.   *)
LEMMA ReusedLate ==
    ASSUME TypeOK, SeenBehind, [Next]_vars, NEW id \in active' \ active
    PROVE  Ids \ {id} \subseteq seen[id]
<1>1. MaxId \in Nat \ {0} /\ current \in Ids
  BY IdAssumption DEF TypeOK
<1>2. id = current
  BY DEF Next, Call, Skip, Issue, Exhaust, Recover, Release, vars
<1>3. \A x \in Ids \ {id} : Past(x) < Past(id)
  BY <1>1, <1>2 DEF Past, Ids
<1> QED BY <1>1, <1>2, <1>3 DEF SeenBehind

(* Since its last issue, every other id was issued or found in use before  *)
(* an id is issued again.                                                  *)
THEOREM ReuseIsLate == Spec => LateReuse
<1>1. Init => SeenBehind
  BY DEF Init, SeenBehind
<1>2. Spec => []SeenBehind
  BY <1>1, SeenBehindStep, TypeCorrect, PTL DEF Spec
<1>3. TypeOK /\ SeenBehind /\ [Next]_vars
        => [\A id \in active' \ active : Ids \ {id} \subseteq seen[id]]_vars
  BY ReusedLate
<1> QED BY <1>2, <1>3, TypeCorrect, PTL DEF Spec, LateReuse
=============================================================================
