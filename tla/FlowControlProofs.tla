--------------------------- MODULE FlowControlProofs ---------------------------
(***************************************************************************)
(* Proofs about SessionFlowControl, for every number of sessions, tasks    *)
(* and queues, every set of payload lengths and every limit: the count of  *)
(* a session is never above what its queue holds, it is exact and within   *)
(* the limit until a dequeue() of a forgotten queue reduces it, and no     *)
(* count outlives its session.                                             *)
(*                                                                         *)
(* Total() adds up a sequence, so its properties need induction.  The      *)
(* library states induction with an operator as a parameter; here it comes *)
(* from WFMin, of a set instead: a set of naturals that holds 0 and the    *)
(* successor of each of its members holds all, for the least one it lacked *)
(* would have a predecessor in it.                                         *)
(***************************************************************************)
EXTENDS FlowControl, WellFoundedInduction, SequenceTheorems, TLAPS

Below == {p \in Nat \X Nat : p[1] < p[2]}

LEMMA BelowIsWellFounded == IsWellFoundedOn(Below, Nat)
<1>1. Below = OpToRel(<, Nat)
  BY DEF Below, OpToRel
<1> QED BY <1>1, NatLessThanWellFounded

(* Every set of naturals that is not empty has a least member.             *)
LEMMA HasLeast ==
    ASSUME NEW T, T \subseteq Nat, T # {}
    PROVE  \E n \in T : \A m \in T : n <= m
<1>1. PICK n \in T : \A m \in T : <<m, n>> \notin Below
  BY BelowIsWellFounded, WFMin
<1>2. \A m \in T : ~(m < n)
  BY <1>1, T \subseteq Nat DEF Below
<1> QED BY <1>2

(* Induction over the naturals.                                            *)
LEMMA Induction ==
    ASSUME NEW S, 0 \in S, \A n \in Nat : n \in S => n + 1 \in S
    PROVE  Nat \subseteq S
<1> SUFFICES ASSUME Nat \ S # {}
             PROVE  FALSE
  OBVIOUS
<1>1. PICK n \in Nat \ S : \A m \in Nat \ S : n <= m
  BY HasLeast
<1>2. n # 0
  OBVIOUS
<1>3. n - 1 \in Nat /\ n - 1 \in S
  BY <1>1, <1>2
<1> QED BY <1>3

-----------------------------------------------------------------------------
(* The function Total() computes with: its value at n is the sum of the    *)
(* first n payloads.                                                       *)
IsSum(f, ps) == f = [n \in 0 .. Len(ps) |-> IF n = 0 THEN 0 ELSE f[n - 1] + ps[n]]

(* The function of the sums, point by point.                               *)
LEMMA IsSumMeans ==
    ASSUME NEW ps \in Seq(Nat), NEW f
    PROVE  IsSum(f, ps) <=> /\ f = [n \in 0 .. Len(ps) |-> f[n]]
                            /\ f[0] = 0
                            /\ \A n \in 1 .. Len(ps) : f[n] = f[n - 1] + ps[n]
BY DEF IsSum

(* Every sequence of lengths has such a function, by induction over its    *)
(* length ...                                                              *)
LEMMA SumExists == \A ps \in Seq(Nat) : \E f : IsSum(f, ps)
<1> DEFINE S == {n \in Nat : \A ps \in Seq(Nat) : Len(ps) = n => \E f : IsSum(f, ps)}
<1>1. 0 \in S
  <2> SUFFICES ASSUME NEW ps \in Seq(Nat), Len(ps) = 0
               PROVE  \E f : IsSum(f, ps)
    OBVIOUS
  <2> QED BY IsSum([n \in 0 .. 0 |-> 0], ps) DEF IsSum
<1>2. ASSUME NEW n \in Nat, n \in S
      PROVE  n + 1 \in S
  <2> SUFFICES ASSUME NEW ps \in Seq(Nat), Len(ps) = n + 1
               PROVE  \E f : IsSum(f, ps)
    OBVIOUS
  <2> DEFINE qs == [i \in 1 .. n |-> ps[i]]
  <2>1. qs \in Seq(Nat) /\ Len(qs) = n
    OBVIOUS
  <2>2. PICK f : IsSum(f, qs)
    BY <1>2, <2>1
  <2> DEFINE g == [i \in 0 .. (n + 1) |-> IF i = n + 1 THEN f[n] + ps[n + 1] ELSE f[i]]
  <2>3. /\ f[0] = 0
        /\ \A i \in 1 .. n : f[i] = f[i - 1] + ps[i]
    BY <2>1, <2>2, IsSumMeans
  <2>4. g = [i \in 0 .. Len(ps) |-> g[i]] /\ g[0] = 0
    BY <2>3
  <2>5. ASSUME NEW i \in 1 .. Len(ps)
        PROVE  g[i] = g[i - 1] + ps[i]
    <3>1. CASE i = n + 1
      BY <3>1
    <3>2. CASE i \in 1 .. n
      BY <2>3, <3>2
    <3> QED BY <3>1, <3>2
  <2> HIDE DEF g
  <2> QED BY <2>4, <2>5, IsSumMeans
<1> HIDE DEF S
<1>3. Nat \subseteq S
  BY <1>1, <1>2, Induction
<1> QED BY <1>3 DEF S

(* ... and only one, whose values are naturals.                            *)
LEMMA SumsAgree ==
    ASSUME NEW ps \in Seq(Nat), NEW f, NEW g, IsSum(f, ps), IsSum(g, ps)
    PROVE  \A n \in 0 .. Len(ps) : f[n] = g[n] /\ f[n] \in Nat
<1> DEFINE S == {n \in Nat : n <= Len(ps) => f[n] = g[n] /\ f[n] \in Nat}
<1>0. /\ f[0] = 0 /\ g[0] = 0
      /\ \A n \in 1 .. Len(ps) : f[n] = f[n - 1] + ps[n] /\ g[n] = g[n - 1] + ps[n]
  BY IsSumMeans
<1>1. 0 \in S
  BY <1>0
<1>2. ASSUME NEW n \in Nat, n \in S
      PROVE  n + 1 \in S
  <2> SUFFICES ASSUME n + 1 <= Len(ps)
               PROVE  f[n + 1] = g[n + 1] /\ f[n + 1] \in Nat
    OBVIOUS
  <2>1. n + 1 \in 1 .. Len(ps) /\ (n + 1) - 1 = n /\ ps[n + 1] \in Nat
    OBVIOUS
  <2> QED BY <1>0, <1>2, <2>1
<1> HIDE DEF S
<1>3. Nat \subseteq S
  BY <1>1, <1>2, Induction
<1> QED BY <1>3 DEF S

(* So Total(), which chooses one, can be computed with any.                *)
LEMMA TotalIs ==
    ASSUME NEW ps \in Seq(Nat), NEW f, IsSum(f, ps)
    PROVE  Total(ps) = f[Len(ps)] /\ Total(ps) \in Nat
<1> DEFINE g == CHOOSE h : IsSum(h, ps)
<1>1. Total(ps) = g[Len(ps)]
  BY DEF Total, IsSum
<1>2. IsSum(g, ps)
  OBVIOUS
<1>3. Len(ps) \in 0 .. Len(ps)
  OBVIOUS
<1> HIDE DEF g
<1> QED BY <1>1, <1>2, <1>3, SumsAgree

(* What put() and get() of a queue do to the sum of its payloads.          *)
LEMMA TotalEmpty == Total(<<>>) = 0
<1>1. <<>> \in Seq(Nat) /\ Len(<<>>) = 0
  OBVIOUS
<1>2. PICK f : IsSum(f, <<>>)
  BY <1>1, SumExists
<1> QED BY <1>1, <1>2, TotalIs, IsSumMeans

LEMMA TotalAppend ==
    ASSUME NEW ps \in Seq(Nat), NEW n \in Nat
    PROVE  Total(Append(ps, n)) = Total(ps) + n /\ Total(ps) \in Nat
<1> DEFINE qs == Append(ps, n)
           L == Len(ps)
<1>2. /\ qs \in Seq(Nat) /\ Len(qs) = L + 1 /\ L \in Nat /\ qs[L + 1] = n
      /\ \A i \in 1 .. L : qs[i] = ps[i]
  OBVIOUS
<1> HIDE DEF qs
<1>1. PICK g : IsSum(g, qs)
  BY <1>2, SumExists
<1> DEFINE f == [i \in 0 .. L |-> g[i]]
<1>3. g[0] = 0 /\ \A i \in 1 .. (L + 1) : g[i] = g[i - 1] + qs[i]
  <2>1. g[0] = 0 /\ \A i \in 1 .. Len(qs) : g[i] = g[i - 1] + qs[i]
    BY <1>1, <1>2, IsSumMeans
  <2>2. Len(qs) = L + 1
    BY <1>2
  <2> QED BY <2>1, <2>2
<1>4. IsSum(f, ps)
  <2>1. f[0] = 0 /\ f = [i \in 0 .. L |-> f[i]]
    BY <1>2, <1>3
  <2>2. ASSUME NEW i \in 1 .. L
        PROVE  f[i] = f[i - 1] + ps[i]
    BY <1>2, <1>3
  <2> HIDE DEF f
  <2> QED BY <2>1, <2>2, IsSumMeans
<1>5. g[L + 1] = g[L] + n /\ f[L] = g[L]
  BY <1>2, <1>3
<1> HIDE DEF f
<1>6. Total(qs) = g[L + 1] /\ Total(ps) = f[L] /\ Total(ps) \in Nat
  BY <1>1, <1>2, <1>4, TotalIs
<1> QED BY <1>5, <1>6 DEF qs

LEMMA TotalOne ==
    ASSUME NEW n \in Nat
    PROVE  Total(Append(<<>>, n)) = n
<1>1. <<>> \in Seq(Nat)
  OBVIOUS
<1>2. Total(Append(<<>>, n)) = Total(<<>>) + n
  BY <1>1, TotalAppend
<1> QED BY <1>2, TotalEmpty

LEMMA TotalTail ==
    ASSUME NEW ps \in Seq(Nat), ps # <<>>
    PROVE  Total(ps) = Total(Tail(ps)) + Head(ps) /\ Total(Tail(ps)) \in Nat
<1> DEFINE qs == Tail(ps)
           L == Len(qs)
<1>1. PICK g : IsSum(g, ps)
  BY SumExists
<1>2. /\ qs \in Seq(Nat) /\ Len(ps) = L + 1 /\ L \in Nat /\ Head(ps) = ps[1]
      /\ \A i \in 1 .. L : qs[i] = ps[i + 1]
      /\ \A i \in 1 .. Len(ps) : ps[i] \in Nat
  OBVIOUS
<1>3. g[0] = 0 /\ \A i \in 1 .. (L + 1) : g[i] = g[i - 1] + ps[i]
  BY <1>1, <1>2, IsSumMeans
<1>4. \A i \in 0 .. (L + 1) : g[i] \in Nat
  BY <1>1, <1>2, SumsAgree
<1>5. g[1] = Head(ps)
  BY <1>2, <1>3
<1> DEFINE f == [i \in 0 .. L |-> g[i + 1] - Head(ps)]
<1>6. IsSum(f, qs)
  <2>1. f[0] = 0 /\ f = [i \in 0 .. L |-> f[i]]
    BY <1>2, <1>4, <1>5
  <2>2. ASSUME NEW i \in 1 .. L
        PROVE  f[i] = f[i - 1] + qs[i]
    <3>1. /\ i + 1 \in 1 .. (L + 1) /\ (i + 1) - 1 = i /\ (i - 1) + 1 = i
          /\ i + 1 \in 0 .. (L + 1) /\ i \in 0 .. (L + 1) /\ i - 1 \in 0 .. L /\ i \in 0 .. L
      BY <1>2
    <3>2. g[i + 1] = g[i] + ps[i + 1] /\ g[i + 1] \in Nat /\ g[i] \in Nat
      BY <1>3, <1>4, <3>1
    <3>3. f[i] = g[i + 1] - Head(ps) /\ f[i - 1] = g[i] - Head(ps) /\ qs[i] = ps[i + 1]
      BY <1>2, <3>1
    <3>4. Head(ps) \in Nat /\ ps[i + 1] \in Nat
      BY <1>2, <3>1
    <3> HIDE DEF f, qs
    <3> QED BY <3>2, <3>3, <3>4
  <2> HIDE DEF f, qs
  <2> QED BY <1>2, <2>1, <2>2, IsSumMeans
<1>7. f[L] = g[L + 1] - Head(ps) /\ g[L + 1] \in Nat /\ Head(ps) \in Nat
  BY <1>2, <1>4
<1> HIDE DEF f, qs
<1>8. Total(qs) = f[L] /\ Total(ps) = g[L + 1] /\ Total(qs) \in Nat
  BY <1>1, <1>2, <1>6, TotalIs
<1> QED BY <1>7, <1>8 DEF qs

-----------------------------------------------------------------------------
(* No two sessions have the same queue: one is made anew for each.         *)
Distinct == \A s, t \in Sids : queues[s] # 0 /\ queues[s] = queues[t] => s = t
(* The queue a dequeue() waits on is the one of its session or forgotten;  *)
(* no other session has it.                                                *)
Holding ==
    \A k \in Tasks : held[k] # Idle =>
        held[k].q # 0 /\ \A s \in Sids : queues[s] = held[k].q => s = held[k].sid
(* A queue that is not made yet holds nothing.                             *)
Unmade == \A q \in Queues : q > made => items[q] = <<>>

(* What is claimed of the counts.                                          *)
Counting == NeverOvercounts /\ ExactUnlessStrayed /\ ReleasesCounts
(* The inductive invariant.  Distinct and Holding say whose count a        *)
(* payload that is taken off a queue can concern: that of the session it   *)
(* is taken for, and no other.                                             *)
IInv == TypeOK /\ Distinct /\ Holding /\ Unmade /\ Counting

LEMMA IdleTyped == Idle \in [sid : Sids, q : {0}]
BY FlowAssumption DEF Idle

LEMMA InitIInv == Init => IInv
<1> SUFFICES ASSUME Init
             PROVE  IInv
  OBVIOUS
<1>1. TypeOK
  BY IdleTyped, FlowAssumption DEF Init, TypeOK
<1>2. Distinct /\ Holding /\ Unmade /\ Counting
  BY DEF Init, Distinct, Holding, Unmade, Counting, NeverOvercounts,
         ExactUnlessStrayed, ReleasesCounts, Registered
<1> QED BY <1>1, <1>2 DEF IInv

(* What a queue holds can be added up.                                     *)
LEMMA Payloads ==
    ASSUME TypeOK, NEW q \in Queues
    PROVE  items[q] \in Seq(Nat) /\ BytesIn(q) \in Nat
<1>1. items[q] \in Seq(Lengths)
  BY DEF TypeOK
<1>2. items[q] \in Seq(Nat)
  BY <1>1, FlowAssumption, SeqMonotonic
<1> QED BY <1>2, SumExists, TotalIs DEF BytesIn

LEMMA EmptyBytes ==
    ASSUME TypeOK, NEW q \in Queues, items[q] = <<>>
    PROVE  BytesIn(q) = 0
BY TotalEmpty DEF BytesIn

LEMMA HasQueue ==
    ASSUME TypeOK, NEW s \in Registered
    PROVE  s \in Sids /\ queues[s] \in Queues /\ queues[s] \in 1 .. made
BY FlowAssumption DEF TypeOK, Registered, Queues

-----------------------------------------------------------------------------
(* A new entry: its queue is the next one, empty and nobody else's.        *)
LEMMA CreatesKeeps ==
    ASSUME IInv, NEW s \in Sids, s \notin Registered, Creates(s), UNCHANGED held
    PROVE  /\ made' \in 0 .. MaxQueues /\ made' = made + 1 /\ made' \in Queues
           /\ queues' \in [Sids -> 0 .. made'] /\ queues'[s] = made'
           /\ Registered' = Registered \cup {s}
           /\ items[made'] = <<>>
           /\ \A t \in Registered : t # s /\ queues'[t] = queues[t] /\ queues[t] # made'
           /\ counted' \in SUBSET Sids
           /\ strayed' \in SUBSET Sids /\ strayed' = strayed \ {s}
           /\ \A q \in Queues : q > made' => q > made /\ q # made'
           /\ held' \in [Tasks -> [sid : Sids, q : 0 .. made']]
           /\ Distinct' /\ Holding' /\ ReleasesCounts'
<1>1. /\ made' = made + 1 /\ made < MaxQueues /\ made \in Nat /\ MaxQueues \in Nat
      /\ queues' = [queues EXCEPT ![s] = made + 1] /\ queues \in [Sids -> 0 .. made]
      /\ counted' = counted \cup {s} /\ strayed' = strayed \ {s}
      /\ counted \in SUBSET Sids /\ strayed \in SUBSET Sids
      /\ held' = held /\ held \in [Tasks -> [sid : Sids, q : 0 .. made]]
  BY FlowAssumption DEF IInv, TypeOK, Creates
<1>2. /\ made' \in 0 .. MaxQueues /\ made' \in Queues
      /\ queues' \in [Sids -> 0 .. made'] /\ queues'[s] = made'
      /\ held' \in [Tasks -> [sid : Sids, q : 0 .. made']]
  BY <1>1 DEF Queues
<1>3. items[made'] = <<>>
  BY <1>1, <1>2 DEF IInv, Unmade
<1>4. Registered' = Registered \cup {s}
  BY <1>1 DEF Registered
<1>5. \A t \in Registered : t # s /\ queues'[t] = queues[t] /\ queues[t] # made'
  BY <1>1 DEF Registered
<1>6. Distinct'
  BY <1>1 DEF IInv, Distinct
<1>7. Holding'
  BY <1>1 DEF IInv, Holding
<1>8. ReleasesCounts'
  BY <1>1, <1>4 DEF IInv, Counting, ReleasesCounts
<1>9. \A q \in Queues : q > made' => q > made /\ q # made'
  BY <1>1 DEF Queues
<1> QED BY <1>1, <1>2, <1>3, <1>4, <1>5, <1>6, <1>7, <1>8, <1>9

(* The queues of other sessions, and their counts, stay as they are.       *)
LEMMA OthersCount ==
    ASSUME IInv, NEW s \in Sids,
           \A t \in Registered' \ {s} :
               /\ t \in Registered /\ queues'[t] = queues[t] /\ bytes'[t] = bytes[t]
               /\ items'[queues[t]] = items[queues[t]]
               /\ t \in strayed => t \in strayed',
           s \in Registered' =>
               /\ bytes'[s] <= BytesIn(queues[s])'
               /\ s \notin strayed' => /\ bytes'[s] = BytesIn(queues[s])'
                                       /\ BytesIn(queues[s])' <= MaxBytes
    PROVE  NeverOvercounts' /\ ExactUnlessStrayed'
<1>1. \A t \in Registered' \ {s} :
          t \in Registered /\ bytes'[t] = bytes[t] /\ BytesIn(queues[t])' = BytesIn(queues[t])
  BY DEF BytesIn
<1> QED BY <1>1 DEF IInv, Counting, NeverOvercounts, ExactUnlessStrayed

(* One lemma per operation that reaches the queues.  A call that only gets *)
(* or creates a queue:                                                     *)
LEMMA GetOrCreateKeeps ==
    ASSUME IInv, NEW s \in Sids, GetOrCreate(s)
    PROVE  IInv'
<1>1. /\ s \notin Registered /\ Creates(s) /\ UNCHANGED held /\ UNCHANGED items
      /\ bytes' = [bytes EXCEPT ![s] = 0]
  BY DEF GetOrCreate
<1>2. TypeOK'
  BY <1>1, CreatesKeeps DEF IInv, TypeOK
<1>3. Unmade'
  BY <1>1, CreatesKeeps DEF IInv, Unmade
<1>4. bytes'[s] = 0 /\ BytesIn(queues[s])' = 0
  BY <1>1, CreatesKeeps, TotalEmpty DEF IInv, TypeOK, BytesIn
<1>5. \A t \in Registered' \ {s} :
          /\ t \in Registered /\ queues'[t] = queues[t] /\ bytes'[t] = bytes[t]
          /\ t \in strayed => t \in strayed'
  BY <1>1, CreatesKeeps DEF IInv, TypeOK, Registered
<1>6. NeverOvercounts' /\ ExactUnlessStrayed'
  BY <1>1, <1>4, <1>5, OthersCount, FlowAssumption
<1> QED BY <1>1, <1>2, <1>3, <1>6, CreatesKeeps DEF IInv, Counting

(* A payload is queued, and counted.                                       *)
LEMMA EnqueueKeeps ==
    ASSUME IInv, NEW s \in Sids, NEW n \in Lengths, Enqueue(s, n)
    PROVE  IInv'
<1> DEFINE q == queues'[s]
<1>1. /\ Count(s) + n <= MaxBytes
      /\ items' = [items EXCEPT ![q] = Append(@, n)]
      /\ bytes' = [bytes EXCEPT ![s] = Count(s) + n]
      /\ held' = held
  BY DEF Enqueue, Fits
<1>n. n \in Nat /\ Count(s) \in Nat /\ MaxBytes \in Nat
  BY FlowAssumption DEF IInv, TypeOK, Count
<1>2. CASE s \in Registered /\ UNCHANGED <<made, queues, counted, strayed>>
  <2>1. q = queues[s] /\ q \in Queues /\ q \in 1 .. made
    BY <1>2, HasQueue DEF IInv
  <2>2. TypeOK'
    BY <1>1, <1>n, <1>2, <2>1 DEF IInv, TypeOK
  <2>3. Distinct' /\ Holding' /\ ReleasesCounts' /\ Registered' = Registered
    BY <1>1, <1>2 DEF IInv, Distinct, Holding, Counting, ReleasesCounts, Registered
  <2>4. Unmade'
    <3>1. ASSUME NEW x \in Queues, x > made
          PROVE  items'[x] = <<>>
      <4>1. x # q
        BY <2>1, <3>1, FlowAssumption DEF IInv, TypeOK, Queues
      <4> QED BY <1>1, <3>1, <4>1 DEF IInv, Unmade, TypeOK
    <3> QED BY <1>2, <3>1 DEF Unmade
  <2>5. /\ Total(items'[q]) = BytesIn(q) + n /\ BytesIn(q) \in Nat
        /\ bytes'[s] = bytes[s] + n /\ bytes[s] \in Nat
    <3>1. items'[q] = Append(items[q], n) /\ items[q] \in Seq(Nat)
      BY <1>1, <2>1, Payloads DEF IInv, TypeOK
    <3>2. bytes'[s] = bytes[s] + n /\ bytes[s] \in Nat
      BY <1>1, <1>2 DEF IInv, TypeOK, Count
    <3> QED BY <1>n, <3>1, <3>2, TotalAppend DEF BytesIn
  <2>6. \A t \in Registered' \ {s} :
            /\ t \in Registered /\ queues'[t] = queues[t] /\ bytes'[t] = bytes[t]
            /\ items'[queues[t]] = items[queues[t]]
            /\ t \in strayed => t \in strayed'
    BY <1>1, <1>2, <2>1, <2>3, HasQueue DEF IInv, TypeOK, Distinct, Registered
  <2>7. /\ bytes[s] <= BytesIn(q)
        /\ s \notin strayed => bytes[s] = BytesIn(q)
        /\ bytes[s] + n <= MaxBytes
    BY <1>1, <1>2, <2>1 DEF IInv, Counting, NeverOvercounts, ExactUnlessStrayed, Count
  <2>8. BytesIn(queues[s])' = Total(items'[q])
    BY DEF BytesIn
  <2>9. /\ bytes'[s] <= BytesIn(queues[s])'
        /\ s \notin strayed' => /\ bytes'[s] = BytesIn(queues[s])'
                                /\ BytesIn(queues[s])' <= MaxBytes
    BY <1>n, <1>2, <2>5, <2>7, <2>8
  <2>10. NeverOvercounts' /\ ExactUnlessStrayed'
    BY <2>6, <2>9, OthersCount
  <2> QED BY <2>2, <2>3, <2>4, <2>10 DEF IInv, Counting
<1>3. CASE s \notin Registered /\ Creates(s)
  <2>1. q = made' /\ q \in Queues /\ items[q] = <<>>
    BY <1>1, <1>3, CreatesKeeps
  <2>2. TypeOK'
    BY <1>1, <1>n, <1>3, <2>1, CreatesKeeps DEF IInv, TypeOK
  <2>4. Unmade'
    BY <1>1, <1>3, <2>1, CreatesKeeps DEF IInv, Unmade, TypeOK
  <2>5. BytesIn(queues[s])' = n /\ bytes'[s] = n /\ n <= MaxBytes
    <3>1. items'[q] = Append(<<>>, n) /\ <<>> \in Seq(Nat)
      BY <1>1, <2>1 DEF IInv, TypeOK
    <3>2. bytes'[s] = 0 + n /\ Count(s) = 0
      BY <1>1, <1>3 DEF IInv, TypeOK, Count
    <3>3. BytesIn(queues[s])' = Total(items'[q])
      BY DEF BytesIn
    <3>4. Total(items'[q]) = n
      BY <1>n, <3>1, TotalOne
    <3>5. n <= MaxBytes
      BY <1>1, <1>n, <3>2
    <3> QED BY <1>n, <3>2, <3>3, <3>4, <3>5
  <2>6. \A t \in Registered' \ {s} :
            /\ t \in Registered /\ queues'[t] = queues[t] /\ bytes'[t] = bytes[t]
            /\ items'[queues[t]] = items[queues[t]]
            /\ t \in strayed => t \in strayed'
    <3> SUFFICES ASSUME NEW t \in Registered' \ {s}
                 PROVE  /\ t \in Registered /\ queues'[t] = queues[t] /\ bytes'[t] = bytes[t]
                        /\ items'[queues[t]] = items[queues[t]]
                        /\ t \in strayed => t \in strayed'
      OBVIOUS
    <3>1. /\ t \in Registered /\ queues'[t] = queues[t] /\ queues[t] # q
          /\ t \in strayed => t \in strayed'
      BY <1>1, <1>3, <2>1, CreatesKeeps
    <3> QED BY <1>1, <3>1, HasQueue DEF IInv, TypeOK
  <2>7. NeverOvercounts' /\ ExactUnlessStrayed'
    BY <1>n, <2>5, <2>6, OthersCount
  <2> QED BY <1>1, <1>3, <2>2, <2>4, <2>7, CreatesKeeps DEF IInv, Counting
<1> QED BY <1>2, <1>3 DEF Enqueue

(* A payload is refused.  The queue of a new session stays.                *)
LEMMA DropKeeps ==
    ASSUME IInv, NEW s \in Sids, NEW n \in Lengths, Drop(s, n)
    PROVE  IInv'
<1>1. UNCHANGED <<items, held>>
  BY DEF Drop
<1>2. CASE UNCHANGED <<made, queues, counted, bytes, strayed>>
  BY <1>1, <1>2 DEF IInv, TypeOK, Distinct, Holding, Unmade, Counting, NeverOvercounts,
                    ExactUnlessStrayed, ReleasesCounts, Registered, BytesIn
<1>3. CASE s \notin Registered /\ Creates(s) /\ bytes' = [bytes EXCEPT ![s] = 0]
  <2>1. GetOrCreate(s)
    BY <1>1, <1>3 DEF GetOrCreate
  <2> QED BY <2>1, GetOrCreateKeeps
<1> QED BY <1>2, <1>3 DEF Drop

-----------------------------------------------------------------------------
(* A payload of queue q is taken for session s, which no other session     *)
(* than s can be affected by.                                              *)
LEMMA TakesKeeps ==
    ASSUME IInv, NEW s \in Sids, NEW q \in Queues, q \in 1 .. made, Takes(s, q),
           \A t \in Sids : queues[t] = q => t = s,
           UNCHANGED <<made, queues>>
    PROVE  /\ items' \in [Queues -> Seq(Lengths)] /\ bytes' \in [Sids -> Nat]
           /\ counted' \in SUBSET Sids /\ strayed' \in SUBSET Sids
           /\ Distinct' /\ Unmade' /\ Counting'
<1>1. /\ items[q] # <<>> /\ items[q] \in Seq(Lengths) /\ items[q] \in Seq(Nat)
      /\ items' = [items EXCEPT ![q] = Tail(@)]
      /\ counted' = counted \cup {s}
      /\ bytes' = [bytes EXCEPT ![s] = LessBytes(@, Head(items[q]))]
      /\ strayed' = IF queues[s] = q THEN strayed ELSE strayed \cup {s}
      /\ Head(items[q]) \in Nat /\ bytes[s] \in Nat
  BY Payloads DEF Takes, IInv, TypeOK
<1>2. /\ Total(items'[q]) \in Nat /\ items'[q] = Tail(items[q])
      /\ BytesIn(q) = Total(items'[q]) + Head(items[q])
  BY <1>1, TotalTail DEF IInv, TypeOK, BytesIn
<1>3. /\ bytes'[s] \in Nat
      /\ bytes[s] <= BytesIn(q) => bytes'[s] <= Total(items'[q])
      /\ bytes[s] = BytesIn(q) => bytes'[s] = Total(items'[q])
  <2>1. bytes'[s] = LessBytes(bytes[s], Head(items[q]))
    BY <1>1 DEF IInv, TypeOK
  <2> QED BY <1>1, <1>2, <2>1 DEF LessBytes
<1>4. /\ items' \in [Queues -> Seq(Lengths)] /\ bytes' \in [Sids -> Nat]
      /\ counted' \in SUBSET Sids /\ strayed' \in SUBSET Sids
  <2>1. bytes' = [bytes EXCEPT ![s] = bytes'[s]]
    BY <1>1 DEF IInv, TypeOK
  <2>2. bytes' \in [Sids -> Nat]
    BY <1>3, <2>1 DEF IInv, TypeOK
  <2> QED BY <1>1, <2>2 DEF IInv, TypeOK
<1>5. Distinct'
  BY DEF IInv, Distinct
<1>6. Unmade'
  <2>1. ASSUME NEW x \in Queues, x > made
        PROVE  items'[x] = <<>>
    <3>1. x # q
      BY <2>1, FlowAssumption DEF IInv, TypeOK, Queues
    <3> QED BY <1>1, <2>1, <3>1 DEF IInv, Unmade, TypeOK
  <2> QED BY <2>1 DEF Unmade
<1>7. ReleasesCounts'
  <2>1. queues[s] = q => s \in Registered
    BY FlowAssumption DEF IInv, TypeOK, Registered
  <2> QED BY <1>1, <2>1 DEF IInv, Counting, ReleasesCounts, Registered
<1>8. \A t \in Registered' \ {s} :
          /\ t \in Registered /\ queues'[t] = queues[t] /\ bytes'[t] = bytes[t]
          /\ items'[queues[t]] = items[queues[t]]
          /\ t \in strayed => t \in strayed'
  BY <1>1, HasQueue DEF IInv, TypeOK, Registered
<1>9. ASSUME s \in Registered'
      PROVE  /\ bytes'[s] <= BytesIn(queues[s])'
             /\ s \notin strayed' => /\ bytes'[s] = BytesIn(queues[s])'
                                     /\ BytesIn(queues[s])' <= MaxBytes
  <2>0. s \in Registered /\ BytesIn(queues[s])' = Total(items'[queues[s]])
    BY <1>9 DEF Registered, BytesIn
  <2>1. CASE queues[s] = q
    <3>1. /\ bytes[s] <= BytesIn(q)
          /\ s \notin strayed => bytes[s] = BytesIn(q) /\ BytesIn(q) <= MaxBytes
      BY <2>0, <2>1 DEF IInv, Counting, NeverOvercounts, ExactUnlessStrayed
    <3>2. strayed' = strayed /\ MaxBytes \in Nat
      BY <1>1, <2>1, FlowAssumption
    <3> QED BY <1>1, <1>2, <1>3, <2>0, <2>1, <3>1, <3>2
  <2>2. CASE queues[s] # q
    <3>1. s \in strayed' /\ items'[queues[s]] = items[queues[s]]
      BY <1>1, <2>0, <2>2, HasQueue DEF IInv, TypeOK
    <3>2. bytes[s] <= BytesIn(queues[s]) /\ BytesIn(queues[s]) \in Nat
      BY <2>0, HasQueue, Payloads DEF IInv, Counting, NeverOvercounts
    <3>3. bytes'[s] <= bytes[s]
      BY <1>1 DEF IInv, TypeOK, LessBytes
    <3> QED BY <1>1, <1>3, <2>0, <3>1, <3>2, <3>3 DEF BytesIn
  <2> QED BY <2>1, <2>2
<1>10. NeverOvercounts' /\ ExactUnlessStrayed'
  BY <1>8, <1>9, OthersCount
<1> QED BY <1>4, <1>5, <1>6, <1>7, <1>10 DEF Counting

(* dequeue() takes a payload at once, or starts to wait.                   *)
LEMMA DequeueKeeps ==
    ASSUME IInv, NEW k \in Tasks, NEW s \in Sids, Dequeue(k, s)
    PROVE  IInv'
<1> DEFINE q == queues[s]
<1>1. s \in Registered /\ q \in Queues /\ q \in 1 .. made /\ UNCHANGED <<made, queues>>
  BY HasQueue DEF Dequeue, IInv
<1>2. \A t \in Sids : queues[t] = q => t = s
  BY <1>1 DEF IInv, Distinct, Registered
<1>3. CASE Takes(s, q) /\ UNCHANGED held
  BY <1>1, <1>2, <1>3, TakesKeeps DEF IInv, TypeOK, Holding
<1>4. CASE /\ held' = [held EXCEPT ![k] = [sid |-> s, q |-> q]]
           /\ UNCHANGED <<items, counted, bytes, strayed>>
  <2>1. TypeOK'
    BY <1>1, <1>4 DEF IInv, TypeOK
  <2>2. Holding'
    BY <1>1, <1>2, <1>4 DEF IInv, TypeOK, Holding, Registered
  <2>3. Distinct' /\ Unmade' /\ Counting'
    BY <1>1, <1>4 DEF IInv, Distinct, Unmade, Counting, NeverOvercounts,
                      ExactUnlessStrayed, ReleasesCounts, Registered, BytesIn
  <2> QED BY <2>1, <2>2, <2>3 DEF IInv
<1> QED BY <1>3, <1>4 DEF Dequeue

(* It gets one after it has waited, perhaps off a queue that is forgotten. *)
LEMMA ResumesKeeps ==
    ASSUME IInv, NEW k \in Tasks, Resumes(k)
    PROVE  IInv'
<1> DEFINE s == held[k].sid
           q == held[k].q
<1>1. /\ s \in Sids /\ q \in Queues /\ q \in 1 .. made
      /\ \A t \in Sids : queues[t] = q => t = s
  BY FlowAssumption DEF Resumes, IInv, TypeOK, Holding, Queues
<1>2. Takes(s, q) /\ UNCHANGED <<made, queues>> /\ held' = [held EXCEPT ![k] = Idle]
  BY DEF Resumes
<1>3. held' \in [Tasks -> [sid : Sids, q : 0 .. made]]
  BY <1>2, IdleTyped, FlowAssumption DEF IInv, TypeOK
<1>4. Holding'
  BY <1>2 DEF IInv, TypeOK, Holding
<1> HIDE DEF s, q
<1> QED BY <1>1, <1>2, <1>3, <1>4, TakesKeeps DEF IInv, TypeOK

(* It is cancelled while it waits.                                         *)
LEMMA CancelledKeeps ==
    ASSUME IInv, NEW k \in Tasks, Cancelled(k)
    PROVE  IInv'
<1>1. /\ held' = [held EXCEPT ![k] = Idle]
      /\ UNCHANGED <<made, queues, counted, bytes, items, strayed>>
  BY DEF Cancelled
<1>2. TypeOK'
  BY <1>1, IdleTyped, FlowAssumption DEF IInv, TypeOK
<1>3. Holding'
  BY <1>1 DEF IInv, TypeOK, Holding
<1>4. Distinct' /\ Unmade' /\ Counting'
  BY <1>1 DEF IInv, Distinct, Unmade, Counting, NeverOvercounts, ExactUnlessStrayed,
              ReleasesCounts, Registered, BytesIn
<1> QED BY <1>2, <1>3, <1>4 DEF IInv

(* remove_session() and clear(): entries and counts go, the queues stay    *)
(* with those who wait on them.                                            *)
LEMMA ForgetsKeeps ==
    ASSUME IInv, NEW S \in SUBSET Sids, Forgets(S)
    PROVE  IInv'
<1>1. /\ queues' = [s \in Sids |-> IF s \in S THEN 0 ELSE queues[s]]
      /\ counted' = counted \ S
      /\ bytes' = [s \in Sids |-> IF s \in S THEN 0 ELSE bytes[s]]
      /\ strayed' = strayed \ S
      /\ UNCHANGED <<made, items, held>>
  BY DEF Forgets
<1>2. TypeOK'
  BY <1>1 DEF IInv, TypeOK
<1>3. \A s \in Registered' : /\ s \in Registered \ S /\ queues'[s] = queues[s]
                             /\ bytes'[s] = bytes[s]
                             /\ BytesIn(queues[s])' = BytesIn(queues[s])
  BY <1>1 DEF Registered, BytesIn
<1>4. Registered' = Registered \ S
  BY <1>1 DEF Registered
<1>5. Distinct' /\ Holding' /\ Unmade'
  BY <1>1 DEF IInv, Distinct, Holding, Unmade
<1>6. Counting'
  BY <1>1, <1>3, <1>4 DEF IInv, Counting, NeverOvercounts, ExactUnlessStrayed, ReleasesCounts
<1> QED BY <1>2, <1>5, <1>6 DEF IInv

(* Every step of the specification.                                        *)
LEMMA StepKeepsIInv == IInv /\ [Next]_vars => IInv'
<1> SUFFICES ASSUME IInv, [Next]_vars
             PROVE  IInv'
  OBVIOUS
<1>1. CASE Clear
  BY <1>1, ForgetsKeeps DEF Clear
<1>2. CASE \E s \in Sids : GetOrCreate(s) \/ RemoveSession(s)
  BY <1>2, GetOrCreateKeeps, ForgetsKeeps DEF RemoveSession
<1>3. CASE \E s \in Sids : \E n \in Lengths : Enqueue(s, n) \/ Drop(s, n)
  BY <1>3, EnqueueKeeps, DropKeeps
<1>4. CASE \E s \in Sids : \E k \in Tasks : Dequeue(k, s)
  BY <1>4, DequeueKeeps
<1>5. CASE \E k \in Tasks : Resumes(k) \/ Cancelled(k)
  BY <1>5, ResumesKeeps, CancelledKeeps
<1>6. CASE UNCHANGED vars
  BY <1>6 DEF vars, IInv, TypeOK, Distinct, Holding, Unmade, Counting, NeverOvercounts,
              ExactUnlessStrayed, ReleasesCounts, Registered, BytesIn
<1> QED BY <1>1, <1>2, <1>3, <1>4, <1>5, <1>6 DEF Next

(* The invariant holds in every reachable state.                           *)
THEOREM Invariance == Spec => []IInv
BY InitIInv, StepKeepsIInv, PTL DEF Spec

(* The maps, the counts and the waiting tasks keep their types: no count   *)
(* of SessionFlowControl is ever negative.                                 *)
THEOREM TypeCorrect == Spec => []TypeOK
<1>1. IInv => TypeOK
  BY DEF IInv
<1> QED BY <1>1, Invariance, PTL

(* The count of a session never exceeds the bytes in its queue, whatever   *)
(* the dequeue() calls that waited across a removal: enqueue() refuses no  *)
(* payload that there is room for.                                         *)
THEOREM Undercounts == Spec => []NeverOvercounts
<1>1. IInv => NeverOvercounts
  BY DEF IInv, Counting
<1> QED BY <1>1, Invariance, PTL

(* The count is exact, and the queue within max_queue_bytes, for every     *)
(* session no payload of an older queue was taken for.                     *)
THEOREM CountsExactly == Spec => []ExactUnlessStrayed
<1>1. IInv => ExactUnlessStrayed
  BY DEF IInv, Counting
<1> QED BY <1>1, Invariance, PTL

(* remove_session() and clear() leave no count behind, except where a      *)
(* dequeue() of the removed queue makes one afterwards.                    *)
THEOREM CountsReleased == Spec => []ReleasesCounts
<1>1. IInv => ReleasesCounts
  BY DEF IInv, Counting
<1> QED BY <1>1, Invariance, PTL
=============================================================================
