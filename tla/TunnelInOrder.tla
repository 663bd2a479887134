----------------------------- MODULE TunnelInOrder -----------------------------
(***************************************************************************)
(* Each side gets a prefix of what the other wrote, in order, without gaps *)
(* or repetitions: InOrder, for every number of clients, connections and   *)
(* faults.                                                                 *)
(*                                                                         *)
(* What a side has received says nothing of what it receives next; the     *)
(* invariant says where the next piece is.  As long as a session can still *)
(* receive, the pieces under its id in the channel continue what was       *)
(* received (Follows), up to what the sender has read (UpTo).              *)
(***************************************************************************)
EXTENDS TunnelProofs

(* The pieces of session s in a channel, after k pieces were received, are *)
(* the k + 1st, the k + 2nd and so on, in this order.                      *)
IsData(f, s) == f.type = "DATA" /\ f.sid = s
Follows(ch, s, k) ==
    \A i \in 1 .. Len(ch) : IsData(ch[i], s) =>
        /\ \A j \in 1 .. (i - 1) : IsData(ch[j], s) => ch[j].data.n < ch[i].data.n
        /\ \/ ch[i].data.n = k + 1
           \/ \E j \in 1 .. (i - 1) : IsData(ch[j], s) /\ ch[i].data.n = ch[j].data.n + 1

(* The last of them is the m-th; if there is none, m is k. *)
UpTo(ch, s, k, m) ==
    /\ \A i \in 1 .. Len(ch) : IsData(ch[i], s) => ch[i].data.n <= m
    /\ m = k \/ \E i \in 1 .. Len(ch) : IsData(ch[i], s) /\ ch[i].data.n = m

Numbered(q) == \A i \in 1 .. Len(q) : q[i].n = i

(* Session s was asked for on connection e.                                *)
Home(e, s) == peer[<<e, s>>] # NoClient \/ Sent(b2a[e], "CONNECT", s)

(* The agent can still pass pieces of the session on to usbmuxd.           *)
UpLive(e, s) ==
    \/ Sent(b2a[e], "CONNECT", s)
    \/ At(e, "open") /\ acur[e] = s
    \/ s \in sessions[e] /\ ut[<<e, s>>] = "open"

(* The bridge writes to connection e, and it is not lost. *)
Wired(e) == agentWriter = e /\ link[e] = "up"

UpOrder(e, s) ==
    /\ Numbered(toUx[<<e, s>>])
    /\ UpLive(e, s) =>
          /\ Follows(b2a[e], s, Len(toUx[<<e, s>>]))
          /\ Wired(e) => \A c \in Clients : sid[c] = s =>
                            UpTo(b2a[e], s, Len(toUx[<<e, s>>]), upRead[c])

(* The bridge can still pass pieces of connection e on to the client.      *)
DownLive(e, c) ==
    /\ sid[c] # 0 /\ localClients[sid[c]] = c
    /\ lt[c] = "open" /\ agentWriter = e /\ Home(e, sid[c])

DownOrder(e, c) ==
    DownLive(e, c) =>
        /\ Follows(a2b[e], sid[c], Len(toLocal[c]))
        /\ link[e] = "up" =>
              UpTo(a2b[e], sid[c], Len(toLocal[c]), relayRead[<<e, sid[c]>>])

(* A session's CONNECT comes before its data. *)
ConnectsFirst(ch) ==
    \A i, j \in 1 .. Len(ch) :
        (/\ i # j /\ ch[i].type = "CONNECT"
         /\ ch[j].type \in {"CONNECT", "DATA"} /\ ch[j].sid = ch[i].sid) => i < j

(* Data comes back only on a link that was opened. *)
Answered == \A e \in Conns, s \in Sids : Sent(a2b[e], "DATA", s) => peer[<<e, s>>] # NoClient

(* Nothing was received or read before the handler, the relay started.     *)
Fresh ==
    \A c \in Clients :
        hpc[c] \in {"none", "accepted"} => upRead[c] = 0 /\ toLocal[c] = <<>>
UntouchedLink(l) ==
    rpc[l] = "none" =>
        /\ ut[l] = "none" /\ l[2] \notin sessions[l[1]]
        /\ toUx[l] = <<>> /\ relayRead[l] = 0 /\ downSent[l] = 0
Untouched == \A l \in Links : UntouchedLink(l)

(* No session was asked for on a connection that was not made yet.         *)
NewConns ==
    /\ agentWriter <= connCount
    /\ \A e \in Conns, s \in Sids : e > connCount => ~Home(e, s)

Starts == Fresh /\ Untouched /\ NewConns /\ Answered /\ \A e \in Conns : ConnectsFirst(b2a[e])
Order ==
    /\ \A e \in Conns, s \in Sids : UpOrder(e, s)
    /\ \A e \in Conns, c \in Clients : DownOrder(e, c)
    /\ \A c \in Clients : Numbered(toLocal[c])

-----------------------------------------------------------------------------
(* Sequences *)

(* A channel's pieces of session s stay what they were. *)
SameRun(old, new, s) ==
    \/ new = old
    \/ \E f : ~IsData(f, s) /\ new = Append(old, f)
    \/ old # <<>> /\ ~IsData(Head(old), s) /\ new = Tail(old)

LEMMA AppendFollows ==
    ASSUME NEW F, NEW ch \in Seq(F), NEW f, NEW s, NEW k,
           Follows(ch, s, k), ~IsData(f, s)
    PROVE  /\ Follows(Append(ch, f), s, k)
           /\ \A m : UpTo(ch, s, k, m) => UpTo(Append(ch, f), s, k, m)
<1>1. /\ Len(Append(ch, f)) = Len(ch) + 1 /\ Len(ch) \in Nat
      /\ \A i \in 1 .. Len(ch) : Append(ch, f)[i] = ch[i]
      /\ Append(ch, f)[Len(ch) + 1] = f
  OBVIOUS
<1>2. \A i \in 1 .. Len(Append(ch, f)) : IsData(Append(ch, f)[i], s) => i \in 1 .. Len(ch)
  BY <1>1
<1>3. Follows(Append(ch, f), s, k)
  <2> SUFFICES ASSUME NEW i \in 1 .. Len(ch), IsData(ch[i], s)
               PROVE  /\ \A j \in 1 .. (i - 1) : IsData(Append(ch, f)[j], s)
                            => Append(ch, f)[j].data.n < ch[i].data.n
                      /\ \/ ch[i].data.n = k + 1
                         \/ \E j \in 1 .. (i - 1) : IsData(Append(ch, f)[j], s)
                               /\ ch[i].data.n = Append(ch, f)[j].data.n + 1
    BY <1>1, <1>2 DEF Follows
  <2>1. \A j \in 1 .. (i - 1) : Append(ch, f)[j] = ch[j]
    BY <1>1
  <2> QED BY <2>1 DEF Follows
<1>4. ASSUME NEW m, UpTo(ch, s, k, m)
      PROVE  UpTo(Append(ch, f), s, k, m)
  BY <1>1, <1>2, <1>4 DEF UpTo
<1> QED BY <1>3, <1>4

LEMMA TailFollows ==
    ASSUME NEW F, NEW ch \in Seq(F), ch # <<>>, NEW s, NEW k,
           Follows(ch, s, k), ~IsData(Head(ch), s)
    PROVE  /\ Follows(Tail(ch), s, k)
           /\ \A m : UpTo(ch, s, k, m) => UpTo(Tail(ch), s, k, m)
<1>1. /\ Len(Tail(ch)) = Len(ch) - 1 /\ Len(ch) \in Nat /\ Len(ch) >= 1
      /\ \A i \in 1 .. (Len(ch) - 1) : Tail(ch)[i] = ch[i + 1]
      /\ Head(ch) = ch[1]
  OBVIOUS
<1>2. \A i \in 1 .. Len(ch) : IsData(ch[i], s) => i - 1 \in 1 .. Len(Tail(ch))
  BY <1>1
<1>3. Follows(Tail(ch), s, k)
  <2> SUFFICES ASSUME NEW i \in 1 .. (Len(ch) - 1), IsData(ch[i + 1], s)
               PROVE  /\ \A j \in 1 .. (i - 1) : IsData(ch[j + 1], s)
                            => ch[j + 1].data.n < ch[i + 1].data.n
                      /\ \/ ch[i + 1].data.n = k + 1
                         \/ \E j \in 1 .. (i - 1) : IsData(ch[j + 1], s)
                               /\ ch[i + 1].data.n = ch[j + 1].data.n + 1
    BY <1>1 DEF Follows
  <2>1. i + 1 \in 1 .. Len(ch)
    BY <1>1
  <2>2. \A j \in 1 .. (i - 1) : IsData(ch[j + 1], s) => ch[j + 1].data.n < ch[i + 1].data.n
    BY <1>1, <2>1 DEF Follows
  <2>3. ASSUME NEW j \in 1 .. i, IsData(ch[j], s), ch[i + 1].data.n = ch[j].data.n + 1
        PROVE  \E x \in 1 .. (i - 1) : IsData(ch[x + 1], s)
                  /\ ch[i + 1].data.n = ch[x + 1].data.n + 1
    <3>1. j # 1
      BY <1>1, <2>3
    <3>2. j - 1 \in 1 .. (i - 1) /\ (j - 1) + 1 = j
      BY <3>1
    <3> QED BY <2>3, <3>2
  <2> QED BY <2>1, <2>2, <2>3 DEF Follows
<1>4. ASSUME NEW m, UpTo(ch, s, k, m)
      PROVE  UpTo(Tail(ch), s, k, m)
  <2>1. \A i \in 1 .. Len(Tail(ch)) : IsData(Tail(ch)[i], s) => Tail(ch)[i].data.n <= m
    BY <1>1, <1>4 DEF UpTo
  <2>2. ASSUME NEW i \in 1 .. Len(ch), IsData(ch[i], s), ch[i].data.n = m
        PROVE  \E x \in 1 .. Len(Tail(ch)) : IsData(Tail(ch)[x], s) /\ Tail(ch)[x].data.n = m
    <3>1. i - 1 \in 1 .. Len(Tail(ch)) /\ Tail(ch)[i - 1] = ch[i]
      BY <1>1, <1>2, <2>2
    <3> QED BY <2>2, <3>1
  <2> QED BY <1>4, <2>1, <2>2 DEF UpTo
<1> QED BY <1>3, <1>4

LEMMA SameRunFollows ==
    ASSUME NEW F, NEW old \in Seq(F), NEW new, NEW s, NEW k,
           SameRun(old, new, s), Follows(old, s, k)
    PROVE  /\ Follows(new, s, k)
           /\ \A m : UpTo(old, s, k, m) => UpTo(new, s, k, m)
BY AppendFollows, TailFollows DEF SameRun

(* The sender adds its next piece. *)
LEMMA NextFollows ==
    ASSUME NEW F, NEW ch \in Seq(F), NEW f, NEW s, NEW k \in Nat, NEW m \in Nat,
           \A i \in 1 .. Len(ch) : IsData(ch[i], s) => ch[i].data.n \in Nat,
           Follows(ch, s, k), UpTo(ch, s, k, m), IsData(f, s), f.data.n = m + 1
    PROVE  /\ Follows(Append(ch, f), s, k)
           /\ UpTo(Append(ch, f), s, k, m + 1)
<1>1. /\ Len(Append(ch, f)) = Len(ch) + 1 /\ Len(ch) \in Nat
      /\ \A i \in 1 .. Len(ch) : Append(ch, f)[i] = ch[i]
      /\ Append(ch, f)[Len(ch) + 1] = f
  OBVIOUS
<1>2. \A i \in 1 .. Len(ch) : IsData(ch[i], s) =>
         /\ \A j \in 1 .. (i - 1) : IsData(Append(ch, f)[j], s)
               => Append(ch, f)[j].data.n < ch[i].data.n
         /\ \/ ch[i].data.n = k + 1
            \/ \E j \in 1 .. (i - 1) : IsData(Append(ch, f)[j], s)
                  /\ ch[i].data.n = Append(ch, f)[j].data.n + 1
  <2> SUFFICES ASSUME NEW i \in 1 .. Len(ch), IsData(ch[i], s)
               PROVE  /\ \A j \in 1 .. (i - 1) : IsData(Append(ch, f)[j], s)
                            => Append(ch, f)[j].data.n < ch[i].data.n
                      /\ \/ ch[i].data.n = k + 1
                         \/ \E j \in 1 .. (i - 1) : IsData(Append(ch, f)[j], s)
                               /\ ch[i].data.n = Append(ch, f)[j].data.n + 1
    OBVIOUS
  <2>1. \A j \in 1 .. (i - 1) : Append(ch, f)[j] = ch[j]
    BY <1>1
  <2> QED BY <2>1 DEF Follows
<1>3. /\ \A j \in 1 .. Len(ch) : IsData(ch[j], s) => ch[j].data.n <= m
      /\ m = k \/ \E j \in 1 .. Len(ch) : IsData(ch[j], s) /\ ch[j].data.n = m
  BY DEF UpTo
<1>4. \A j \in 1 .. Len(ch) : IsData(ch[j], s) => ch[j].data.n < m + 1
  BY <1>3
<1>5. /\ \A j \in 1 .. Len(ch) : IsData(Append(ch, f)[j], s)
               => Append(ch, f)[j].data.n < f.data.n
      /\ \/ f.data.n = k + 1
         \/ \E j \in 1 .. Len(ch) : IsData(Append(ch, f)[j], s)
               /\ f.data.n = Append(ch, f)[j].data.n + 1
  BY <1>1, <1>3, <1>4
<1>6. Follows(Append(ch, f), s, k)
  <2> DEFINE i0 == Len(ch) + 1
  <2>1. \A i \in 1 .. Len(Append(ch, f)) : i \in 1 .. Len(ch) \/ i = i0
    BY <1>1
  <2>2. i0 - 1 = Len(ch)
    BY <1>1
  <2> HIDE DEF i0
  <2> QED BY <1>1, <1>2, <1>5, <2>1, <2>2 DEF Follows, i0
<1>7. UpTo(Append(ch, f), s, k, m + 1)
  BY <1>1, <1>3, <1>4 DEF UpTo
<1> QED BY <1>6, <1>7

(* The receiver takes the first piece: it is the next one.                 *)
LEMMA FirstFollows ==
    ASSUME NEW F, NEW ch \in Seq(F), ch # <<>>, NEW s, NEW k \in Nat,
           \A i \in 1 .. Len(ch) : IsData(ch[i], s) => ch[i].data.n \in Nat,
           Follows(ch, s, k), IsData(Head(ch), s)
    PROVE  /\ Head(ch).data.n = k + 1
           /\ Follows(Tail(ch), s, k + 1)
           /\ \A m : UpTo(ch, s, k, m) => UpTo(Tail(ch), s, k + 1, m)
<1>1. /\ Len(Tail(ch)) = Len(ch) - 1 /\ Len(ch) \in Nat /\ Len(ch) >= 1
      /\ \A i \in 1 .. (Len(ch) - 1) : Tail(ch)[i] = ch[i + 1]
      /\ Head(ch) = ch[1]
  OBVIOUS
<1>2. ch[1].data.n = k + 1
  <2>1. ~(\E j \in 1 .. (1 - 1) : TRUE)
    OBVIOUS
  <2> QED BY <1>1, <2>1 DEF Follows
<1>3. Follows(Tail(ch), s, k + 1)
  <2> SUFFICES ASSUME NEW i \in 1 .. (Len(ch) - 1), IsData(ch[i + 1], s)
               PROVE  /\ \A j \in 1 .. (i - 1) : IsData(ch[j + 1], s)
                            => ch[j + 1].data.n < ch[i + 1].data.n
                      /\ \/ ch[i + 1].data.n = k + 1 + 1
                         \/ \E j \in 1 .. (i - 1) : IsData(ch[j + 1], s)
                               /\ ch[i + 1].data.n = ch[j + 1].data.n + 1
    BY <1>1 DEF Follows
  <2>1. i + 1 \in 1 .. Len(ch) /\ 1 \in 1 .. i
    BY <1>1
  <2>2. \A j \in 1 .. (i - 1) : IsData(ch[j + 1], s) => ch[j + 1].data.n < ch[i + 1].data.n
    BY <1>1, <2>1 DEF Follows
  <2>3. ch[1].data.n < ch[i + 1].data.n
    BY <1>1, <2>1 DEF Follows
  <2>4. PICK j \in 1 .. i : IsData(ch[j], s) /\ ch[i + 1].data.n = ch[j].data.n + 1
    BY <1>2, <2>1, <2>3 DEF Follows
  <2>5. CASE j = 1
    BY <1>2, <2>2, <2>4, <2>5
  <2>6. CASE j # 1
    <3>1. j - 1 \in 1 .. (i - 1) /\ (j - 1) + 1 = j
      BY <2>6
    <3> QED BY <2>2, <2>4, <3>1
  <2> QED BY <2>5, <2>6
<1>4. ASSUME NEW m, UpTo(ch, s, k, m)
      PROVE  UpTo(Tail(ch), s, k + 1, m)
  <2>1. \A i \in 1 .. Len(Tail(ch)) : IsData(Tail(ch)[i], s) => Tail(ch)[i].data.n <= m
    BY <1>1, <1>4 DEF UpTo
  <2>2. 1 \in 1 .. Len(ch) /\ k + 1 <= m
    BY <1>1, <1>2, <1>4 DEF UpTo
  <2>3. PICK i \in 1 .. Len(ch) : IsData(ch[i], s) /\ ch[i].data.n = m
    BY <1>4, <2>2 DEF UpTo
  <2>4. CASE i = 1
    BY <1>2, <2>1, <2>3, <2>4 DEF UpTo
  <2>5. CASE i # 1
    <3>1. i - 1 \in 1 .. Len(Tail(ch)) /\ Tail(ch)[i - 1] = ch[i]
      BY <1>1, <2>5
    <3> QED BY <2>1, <2>3, <3>1 DEF UpTo
  <2> QED BY <2>4, <2>5
<1> QED BY <1>1, <1>2, <1>3, <1>4

LEMMA EmptyFollows == \A s, k : Follows(<<>>, s, k)
BY DEF Follows

(* A channel without pieces of the session. *)
LEMMA NoneFollows ==
    ASSUME NEW F, NEW ch \in Seq(F), NEW s, \A f \in Elems(ch) : ~IsData(f, s), NEW k
    PROVE  Follows(ch, s, k) /\ UpTo(ch, s, k, k)
BY DEF Follows, UpTo, Elems

LEMMA AppendNumbered ==
    ASSUME NEW F, NEW q \in Seq(F), Numbered(q), NEW p, p.n = Len(q) + 1
    PROVE  Numbered(Append(q, p)) /\ Len(Append(q, p)) = Len(q) + 1
BY DEF Numbered

(* CONNECT comes first: the first frame is taken, one that is no CONNECT   *)
(* is added, or the CONNECT of a session that has no frames yet.           *)
LEMMA TailConnectsFirst ==
    ASSUME NEW F, NEW ch \in Seq(F), ch # <<>>, ConnectsFirst(ch)
    PROVE  ConnectsFirst(Tail(ch))
<1>1. /\ Len(Tail(ch)) = Len(ch) - 1 /\ Len(ch) \in Nat /\ Len(ch) >= 1
      /\ \A i \in 1 .. (Len(ch) - 1) : Tail(ch)[i] = ch[i + 1]
  OBVIOUS
<1> SUFFICES ASSUME NEW i \in 1 .. (Len(ch) - 1), NEW j \in 1 .. (Len(ch) - 1),
                    i # j, ch[i + 1].type = "CONNECT",
                    ch[j + 1].type \in {"CONNECT", "DATA"}, ch[j + 1].sid = ch[i + 1].sid
             PROVE  i < j
  BY <1>1 DEF ConnectsFirst
<1>2. i + 1 \in 1 .. Len(ch) /\ j + 1 \in 1 .. Len(ch) /\ i + 1 # j + 1
  BY <1>1
<1>3. i + 1 < j + 1
  BY <1>2 DEF ConnectsFirst
<1> QED BY <1>3

LEMMA AppendConnectsFirst ==
    ASSUME NEW F, NEW ch \in Seq(F), ConnectsFirst(ch), NEW f,
           f.type = "CONNECT" => \A g \in Elems(ch) :
                                    ~(g.type \in {"CONNECT", "DATA"} /\ g.sid = f.sid)
    PROVE  ConnectsFirst(Append(ch, f))
<1>1. /\ Len(Append(ch, f)) = Len(ch) + 1 /\ Len(ch) \in Nat
      /\ \A i \in 1 .. Len(ch) : Append(ch, f)[i] = ch[i]
      /\ Append(ch, f)[Len(ch) + 1] = f
  OBVIOUS
<1>2. \A i \in 1 .. Len(ch) : ch[i] \in Elems(ch)
  BY DEF Elems
<1> QED BY <1>1, <1>2 DEF ConnectsFirst

(* So data at the head means that no CONNECT of its session is to come.    *)
LEMMA DataAfterConnect ==
    ASSUME NEW F, NEW ch \in Seq(F), ch # <<>>, ConnectsFirst(ch), Head(ch).type = "DATA"
    PROVE  ~Sent(ch, "CONNECT", Head(ch).sid)
<1>1. Len(ch) \in Nat /\ Len(ch) >= 1 /\ Head(ch) = ch[1]
  OBVIOUS
<1> SUFFICES ASSUME NEW i \in 1 .. Len(ch), ch[i].type = "CONNECT", ch[i].sid = ch[1].sid
             PROVE  FALSE
  BY <1>1 DEF Sent, Elems
<1>2. i # 1
  BY <1>1
<1>3. i < 1
  BY <1>1, <1>2 DEF ConnectsFirst
<1> QED BY <1>3

-----------------------------------------------------------------------------
(* From the bridge to the agent *)

(* A step that is not about session s on connection e.                     *)
UpRest(e, s) ==
    /\ UpLive(e, s)' => UpLive(e, s)
    /\ toUx'[<<e, s>>] = toUx[<<e, s>>]
    /\ \/ /\ SameRun(b2a[e], b2a'[e], s)
          /\ Wired(e)' => /\ Wired(e)
                          /\ \A c \in Clients : sid'[c] = s =>
                                sid[c] = s /\ upRead'[c] = upRead[c]
       \/ b2a'[e] = <<>> /\ ~Wired(e)'

LEMMA UpRestKeeps ==
    ASSUME WireTypeOK, NEW e \in Conns, NEW s \in Sids, UpOrder(e, s), UpRest(e, s)
    PROVE  UpOrder(e, s)'
<1>1. b2a[e] \in Seq(UpFrame)
  BY DEF WireTypeOK
<1>2. CASE b2a'[e] = <<>> /\ ~Wired(e)'
  BY <1>2, EmptyFollows DEF UpOrder, UpRest
<1>3. CASE /\ SameRun(b2a[e], b2a'[e], s)
           /\ Wired(e)' => /\ Wired(e)
                           /\ \A c \in Clients : sid'[c] = s =>
                                 sid[c] = s /\ upRead'[c] = upRead[c]
  <2> SUFFICES ASSUME UpLive(e, s)'
               PROVE  /\ Follows(b2a'[e], s, Len(toUx[<<e, s>>]))
                      /\ Wired(e)' => \A c \in Clients : sid'[c] = s =>
                            UpTo(b2a'[e], s, Len(toUx[<<e, s>>]), upRead'[c])
    BY DEF UpOrder, UpRest
  <2>1. UpLive(e, s) /\ Follows(b2a[e], s, Len(toUx[<<e, s>>]))
    BY DEF UpOrder, UpRest
  <2>2. /\ Follows(b2a'[e], s, Len(toUx[<<e, s>>]))
        /\ \A m : UpTo(b2a[e], s, Len(toUx[<<e, s>>]), m)
                  => UpTo(b2a'[e], s, Len(toUx[<<e, s>>]), m)
    BY <1>1, <1>3, <2>1, SameRunFollows
  <2> QED BY <1>3, <2>1, <2>2 DEF UpOrder
<1> QED BY <1>2, <1>3 DEF UpRest

(* What can still be passed on was asked for. *)
LEMMA LiveIsHome ==
    ASSUME IInv, NEW e \in Conns, NEW s \in Sids, UpLive(e, s)
    PROVE  Home(e, s)
BY DEF IInv, Opened, Alive, UpLive, Home

LEMMA IdsBelow ==
    ASSUME IInv
    PROVE  \A c \in Clients : sid[c] \in 0 .. (nextId - 1)
<1> SUFFICES ASSUME NEW c \in Clients PROVE sid[c] \in 0 .. (nextId - 1)
  OBVIOUS
<1>1. nextId \in Nat /\ nextId >= 1
  BY DEF IInv, TypeOK, BridgeTypeOK
<1>2. CASE hpc[c] \in {"none", "accepted"}
  BY <1>1, <1>2 DEF IInv, Started
<1>3. CASE hpc[c] \notin {"none", "accepted"}
  BY <1>1, <1>3 DEF IInv, Started
<1> QED BY <1>2, <1>3

(* Nobody has asked for a session under an id that was not given out.      *)
LEMMA NoHomeYet ==
    ASSUME IInv, NEW e \in Conns, NEW s \in Sids, s >= nextId
    PROVE  /\ ~Home(e, s)
           /\ \A f \in Elems(b2a[e]) \cup Elems(a2b[e]) :
                 f.type \in {"CONNECT", "DATA"} => f.sid # s
<1>1. \A c \in Clients : sid[c] # s
  <2>1. nextId \in Nat /\ s \in Nat
    BY DEF IInv, TypeOK, BridgeTypeOK, Sids
  <2>2. \A c \in Clients : sid[c] \in 0 .. (nextId - 1)
    BY IdsBelow
  <2>3. s \notin 0 .. (nextId - 1)
    BY <2>1
  <2> QED BY <2>2, <2>3
<1>2. \A f \in Elems(b2a[e]) \cup Elems(a2b[e]) :
         f.type \in {"CONNECT", "DATA"} => f.sid # s
  <2> SUFFICES ASSUME NEW f \in Elems(b2a[e]) \cup Elems(a2b[e]),
                      f.type \in {"CONNECT", "DATA"}
               PROVE  f.sid # s
    OBVIOUS
  <2>1. f.data \in Piece /\ sid[f.data.client] = f.sid
    BY TrueFrames, UpFields, DownFields DEF True, DownFrame, ControlFrame
  <2> QED BY <1>1, <2>1 DEF Piece
<1>3. peer[<<e, s>>] = NoClient
  <2>1. peer[<<e, s>>] \in Clients \cup {NoClient} /\ <<e, s>> \in Links
    BY DEF IInv, TypeOK, AgentTypeOK, Links
  <2> QED BY <1>1, <2>1 DEF IInv, Peers
<1> QED BY <1>2, <1>3 DEF Home, Sent

(* What the bridge's tasks add to its connection.                          *)
Plain(f) == f.type \notin {"CONNECT", "DATA"}
Adds(f) == \A e \in Conns : b2a'[e] = b2a[e] \/ (Wired(e) /\ b2a'[e] = Append(b2a[e], f))

LEMMA BridgeSendsAdds ==
    ASSUME WireTypeOK, NEW f, BridgeSends(f) \/ BridgeSendRaises \/ BridgeSendDropped
    PROVE  Adds(f)
BY DEF BridgeSends, BridgeSendRaises, BridgeSendDropped, Connected, Wired, Adds, WireTypeOK

LEMMA ControlIsPlain ==
    \A s : Plain(Control("CLOSE", s)) /\ Plain(Control("HEARTBEAT", s))
BY DEF Plain, Control

(* All steps of the bridge but a handler's first one and its reads.        *)
PlainStep ==
    /\ UNCHANGED <<sid, upRead>>
    /\ \E f : Plain(f) /\ Adds(f)
    /\ \A e \in Conns : Wired(e)' => Wired(e)

LEMMA BridgeIsPlain ==
    ASSUME IInv, BridgeStep \/ \E c \in Clients : App(c),
           ~(\E c \in Clients : HandlerStarts(c) \/ HandlerReads(c))
    PROVE  PlainStep
<1> USE DEF connVars, hbVars, handlerVars, appVars, downVars, wireVars, channels
<1>t. WireTypeOK /\ BridgeTypeOK
  BY DEF IInv, TypeOK
<1>n. UNCHANGED b2a => \E f : Plain(f) /\ Adds(f)
  BY ControlIsPlain DEF Adds
<1>w. UNCHANGED <<agentWriter, link>> => \A e \in Conns : Wired(e)' => Wired(e)
  BY DEF Wired
<1>f. ASSUME NEW c \in Clients, Finally(c), UNCHANGED <<sid, upRead, agentWriter, link>>
      PROVE  PlainStep
  BY <1>f, <1>t, <1>w, BridgeSendsAdds, ControlIsPlain DEF Finally, PlainStep
<1>d. ASSUME TearsDown, UNCHANGED <<sid, upRead, b2a>>
      PROVE  PlainStep
  BY <1>d, <1>n DEF TearsDown, Wired, PlainStep, Conns
<1>s. ASSUME UNCHANGED <<sid, upRead, agentWriter, link, b2a>>
      PROVE  PlainStep
  BY <1>s, <1>n, <1>w DEF PlainStep
<1>1. ASSUME NEW c \in Clients, Handler(c)
      PROVE  PlainStep
  BY <1>1, <1>f, <1>s DEF Handler, ConnectDrained, ConnectFails, HandlerEOF, DataDrained,
                          DataFails, CloseDrained
<1>2. ASSUME NEW e \in Conns, BridgeReceivesData(e)
      PROVE  PlainStep
  <2>1. UNCHANGED <<sid, upRead, agentWriter, link>>
    BY <1>2 DEF BridgeReceivesData
  <2>2. \/ UNCHANGED b2a
        \/ BridgeSends(Control("CLOSE", Head(a2b[e]).sid))
    BY <1>2 DEF BridgeReceivesData, BridgeSendRaises
  <2> QED BY <1>t, <1>n, <1>w, <2>1, <2>2, BridgeSendsAdds, ControlIsPlain DEF PlainStep
<1>3. ASSUME NEW e \in Conns, BridgeReceivesClose(e) \/ BridgeReceivesHeartbeat(e)
      PROVE  PlainStep
  BY <1>3, <1>s DEF BridgeReceivesClose, BridgeReceivesHeartbeat, bridgeVars
<1>4. CASE LocalDrained \/ SendDrained \/ BeatDrained
  BY <1>4, <1>s DEF LocalDrained, SendDrained, BeatDrained
<1>5. CASE Beat
  BY <1>5, <1>t, <1>w, BridgeSendsAdds, ControlIsPlain DEF Beat, PlainStep
<1>6. CASE BridgeEOF \/ WaitClosedReturns
  BY <1>6, <1>d, <1>s DEF BridgeEOF, WaitClosedReturns
<1>7. ASSUME NEW c \in Clients, LocalTransportLost(c) \/ App(c)
      PROVE  PlainStep
  BY <1>7, <1>s DEF LocalTransportLost, App, AppConnects, AppWrites, AppReads, AppCloses
<1> QED
  BY <1>1, <1>2, <1>3, <1>4, <1>5, <1>6, <1>7 DEF BridgeStep, ReaderLoop

LEMMA SentAppend ==
    ASSUME NEW F, NEW ch \in Seq(F), NEW f, NEW type, NEW s
    PROVE  Sent(Append(ch, f), type, s) <=> Sent(ch, type, s) \/ (f.type = type /\ f.sid = s)
BY ElemsAppend DEF Sent

LEMMA SentTail ==
    ASSUME NEW F, NEW ch \in Seq(F), ch # <<>>, NEW type, NEW s, Sent(Tail(ch), type, s)
    PROVE  Sent(ch, type, s)
BY ElemsTail DEF Sent

LEMMA SentEmpty == \A type, s : ~Sent(<<>>, type, s)
BY ElemsEmpty DEF Sent

(* The agent's variables stay, and nothing of session s is added. *)
LEMMA AddsOther ==
    ASSUME IInv, UNCHANGED agentVars, NEW e \in Conns, NEW s \in Sids,
           NEW f, b2a'[e] \in {b2a[e], Append(b2a[e], f)}, ~IsData(f, s),
           ~(f.type = "CONNECT" /\ f.sid = s),
           Wired(e)' => /\ Wired(e)
                        /\ \A c \in Clients : sid'[c] = s =>
                              sid[c] = s /\ upRead'[c] = upRead[c]
    PROVE  UpRest(e, s)
<1>1. b2a[e] \in Seq(UpFrame)
  BY DEF IInv, TypeOK, WireTypeOK
<1>2. Sent(b2a'[e], "CONNECT", s) => Sent(b2a[e], "CONNECT", s)
  <2>1. CASE b2a'[e] = b2a[e]
    BY <2>1
  <2>2. CASE b2a'[e] = Append(b2a[e], f)
    BY <1>1, <2>2, SentAppend
  <2> QED BY <2>1, <2>2
<1>3. UNCHANGED <<apc, acur, sessions, ut, toUx>>
  BY DEF agentVars, dispatchVars
<1>4. SameRun(b2a[e], b2a'[e], s)
  BY DEF SameRun
<1> QED BY <1>2, <1>3, <1>4 DEF UpRest, UpLive, At

LEMMA BridgeUp ==
    ASSUME IInv, UNCHANGED agentVars, \A e \in Conns, s \in Sids : UpOrder(e, s),
           Fresh, Untouched, BridgeStep \/ \E c \in Clients : App(c)
    PROVE  \A e \in Conns, s \in Sids : UpOrder(e, s)'
<1> SUFFICES ASSUME NEW e \in Conns, NEW s \in Sids
             PROVE  UpOrder(e, s)'
  OBVIOUS
<1>t. /\ WireTypeOK /\ BridgeTypeOK /\ AgentTypeOK
      /\ b2a[e] \in Seq(UpFrame) /\ <<e, s>> \in Links
  BY DEF IInv, TypeOK, WireTypeOK, Links
<1>u. UNCHANGED <<apc, acur, sessions, ut, toUx>>
  BY DEF agentVars, dispatchVars
<1>1. CASE ~(\E c \in Clients : HandlerStarts(c) \/ HandlerReads(c))
  <2>1. UNCHANGED <<sid, upRead>> /\ (Wired(e)' => Wired(e))
    BY <1>1, BridgeIsPlain DEF PlainStep
  <2>2. PICK f : Plain(f) /\ Adds(f)
    BY <1>1, BridgeIsPlain DEF PlainStep
  <2>3. UpRest(e, s)
    BY <2>1, <2>2, AddsOther DEF Plain, Adds, IsData
  <2> QED BY <1>t, <2>3, UpRestKeeps
<1>2. ASSUME NEW c \in Clients, HandlerReads(c)
      PROVE  UpOrder(e, s)'
  <2> DEFINE f == Data(sid[c], c, upRead[c] + 1)
  <2>1. /\ upRead' = [upRead EXCEPT ![c] = @ + 1]
        /\ UNCHANGED <<sid, agentWriter, link>>
        /\ BridgeSends(f) \/ BridgeSendDropped \/ BridgeSendRaises
    BY <1>2 DEF HandlerReads, connVars
  <2>2. /\ upRead'[c] = upRead[c] + 1 /\ upRead[c] \in Nat
        /\ \A d \in Clients \ {c} : upRead'[d] = upRead[d]
    BY <1>t, <2>1 DEF BridgeTypeOK
  <2>3. Wired(e)' = Wired(e)
    BY <2>1 DEF Wired
  <2>4. b2a'[e] = b2a[e] \/ (Wired(e) /\ b2a'[e] = Append(b2a[e], f))
    BY <1>t, <2>1, BridgeSendsAdds DEF Adds
  <2>5. Wired(e) => b2a'[e] = Append(b2a[e], f)
    <3>1. Wired(e) => Connected /\ agentWriter = e
      BY DEF Wired, Connected, Conns
    <3> QED
      BY <1>t, <2>1, <3>1 DEF BridgeSends, BridgeSendDropped, BridgeSendRaises, WireTypeOK
  <2>6. CASE s # sid[c] \/ ~Wired(e)
    <3>1. f.type = "DATA" /\ f.sid = sid[c]
      BY DEF Data
    <3>2. UpRest(e, s)
      <4>1. CASE s # sid[c]
        BY <2>1, <2>2, <2>3, <2>4, <3>1, <4>1, AddsOther DEF IsData
      <4>2. CASE ~Wired(e)
        <5>1. b2a'[e] = b2a[e]
          BY <2>4, <4>2
        <5> QED BY <1>u, <2>3, <4>2, <5>1 DEF UpRest, UpLive, At, SameRun
      <4> QED BY <2>6, <4>1, <4>2
    <3> QED BY <1>t, <3>2, UpRestKeeps
  <2>7. CASE s = sid[c] /\ Wired(e)
    <3> DEFINE k == Len(toUx[<<e, s>>])
    <3>0. k \in Nat
      BY <1>t DEF AgentTypeOK
    <3>1. b2a'[e] = Append(b2a[e], f) /\ IsData(f, s) /\ f.data.n = upRead[c] + 1
      BY <2>5, <2>7 DEF Data, IsData
    <3>2. Sent(b2a'[e], "CONNECT", s) => Sent(b2a[e], "CONNECT", s)
      BY <1>t, <3>1, SentAppend DEF IsData
    <3>3. UpLive(e, s)' => UpLive(e, s)
      BY <1>u, <3>2 DEF UpLive, At
    <3>4. \A i \in 1 .. Len(b2a[e]) : IsData(b2a[e][i], s) => b2a[e][i].data.n \in Nat
      BY <1>t, UpFields DEF IsData, Piece
    <3>5. \A d \in Clients : sid[d] = s => d = c
      BY <2>7 DEF IInv, UniqueIds, Sids
    <3>6. UpLive(e, s) => Follows(b2a[e], s, k) /\ UpTo(b2a[e], s, k, upRead[c])
      BY <2>7 DEF UpOrder
    <3>7. UpLive(e, s) => /\ Follows(b2a'[e], s, k)
                          /\ UpTo(b2a'[e], s, k, upRead[c] + 1)
      <4> HIDE DEF k, f
      <4> QED BY <1>t, <2>2, <3>0, <3>1, <3>4, <3>6, NextFollows
    <3> QED BY <1>u, <2>1, <2>2, <3>3, <3>5, <3>7 DEF UpOrder
  <2> QED BY <2>6, <2>7
<1>3. ASSUME NEW c \in Clients, HandlerStarts(c)
      PROVE  UpOrder(e, s)'
  <2> DEFINE f == Connect(nextId, c)
  <2>1. /\ nextId \in Sids /\ hpc[c] = "accepted"
        /\ sid' = [sid EXCEPT ![c] = nextId]
        /\ UNCHANGED <<upRead, agentWriter, link>>
        /\ BridgeSends(f) \/ BridgeSendDropped \/ BridgeSendRaises
    BY <1>3 DEF HandlerStarts, Registers, connVars, appVars
  <2>2. f.type = "CONNECT" /\ f.sid = nextId
    BY DEF Connect
  <2>3. Wired(e)' = Wired(e)
    BY <2>1 DEF Wired
  <2>4. b2a'[e] \in {b2a[e], Append(b2a[e], f)}
    BY <1>t, <2>1, BridgeSendsAdds DEF Adds
  <2>5. sid'[c] = nextId /\ \A d \in Clients \ {c} : sid'[d] = sid[d]
    BY <1>t, <2>1 DEF BridgeTypeOK
  <2> HIDE DEF f
  <2>6. CASE s # nextId
    <3>1. UpRest(e, s)
      BY <2>1, <2>2, <2>3, <2>4, <2>5, <2>6, AddsOther DEF IsData
    <3> QED BY <1>t, <3>1, UpRestKeeps
  <2>7. CASE s = nextId
    <3>1. /\ ~Home(e, s)
          /\ \A g \in Elems(b2a[e]) : ~IsData(g, s)
      BY <2>7, NoHomeYet DEF IsData, Sids
    <3>2. \A g \in Elems(b2a'[e]) : ~IsData(g, s)
      <4>1. Elems(Append(b2a[e], f)) = Elems(b2a[e]) \cup {f}
        BY <1>t, ElemsAppend
      <4>2. ~IsData(f, s)
        BY <2>2 DEF IsData
      <4> QED BY <2>4, <3>1, <4>1, <4>2
    <3>3. b2a'[e] \in Seq(UpFrame)
      <4>1. f \in UpFrame
        BY <2>1, FramesTyped DEF f
      <4>2. Append(b2a[e], f) \in Seq(UpFrame)
        BY <1>t, <4>1
      <4> QED BY <1>t, <2>4, <4>2
    <3>4. toUx[<<e, s>>] = <<>>
      <4>1. rpc[<<e, s>>] = "none"
        BY <3>1 DEF IInv, Opened, Alive, Home
      <4> QED BY <1>t, <4>1 DEF Untouched, UntouchedLink
    <3>5. Follows(b2a'[e], s, 0) /\ UpTo(b2a'[e], s, 0, 0)
      BY <3>2, <3>3, NoneFollows
    <3>6. \A d \in Clients : sid'[d] = s => upRead'[d] = 0
      <4>1. \A d \in Clients \ {c} : sid[d] # s
        BY <1>t, <2>7, IdsBelow DEF BridgeTypeOK
      <4> QED BY <2>1, <2>5, <4>1 DEF Fresh
    <3>7. toUx'[<<e, s>>] = <<>>
      BY <1>u, <3>4
    <3> QED BY <3>5, <3>6, <3>7 DEF UpOrder, Numbered
  <2> QED BY <2>6, <2>7
<1> QED BY <1>1, <1>2, <1>3

(* A step of connection e's dispatch loop leaves the others alone.         *)
LeavesOthers(e) ==
    \A x \in Conns \ {e} :
        /\ link'[x] = link[x] /\ b2a'[x] = b2a[x] /\ a2b'[x] = a2b[x]
        /\ apc'[x] = apc[x] /\ acur'[x] = acur[x] /\ sessions'[x] = sessions[x]
        /\ \A s \in Sids : /\ peer'[<<x, s>>] = peer[<<x, s>>]
                          /\ rpc'[<<x, s>>] = rpc[<<x, s>>]
                          /\ ut'[<<x, s>>] = ut[<<x, s>>]
                          /\ toUx'[<<x, s>>] = toUx[<<x, s>>]

(* All its steps but those that open a session or write to one: sessions   *)
(* and transports are only closed.                                         *)
OnlyCloses(e) ==
    /\ LeavesOthers(e)
    /\ link'[e] = "up" => link[e] = "up"
    /\ apc'[e] # "open"
    /\ sessions'[e] \subseteq sessions[e]
    /\ UNCHANGED <<peer, toUx, ux, uxRead, downSent, relayRead>>
    /\ \A l \in Links : /\ rpc'[l] = "none" <=> rpc[l] = "none"
                        /\ ut'[l] = ut[l] \/ (ut[l] = "open" /\ ut'[l] = "closing")
    /\ \/ b2a'[e] = b2a[e]
       \/ /\ b2a[e] # <<>> /\ b2a'[e] = Tail(b2a[e]) /\ apc[e] = "read"
          /\ Head(b2a[e]).type # "CONNECT"
          /\ Head(b2a[e]).type = "DATA" => Head(b2a[e]).sid \notin sessions[e]
       \/ b2a'[e] = <<>> /\ link'[e] # "up"
    /\ \/ a2b'[e] = a2b[e]
       \/ \E f : Plain(f) /\ a2b'[e] = Append(a2b[e], f)

LEMMA DispatchCloses ==
    ASSUME IInv, NEW e \in Conns, Dispatch(e),
           ~AgentReceivesConnect(e), ~UxOpens(e), ~AgentReceivesData(e)
    PROVE  OnlyCloses(e)
<1> USE DEF uxVars, wireVars, channels
<1>t. WireTypeOK /\ AgentTypeOK /\ Working
  BY DEF IInv, TypeOK
<1>p. \A s : Plain(Control("CLOSE", s)) /\ Plain(Control("HEARTBEAT", s))
  BY ControlIsPlain
<1>k. ASSUME NEW type, Takes(e, type)
      PROVE  /\ b2a'[e] = Tail(b2a[e]) /\ b2a[e] # <<>> /\ apc[e] = "read"
             /\ Head(b2a[e]).type = type
             /\ \A x \in Conns \ {e} : b2a'[x] = b2a[x]
  BY <1>t, <1>k DEF Takes, At, WireTypeOK
<1>r. ASSUME NEW f, NEW drain \in {"replyDrain", "notifyDrain"}, Replies(e, f, drain)
      PROVE  /\ apc'[e] # "open"
             /\ a2b'[e] \in {a2b[e], Append(a2b[e], f)}
             /\ \A x \in Conns \ {e} : apc'[x] = apc[x] /\ a2b'[x] = a2b[x]
  <2>1. apc'[e] # "open" /\ \A x \in Conns \ {e} : apc'[x] = apc[x]
    BY <1>t, <1>r, RepliesTo
  <2>2. a2b' = [a2b EXCEPT ![e] = Append(@, f)] \/ a2b' = a2b
    BY <1>r DEF Replies, AgentSends, AgentSendLost
  <2>3. a2b \in [Conns -> Seq(DownFrame)]
    BY <1>t DEF WireTypeOK
  <2> QED BY <2>1, <2>2, <2>3
<1>g. ASSUME NEW label, label # "open", Goes(e, label)
      PROVE  apc'[e] # "open" /\ \A x \in Conns \ {e} : apc'[x] = apc[x]
  BY <1>t, <1>g DEF Goes, AgentTypeOK
<1>i. Idle(e) \/ UNCHANGED acur => \A x \in Conns \ {e} : acur'[x] = acur[x]
  BY <1>t DEF Idle, AgentTypeOK
(* Steps that close nothing. *)
<1>n. ASSUME UNCHANGED <<link, sessions, peer, toUx, ux, uxRead, downSent, relayRead,
                         rpc, ut>>,
             Idle(e) \/ UNCHANGED acur, apc'[e] # "open",
             \A x \in Conns \ {e} : apc'[x] = apc[x] /\ a2b'[x] = a2b[x] /\ b2a'[x] = b2a[x],
             a2b'[e] = a2b[e] \/ \E f : Plain(f) /\ a2b'[e] = Append(a2b[e], f),
             \/ b2a'[e] = b2a[e]
             \/ /\ b2a[e] # <<>> /\ b2a'[e] = Tail(b2a[e]) /\ apc[e] = "read"
                /\ Head(b2a[e]).type # "CONNECT"
                /\ Head(b2a[e]).type = "DATA" => Head(b2a[e]).sid \notin sessions[e]
             \/ b2a'[e] = <<>> /\ link'[e] # "up"
      PROVE  OnlyCloses(e)
  BY <1>i, <1>n DEF OnlyCloses, LeavesOthers
(* close_session() begins. *)
<1>c. ASSUME NEW s \in Sids, NEW return, ClosesSession(e, s, return),
             UNCHANGED <<link, a2b, peer, toUx, ux, uxRead, downSent, relayRead, ut>>,
             \A x \in Conns \ {e} : b2a'[x] = b2a[x],
             \/ b2a'[e] = b2a[e]
             \/ /\ b2a[e] # <<>> /\ b2a'[e] = Tail(b2a[e]) /\ apc[e] = "read"
                /\ Head(b2a[e]).type \notin {"CONNECT", "DATA"}
      PROVE  OnlyCloses(e)
  <2>1. /\ apc'[e] = "closeTask"
        /\ \A x \in Conns \ {e} :
              apc'[x] = apc[x] /\ acur'[x] = acur[x] /\ sessions'[x] = sessions[x]
        /\ sessions'[e] \subseteq sessions[e]
    BY <1>t, <1>c DEF ClosesSession, Goes, AgentTypeOK
  <2>2. \A l \in Links : l # <<e, s>> => rpc'[l] = rpc[l]
    BY <1>t, <1>c DEF ClosesSession, CancelsRelay, AgentTypeOK
  <2>3. \A l \in Links : rpc'[l] = "none" <=> rpc[l] = "none"
    BY <1>t, <1>c DEF ClosesSession, CancelsRelay, AgentTypeOK
  <2>4. \A x \in Conns \ {e} : \A t \in Sids : rpc'[<<x, t>>] = rpc[<<x, t>>]
    BY <2>2 DEF Links
  <2> QED BY <1>c, <2>1, <2>3, <2>4 DEF OnlyCloses, LeavesOthers
<1>1. CASE UxRefuses(e)
  BY <1>1, <1>r, <1>n, <1>p DEF UxRefuses
<1>2. CASE AgentReceivesStaleData(e)
  BY <1>2, <1>r, <1>n, <1>p, <1>k DEF AgentReceivesStaleData
<1>3. CASE UxDrained(e) \/ ReplyDrained(e)
  BY <1>3, <1>g, <1>n DEF UxDrained, ReplyDrained
<1>4. CASE UxWriteFails(e)
  <2>1. acur[e] \in Sids
    BY <1>4, <1>t, WorkingLink DEF UxWriteFails, At
  <2>2. CASE ClosesSession(e, acur[e], "notify") /\ UNCHANGED a2b
    BY <1>4, <1>c, <2>1, <2>2 DEF UxWriteFails
  <2>3. CASE /\ Replies(e, Control("CLOSE", acur[e]), "notifyDrain")
             /\ Idle(e) /\ UNCHANGED <<after, sessions, rpc>>
    BY <1>4, <1>r, <1>n, <1>p, <2>3 DEF UxWriteFails
  <2> QED BY <1>4, <2>2, <2>3 DEF UxWriteFails
<1>5. CASE AgentReceivesClose(e)
  <2>1. Head(b2a[e]).sid \in Sids
    BY <1>5, <1>t, TakesTyped DEF AgentReceivesClose
  <2>2. CASE ClosesSession(e, Head(b2a[e]).sid, "read")
    BY <1>5, <1>c, <1>k, <2>1, <2>2 DEF AgentReceivesClose
  <2>3. CASE UNCHANGED <<apc, acur, after, sessions, rpc>>
    <3>1. apc'[e] # "open"
      BY <1>5, <1>k, <2>3 DEF AgentReceivesClose
    <3> QED BY <1>5, <1>k, <1>n, <2>3, <3>1 DEF AgentReceivesClose
  <2> QED BY <1>5, <2>2, <2>3 DEF AgentReceivesClose
<1>6. CASE AgentReceivesHeartbeat(e)
  BY <1>6, <1>r, <1>n, <1>p, <1>k DEF AgentReceivesHeartbeat
<1>7. CASE RelayJoined(e)
  <2>1. /\ ut' = [ut EXCEPT ![<<e, acur[e]>>] = ClosedUx(@)]
        /\ UNCHANGED <<link, b2a, a2b, acur, sessions, peer, rpc, ux, uxRead, downSent, toUx,
                       relayRead>>
        /\ Goes(e, "closeUx") /\ apc[e] = "closeTask"
    BY <1>7 DEF RelayJoined, At
  <2>2. acur[e] \in Sids
    BY <1>t, <2>1, WorkingLink
  <2>3. /\ \A l \in Links : ut'[l] = ut[l] \/ (ut[l] = "open" /\ ut'[l] = "closing")
        /\ \A l \in Links : l # <<e, acur[e]>> => ut'[l] = ut[l]
    BY <1>t, <2>1, <2>2 DEF ClosedUx, AgentTypeOK, Links
  <2>4. \A x \in Conns \ {e} : \A t \in Sids : ut'[<<x, t>>] = ut[<<x, t>>]
    BY <2>3 DEF Links
  <2> QED BY <1>g, <2>1, <2>3, <2>4 DEF OnlyCloses, LeavesOthers
<1>8. CASE UxClosed(e)
  <2>1. CASE after[e] \in {"read", "cleanup"} /\ Goes(e, after[e]) /\ UNCHANGED a2b
    BY <1>8, <1>g, <1>n, <2>1 DEF UxClosed
  <2>2. CASE Replies(e, Control("CLOSE", acur[e]), "notifyDrain")
    BY <1>8, <1>r, <1>n, <1>p, <2>2 DEF UxClosed
  <2> QED BY <1>8, <2>1, <2>2 DEF UxClosed
<1>9. CASE AgentEOF(e)
  <2>1. /\ b2a'[e] = <<>> /\ \A x \in Conns \ {e} : b2a'[x] = b2a[x]
        /\ link'[e] # "up"
    BY <1>9, <1>t DEF AgentEOF, WireTypeOK
  <2> QED BY <1>9, <1>g, <1>n, <2>1 DEF AgentEOF
<1>10. CASE CleansUp(e)
  <2>1. PICK s \in Sids : ClosesSession(e, s, "cleanup")
    BY <1>10, <1>t DEF CleansUp, AgentTypeOK
  <2> QED BY <1>10, <1>c, <2>1 DEF CleansUp
<1>11. CASE CleanedUp(e)
  <2>1. /\ b2a'[e] = <<>>
        /\ \A x \in Conns \ {e} : b2a'[x] = b2a[x] /\ link'[x] = link[x]
        /\ link'[e] # "up"
    BY <1>11, <1>t DEF CleanedUp, Closed, WireTypeOK, LinkState
  <2> QED BY <1>11, <1>g, <2>1 DEF CleanedUp, OnlyCloses, LeavesOthers
<1> QED
  BY <1>1, <1>2, <1>3, <1>4, <1>5, <1>6, <1>7, <1>8, <1>9, <1>10, <1>11 DEF Dispatch

(* A step of a relay, of a transport to usbmuxd or of usbmuxd.             *)
RelaySide ==
    /\ UNCHANGED <<link, b2a, apc, acur, peer, toUx>>
    /\ \A e \in Conns : sessions'[e] \subseteq sessions[e]
    /\ \A l \in Links :
          /\ rpc'[l] = "none" <=> rpc[l] = "none"
          /\ ut'[l] = ut[l] \/ (ut[l] \in {"open", "closing"} /\ ut'[l] \in {"closing", "lost"})
          /\ relayRead'[l] = relayRead[l] \/ rpc[l] = "read"
          /\ downSent'[l] = downSent[l] \/ ut[l] = "open"

LEMMA RelayIsSide ==
    ASSUME IInv, NEW l \in Links, Relay(l) \/ UxTransportLost(l) \/ Usbmuxd(l)
    PROVE  RelaySide
<1> USE DEF uxVars, dispatchVars, wireVars, channels
<1>t. AgentTypeOK /\ l[1] \in Conns
  BY DEF IInv, TypeOK, Links
<1>g. ASSUME NEW label, label # "none", RelayGoes(l, label), rpc[l] # "none",
             UNCHANGED <<link, b2a, apc, acur, peer, toUx, sessions, ut, downSent>>,
             \A k \in Links : relayRead'[k] = relayRead[k] \/ rpc[k] = "read"
      PROVE  RelaySide
  BY <1>t, <1>g DEF RelayGoes, RelaySide, AgentTypeOK
<1>v. ASSUME RelayLeaves(l), rpc[l] # "none",
             UNCHANGED <<link, b2a, apc, acur, peer, toUx, downSent>>,
             \A k \in Links : relayRead'[k] = relayRead[k] \/ rpc[k] = "read"
      PROVE  RelaySide
  <2>1. \A k \in Links : rpc'[k] = "none" <=> rpc[k] = "none"
    BY <1>t, <1>v DEF RelayLeaves, RelayGoes, AgentTypeOK
  <2>2. \A k \in Links : ut'[k] = ut[k] \/ (ut[k] = "open" /\ ut'[k] = "closing")
    BY <1>t, <1>v DEF RelayLeaves, ClosedUx, AgentTypeOK
  <2>3. \A e \in Conns : sessions'[e] \subseteq sessions[e]
    BY <1>t, <1>v DEF RelayLeaves, AgentTypeOK
  <2> QED BY <1>v, <2>1, <2>2, <2>3 DEF RelaySide
<1>f. ASSUME RelayFinally(l), rpc[l] # "none",
             UNCHANGED <<link, b2a, apc, acur, peer, toUx, downSent, relayRead>>
      PROVE  RelaySide
  BY <1>f, <1>g, <1>v DEF RelayFinally
<1>1. CASE RelayStarts(l) \/ RelayDataDrained(l)
  BY <1>1, <1>g DEF RelayStarts, RelayDataDrained
<1>2. CASE RelayReads(l)
  <2>1. \A k \in Links : relayRead'[k] = relayRead[k] \/ rpc[k] = "read"
    BY <1>2, <1>t DEF RelayReads, AgentTypeOK
  <2>2. CASE RelayLeaves(l)
    BY <1>2, <1>v, <2>1, <2>2 DEF RelayReads
  <2>3. CASE UNCHANGED <<rpc, sessions, ut>>
    BY <1>2, <2>1, <2>3 DEF RelayReads, RelaySide
  <2>4. CASE /\ RelayGoes(l, IF Full(a2b'[l[1]]) THEN "dataDrain" ELSE "read")
             /\ UNCHANGED <<sessions, ut>>
    BY <1>2, <1>g, <2>1, <2>4 DEF RelayReads
  <2> QED BY <1>2, <2>2, <2>3, <2>4 DEF RelayReads
<1>3. CASE RelayEOF(l) \/ RelayDataFails(l) \/ RelayCancelled(l)
  BY <1>3, <1>f DEF RelayEOF, RelayDataFails, RelayCancelled
<1>4. CASE RelayCloseDrained(l)
  BY <1>4, <1>v DEF RelayCloseDrained
<1>5. CASE UxTransportLost(l)
  BY <1>5, <1>t DEF UxTransportLost, RelaySide, AgentTypeOK
<1>6. CASE Usbmuxd(l)
  BY <1>6, <1>t DEF Usbmuxd, UxWrites, UxReads, UxCloses, RelaySide, AgentTypeOK
<1> QED BY <1>1, <1>2, <1>3, <1>4, <1>5, <1>6 DEF Relay

LEMMA AgentUp ==
    ASSUME IInv, UNCHANGED bridgeVars, \A e \in Conns, s \in Sids : UpOrder(e, s),
           \A e \in Conns : ConnectsFirst(b2a[e]),
           AgentStep \/ \E l \in Links : Usbmuxd(l)
    PROVE  \A e \in Conns, s \in Sids : UpOrder(e, s)'
<1> SUFFICES ASSUME NEW x \in Conns, NEW s \in Sids
             PROVE  UpOrder(x, s)'
  OBVIOUS
<1>t. /\ WireTypeOK /\ AgentTypeOK /\ Working
      /\ b2a[x] \in Seq(UpFrame) /\ <<x, s>> \in Links
  BY DEF IInv, TypeOK, WireTypeOK, Links
<1>u. UNCHANGED <<sid, upRead, agentWriter>>
  BY DEF bridgeVars, handlerVars, appVars, connVars
(* The pieces stay what they were, and the session does not come to life.  *)
<1>r. ASSUME UpLive(x, s)' => UpLive(x, s), toUx'[<<x, s>>] = toUx[<<x, s>>],
             link'[x] = "up" => link[x] = "up", SameRun(b2a[x], b2a'[x], s)
      PROVE  UpOrder(x, s)'
  <2>1. UpRest(x, s)
    BY <1>u, <1>r DEF UpRest, Wired
  <2> QED BY <1>t, <2>1, UpRestKeeps
<1>d. ASSUME ~UpLive(x, s)', toUx'[<<x, s>>] = toUx[<<x, s>>]
      PROVE  UpOrder(x, s)'
  BY <1>d DEF UpOrder
<1>1. CASE RelaySide
  <2>1. UpLive(x, s)' => UpLive(x, s)
    BY <1>1, <1>t DEF RelaySide, UpLive, At
  <2> QED BY <1>1, <1>r, <2>1 DEF RelaySide, SameRun
<1>2. ASSUME NEW e \in Conns \ {x}, LeavesOthers(e)
      PROVE  UpOrder(x, s)'
  <2>1. UpLive(x, s)' => UpLive(x, s)
    BY <1>2 DEF LeavesOthers, UpLive, At
  <2> QED BY <1>2, <1>r, <2>1 DEF LeavesOthers, SameRun
<1>3. CASE OnlyCloses(x)
  <2>1. Sent(b2a'[x], "CONNECT", s) => Sent(b2a[x], "CONNECT", s)
    BY <1>3, <1>t, SentTail, SentEmpty DEF OnlyCloses
  <2>2. UpLive(x, s)' => UpLive(x, s)
    BY <1>3, <1>t, <2>1 DEF OnlyCloses, UpLive, At
  <2>3. CASE b2a'[x] = b2a[x]
    BY <1>3, <1>r, <2>2, <2>3 DEF OnlyCloses, SameRun
  <2>4. CASE b2a'[x] = <<>> /\ link'[x] # "up"
    <3>1. UpRest(x, s)
      BY <1>3, <2>2, <2>4 DEF UpRest, OnlyCloses, Wired
    <3> QED BY <1>t, <3>1, UpRestKeeps
  <2>5. CASE /\ b2a[x] # <<>> /\ b2a'[x] = Tail(b2a[x]) /\ apc[x] = "read"
             /\ Head(b2a[x]).type # "CONNECT"
             /\ Head(b2a[x]).type = "DATA" => Head(b2a[x]).sid \notin sessions[x]
    <3>1. CASE ~IsData(Head(b2a[x]), s)
      BY <1>3, <1>r, <2>2, <2>5, <3>1 DEF OnlyCloses, SameRun
(* Data of a session that is not in the map is not followed by a CONNECT   *)
(* of this session: it stays dead.                                         *)
    <3>2. CASE IsData(Head(b2a[x]), s)
      <4>1. ~Sent(b2a[x], "CONNECT", s)
        BY <1>t, <2>5, <3>2, DataAfterConnect DEF IsData
      <4>2. ~UpLive(x, s)
        BY <2>5, <3>2, <4>1 DEF UpLive, At, IsData
      <4> QED BY <1>3, <1>d, <2>2, <4>2 DEF OnlyCloses
    <3> QED BY <3>1, <3>2
  <2> QED BY <1>3, <2>3, <2>4, <2>5 DEF OnlyCloses
<1>4. ASSUME NEW e \in Conns, AgentReceivesConnect(e)
      PROVE  UpOrder(x, s)'
  <2> DEFINE f == Head(b2a[e])
  <2>1. /\ b2a[e] # <<>> /\ f.type = "CONNECT" /\ apc[e] = "read"
        /\ b2a' = [b2a EXCEPT ![e] = Tail(@)]
        /\ acur' = [acur EXCEPT ![e] = f.sid]
        /\ apc' = [apc EXCEPT ![e] = "open"]
        /\ UNCHANGED <<link, sessions, ut, toUx>>
    BY <1>4 DEF AgentReceivesConnect, Takes, At, Goes
  <2>2. b2a[e] \in Seq(UpFrame)
    BY <1>t DEF WireTypeOK
  <2>3. CASE x = e
    <3>1. b2a'[x] = Tail(b2a[x]) /\ acur'[x] = f.sid /\ apc'[x] = "open"
      BY <1>t, <2>1, <2>3 DEF WireTypeOK, AgentTypeOK
    <3>2. f \in Elems(b2a[e])
      BY <2>1, <2>2, ElemsTail
    <3>3. f.sid = s => Sent(b2a[x], "CONNECT", s)
      BY <2>1, <2>3, <3>2 DEF Sent
    <3>4. Sent(Tail(b2a[x]), "CONNECT", s) => Sent(b2a[x], "CONNECT", s)
      BY <2>1, <2>2, <2>3, SentTail
    <3>5. UpLive(x, s)' => UpLive(x, s)
      BY <2>1, <3>1, <3>3, <3>4 DEF UpLive, At
    <3>6. SameRun(b2a[x], b2a'[x], s)
      BY <2>1, <2>3, <3>1 DEF SameRun, IsData
    <3> QED BY <1>r, <2>1, <3>5, <3>6
  <2>4. CASE x # e
    <3>1. b2a'[x] = b2a[x] /\ acur'[x] = acur[x] /\ apc'[x] = apc[x]
      BY <1>t, <2>1, <2>4 DEF WireTypeOK, AgentTypeOK
    <3> QED BY <1>r, <2>1, <3>1 DEF UpLive, At, SameRun
  <2> QED BY <2>3, <2>4
<1>5. ASSUME NEW e \in Conns, UxOpens(e)
      PROVE  UpOrder(x, s)'
  <2>1. /\ apc[e] = "open" /\ apc' = [apc EXCEPT ![e] = "read"]
        /\ sessions' = [sessions EXCEPT ![e] = @ \cup {acur[e]}]
        /\ ut' = [ut EXCEPT ![<<e, acur[e]>>] = "open"]
        /\ acur' = [acur EXCEPT ![e] = 0]
        /\ UNCHANGED <<link, b2a, toUx>>
    BY <1>5 DEF UxOpens, At, Goes, Idle, wireVars, channels
  <2>2. UpLive(x, s)' => UpLive(x, s)
    <3>1. CASE x = e /\ s = acur[e]
      BY <2>1, <3>1 DEF UpLive, At
    <3>2. CASE x = e /\ s # acur[e]
      <4>1. ut'[<<x, s>>] = ut[<<x, s>>] /\ (s \in sessions'[x] => s \in sessions[x])
            /\ apc'[x] = "read"
        BY <1>t, <2>1, <3>2 DEF AgentTypeOK
      <4> QED BY <2>1, <4>1 DEF UpLive, At
    <3>3. CASE x # e
      <4>1. /\ ut'[<<x, s>>] = ut[<<x, s>>] /\ sessions'[x] = sessions[x]
            /\ apc'[x] = apc[x] /\ acur'[x] = acur[x]
        BY <1>t, <2>1, <3>3 DEF AgentTypeOK
      <4> QED BY <2>1, <4>1 DEF UpLive, At
    <3> QED BY <3>1, <3>2, <3>3
  <2> QED BY <1>r, <2>1, <2>2 DEF SameRun
<1>6. ASSUME NEW e \in Conns, AgentReceivesData(e)
      PROVE  UpOrder(x, s)'
  <2> DEFINE f == Head(b2a[e])
             l == <<e, f.sid>>
  <2>1. /\ b2a[e] # <<>> /\ f.type = "DATA" /\ apc[e] = "read"
        /\ b2a' = [b2a EXCEPT ![e] = Tail(@)]
        /\ f.sid \in sessions[e]
        /\ toUx' = [toUx EXCEPT ![l] = IF ut[l] = "open" THEN Append(@, f.data) ELSE @]
        /\ apc'[e] # "open"
        /\ \A y \in Conns \ {e} : apc'[y] = apc[y] /\ acur'[y] = acur[y]
        /\ UNCHANGED <<link, sessions, ut>>
    BY <1>6, <1>t DEF AgentReceivesData, Takes, At, Goes, AgentTypeOK
  <2>2. b2a[e] \in Seq(UpFrame) /\ f.sid \in Sids /\ f.data \in Piece
    BY <1>6, <1>t, TakesTyped DEF AgentReceivesData, WireTypeOK
  <2>3. CASE x # e
    <3>1. /\ b2a'[x] = b2a[x] /\ acur'[x] = acur[x] /\ apc'[x] = apc[x]
          /\ toUx'[<<x, s>>] = toUx[<<x, s>>]
      BY <1>t, <2>1, <2>3 DEF WireTypeOK, AgentTypeOK
    <3> QED BY <1>r, <2>1, <3>1 DEF UpLive, At, SameRun
  <2>4. CASE x = e /\ s # f.sid
    <3>1. b2a'[x] = Tail(b2a[x]) /\ toUx'[<<x, s>>] = toUx[<<x, s>>]
      BY <1>t, <2>1, <2>4 DEF WireTypeOK, AgentTypeOK
    <3>2. UpLive(x, s)' => UpLive(x, s)
      BY <2>1, <2>2, <2>4, <3>1, SentTail DEF UpLive, At
    <3> QED BY <1>r, <2>1, <2>4, <3>1, <3>2 DEF SameRun, IsData
  <2>5. CASE x = e /\ s = f.sid
    <3>1. b2a'[x] = Tail(b2a[x]) /\ b2a[x] # <<>> /\ IsData(Head(b2a[x]), s)
      BY <1>t, <2>1, <2>5 DEF WireTypeOK, IsData
    <3>2. ~Sent(b2a[x], "CONNECT", s)
      BY <1>t, <3>1, DataAfterConnect DEF IsData
    <3>3. ~Sent(b2a'[x], "CONNECT", s)
      BY <1>t, <3>1, <3>2, SentTail
    <3>4. CASE ut[l] # "open"
      <4>1. toUx'[<<x, s>>] = toUx[<<x, s>>]
        BY <1>t, <2>1, <2>5, <3>4 DEF AgentTypeOK
      <4>2. ~UpLive(x, s)'
        BY <2>1, <2>5, <3>3, <3>4 DEF UpLive, At
      <4> QED BY <1>d, <4>1, <4>2
    <3>5. CASE ut[l] = "open"
      <4> DEFINE k == Len(toUx[<<x, s>>])
      <4>1. /\ k \in Nat /\ toUx[<<x, s>>] \in Seq(Piece)
            /\ toUx'[<<x, s>>] = Append(toUx[<<x, s>>], f.data)
        BY <1>t, <2>1, <2>5, <3>5 DEF AgentTypeOK
      <4>2. UpLive(x, s)
        BY <2>1, <2>5, <3>5 DEF UpLive
      <4>3. /\ Follows(b2a[x], s, k)
            /\ Wired(x) => \A c \in Clients : sid[c] = s => UpTo(b2a[x], s, k, upRead[c])
        BY <4>2 DEF UpOrder
      <4>4. \A i \in 1 .. Len(b2a[x]) : IsData(b2a[x][i], s) => b2a[x][i].data.n \in Nat
        BY <1>t, UpFields DEF IsData, Piece
      <4>5. /\ f.data.n = k + 1
            /\ Follows(Tail(b2a[x]), s, k + 1)
            /\ \A m : UpTo(b2a[x], s, k, m) => UpTo(Tail(b2a[x]), s, k + 1, m)
        <5> HIDE DEF k
        <5> QED BY <1>t, <2>5, <3>1, <4>1, <4>3, <4>4, FirstFollows
      <4>6. Numbered(toUx'[<<x, s>>]) /\ Len(toUx'[<<x, s>>]) = k + 1
        BY <4>1, <4>5, AppendNumbered DEF UpOrder
      <4> QED BY <1>u, <2>1, <3>1, <4>3, <4>5, <4>6 DEF UpOrder, Wired
    <3> QED BY <3>4, <3>5
  <2> QED BY <2>3, <2>4, <2>5
<1>7. ASSUME NEW e \in Conns, Dispatch(e)
      PROVE  UpOrder(x, s)'
  <2>1. CASE AgentReceivesConnect(e) \/ UxOpens(e) \/ AgentReceivesData(e)
    BY <1>4, <1>5, <1>6, <2>1
  <2>2. CASE OnlyCloses(e)
    BY <1>2, <1>3, <2>2 DEF OnlyCloses
  <2> QED BY <1>7, <2>1, <2>2, DispatchCloses
<1> QED BY <1>1, <1>7, RelayIsSide DEF AgentStep

(* A connection is made, lost or given up. *)
LEMMA LinkStepUp ==
    ASSUME IInv, NewConns, \A e \in Conns, s \in Sids : UpOrder(e, s),
           \/ Connects
           \/ \E e \in Conns : Watchdog(e) /\ UNCHANGED bridgeVars
           \/ \E e \in Conns : LinkLost(e) /\ UNCHANGED <<bridgeVars, agentVars>>
           \/ UNCHANGED vars
    PROVE  \A e \in Conns, s \in Sids : UpOrder(e, s)'
<1> SUFFICES ASSUME NEW x \in Conns, NEW s \in Sids
             PROVE  UpOrder(x, s)'
  OBVIOUS
<1> USE DEF wireVars, channels, bridgeVars, connVars, handlerVars, appVars,
            agentVars, dispatchVars
<1>t. WireTypeOK /\ BridgeTypeOK /\ AgentTypeOK
  BY DEF IInv, TypeOK
<1>1. CASE Connects
  <2>1. /\ connCount' = connCount + 1 /\ agentWriter' = connCount'
        /\ apc' = [apc EXCEPT ![connCount'] = "read"]
        /\ UNCHANGED <<b2a, acur, sessions, ut, toUx, sid, upRead>>
    BY <1>1 DEF Connects, BridgeConnects, Accepts, Goes
  <2>2. UpLive(x, s)' => UpLive(x, s)
    BY <1>t, <2>1 DEF UpLive, At, AgentTypeOK
  <2>3. CASE x > connCount
    <3>1. ~UpLive(x, s)'
      BY <2>2, <2>3, LiveIsHome DEF NewConns
    <3> QED BY <2>1, <3>1 DEF UpOrder
  <2>4. CASE ~(x > connCount)
    <3>1. ~Wired(x)'
      BY <1>t, <2>1, <2>4 DEF Wired, BridgeTypeOK
    <3>2. UpRest(x, s)
      BY <2>1, <2>2, <3>1 DEF UpRest, SameRun
    <3> QED BY <1>t, <3>2, UpRestKeeps
  <2> QED BY <2>3, <2>4
<1>2. ASSUME UNCHANGED <<b2a, bridgeVars, agentVars>>,
             \A e \in Conns : link'[e] = "up" => link[e] = "up"
      PROVE  UpOrder(x, s)'
  <2>1. UpRest(x, s)
    BY <1>2 DEF UpRest, UpLive, At, Wired, SameRun
  <2> QED BY <1>t, <2>1, UpRestKeeps
<1>3. ASSUME NEW e \in Conns, Watchdog(e), UNCHANGED bridgeVars
      PROVE  UpOrder(x, s)'
  <2>1. \A y \in Conns : link'[y] = "up" => link[y] = "up"
    BY <1>3, <1>t DEF Watchdog, Closed, WireTypeOK, LinkState
  <2> QED BY <1>2, <1>3, <2>1 DEF Watchdog
<1>4. ASSUME NEW e \in Conns, LinkLost(e), UNCHANGED <<bridgeVars, agentVars>>
      PROVE  UpOrder(x, s)'
  <2>1. \A y \in Conns : link'[y] = "up" => link[y] = "up"
    BY <1>4, <1>t DEF LinkLost, WireTypeOK
  <2> QED BY <1>2, <1>4, <2>1 DEF LinkLost
<1>5. CASE UNCHANGED vars
  BY <1>2, <1>5 DEF vars
<1> QED BY <1>1, <1>3, <1>4, <1>5

-----------------------------------------------------------------------------
(* What the agent's side does to the connections. *)
AgentWires(e) ==
    /\ \/ b2a'[e] = b2a[e]
       \/ b2a[e] # <<>> /\ b2a'[e] = Tail(b2a[e])
       \/ b2a'[e] = <<>>
    /\ link'[e] = "up" => link[e] = "up"
    /\ \A s \in Sids :
          \/ peer'[<<e, s>>] = peer[<<e, s>>]
          \/ peer'[<<e, s>>] # NoClient /\ Sent(b2a[e], "CONNECT", s)

LEMMA AgentIsWired ==
    ASSUME IInv, AgentStep \/ \E l \in Links : Usbmuxd(l), NEW x \in Conns
    PROVE  AgentWires(x)
<1>t. WireTypeOK /\ AgentTypeOK /\ \A e \in Conns : b2a[e] \in Seq(UpFrame)
  BY DEF IInv, TypeOK, WireTypeOK
<1>1. ASSUME NEW l \in Links, Relay(l) \/ UxTransportLost(l) \/ Usbmuxd(l)
      PROVE  AgentWires(x)
  BY <1>1, RelayIsSide DEF RelaySide, AgentWires
<1>2. ASSUME NEW e \in Conns, OnlyCloses(e)
      PROVE  AgentWires(x)
  BY <1>2 DEF OnlyCloses, LeavesOthers, AgentWires
<1>3. ASSUME NEW e \in Conns, AgentReceivesConnect(e)
      PROVE  AgentWires(x)
  <2> DEFINE f == Head(b2a[e])
  <2>1. /\ b2a[e] # <<>> /\ f.type = "CONNECT" /\ f.sid \in Sids
        /\ f.data.client \in Clients
        /\ b2a' = [b2a EXCEPT ![e] = Tail(@)]
        /\ peer' = [peer EXCEPT ![<<e, f.sid>>] = f.data.client]
        /\ UNCHANGED link
    BY <1>3, <1>t, TakesTyped DEF AgentReceivesConnect, Takes, Piece
  <2>2. f \in Elems(b2a[e])
    BY <1>t, <2>1, ElemsTail
  <2>3. Sent(b2a[e], "CONNECT", f.sid)
    BY <2>1, <2>2 DEF Sent
  <2>4. b2a'[x] = IF x = e THEN Tail(b2a[e]) ELSE b2a[x]
    BY <1>t, <2>1 DEF WireTypeOK
  <2>5. \A s \in Sids : peer'[<<x, s>>] = IF x = e /\ s = f.sid THEN f.data.client
                                                               ELSE peer[<<x, s>>]
    BY <1>t, <2>1 DEF AgentTypeOK, Links
  <2>6. b2a'[x] = b2a[x] \/ (b2a[x] # <<>> /\ b2a'[x] = Tail(b2a[x]))
    BY <2>1, <2>4
  <2>7. \A s \in Sids : \/ peer'[<<x, s>>] = peer[<<x, s>>]
                        \/ peer'[<<x, s>>] # NoClient /\ Sent(b2a[x], "CONNECT", s)
    <3>1. f.data.client # NoClient
      BY <2>1, WireAssumption
    <3> HIDE DEF f
    <3> QED BY <2>3, <2>5, <3>1
  <2> QED BY <2>1, <2>6, <2>7 DEF AgentWires
<1>4. ASSUME NEW e \in Conns, UxOpens(e) \/ AgentReceivesData(e)
      PROVE  AgentWires(x)
  <2>1. UNCHANGED <<link, peer>>
        /\ (UNCHANGED b2a \/ (b2a[e] # <<>> /\ b2a' = [b2a EXCEPT ![e] = Tail(@)]))
    BY <1>4 DEF UxOpens, AgentReceivesData, Takes, wireVars, channels
  <2> QED BY <1>t, <2>1 DEF AgentWires, WireTypeOK
<1> QED BY <1>1, <1>2, <1>3, <1>4, DispatchCloses DEF AgentStep

LEMMA AgentKeepsHome ==
    ASSUME IInv, AgentStep \/ \E l \in Links : Usbmuxd(l), NEW e \in Conns, NEW s \in Sids,
           Home(e, s)'
    PROVE  Home(e, s)
<1>1. AgentWires(e) /\ b2a[e] \in Seq(UpFrame)
  BY AgentIsWired DEF IInv, TypeOK, WireTypeOK
<1>2. Sent(b2a'[e], "CONNECT", s) => Sent(b2a[e], "CONNECT", s)
  BY <1>1, SentTail, SentEmpty DEF AgentWires
<1> QED BY <1>1, <1>2 DEF Home, AgentWires

(* Only a relay that reads adds data. *)
LEMMA AgentAnswers ==
    ASSUME IInv, AgentStep \/ \E l \in Links : Usbmuxd(l),
           ~(\E l \in Links : RelayReads(l)), NEW x \in Conns
    PROVE  /\ UNCHANGED relayRead
           /\ a2b'[x] = a2b[x] \/ \E f : Plain(f) /\ a2b'[x] = Append(a2b[x], f)
<1> USE DEF wireVars, channels
<1>t. a2b \in [Conns -> Seq(DownFrame)]
  BY DEF IInv, TypeOK, WireTypeOK
<1>1. ASSUME NEW e \in Conns, Dispatch(e)
      PROVE  /\ UNCHANGED relayRead
             /\ a2b'[x] = a2b[x] \/ \E f : Plain(f) /\ a2b'[x] = Append(a2b[x], f)
  <2>1. CASE AgentReceivesConnect(e) \/ UxOpens(e) \/ AgentReceivesData(e)
    BY <2>1 DEF AgentReceivesConnect, UxOpens, AgentReceivesData
  <2>2. CASE OnlyCloses(e)
    BY <2>2 DEF OnlyCloses, LeavesOthers
  <2> QED BY <1>1, <2>1, <2>2, DispatchCloses
<1>2. ASSUME NEW l \in Links, RelayFinally(l), UNCHANGED relayRead
      PROVE  /\ UNCHANGED relayRead
             /\ a2b'[x] = a2b[x] \/ \E f : Plain(f) /\ a2b'[x] = Append(a2b[x], f)
  <2>1. \/ a2b' = a2b
        \/ a2b' = [a2b EXCEPT ![l[1]] = Append(@, Control("CLOSE", l[2]))]
    BY <1>2 DEF RelayFinally, AgentSends, AgentSendLost
  <2> QED BY <1>t, <1>2, <2>1, ControlIsPlain
<1>3. ASSUME NEW l \in Links, Relay(l)
      PROVE  /\ UNCHANGED relayRead
             /\ a2b'[x] = a2b[x] \/ \E f : Plain(f) /\ a2b'[x] = Append(a2b[x], f)
  BY <1>2, <1>3 DEF Relay, RelayStarts, RelayEOF, RelayDataDrained, RelayDataFails,
                    RelayCancelled, RelayCloseDrained
<1>4. ASSUME NEW l \in Links, UxTransportLost(l) \/ Usbmuxd(l)
      PROVE  UNCHANGED <<relayRead, a2b>>
  BY <1>4 DEF UxTransportLost, Usbmuxd, UxWrites, UxReads, UxCloses
<1> QED BY <1>1, <1>3, <1>4 DEF AgentStep

(* What the bridge's side does to its connection: only a handler's first   *)
(* step adds a CONNECT, with its id.                                       *)
LEMMA BridgeAdds ==
    ASSUME IInv, BridgeStep \/ \E c \in Clients : App(c), NEW e \in Conns
    PROVE  \/ b2a'[e] = b2a[e]
           \/ \E f : /\ Wired(e) /\ b2a'[e] = Append(b2a[e], f)
                     /\ f.type = "CONNECT" =>
                           f.sid = nextId /\ \E c \in Clients : HandlerStarts(c)
<1>t. WireTypeOK
  BY DEF IInv, TypeOK
<1>1. CASE ~(\E c \in Clients : HandlerStarts(c) \/ HandlerReads(c))
  BY <1>1, BridgeIsPlain DEF PlainStep, Plain, Adds
<1>2. ASSUME NEW c \in Clients, HandlerReads(c)
      PROVE  \E f : Adds(f) /\ f.type # "CONNECT"
  <2>1. LET f == Data(sid[c], c, upRead[c] + 1)
        IN  BridgeSends(f) \/ BridgeSendDropped \/ BridgeSendRaises
    BY <1>2 DEF HandlerReads
  <2>2. Adds(Data(sid[c], c, upRead[c] + 1))
    BY <1>t, <2>1, BridgeSendsAdds
  <2> QED BY <2>2 DEF Data
<1>3. ASSUME NEW c \in Clients, HandlerStarts(c)
      PROVE  \E f : Adds(f) /\ f.sid = nextId
  <2>1. LET f == Connect(nextId, c)
        IN  BridgeSends(f) \/ BridgeSendDropped \/ BridgeSendRaises
    BY <1>3 DEF HandlerStarts, Registers
  <2>2. Adds(Connect(nextId, c))
    BY <1>t, <2>1, BridgeSendsAdds
  <2> QED BY <2>2 DEF Connect
<1> QED BY <1>1, <1>2, <1>3 DEF Adds

LEMMA BridgeKeepsHome ==
    ASSUME IInv, BridgeStep \/ \E c \in Clients : App(c), UNCHANGED agentVars,
           NEW e \in Conns, NEW s \in Sids, Home(e, s)',
           s # nextId \/ ~Wired(e) \/ ~\E c \in Clients : HandlerStarts(c)
    PROVE  Home(e, s)
<1>1. UNCHANGED peer /\ b2a[e] \in Seq(UpFrame)
  BY DEF agentVars, dispatchVars, IInv, TypeOK, WireTypeOK
<1>2. Sent(b2a'[e], "CONNECT", s) => Sent(b2a[e], "CONNECT", s)
  <2>1. CASE b2a'[e] = b2a[e]
    BY <2>1
  <2>2. ASSUME NEW f, b2a'[e] = Append(b2a[e], f), Wired(e),
               f.type = "CONNECT" =>
                  f.sid = nextId /\ \E c \in Clients : HandlerStarts(c)
        PROVE  Sent(b2a'[e], "CONNECT", s) => Sent(b2a[e], "CONNECT", s)
    BY <1>1, <2>2, SentAppend
  <2> QED BY <2>1, <2>2, BridgeAdds
<1> QED BY <1>1, <1>2 DEF Home

(* All steps of the bridge's side but a handler's first one and DATA.      *)
BridgeRests ==
    /\ UNCHANGED <<sid, toLocal, connCount>>
    /\ agentWriter' \in {agentWriter, 0}
    /\ \A s \in Sids : localClients'[s] \in {localClients[s], NoClient}
    /\ \A c \in Clients :
          /\ hpc'[c] \in {"none", "accepted"} => hpc[c] \in {"none", "accepted"}
          /\ upRead'[c] = upRead[c] \/ hpc[c] = "read"
          /\ lt'[c] = "open" => lt[c] = "open" \/ sid[c] = 0
    /\ \A e \in Conns :
          /\ link'[e] = "up" => link[e] = "up"
          /\ \/ a2b'[e] = a2b[e]
             \/ a2b[e] # <<>> /\ Plain(Head(a2b[e])) /\ a2b'[e] = Tail(a2b[e])
             \/ a2b'[e] = <<>> /\ agentWriter' # e

LEMMA BridgeIsResting ==
    ASSUME IInv, BridgeStep \/ \E c \in Clients : App(c),
           ~(\E c \in Clients : HandlerStarts(c)), ~(\E e \in Conns : BridgeReceivesData(e))
    PROVE  BridgeRests
<1> USE DEF connVars, hbVars, handlerVars, appVars, downVars, wireVars, channels
<1>t. WireTypeOK /\ BridgeTypeOK /\ Started /\ Arrived
  BY DEF IInv, TypeOK
<1>b. /\ UNCHANGED sid
      /\ \A s \in Sids : localClients'[s] \in {localClients[s], NoClient}
      /\ \A c \in Clients : hpc'[c] \in {"none", "accepted"} => hpc[c] \in {"none", "accepted"}
  BY BridgeStepEffect, AppEffect DEF BridgeEffect
(* Steps that leave the connection alone. *)
<1>c. ASSUME UNCHANGED <<toLocal, connCount, agentWriter, link, a2b>>,
             \A c \in Clients : /\ upRead'[c] = upRead[c] \/ hpc[c] = "read"
                                /\ lt'[c] = "open" => lt[c] = "open" \/ sid[c] = 0
      PROVE  BridgeRests
  BY <1>b, <1>c DEF BridgeRests
<1>w. \A c \in Clients : CloseWriter(c) =>
         \A d \in Clients : lt'[d] = "open" => lt[d] = "open"
  BY <1>t DEF CloseWriter, ClosedWriter, BridgeTypeOK
<1>d. ASSUME TearsDown, UNCHANGED <<toLocal, connCount, upRead>>
      PROVE  BridgeRests
  <2>1. /\ \A e \in Conns : link'[e] = "up" => link[e] = "up"
        /\ \A e \in Conns : a2b'[e] = a2b[e] \/ a2b'[e] = <<>>
        /\ \A c \in Clients : lt'[c] = "open" => lt[c] = "open"
        /\ agentWriter' = 0
    BY <1>d, <1>t DEF TearsDown, Closed, ClosedWriter, WireTypeOK, LinkState
  <2>2. \A e \in Conns : agentWriter' # e
    BY <2>1 DEF Conns
  <2> QED BY <1>b, <1>d, <2>1, <2>2 DEF BridgeRests
<1>r. ASSUME NEW e \in Conns, NEW type, Receives(e, type), type \notin {"CONNECT", "DATA"},
             UNCHANGED <<toLocal, connCount, agentWriter, link, upRead>>,
             \A c \in Clients : lt'[c] = "open" => lt[c] = "open"
      PROVE  BridgeRests
  <2>1. \A x \in Conns : a2b'[x] = a2b[x]
           \/ (a2b[x] # <<>> /\ Plain(Head(a2b[x])) /\ a2b'[x] = Tail(a2b[x]))
    BY <1>r, <1>t DEF Receives, Plain, WireTypeOK
  <2> QED BY <1>b, <1>r, <2>1 DEF BridgeRests
<1>1. ASSUME NEW c \in Clients, Handler(c)
      PROVE  BridgeRests
  <2>1. UNCHANGED <<toLocal, connCount, agentWriter, link, a2b>>
    BY <1>1 DEF Handler, ConnectDrained, ConnectFails, HandlerReads, HandlerEOF,
                DataDrained, DataFails, CloseDrained
  <2>2. UNCHANGED lt \/ CloseWriter(c)
    BY <1>1 DEF Handler, ConnectDrained, ConnectFails, HandlerReads, HandlerEOF,
                DataDrained, DataFails, CloseDrained, Finally, Leaves
  <2>3. \A d \in Clients : upRead'[d] = upRead[d] \/ hpc[d] = "read"
    BY <1>1, <1>t DEF Handler, ConnectDrained, ConnectFails, HandlerReads, HandlerEOF,
                      DataDrained, DataFails, CloseDrained, BridgeTypeOK
  <2> QED BY <1>c, <1>w, <2>1, <2>2, <2>3
<1>2. ASSUME NEW e \in Conns, BridgeReceivesClose(e) \/ BridgeReceivesHeartbeat(e)
      PROVE  BridgeRests
  BY <1>2, <1>r DEF BridgeReceivesClose, BridgeReceivesHeartbeat, bridgeVars, ClosedWriter
<1>3. CASE LocalDrained \/ SendDrained \/ Beat \/ BeatDrained
  BY <1>3, <1>c DEF LocalDrained, SendDrained, Beat, BeatDrained
<1>4. CASE BridgeEOF
  <2>1. CASE TearsDown
    BY <1>4, <1>d, <2>1 DEF BridgeEOF
  <2>2. CASE UNCHANGED <<lt, localClients, link, a2b, agentWriter>>
    BY <1>4, <1>c, <2>2 DEF BridgeEOF
  <2> QED BY <1>4, <2>1, <2>2 DEF BridgeEOF
<1>5. CASE WaitClosedReturns
  BY <1>5, <1>d DEF WaitClosedReturns
<1>6. ASSUME NEW c \in Clients, LocalTransportLost(c)
      PROVE  BridgeRests
  BY <1>6, <1>c, <1>t DEF LocalTransportLost, BridgeTypeOK
<1>7. ASSUME NEW c \in Clients, App(c)
      PROVE  BridgeRests
  <2>1. CASE AppConnects(c)
    <3>1. sid[c] = 0
      BY <1>t, <2>1 DEF AppConnects, Arrived, Started
    <3> QED BY <1>c, <1>t, <2>1, <3>1 DEF AppConnects, BridgeTypeOK
  <2>2. CASE AppWrites(c) \/ AppReads(c) \/ AppCloses(c)
    BY <1>c, <2>2 DEF AppWrites, AppReads, AppCloses
  <2> QED BY <1>7, <2>1, <2>2 DEF App
<1> QED
  BY <1>1, <1>2, <1>3, <1>4, <1>5, <1>6, <1>7 DEF BridgeStep, ReaderLoop

-----------------------------------------------------------------------------
(* Where a session starts *)

(* One and the same condition covers both sides' steps.                    *)
LEMMA ChannelsStart ==
    ASSUME IInv, Starts, NEW e \in Conns,
           \/ b2a'[e] = b2a[e]
           \/ b2a[e] # <<>> /\ b2a'[e] = Tail(b2a[e])
           \/ b2a'[e] = <<>>
           \/ \E f : /\ b2a'[e] = Append(b2a[e], f)
                     /\ f.type = "CONNECT" => f.sid = nextId /\ nextId \in Sids
    PROVE  ConnectsFirst(b2a[e])'
<1>1. b2a[e] \in Seq(UpFrame) /\ ConnectsFirst(b2a[e])
  BY DEF IInv, TypeOK, WireTypeOK, Starts
<1>2. CASE b2a'[e] = b2a[e] \/ (b2a[e] # <<>> /\ b2a'[e] = Tail(b2a[e]))
  BY <1>1, <1>2, TailConnectsFirst
<1>3. CASE b2a'[e] = <<>>
  BY <1>3 DEF ConnectsFirst
<1>4. ASSUME NEW f, b2a'[e] = Append(b2a[e], f),
             f.type = "CONNECT" => f.sid = nextId /\ nextId \in Sids
      PROVE  ConnectsFirst(b2a[e])'
  <2>1. f.type = "CONNECT" => \A g \in Elems(b2a[e]) :
                                 ~(g.type \in {"CONNECT", "DATA"} /\ g.sid = f.sid)
    BY <1>4, NoHomeYet DEF Sids
  <2>2. ConnectsFirst(Append(b2a[e], f))
    BY <1>1, <2>1, AppendConnectsFirst
  <2> QED BY <1>4, <2>2
<1> QED BY <1>2, <1>3, <1>4

LEMMA BridgeKeepsStarts ==
    ASSUME IInv, Starts, UNCHANGED agentVars, BridgeStep \/ \E c \in Clients : App(c)
    PROVE  Starts'
<1> USE DEF connVars, appVars, downVars, dispatchVars, uxVars
<1>t. /\ WireTypeOK /\ BridgeTypeOK /\ Started /\ Registered
      /\ \A e \in Conns : a2b[e] \in Seq(DownFrame)
  BY DEF IInv, TypeOK, WireTypeOK
<1>s. Fresh /\ Untouched /\ NewConns /\ Answered
  BY DEF Starts
<1>d. ASSUME NEW e \in Conns, BridgeReceivesData(e)
      PROVE  /\ UNCHANGED <<hpc, upRead, connCount, agentWriter>>
             /\ \A c \in Clients : toLocal'[c] = toLocal[c] \/ hpc[c] \notin {"none", "accepted"}
             /\ a2b[e] # <<>> /\ a2b' = [a2b EXCEPT ![e] = Tail(@)]
  <2> DEFINE s == Head(a2b[e]).sid
             d == localClients[s]
  <2>1. s \in Sids
    BY <1>d, <1>t, ReceivesTyped DEF BridgeReceivesData
  <2>2. d # NoClient => d \in Clients /\ sid[d] = s /\ s # 0
    BY <1>t, <2>1 DEF Registered, BridgeTypeOK, Sids
  <2>3. d # NoClient => hpc[d] \notin {"none", "accepted"}
    BY <1>t, <2>2 DEF Started
  <2>4. \/ UNCHANGED toLocal
        \/ d # NoClient /\ \A c \in Clients \ {d} : toLocal'[c] = toLocal[c]
    BY <1>d, <1>t DEF BridgeReceivesData, BridgeTypeOK
  <2> QED BY <1>d, <2>3, <2>4 DEF BridgeReceivesData, Receives, handlerVars
<1>h. ASSUME NEW c \in Clients, HandlerStarts(c)
      PROVE  /\ hpc'[c] \notin {"none", "accepted"} /\ nextId \in Sids
             /\ \A d \in Clients \ {c} : hpc'[d] = hpc[d]
             /\ UNCHANGED <<upRead, toLocal, connCount, agentWriter, a2b>>
  BY <1>h, <1>t DEF HandlerStarts, Registers, GoesTo, AfterSend, BridgeTypeOK
<1>1. Fresh'
  <2>1. CASE BridgeRests
    BY <1>s, <2>1 DEF BridgeRests, Fresh
  <2>2. ASSUME NEW e \in Conns, BridgeReceivesData(e)
        PROVE  Fresh'
    BY <1>d, <1>s, <2>2 DEF Fresh
  <2>3. ASSUME NEW c \in Clients, HandlerStarts(c)
        PROVE  Fresh'
    BY <1>h, <1>s, <2>3 DEF Fresh
  <2> QED BY <2>1, <2>2, <2>3, BridgeIsResting
<1>2. Untouched'
  BY <1>s DEF agentVars, Untouched, UntouchedLink
<1>3. NewConns'
  <2>1. connCount' = connCount /\ agentWriter' \in {agentWriter, 0}
    BY <1>d, <1>h, BridgeIsResting DEF BridgeRests
  <2>2. agentWriter' <= connCount'
    BY <1>s, <1>t, <2>1 DEF NewConns, BridgeTypeOK
  <2>3. ASSUME NEW e \in Conns, e > connCount
        PROVE  ~Wired(e)
    <3>1. agentWriter <= connCount /\ connCount \in Nat /\ e \in Nat
      BY <1>s, <1>t DEF NewConns, BridgeTypeOK, Conns
    <3> QED BY <2>3, <3>1 DEF Wired
  <2>4. ASSUME NEW e \in Conns, NEW s \in Sids, e > connCount, Home(e, s)'
        PROVE  FALSE
    <3>1. Home(e, s)
      BY <2>3, <2>4, BridgeKeepsHome
    <3> QED BY <1>s, <2>4, <3>1 DEF NewConns
  <2> QED BY <2>1, <2>2, <2>4 DEF NewConns
<1>4. Answered'
  <2>1. \A e \in Conns : \/ a2b'[e] = a2b[e]
                         \/ a2b[e] # <<>> /\ a2b'[e] = Tail(a2b[e])
                         \/ a2b'[e] = <<>>
    <3>1. CASE BridgeRests
      BY <3>1 DEF BridgeRests
    <3>2. ASSUME NEW e \in Conns, BridgeReceivesData(e)
          PROVE  \A x \in Conns : a2b'[x] = a2b[x] \/ (a2b[x] # <<>> /\ a2b'[x] = Tail(a2b[x]))
      BY <1>d, <1>t, <3>2 DEF WireTypeOK
    <3>3. ASSUME NEW c \in Clients, HandlerStarts(c)
          PROVE  UNCHANGED a2b
      BY <1>h, <3>3
    <3> QED BY <3>1, <3>2, <3>3, BridgeIsResting
  <2>2. \A e \in Conns, s \in Sids : Sent(a2b'[e], "DATA", s) => Sent(a2b[e], "DATA", s)
    BY <1>t, <2>1, SentTail, SentEmpty
  <2> QED BY <1>s, <2>2 DEF Answered, agentVars
<1>5. \A e \in Conns : ConnectsFirst(b2a[e])'
  BY <1>h, BridgeAdds, ChannelsStart
<1> QED BY <1>1, <1>2, <1>3, <1>4, <1>5 DEF Starts

LEMMA AgentKeepsStarts ==
    ASSUME IInv, Starts, UNCHANGED bridgeVars, AgentStep \/ \E l \in Links : Usbmuxd(l)
    PROVE  Starts'
<1> USE DEF connVars, handlerVars, appVars, downVars, dispatchVars, uxVars, wireVars, channels
<1>t. /\ WireTypeOK /\ AgentTypeOK /\ Working /\ Opened
      /\ \A e \in Conns : a2b[e] \in Seq(DownFrame)
  BY DEF IInv, TypeOK, WireTypeOK
<1>s. Fresh /\ Untouched /\ NewConns /\ Answered
  BY DEF Starts
<1>1. Fresh'
  BY <1>s DEF bridgeVars, Fresh
<1>2. Untouched'
  <2>1. CASE RelaySide
    BY <1>s, <2>1 DEF RelaySide, Untouched, UntouchedLink, Links
  <2>2. ASSUME NEW e \in Conns, OnlyCloses(e)
        PROVE  Untouched'
    <3>1. \A x \in Conns : sessions'[x] \subseteq sessions[x]
      BY <2>2 DEF OnlyCloses, LeavesOthers
    <3> QED BY <1>s, <2>2, <3>1 DEF OnlyCloses, Untouched, UntouchedLink, Links
  <2>3. ASSUME NEW e \in Conns, AgentReceivesConnect(e)
        PROVE  Untouched'
    BY <1>s, <2>3 DEF AgentReceivesConnect, Untouched, UntouchedLink
  <2>4. ASSUME NEW e \in Conns, UxOpens(e)
        PROVE  Untouched'
    <3>1. /\ rpc' = [rpc EXCEPT ![<<e, acur[e]>>] = "created"]
          /\ ut' = [ut EXCEPT ![<<e, acur[e]>>] = "open"]
          /\ sessions' = [sessions EXCEPT ![e] = @ \cup {acur[e]}]
          /\ UNCHANGED <<toUx, relayRead, downSent>>
      BY <2>4 DEF UxOpens
    <3>2. ASSUME NEW l \in Links, l # <<e, acur[e]>>
          PROVE  UntouchedLink(l)'
      <4>1. rpc'[l] = rpc[l] /\ ut'[l] = ut[l]
        BY <1>t, <3>1, <3>2 DEF AgentTypeOK
      <4>2. l[2] \in sessions'[l[1]] => l[2] \in sessions[l[1]]
        BY <1>t, <3>1, <3>2 DEF AgentTypeOK, Links
      <4> QED BY <1>s, <3>1, <4>1, <4>2 DEF Untouched, UntouchedLink
    <3>3. ASSUME NEW l \in Links, l = <<e, acur[e]>>
          PROVE  UntouchedLink(l)'
      BY <1>t, <3>1, <3>3 DEF UntouchedLink, AgentTypeOK
    <3> QED BY <3>2, <3>3 DEF Untouched
  <2>5. ASSUME NEW e \in Conns, AgentReceivesData(e)
        PROVE  Untouched'
    <3>1. Head(b2a[e]).sid \in sessions[e] /\ UNCHANGED <<sessions, rpc, ut, uxVars, relayRead>>
          /\ \A l \in Links : l # <<e, Head(b2a[e]).sid>> => toUx'[l] = toUx[l]
      BY <1>t, <2>5 DEF AgentReceivesData, AgentTypeOK
    <3> QED BY <1>s, <3>1 DEF Untouched, UntouchedLink, Links
  <2> QED BY <2>1, <2>2, <2>3, <2>4, <2>5, RelayIsSide, DispatchCloses DEF AgentStep
<1>3. NewConns'
  BY <1>s, AgentKeepsHome DEF bridgeVars, NewConns
<1>4. Answered'
  <2> SUFFICES ASSUME NEW e \in Conns, NEW s \in Sids, Sent(a2b'[e], "DATA", s)
               PROVE  peer'[<<e, s>>] # NoClient
    BY DEF Answered
  <2>0. AgentWires(e)
    BY AgentIsWired
  <2>1. CASE Sent(a2b[e], "DATA", s)
    BY <1>s, <2>0, <2>1 DEF Answered, AgentWires
  <2>2. ASSUME NEW l \in Links, RelayReads(l), ~Sent(a2b[e], "DATA", s)
        PROVE  peer'[<<e, s>>] # NoClient
    <3>1. /\ rpc[l] = "read" /\ UNCHANGED peer
          /\ \/ a2b' = a2b
             \/ a2b' = [a2b EXCEPT ![l[1]] = Append(@, Data(l[2], peer[l], relayRead[l] + 1))]
      BY <2>2 DEF RelayReads, AgentSends, AgentSendLost
    <3>2. e = l[1] /\ a2b'[e] = Append(a2b[e], Data(l[2], peer[l], relayRead[l] + 1))
      BY <1>t, <2>2, <3>1 DEF WireTypeOK
    <3>3. l = <<e, s>>
      BY <1>t, <2>2, <3>2, SentAppend DEF Data, Links
    <3> QED BY <1>t, <3>1, <3>3 DEF Opened, Alive
  <2>3. CASE ~(\E l \in Links : RelayReads(l)) /\ ~Sent(a2b[e], "DATA", s)
    <3>1. a2b'[e] = a2b[e] \/ \E f : Plain(f) /\ a2b'[e] = Append(a2b[e], f)
      BY <2>3, AgentAnswers
    <3>2. PICK f : Plain(f) /\ (a2b'[e] = a2b[e] \/ a2b'[e] = Append(a2b[e], f))
      BY <3>1, ControlIsPlain
    <3>3. Sent(Append(a2b[e], f), "DATA", s) => Sent(a2b[e], "DATA", s)
      BY <1>t, <3>2, SentAppend DEF Plain
    <3> QED BY <2>3, <3>2, <3>3
  <2> QED BY <2>1, <2>2, <2>3
<1>5. \A e \in Conns : ConnectsFirst(b2a[e])'
  BY AgentIsWired, ChannelsStart DEF AgentWires
<1> QED BY <1>1, <1>2, <1>3, <1>4, <1>5 DEF Starts

LEMMA StepKeepsStarts ==
    ASSUME IInv, Starts, [Next]_vars
    PROVE  Starts'
<1> USE DEF wireVars, channels, bridgeVars, connVars, handlerVars, appVars, downVars,
            agentVars, dispatchVars, uxVars
<1>t. BridgeTypeOK
  BY DEF IInv, TypeOK
<1>r. ASSUME UNCHANGED <<b2a, a2b, hpc, upRead, toLocal, sessions, peer, rpc, ut, toUx,
                         relayRead, downSent>>,
             connCount' \in Nat, connCount' >= connCount, agentWriter' <= connCount'
      PROVE  Starts'
  <2>1. Fresh' /\ Untouched' /\ Answered' /\ \A e \in Conns : ConnectsFirst(b2a[e])'
    BY <1>r DEF Starts, Fresh, Untouched, UntouchedLink, Answered
  <2>2. NewConns'
    <3>1. \A e \in Conns : e > connCount' => e > connCount
      BY <1>r, <1>t DEF BridgeTypeOK, Conns
    <3>2. \A e \in Conns, s \in Sids : Home(e, s)' = Home(e, s)
      BY <1>r DEF Home
    <3> QED BY <1>r, <3>1, <3>2 DEF Starts, NewConns
  <2> QED BY <2>1, <2>2 DEF Starts
<1>1. CASE Connects
  <2>1. connCount' = connCount + 1 /\ agentWriter' = connCount'
    BY <1>1 DEF Connects, BridgeConnects
  <2> QED BY <1>1, <1>r, <1>t, <2>1 DEF Connects, BridgeConnects, BridgeTypeOK
<1>2. ASSUME UNCHANGED <<b2a, a2b, bridgeVars, agentVars>>
      PROVE  Starts'
  BY <1>2, <1>r, <1>t DEF Starts, NewConns, BridgeTypeOK
<1>3. CASE \/ \E e \in Conns : Watchdog(e) /\ UNCHANGED bridgeVars
           \/ \E e \in Conns : LinkLost(e) /\ UNCHANGED <<bridgeVars, agentVars>>
           \/ UNCHANGED vars
  BY <1>2, <1>3 DEF Watchdog, LinkLost, vars
<1> QED BY <1>1, <1>3, BridgeKeepsStarts, AgentKeepsStarts DEF Next

-----------------------------------------------------------------------------
(* From the agent to the bridge *)

(* A step that is not about client c's session on connection e.            *)
DownRest(e, c) ==
    /\ toLocal'[c] = toLocal[c]
    /\ DownLive(e, c)' =>
          /\ DownLive(e, c) /\ sid'[c] = sid[c]
          /\ SameRun(a2b[e], a2b'[e], sid[c])
          /\ link'[e] = "up" =>
                link[e] = "up" /\ relayRead'[<<e, sid[c]>>] = relayRead[<<e, sid[c]>>]

LEMMA DownRestKeeps ==
    ASSUME WireTypeOK, NEW e \in Conns, NEW c \in Clients, DownOrder(e, c), DownRest(e, c)
    PROVE  DownOrder(e, c)'
<1> SUFFICES ASSUME DownLive(e, c)'
             PROVE  /\ Follows(a2b'[e], sid[c], Len(toLocal[c]))
                    /\ link'[e] = "up" =>
                          UpTo(a2b'[e], sid[c], Len(toLocal[c]), relayRead[<<e, sid[c]>>])
  BY DEF DownRest, DownOrder
<1>1. a2b[e] \in Seq(DownFrame)
  BY DEF WireTypeOK
<1>2. Follows(a2b[e], sid[c], Len(toLocal[c]))
  BY DEF DownRest, DownOrder
<1>3. /\ Follows(a2b'[e], sid[c], Len(toLocal[c]))
      /\ \A m : UpTo(a2b[e], sid[c], Len(toLocal[c]), m)
                => UpTo(a2b'[e], sid[c], Len(toLocal[c]), m)
  BY <1>1, <1>2, SameRunFollows DEF DownRest
<1> QED BY <1>3 DEF DownRest, DownOrder

DownsOrder ==
    /\ \A e \in Conns, c \in Clients : DownOrder(e, c)
    /\ \A c \in Clients : Numbered(toLocal[c])

LEMMA BridgeDown ==
    ASSUME IInv, Starts, DownsOrder, UNCHANGED agentVars,
           BridgeStep \/ \E c \in Clients : App(c)
    PROVE  DownsOrder'
<1>t. /\ WireTypeOK /\ BridgeTypeOK /\ AgentTypeOK /\ Started /\ Registered
      /\ \A e \in Conns : a2b[e] \in Seq(DownFrame)
  BY DEF IInv, TypeOK, WireTypeOK
<1>u. UNCHANGED <<relayRead, peer, rpc>>
  BY DEF agentVars, dispatchVars
<1>1. CASE BridgeRests /\ ~(\E c \in Clients : HandlerStarts(c))
  <2>1. ASSUME NEW e \in Conns, NEW c \in Clients, DownLive(e, c)'
        PROVE  DownLive(e, c) /\ agentWriter' = e
    <3>1. sid'[c] = sid[c] /\ sid[c] # 0 /\ sid[c] \in Sids
      BY <1>1, <1>t, <2>1 DEF BridgeRests, DownLive, BridgeTypeOK
    <3>2. Home(e, sid[c])
      BY <1>1, <2>1, <3>1, BridgeKeepsHome DEF DownLive
    <3>3. localClients[sid[c]] = c
      BY <1>1, <2>1, <3>1, WireAssumption DEF BridgeRests, DownLive
    <3> QED BY <1>1, <2>1, <3>1, <3>2, <3>3 DEF BridgeRests, DownLive, Conns
  <2>2. ASSUME NEW e \in Conns, NEW c \in Clients
        PROVE  DownOrder(e, c)'
    <3>1. DownRest(e, c)
      BY <1>1, <1>u, <2>1 DEF BridgeRests, DownRest, SameRun, Plain, IsData
    <3> QED BY <1>t, <3>1, DownRestKeeps DEF DownsOrder
  <2> QED BY <1>1, <2>2 DEF BridgeRests, DownsOrder
<1>2. ASSUME NEW x \in Conns, BridgeReceivesData(x)
      PROVE  DownsOrder'
  <2>f. PICK f : f = Head(a2b[x])
    OBVIOUS
  <2>d. PICK d : d = localClients[f.sid]
    OBVIOUS
  <2>1. /\ a2b[x] # <<>> /\ a2b' = [a2b EXCEPT ![x] = Tail(@)]
        /\ f.type = "DATA" /\ f.sid \in Sids /\ f.data \in Piece
        /\ x = agentWriter
        /\ UNCHANGED <<link, agentWriter, sid, localClients, lt>>
        /\ IF d = NoClient THEN UNCHANGED toLocal
           ELSE toLocal' = [toLocal EXCEPT ![d] =
                              IF lt[d] = "open" THEN Append(@, f.data) ELSE @]
    BY <1>2, <1>t, <2>f, <2>d, ReceivesTyped
    DEF BridgeReceivesData, Receives, handlerVars, downVars
  <2>2. Home(x, f.sid)
    <3>1. f \in Elems(a2b[x])
      BY <1>t, <2>f, <2>1, ElemsTail
    <3>2. Sent(a2b[x], "DATA", f.sid)
      BY <2>1, <3>1 DEF Sent
    <3> QED BY <2>1, <3>2 DEF Starts, Answered, Home
  <2>3. d # NoClient => d \in Clients /\ sid[d] = f.sid /\ f.sid # 0
    BY <1>t, <2>d, <2>1 DEF Registered, BridgeTypeOK, Sids
  <2>h. \A s \in Sids : Home(x, s)' => Home(x, s)
    <3>1. Adds(Control("CLOSE", f.sid)) \/ UNCHANGED b2a
      BY <1>2, <1>t, <2>f, BridgeSendsAdds DEF BridgeReceivesData, BridgeSendRaises
    <3>2. b2a'[x] \in {b2a[x], Append(b2a[x], Control("CLOSE", f.sid))}
      BY <3>1 DEF Adds
    <3>3. b2a[x] \in Seq(UpFrame) /\ Control("CLOSE", f.sid).type # "CONNECT"
      BY <1>t DEF WireTypeOK, Control
    <3>4. \A s \in Sids : Sent(Append(b2a[x], Control("CLOSE", f.sid)), "CONNECT", s)
                          => Sent(b2a[x], "CONNECT", s)
      BY <3>3, SentAppend
    <3> QED BY <1>u, <3>2, <3>4 DEF Home
(* The client the piece is for takes it, and it is the next one.           *)
  <2>4. ASSUME d # NoClient, lt[d] = "open"
        PROVE  Numbered(toLocal'[d]) /\ DownOrder(x, d)'
    <3>k. PICK k : k = Len(toLocal[d])
      OBVIOUS
    <3>0. toLocal' = [toLocal EXCEPT ![d] = Append(@, f.data)]
      BY <2>1, <2>4
    <3>1. /\ d \in Clients /\ toLocal[d] \in Seq(Piece) /\ k \in Nat
          /\ toLocal'[d] = Append(toLocal[d], f.data)
      BY <1>t, <2>3, <2>4, <3>0, <3>k DEF BridgeTypeOK
    <3>2. DownLive(x, d)
      BY <2>d, <2>1, <2>2, <2>3, <2>4 DEF DownLive
    <3>3. /\ Follows(a2b[x], f.sid, k)
          /\ link[x] = "up" => UpTo(a2b[x], f.sid, k, relayRead[<<x, f.sid>>])
      BY <2>3, <2>4, <3>k, <3>1, <3>2 DEF DownsOrder, DownOrder
    <3>4. \A i \in 1 .. Len(a2b[x]) : IsData(a2b[x][i], f.sid) => a2b[x][i].data.n \in Nat
      BY <1>t, DownFields DEF IsData, Piece
    <3>5. /\ f.data.n = k + 1
          /\ Follows(Tail(a2b[x]), f.sid, k + 1)
          /\ \A m : UpTo(a2b[x], f.sid, k, m) => UpTo(Tail(a2b[x]), f.sid, k + 1, m)
      <4>1. IsData(Head(a2b[x]), f.sid)
        BY <2>f, <2>1 DEF IsData
      <4> QED BY <1>t, <2>f, <2>1, <3>1, <3>3, <3>4, <4>1, FirstFollows
    <3>6. Numbered(toLocal'[d]) /\ Len(toLocal'[d]) = k + 1
      BY <3>k, <3>1, <3>5, AppendNumbered DEF DownsOrder
    <3>7. a2b'[x] = Tail(a2b[x]) /\ sid'[d] = f.sid
      BY <1>t, <2>1, <2>3, <2>4 DEF WireTypeOK
    <3>8. DownOrder(x, d)'
      BY <1>u, <2>1, <3>3, <3>5, <3>6, <3>7 DEF DownOrder
    <3> QED BY <3>6, <3>8
  <2>5. ASSUME NEW c \in Clients, ~(c = d /\ lt[d] = "open")
        PROVE  toLocal'[c] = toLocal[c]
    BY <1>t, <2>1, <2>5 DEF BridgeTypeOK
  <2>6. ASSUME NEW e \in Conns, NEW c \in Clients, ~(c = d /\ lt[d] = "open")
        PROVE  DownOrder(e, c)'
    <3>1. ASSUME DownLive(e, c)'
          PROVE  /\ DownLive(e, c) /\ e = x /\ sid[c] # f.sid
      <4>1. e = x /\ sid[c] \in Sids /\ localClients[sid[c]] = c /\ lt[c] = "open"
        BY <1>t, <2>1, <3>1 DEF DownLive, BridgeTypeOK
      <4>2. Home(e, sid[c])
        BY <2>1, <2>h, <3>1, <4>1 DEF DownLive
      <4> QED BY <2>d, <2>1, <2>6, <3>1, <4>1, <4>2 DEF DownLive
    <3>2. a2b'[x] = Tail(a2b[x])
      BY <1>t, <2>1 DEF WireTypeOK
    <3>3. DownRest(e, c)
      BY <1>u, <2>f, <2>1, <2>5, <2>6, <3>1, <3>2 DEF DownRest, SameRun, IsData
    <3> QED BY <1>t, <3>3, DownRestKeeps DEF DownsOrder
  <2>7. ASSUME NEW e \in Conns, e # x
        PROVE  DownOrder(e, d)'
    BY <2>1, <2>7 DEF DownOrder, DownLive
  <2>8. ASSUME NEW e \in Conns, NEW c \in Clients
        PROVE  DownOrder(e, c)' /\ Numbered(toLocal'[c])
    <3>1. CASE c = d /\ lt[d] = "open"
      BY <2>4, <2>7, <3>1, WireAssumption
    <3>2. CASE ~(c = d /\ lt[d] = "open")
      BY <2>5, <2>6, <3>2 DEF DownsOrder
    <3> QED BY <3>1, <3>2
  <2> QED BY <2>8 DEF DownsOrder
<1>3. ASSUME NEW d \in Clients, HandlerStarts(d)
      PROVE  DownsOrder'
  <2>1. /\ nextId \in Sids /\ hpc[d] = "accepted"
        /\ sid' = [sid EXCEPT ![d] = nextId]
        /\ localClients' = [localClients EXCEPT ![nextId] = d] \/ UNCHANGED localClients
        /\ \A c \in Clients : lt'[c] = "open" => lt[c] = "open"
        /\ UNCHANGED <<toLocal, agentWriter, link, a2b>>
    BY <1>3, <1>t DEF HandlerStarts, Registers, CloseWriter, ClosedWriter, connVars, downVars,
                      BridgeTypeOK
  <2>2. ASSUME NEW e \in Conns, NEW c \in Clients \ {d}
        PROVE  DownOrder(e, c)'
    <3>1. sid'[c] = sid[c] /\ sid[c] # nextId
      <4>1. sid[c] \in 0 .. (nextId - 1) /\ nextId \in Nat
        BY <2>1, IdsBelow DEF Sids
      <4>2. sid[c] # nextId
        BY <4>1
      <4> QED BY <1>t, <2>1, <4>2 DEF BridgeTypeOK
    <3>2. DownLive(e, c)' => DownLive(e, c)
      <4> SUFFICES ASSUME DownLive(e, c)' PROVE DownLive(e, c)
        OBVIOUS
      <4>1. sid[c] \in Sids /\ sid[c] # 0
        BY <1>t, <3>1 DEF DownLive, BridgeTypeOK
      <4>2. localClients'[sid[c]] = localClients[sid[c]]
        BY <1>t, <2>1, <3>1, <4>1 DEF BridgeTypeOK
      <4>3. Home(e, sid[c])
        BY <3>1, <4>1, BridgeKeepsHome DEF DownLive
      <4> QED BY <2>1, <3>1, <4>2, <4>3 DEF DownLive
    <3>3. DownRest(e, c)
      BY <1>u, <2>1, <3>1, <3>2 DEF DownRest, SameRun
    <3> QED BY <1>t, <3>3, DownRestKeeps DEF DownsOrder
(* Nothing of the new session can be on its way.                           *)
  <2>3. ASSUME NEW e \in Conns
        PROVE  DownOrder(e, d)'
    <3>1. /\ ~Home(e, nextId)
          /\ \A f \in Elems(a2b[e]) : ~IsData(f, nextId)
      BY <2>1, NoHomeYet DEF IsData, Sids
    <3>2. rpc[<<e, nextId>>] = "none"
      BY <2>1, <3>1 DEF IInv, Opened, Alive, Home
    <3>3. relayRead[<<e, nextId>>] = 0
      BY <2>1, <3>2 DEF Starts, Untouched, UntouchedLink, Links
    <3>4. toLocal[d] = <<>>
      BY <2>1 DEF Starts, Fresh
    <3>5. Follows(a2b[e], nextId, 0) /\ UpTo(a2b[e], nextId, 0, 0)
      BY <1>t, <3>1, NoneFollows
    <3>6. sid'[d] = nextId
      BY <1>t, <2>1 DEF BridgeTypeOK
    <3> QED BY <1>u, <2>1, <3>3, <3>4, <3>5, <3>6 DEF DownOrder
  <2> QED BY <2>1, <2>2, <2>3 DEF DownsOrder
<1> QED BY <1>1, <1>2, <1>3, BridgeIsResting

LEMMA AgentDown ==
    ASSUME IInv, DownsOrder, UNCHANGED bridgeVars, AgentStep \/ \E l \in Links : Usbmuxd(l)
    PROVE  DownsOrder'
<1>t. /\ WireTypeOK /\ BridgeTypeOK /\ AgentTypeOK
      /\ \A e \in Conns : a2b[e] \in Seq(DownFrame)
  BY DEF IInv, TypeOK, WireTypeOK
<1>u. UNCHANGED <<sid, localClients, lt, agentWriter, toLocal>>
  BY DEF bridgeVars, connVars, handlerVars, downVars
<1> SUFFICES ASSUME NEW e \in Conns, NEW c \in Clients
             PROVE  DownOrder(e, c)'
  BY <1>u DEF DownsOrder
<1>l. DownLive(e, c)' => DownLive(e, c) /\ sid[c] \in Sids
  <2>1. sid[c] # 0 => sid[c] \in Sids
    BY <1>t DEF BridgeTypeOK
  <2> QED BY <1>u, <2>1, AgentKeepsHome DEF DownLive
<1>w. link'[e] = "up" => link[e] = "up"
  BY AgentIsWired DEF AgentWires
<1>r. ASSUME DownLive(e, c)' => /\ relayRead'[<<e, sid[c]>>] = relayRead[<<e, sid[c]>>]
                                /\ SameRun(a2b[e], a2b'[e], sid[c])
      PROVE  DownOrder(e, c)'
  <2>1. DownRest(e, c)
    BY <1>u, <1>l, <1>w, <1>r DEF DownRest
  <2> QED BY <1>t, <2>1, DownRestKeeps DEF DownsOrder
<1>1. CASE ~(\E l \in Links : RelayReads(l))
  BY <1>1, <1>r, AgentAnswers DEF SameRun, Plain, IsData
<1>2. ASSUME NEW l \in Links, RelayReads(l)
      PROVE  DownOrder(e, c)'
  <2>f. PICK f : f = Data(l[2], peer[l], relayRead[l] + 1)
    OBVIOUS
  <2>1. /\ relayRead' = [relayRead EXCEPT ![l] = @ + 1]
        /\ \/ link[l[1]] = "up" /\ a2b' = [a2b EXCEPT ![l[1]] = Append(@, f)]
           \/ link[l[1]] # "up" /\ UNCHANGED a2b
        /\ UNCHANGED link
        /\ f.type = "DATA" /\ f.sid = l[2] /\ f.data.n = relayRead[l] + 1
    BY <1>2, <2>f DEF RelayReads, AgentSends, AgentSendLost, Data
  <2>2. CASE l # <<e, sid[c]>>
    <3>1. \A k \in Links : k # l => relayRead'[k] = relayRead[k]
      BY <1>t, <2>1 DEF AgentTypeOK
    <3>2. DownLive(e, c)' => <<e, sid[c]>> \in Links
      BY <1>l DEF Links
    <3>3. a2b'[e] = a2b[e] \/ (l[1] = e /\ a2b'[e] = Append(a2b[e], f))
      BY <1>t, <2>1 DEF WireTypeOK
    <3>4. l = <<l[1], l[2]>>
      BY DEF Links
    <3> QED BY <1>r, <2>1, <2>2, <3>1, <3>2, <3>3, <3>4 DEF SameRun, IsData
  <2>3. CASE l = <<e, sid[c]>>
    <3>k. PICK k : k = Len(toLocal[c])
      OBVIOUS
    <3> SUFFICES ASSUME DownLive(e, c)'
                 PROVE  /\ Follows(a2b'[e], sid[c], k)
                        /\ link[e] = "up" => UpTo(a2b'[e], sid[c], k, relayRead'[l])
      BY <1>u, <2>1, <2>3, <3>k DEF DownOrder
    <3>1. /\ Follows(a2b[e], sid[c], k)
          /\ link[e] = "up" => UpTo(a2b[e], sid[c], k, relayRead[l])
      BY <1>l, <2>3, <3>k DEF DownsOrder, DownOrder
    <3>2. CASE link[e] # "up"
      BY <2>1, <2>3, <3>1, <3>2
    <3>3. CASE link[e] = "up"
      <4>1. a2b'[e] = Append(a2b[e], f) /\ IsData(f, sid[c])
        BY <1>t, <2>1, <2>3, <3>3 DEF WireTypeOK, IsData
      <4>2. k \in Nat /\ relayRead[l] \in Nat /\ relayRead'[l] = relayRead[l] + 1
        BY <1>t, <2>1, <3>k DEF BridgeTypeOK, AgentTypeOK
      <4>3. \A i \in 1 .. Len(a2b[e]) : IsData(a2b[e][i], sid[c]) => a2b[e][i].data.n \in Nat
        BY <1>t, DownFields DEF IsData, Piece
      <4>4. a2b[e] \in Seq(DownFrame) /\ f.data.n = relayRead[l] + 1
        BY <1>t, <2>1
      <4>5. /\ Follows(Append(a2b[e], f), sid[c], k)
            /\ UpTo(Append(a2b[e], f), sid[c], k, relayRead[l] + 1)
        BY <3>1, <3>3, <4>1, <4>2, <4>3, <4>4, NextFollows
      <4> QED BY <4>1, <4>2, <4>5
    <3> QED BY <3>2, <3>3
  <2> QED BY <2>2, <2>3
<1> QED BY <1>1, <1>2

LEMMA LinkStepDown ==
    ASSUME IInv, Starts, DownsOrder,
           \/ Connects
           \/ \E e \in Conns : Watchdog(e) /\ UNCHANGED bridgeVars
           \/ \E e \in Conns : LinkLost(e) /\ UNCHANGED <<bridgeVars, agentVars>>
           \/ UNCHANGED vars
    PROVE  DownsOrder'
<1> USE DEF wireVars, channels, bridgeVars, connVars, handlerVars, downVars,
            agentVars, dispatchVars
<1>t. WireTypeOK /\ BridgeTypeOK /\ AgentTypeOK
  BY DEF IInv, TypeOK
<1>1. CASE Connects
  <2>1. /\ connCount' = connCount + 1 /\ agentWriter' = connCount'
        /\ UNCHANGED <<b2a, a2b, peer, relayRead, toLocal, sid, localClients, lt>>
    BY <1>1 DEF Connects, BridgeConnects
  <2>2. ASSUME NEW e \in Conns, NEW c \in Clients
        PROVE  ~DownLive(e, c)'
    <3> SUFFICES ASSUME DownLive(e, c)' PROVE FALSE
      OBVIOUS
    <3>1. e > connCount /\ sid[c] \in Sids /\ Home(e, sid[c])
      BY <1>t, <2>1 DEF DownLive, Home, BridgeTypeOK
    <3> QED BY <3>1 DEF Starts, NewConns
  <2> QED BY <2>1, <2>2 DEF DownsOrder, DownOrder
<1>2. ASSUME UNCHANGED <<b2a, a2b, bridgeVars, agentVars>>,
             \A e \in Conns : link'[e] = "up" => link[e] = "up"
      PROVE  DownsOrder'
  <2>1. \A e \in Conns, c \in Clients : DownRest(e, c)
    BY <1>2 DEF DownRest, DownLive, Home, SameRun
  <2>2. \A e \in Conns, c \in Clients : DownOrder(e, c)'
    BY <1>t, <2>1, DownRestKeeps DEF DownsOrder
  <2> QED BY <1>2, <2>2 DEF DownsOrder
<1>3. ASSUME NEW e \in Conns, Watchdog(e), UNCHANGED bridgeVars
      PROVE  DownsOrder'
  <2>1. \A y \in Conns : link'[y] = "up" => link[y] = "up"
    BY <1>3, <1>t DEF Watchdog, Closed, WireTypeOK, LinkState
  <2> QED BY <1>2, <1>3, <2>1 DEF Watchdog
<1>4. ASSUME NEW e \in Conns, LinkLost(e), UNCHANGED <<bridgeVars, agentVars>>
      PROVE  DownsOrder'
  <2>1. \A y \in Conns : link'[y] = "up" => link[y] = "up"
    BY <1>4, <1>t DEF LinkLost, WireTypeOK
  <2> QED BY <1>2, <1>4, <2>1 DEF LinkLost
<1>5. CASE UNCHANGED vars
  BY <1>2, <1>5 DEF vars
<1> QED BY <1>1, <1>3, <1>4, <1>5

-----------------------------------------------------------------------------
LEMMA InitOrder == Init => Starts /\ Order
<1> SUFFICES ASSUME Init PROVE Starts /\ Order
  OBVIOUS
<1> USE DEF Init, WireInit, BridgeInit, AgentInit
<1>1. \A e \in Conns, s \in Sids : ~Home(e, s)
  BY SentEmpty DEF Home, Links
<1>2. Starts
  <2>1. Fresh /\ Untouched
    BY DEF Fresh, Untouched, UntouchedLink, Links
  <2>2. NewConns
    BY <1>1 DEF NewConns
  <2>3. Answered
    BY SentEmpty DEF Answered
  <2>4. \A e \in Conns : ConnectsFirst(b2a[e])
    BY DEF ConnectsFirst
  <2> QED BY <2>1, <2>2, <2>3, <2>4 DEF Starts
<1>3. ASSUME NEW e \in Conns, NEW s \in Sids
      PROVE  UpOrder(e, s)
  <2>1. ~UpLive(e, s)
    BY SentEmpty DEF UpLive, At, Links
  <2>2. toUx[<<e, s>>] = <<>>
    BY DEF Links
  <2> QED BY <2>1, <2>2 DEF UpOrder, Numbered
<1>4. \A e \in Conns, c \in Clients : DownOrder(e, c)
  BY DEF DownOrder, DownLive
<1>5. \A c \in Clients : Numbered(toLocal[c])
  BY DEF Numbered
<1> QED BY <1>2, <1>3, <1>4, <1>5 DEF Order

LEMMA StepKeepsOrder ==
    ASSUME IInv, Starts, Order, [Next]_vars
    PROVE  Order'
<1>1. DownsOrder /\ \A e \in Conns, s \in Sids : UpOrder(e, s)
  BY DEF Order, DownsOrder
<1>2. /\ NewConns /\ Fresh /\ Untouched
      /\ \A e \in Conns : ConnectsFirst(b2a[e])
  BY DEF Starts
<1>3. DownsOrder'
  BY <1>1, LinkStepDown, BridgeDown, AgentDown DEF Next
<1>4. \A e \in Conns, s \in Sids : UpOrder(e, s)'
  BY <1>1, <1>2, LinkStepUp, BridgeUp, AgentUp DEF Next
<1> QED BY <1>3, <1>4 DEF Order, DownsOrder

LEMMA OrderIsInOrder == Order => InOrder
BY DEF Order, UpOrder, Numbered, InOrder, Links

(* What a client reads is a prefix of what usbmuxd wrote on its session,   *)
(* and what usbmuxd reads a prefix of what the client wrote: no send of    *)
(* _send_frame() or send_frame(), no drain(), reconnection or late frame   *)
(* loses a piece from the middle, repeats one or puts two the wrong way    *)
(* round.                                                                  *)
THEOREM PiecesInOrder == Spec => []InOrder
<1>1. Init => Starts /\ Order
  BY InitOrder
<1>2. IInv /\ (Starts /\ Order) /\ [Next]_vars => (Starts /\ Order)'
  BY StepKeepsStarts, StepKeepsOrder
<1>3. Starts /\ Order => InOrder
  BY OrderIsInOrder
<1> QED BY <1>1, <1>2, <1>3, Invariance, PTL DEF Spec
=============================================================================
