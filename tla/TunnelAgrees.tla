----------------------------- MODULE TunnelAgrees -----------------------------
(***************************************************************************)
(* CLOSE frames are earned, and without frames under way the two sides     *)
(* agree on the sessions there are: CloseIsEarnedUp, CloseIsEarnedDown and *)
(* Agreement, for every number of clients, connections and faults.         *)
(*                                                                         *)
(* The two sides disagree only while one of them is about to tell the      *)
(* other: a session whose client is gone has a CLOSE on its way, or a      *)
(* handler or a relay that is about to send one (NoZombie), and so has a   *)
(* client whose session is gone (NoOrphan).                                *)
(***************************************************************************)
EXTENDS TunnelRefines

(* Between its CONNECT and its end at the agent. *)
Opening(e, s) == At(e, "open") /\ acur[e] = s
Current(e, s) ==
    \/ Sent(b2a[e], "CONNECT", s)
    \/ Opening(e, s)
    \/ s \in sessions[e]

(* Its handler has yet to meet the end of the transport. *)
Ending(c) == lt[c] # "open" /\ hpc[c] \in {"connectDrain", "read", "dataDrain"}

(* close_session() is to be followed by a CLOSE to the bridge. *)
Notifying(e, s) ==
    apc[e] \in {"closeTask", "closeUx"} /\ acur[e] = s /\ after[e] = "notify"

NoZombieAt(e) ==
    \A c \in Clients : Wired(e) /\ sid[c] # 0 /\ Current(e, sid[c]) =>
        \/ localClients[sid[c]] = c /\ hpc[c] # "closeDrain"
        \/ rpc[<<e, sid[c]>>] = "closeDrain"
        \/ Sent(b2a[e], "CLOSE", sid[c])
        \/ Ending(c)
NoOrphanAt(e) ==
    \A c \in Clients : Wired(e) /\ sid[c] # 0 /\ localClients[sid[c]] = c =>
        \/ Current(e, sid[c])
        \/ Sent(a2b[e], "CLOSE", sid[c])
        \/ Notifying(e, sid[c])
        \/ hpc[c] = "closeDrain"

(* A CLOSE of the agent is the last word on a session, and the relay that  *)
(* waits after sending it is the only thing left.                          *)
Finished(e, s) ==
    /\ ~Sent(b2a[e], "CONNECT", s)
    /\ ~Opening(e, s)
    /\ s \in sessions[e] => rpc[<<e, s>>] = "closeDrain"
EndedAt(e) == \A s \in Sids : Sent(a2b[e], "CLOSE", s) => Finished(e, s)
RelayOverAt(e) ==
    \A s \in Sids :
        rpc[<<e, s>>] = "closeDrain" /\ Wired(e) /\ localClients[s] # NoClient
            => Sent(a2b[e], "CLOSE", s)

(* The dispatch loop's books: a session in the map has a relay; one that   *)
(* is being closed has left it; the cleanup has no connection left.        *)
TidyAt(e) ==
    /\ \A s \in Sids : s \in sessions[e] => rpc[<<e, s>>] \notin {"none", "done"}
    /\ apc[e] \in {"closeTask", "closeUx"} => acur[e] \notin sessions[e]
    /\ apc[e] \in {"uxDrain", "closeTask", "closeUx"} => peer[<<e, acur[e]>>] # NoClient
    /\ (\/ apc[e] \in {"cleanup", "done"}
        \/ apc[e] \in {"closeTask", "closeUx"} /\ after[e] = "cleanup") => link[e] # "up"

SettledAt(e) ==
    TidyAt(e) /\ EndedAt(e) /\ RelayOverAt(e) /\ NoZombieAt(e) /\ NoOrphanAt(e)

(* A CLOSE of the bridge comes after the CONNECT, from the handler's end   *)
(* or for a client that is not registered; no CLOSE is ahead of its id.    *)
ClosesLast(ch) ==
    \A i, j \in 1 .. Len(ch) :
        ch[i].type = "CLOSE" /\ ch[j].type = "CONNECT" /\ ch[i].sid = ch[j].sid => j < i
Issued ==
    \A e \in Conns : \A f \in Elems(b2a[e]) \cup Elems(a2b[e]) :
        f.type = "CLOSE" => f.sid < nextId
Earned ==
    \A c \in Clients, e \in Conns : sid[c] # 0 /\ Sent(b2a[e], "CLOSE", sid[c]) =>
        hpc[c] \in {"closeDrain", "done"} \/ localClients[sid[c]] # c

(* A handler that is over has no writer registered; one that waits to have *)
(* sent CONNECT waits on the connection of its session.                    *)
Orderly ==
    /\ \A c \in Clients : hpc[c] = "done" /\ sid[c] # 0 => localClients[sid[c]] # c
    /\ \A c \in Clients, e \in Conns :
          hpc[c] = "connectDrain" /\ Home(e, sid[c]) => sendConn[c] = e

Closing ==
    /\ \A e \in Conns : ClosesLast(b2a[e])
    /\ Issued /\ Earned /\ Orderly

Agrees == Closing /\ \A e \in Conns : SettledAt(e)

-----------------------------------------------------------------------------
LEMMA EarnedIsUp ==
    ASSUME IInv, Agrees
    PROVE  CloseIsEarnedUp
<1> SUFFICES ASSUME NEW c \in Clients, NEW e \in Conns,
                    sid[c] \in sessions[e], Sent(b2a[e], "CLOSE", sid[c])
             PROVE  hpc[c] \in {"closeDrain", "done"} \/ localClients[sid[c]] # c
  BY DEF CloseIsEarnedUp
<1>1. sid[c] # 0
  BY DEF IInv, TypeOK, AgentTypeOK, Sids
<1> QED BY <1>1 DEF Agrees, Closing, Earned

LEMMA EarnedIsDown ==
    ASSUME IInv, Agrees
    PROVE  CloseIsEarnedDown
<1> SUFFICES ASSUME NEW c \in Clients, NEW e \in Conns, sid[c] # 0,
                    Sent(a2b[e], "CLOSE", sid[c])
             PROVE  /\ ~(At(e, "open") /\ acur[e] = sid[c])
                    /\ sid[c] \in sessions[e] => rpc[<<e, sid[c]>>] \in {"closeDrain", "done"}
  BY DEF CloseIsEarnedDown
<1>1. sid[c] \in Sids
  BY DEF IInv, TypeOK, BridgeTypeOK
<1> QED BY <1>1 DEF Agrees, SettledAt, EndedAt, Finished, Opening

LEMMA SettledAgree ==
    ASSUME IInv, Agrees
    PROVE  Agreement
<1> SUFFICES ASSUME NEW e \in Conns, Quiet(e)
             PROVE  sessions[e] = {s \in Sids : localClients[s] # NoClient}
  BY DEF Agreement
<1>t. AgentTypeOK /\ BridgeTypeOK
  BY DEF IInv, TypeOK
<1>q. /\ Wired(e) /\ At(e, "read") /\ SettledAt(e)
      /\ \A type, s : ~Sent(b2a[e], type, s) /\ ~Sent(a2b[e], type, s)
  BY SentEmpty DEF Quiet, Wired, Agrees
<1>1. ASSUME NEW s \in Sids, s \in sessions[e]
      PROVE  localClients[s] # NoClient
  <2> DEFINE c == peer[<<e, s>>]
  <2>1. c \in Clients /\ sid[c] = s /\ s # 0
    BY <1>1, <1>t, WireAssumption DEF IInv, Opened, Alive, Peers, AgentTypeOK, Links, Sids
  <2>2. rpc[<<e, s>>] # "closeDrain"
    BY DEF Quiet
  <2>3. ~Ending(c) \/ hpc[c] \notin {"connectDrain", "read", "dataDrain"}
    BY <2>1 DEF Quiet, Ending
  <2>4. localClients[s] = c
    BY <1>1, <1>q, <2>1, <2>2, <2>3 DEF SettledAt, NoZombieAt, Current, Ending
  <2> QED BY <2>1, <2>4, WireAssumption
<1>2. ASSUME NEW s \in Sids, localClients[s] # NoClient
      PROVE  s \in sessions[e]
  <2> DEFINE c == localClients[s]
  <2>1. c \in Clients /\ sid[c] = s /\ s # 0
    <3>1. c \in Clients
      BY <1>2, <1>t DEF BridgeTypeOK
    <3>2. sid[c] = s
      BY <1>2 DEF IInv, Registered
    <3> QED BY <3>1, <3>2 DEF Sids
  <2>2. hpc[c] # "closeDrain"
    BY <2>1 DEF Quiet
  <2>3. ~Opening(e, s) /\ ~Notifying(e, s)
    BY <1>q DEF At, Opening, Notifying
  <2> QED BY <1>q, <2>1, <2>2, <2>3 DEF SettledAt, NoOrphanAt, Current
<1> QED BY <1>1, <1>2, <1>t DEF AgentTypeOK

-----------------------------------------------------------------------------
(* A step of the agent takes a session from one stage to the next ...      *)
Narrows(e) ==
    \A s \in Sids :
        /\ Sent(b2a'[e], "CONNECT", s) => Sent(b2a[e], "CONNECT", s)
        /\ Opening(e, s)' => Opening(e, s) \/ Sent(b2a[e], "CONNECT", s)
        /\ s \in sessions'[e] =>
              \/ Opening(e, s)
              \/ /\ s \in sessions[e]
                 /\ rpc[<<e, s>>] = "closeDrain" => rpc'[<<e, s>>] = "closeDrain"
        /\ Sent(a2b'[e], "CLOSE", s) => Sent(a2b[e], "CLOSE", s) \/ Finished(e, s)'

(* ... and, while the connection is up, tells the bridge of its end unless *)
(* the bridge has told it.                                                 *)
Tells(e) ==
    \A s \in Sids :
        /\ Sent(a2b[e], "CLOSE", s) => Sent(a2b'[e], "CLOSE", s)
        /\ rpc'[<<e, s>>] = "closeDrain" =>
              rpc[<<e, s>>] = "closeDrain" \/ Sent(a2b'[e], "CLOSE", s)
        /\ Current(e, s)' /\ Sent(b2a[e], "CLOSE", s) => Sent(b2a'[e], "CLOSE", s)
        /\ localClients[s] # NoClient /\ (Current(e, s) \/ Notifying(e, s)) =>
              \/ Current(e, s)' \/ Notifying(e, s)'
              \/ Sent(a2b'[e], "CLOSE", s) \/ Sent(b2a[e], "CLOSE", s)

LEMMA SentKept ==
    ASSUME NEW F, NEW ch \in Seq(F), ch # <<>>, NEW type, NEW s,
           Sent(ch, type, s), ~(Head(ch).type = type /\ Head(ch).sid = s)
    PROVE  Sent(Tail(ch), type, s)
<1>1. PICK i \in 1 .. Len(ch) : ch[i].type = type /\ ch[i].sid = s
  BY DEF Sent, Elems
<1>2. i # 1
  BY <1>1
<1>3. i - 1 \in 1 .. Len(Tail(ch)) /\ Tail(ch)[i - 1] = ch[i]
  BY <1>2
<1> QED BY <1>1, <1>3 DEF Sent, Elems

LEMMA Unstarted ==
    ASSUME IInv, Unopened, NEW e \in Conns, NEW s \in Sids,
           Sent(b2a[e], "CONNECT", s) \/ Opening(e, s)
    PROVE  rpc[<<e, s>>] = "none"
BY DEF IInv, Unopened, Opened, Alive, Opening

LEMMA Opposite ==
    ASSUME IInv, Unopened, NEW e \in Conns, NEW s \in Sids,
           Alive(e, s) \/ peer[<<e, s>>] # NoClient
    PROVE  peer[<<e, s>>] # NoClient /\ ~Sent(b2a[e], "CONNECT", s) /\ s < nextId
<1>1. peer[<<e, s>>] # NoClient
  BY DEF IInv, Opened
<1>2. nextId \in Nat /\ s \in Nat
  BY DEF IInv, TypeOK, BridgeTypeOK, Sids
<1>3. ~(s >= nextId)
  BY <1>1, NoHomeYet DEF Home
<1>4. s < nextId
  BY <1>2, <1>3
<1>5. ~Sent(b2a[e], "CONNECT", s)
  BY <1>1 DEF Unopened
<1> QED BY <1>1, <1>4, <1>5

LEMMA AgentSettles ==
    ASSUME IInv, Unopened, Closing, UNCHANGED bridgeVars, NEW e \in Conns, SettledAt(e),
           link'[e] = "up" => link[e] = "up",
           TidyAt(e)', Narrows(e), Wired(e)' => Tells(e)
    PROVE  SettledAt(e)'
<1>b. UNCHANGED <<localClients, hpc, lt, sid, agentWriter>>
  BY DEF bridgeVars, connVars, handlerVars
<1>w. Wired(e)' => Wired(e)
  BY <1>b DEF Wired
<1>i. \A c \in Clients : sid[c] # 0 => sid[c] \in Sids
  BY DEF IInv, TypeOK, BridgeTypeOK
<1>c. ASSUME NEW s \in Sids, Current(e, s)'
      PROVE  /\ Current(e, s)
             /\ rpc[<<e, s>>] = "closeDrain" => rpc'[<<e, s>>] = "closeDrain"
  BY <1>c, Unstarted DEF Narrows, Current
<1>1. EndedAt(e)'
  BY DEF SettledAt, EndedAt, Narrows, Finished
<1>2. RelayOverAt(e)'
  BY <1>b, <1>w DEF SettledAt, RelayOverAt, Tells
<1>3. NoZombieAt(e)'
  <2> SUFFICES ASSUME NEW c \in Clients, NEW s \in Sids, sid[c] = s,
                      Wired(e)', Current(e, s)'
               PROVE  \/ localClients[s] = c /\ hpc[c] # "closeDrain"
                      \/ rpc'[<<e, s>>] = "closeDrain"
                      \/ Sent(b2a'[e], "CLOSE", s)
                      \/ Ending(c)
    BY <1>b, <1>i DEF NoZombieAt, Ending, Current, Opening, At
  <2>0. s # 0
    BY DEF Sids
  <2>1. s # 0 /\ Current(e, s) /\ Wired(e)
    BY <1>c, <1>w, <2>0
  <2>2. \/ localClients[s] = c /\ hpc[c] # "closeDrain"
        \/ rpc[<<e, s>>] = "closeDrain"
        \/ Sent(b2a[e], "CLOSE", s)
        \/ Ending(c)
    BY <2>1 DEF SettledAt, NoZombieAt
  <2>3. /\ rpc[<<e, s>>] = "closeDrain" => rpc'[<<e, s>>] = "closeDrain"
        /\ Sent(b2a[e], "CLOSE", s) => Sent(b2a'[e], "CLOSE", s)
    BY <1>c, <2>1 DEF Tells
  <2> QED BY <2>2, <2>3
<1>4. NoOrphanAt(e)'
  <2> SUFFICES ASSUME NEW c \in Clients, NEW s \in Sids, sid[c] = s,
                      Wired(e)', localClients[s] = c
               PROVE  \/ Current(e, s)'
                      \/ Sent(a2b'[e], "CLOSE", s)
                      \/ Notifying(e, s)'
                      \/ hpc[c] = "closeDrain"
    BY <1>b, <1>i DEF NoOrphanAt, Current, Opening, At, Notifying
  <2>1. s # 0 /\ (Sent(b2a[e], "CLOSE", s) => hpc[c] = "closeDrain")
    BY DEF Closing, Earned, Orderly, Sids
  <2>2. localClients[s] # NoClient
    BY WireAssumption
  <2>3. Wired(e) /\ Tells(e)
    BY <1>w
  <2>4. \/ Current(e, s) \/ Notifying(e, s)
        \/ Sent(a2b[e], "CLOSE", s)
        \/ hpc[c] = "closeDrain"
    BY <2>1, <2>3 DEF SettledAt, NoOrphanAt
  <2>5. /\ Sent(a2b[e], "CLOSE", s) => Sent(a2b'[e], "CLOSE", s)
        /\ Current(e, s) \/ Notifying(e, s) =>
              \/ Current(e, s)' \/ Notifying(e, s)'
              \/ Sent(a2b'[e], "CLOSE", s) \/ Sent(b2a[e], "CLOSE", s)
    BY <2>2, <2>3 DEF Tells
  <2> QED BY <2>1, <2>4, <2>5
<1> QED BY <1>1, <1>2, <1>3, <1>4 DEF SettledAt

LEMMA StandsSettled ==
    ASSUME IInv, NEW e \in Conns, SettledAt(e),
           UNCHANGED <<localClients, hpc, lt, sid, agentWriter>>,
           link'[e] = "up" => link[e] = "up",
           b2a'[e] = b2a[e], a2b'[e] = a2b[e],
           apc'[e] = apc[e], acur'[e] = acur[e], after'[e] = after[e],
           sessions'[e] = sessions[e],
           \A s \in Sids : peer'[<<e, s>>] = peer[<<e, s>>] /\ rpc'[<<e, s>>] = rpc[<<e, s>>]
    PROVE  SettledAt(e)'
<1>w. Wired(e)' => Wired(e)
  BY DEF Wired
<1>i. \A c \in Clients : sid[c] # 0 => sid[c] \in Sids
  BY DEF IInv, TypeOK, BridgeTypeOK
<1>c. \A s \in Sids : Current(e, s)' <=> Current(e, s)
  BY DEF Current, Opening, At
<1>1. TidyAt(e)'
  BY DEF SettledAt, TidyAt, IInv, Working
<1>2. EndedAt(e)'
  BY DEF SettledAt, EndedAt, Finished, Opening, At
<1>3. RelayOverAt(e)'
  BY <1>w DEF SettledAt, RelayOverAt
<1>4. NoZombieAt(e)'
  BY <1>w, <1>i DEF SettledAt, NoZombieAt, Ending, Current, Opening, At
<1>5. NoOrphanAt(e)'
  BY <1>w, <1>i DEF SettledAt, NoOrphanAt, Notifying, Current, Opening, At
<1> QED BY <1>1, <1>2, <1>3, <1>4, <1>5 DEF SettledAt

LEMMA TakesSent ==
    ASSUME WireTypeOK, NEW e \in Conns, NEW type, Takes(e, type)
    PROVE  /\ At(e, "read")
           /\ \A t, s : Sent(b2a'[e], t, s) => Sent(b2a[e], t, s)
           /\ \A t, s : Sent(b2a[e], t, s) =>
                 Sent(b2a'[e], t, s) \/ (t = type /\ s = Head(b2a[e]).sid)
<1>1. /\ b2a[e] \in Seq(UpFrame) /\ b2a[e] # <<>> /\ b2a'[e] = Tail(b2a[e])
      /\ Head(b2a[e]).type = type /\ At(e, "read")
  BY DEF WireTypeOK, Takes
<1> QED BY <1>1, SentTail, SentKept

LEMMA RepliesSent ==
    ASSUME WireTypeOK, AgentTypeOK, NEW e \in Conns, NEW type, NEW x,
           NEW drain \in {"replyDrain", "notifyDrain"}, Replies(e, Control(type, x), drain)
    PROVE  /\ \A t, s : Sent(a2b[e], t, s) => Sent(a2b'[e], t, s)
           /\ \A t, s : Sent(a2b'[e], t, s) => Sent(a2b[e], t, s) \/ (t = type /\ s = x)
           /\ link[e] = "up" => Sent(a2b'[e], type, x)
           /\ apc'[e] \in {"read", "cleanup", "replyDrain", "notifyDrain"}
           /\ apc'[e] = "cleanup" => link[e] # "up"
<1>1. CASE AgentSends(e, Control(type, x))
  <2>1. /\ a2b[e] \in Seq(DownFrame) /\ a2b'[e] = Append(a2b[e], Control(type, x))
    BY <1>1 DEF WireTypeOK, AgentSends
  <2>2. Control(type, x).type = type /\ Control(type, x).sid = x
    BY DEF Control
  <2>3. \A t, s : Sent(a2b'[e], t, s) <=> Sent(a2b[e], t, s) \/ (type = t /\ x = s)
    BY <2>1, <2>2, SentAppend
  <2>4. apc'[e] \in {"read", "replyDrain", "notifyDrain"}
    BY <1>1 DEF Replies, AgentSends, AgentSendLost, Goes, AgentTypeOK
  <2> QED BY <2>3, <2>4
<1>2. CASE AgentSendLost(e)
  BY <1>2 DEF Replies, AgentSends, AgentSendLost, Goes, AgentTypeOK
<1> QED BY <1>1, <1>2 DEF Replies

-----------------------------------------------------------------------------
LEMMA AnswersSettle ==
    ASSUME IInv, Unopened, NEW e \in Conns, SettledAt(e),
           NEW type, NEW x, NEW drain \in {"replyDrain", "notifyDrain"},
           Replies(e, Control(type, x), drain),
           UNCHANGED <<link, sessions, rpc>>,
           \A s \in Sids : /\ Sent(b2a'[e], "CONNECT", s) <=> Sent(b2a[e], "CONNECT", s)
                           /\ Sent(b2a[e], "CLOSE", s) => Sent(b2a'[e], "CLOSE", s)
                           /\ Opening(e, s) \/ Notifying(e, s) => type = "CLOSE" /\ s = x,
           type = "CLOSE" => x \notin sessions[e] /\ ~Sent(b2a[e], "CONNECT", x)
    PROVE  TidyAt(e)' /\ Narrows(e) /\ (Wired(e)' => Tells(e))
<1>t. WireTypeOK /\ AgentTypeOK
  BY DEF IInv, TypeOK
<1>1. /\ \A t, s : Sent(a2b[e], t, s) => Sent(a2b'[e], t, s)
      /\ \A t, s : Sent(a2b'[e], t, s) => Sent(a2b[e], t, s) \/ (t = type /\ s = x)
      /\ link[e] = "up" => Sent(a2b'[e], type, x)
      /\ apc'[e] \in {"read", "cleanup", "replyDrain", "notifyDrain"}
      /\ apc'[e] = "cleanup" => link[e] # "up"
  BY <1>t, RepliesSent
<1>2. TidyAt(e)'
  BY <1>1 DEF SettledAt, TidyAt
<1>3. \A s \in Sids : ~Opening(e, s)'
  BY <1>1 DEF Opening, At
<1>4. Narrows(e)
  <2>1. type = "CLOSE" /\ x \in Sids => Finished(e, x)'
    BY <1>3 DEF Finished
  <2> QED BY <1>1, <1>3, <2>1 DEF Narrows
<1>5. ASSUME Wired(e)'
      PROVE  Tells(e)
  <2>1. link[e] = "up"
    BY <1>5 DEF Wired
  <2> QED BY <1>1, <2>1 DEF Tells, Current
<1> QED BY <1>2, <1>4, <1>5

LEMMA MovesSettle ==
    ASSUME IInv, NEW e \in Conns, SettledAt(e),
           UNCHANGED <<sessions, rpc>>, a2b'[e] = a2b[e], apc'[e] # "open", TidyAt(e)',
           \A s \in Sids : Sent(b2a'[e], "CONNECT", s) => Sent(b2a[e], "CONNECT", s),
           link'[e] = "up" => \A s \in Sids :
               /\ Sent(b2a[e], "CONNECT", s) => Sent(b2a'[e], "CONNECT", s)
               /\ Sent(b2a[e], "CLOSE", s) /\ Current(e, s)' => Sent(b2a'[e], "CLOSE", s)
               /\ Opening(e, s) \/ Notifying(e, s) => Notifying(e, s)'
    PROVE  Narrows(e) /\ (Wired(e)' => Tells(e))
<1>1. \A s \in Sids : ~Opening(e, s)'
  BY DEF Opening, At
<1>2. Narrows(e)
  BY <1>1 DEF Narrows
<1>3. ASSUME Wired(e)'
      PROVE  Tells(e)
  <2>1. link'[e] = "up"
    BY <1>3 DEF Wired
  <2> QED BY <2>1 DEF Tells, Current
<1> QED BY <1>2, <1>3

LEMMA ClosesSettle ==
    ASSUME IInv, Unopened, NEW e \in Conns, SettledAt(e), NEW x \in Sids, x \in sessions[e],
           NEW return \in {"read", "notify", "cleanup"}, ClosesSession(e, x, return),
           UNCHANGED <<link, a2b, peer>>, apc[e] \in {"read", "uxDrain", "cleanup"},
           \A s \in Sids : /\ Sent(b2a'[e], "CONNECT", s) <=> Sent(b2a[e], "CONNECT", s)
                           /\ Sent(b2a[e], "CLOSE", s) /\ s # x => Sent(b2a'[e], "CLOSE", s),
           link[e] = "up" => \/ return = "notify"
                             \/ return = "read" /\ Sent(b2a[e], "CLOSE", x)
    PROVE  TidyAt(e)' /\ Narrows(e) /\ (Wired(e)' => Tells(e))
<1>t. AgentTypeOK
  BY DEF IInv, TypeOK
<1>1. /\ sessions'[e] = sessions[e] \ {x} /\ acur'[e] = x /\ after'[e] = return
      /\ apc'[e] = "closeTask"
  BY <1>t DEF ClosesSession, Goes, AgentTypeOK
<1>2. /\ \A s \in Sids : s # x => rpc'[<<e, s>>] = rpc[<<e, s>>]
      /\ rpc'[<<e, x>>] # "closeDrain"
  BY <1>t DEF ClosesSession, CancelsRelay, AgentTypeOK, RelayPc, Links
<1>3. peer[<<e, x>>] # NoClient /\ ~Sent(b2a[e], "CONNECT", x)
  BY Opposite DEF Alive
<1>4. TidyAt(e)'
  BY <1>1, <1>2, <1>3 DEF SettledAt, TidyAt
<1>5. \A s \in Sids : /\ ~Opening(e, s)' /\ ~Opening(e, s) /\ ~Notifying(e, s)
                      /\ Notifying(e, s)' <=> (s = x /\ return = "notify")
  BY <1>1 DEF Opening, At, Notifying
<1>6. Narrows(e)
  BY <1>1, <1>2, <1>5 DEF Narrows
<1>7. ASSUME Wired(e)'
      PROVE  Tells(e)
  <2>1. link[e] = "up"
    BY <1>7 DEF Wired
  <2>2. ~Current(e, x)'
    BY <1>1, <1>3, <1>5 DEF Current
  <2>3. \A s \in Sids : s # x => (Current(e, s)' <=> Current(e, s))
    BY <1>1, <1>5 DEF Current
  <2>4. /\ \A s \in Sids : rpc'[<<e, s>>] = "closeDrain" => rpc[<<e, s>>] = "closeDrain"
        /\ \A s \in Sids : Current(e, s)' /\ Sent(b2a[e], "CLOSE", s) => Sent(b2a'[e], "CLOSE", s)
    BY <1>2, <2>2, <2>3
  <2>5. Notifying(e, x)' \/ Sent(b2a[e], "CLOSE", x)
    BY <1>5, <2>1
  <2> QED BY <1>5, <2>3, <2>4, <2>5 DEF Tells
<1> QED BY <1>4, <1>6, <1>7

LEMMA ConnectSettles ==
    ASSUME IInv, Unopened, NEW e \in Conns, SettledAt(e), AgentReceivesConnect(e)
    PROVE  TidyAt(e)' /\ Narrows(e) /\ (Wired(e)' => Tells(e))
<1> DEFINE x == Head(b2a[e]).sid
<1>t. WireTypeOK /\ AgentTypeOK
  BY DEF IInv, TypeOK
<1>1. /\ Takes(e, "CONNECT") /\ acur'[e] = x /\ apc'[e] = "open"
      /\ UNCHANGED <<link, a2b, sessions, rpc>>
  BY <1>t DEF AgentReceivesConnect, Goes, AgentTypeOK
<1>2. /\ At(e, "read")
      /\ \A t, s : Sent(b2a'[e], t, s) => Sent(b2a[e], t, s)
      /\ \A t, s : Sent(b2a[e], t, s) => Sent(b2a'[e], t, s) \/ (t = "CONNECT" /\ s = x)
  BY <1>t, <1>1, TakesSent
<1>3. Sent(b2a[e], "CONNECT", x)
  <2>1. Head(b2a[e]) \in Elems(b2a[e]) /\ Head(b2a[e]).type = "CONNECT"
    BY <1>t, <1>1, ElemsTail DEF Takes, WireTypeOK
  <2> QED BY <2>1 DEF Sent
<1> HIDE DEF x
<1>4. TidyAt(e)'
  BY <1>1 DEF SettledAt, TidyAt
<1>5. \A s \in Sids : /\ Opening(e, s)' <=> s = x
                      /\ ~Opening(e, s) /\ ~Notifying(e, s)
  BY <1>1, <1>2 DEF Opening, At, Notifying
<1>6. Narrows(e)
  BY <1>1, <1>2, <1>3, <1>5 DEF Narrows
<1>7. Tells(e)
  <2>1. \A s \in Sids : /\ Sent(b2a[e], "CLOSE", s) => Sent(b2a'[e], "CLOSE", s)
                        /\ Current(e, s) => Current(e, s)'
    BY <1>1, <1>2, <1>5 DEF Current
  <2> QED BY <1>1, <1>5, <2>1 DEF Tells
<1> QED BY <1>4, <1>6, <1>7

LEMMA OpensSettle ==
    ASSUME IInv, Unopened, NEW e \in Conns, SettledAt(e), UxOpens(e)
    PROVE  TidyAt(e)' /\ Narrows(e) /\ (Wired(e)' => Tells(e))
<1> DEFINE x == acur[e]
<1>t. AgentTypeOK /\ At(e, "open") /\ x \in Sids
  BY WorkingLink DEF IInv, TypeOK, UxOpens, At
<1>1. /\ sessions'[e] = sessions[e] \cup {x} /\ apc'[e] = "read" /\ acur'[e] = 0
      /\ UNCHANGED <<link, b2a, a2b>>
  BY <1>t DEF UxOpens, Goes, Idle, AgentTypeOK, wireVars, channels
<1>2. /\ rpc'[<<e, x>>] = "created"
      /\ \A s \in Sids : s # x => rpc'[<<e, s>>] = rpc[<<e, s>>]
  BY <1>t DEF UxOpens, AgentTypeOK, Links
<1>3. rpc[<<e, x>>] = "none"
  BY <1>t DEF Unopened
<1>4. \A s \in Sids : /\ ~Opening(e, s)' /\ ~Notifying(e, s)
                      /\ Opening(e, s) <=> s = x
  BY <1>t, <1>1 DEF Opening, At, Notifying
<1> HIDE DEF x
<1>5. TidyAt(e)'
  BY <1>1, <1>2 DEF SettledAt, TidyAt
<1>6. Narrows(e)
  BY <1>1, <1>2, <1>4 DEF Narrows
<1>7. Tells(e)
  <2>1. \A s \in Sids : Current(e, s) => Current(e, s)'
    BY <1>1, <1>4 DEF Current
  <2>2. \A s \in Sids : rpc'[<<e, s>>] = "closeDrain" => rpc[<<e, s>>] = "closeDrain"
    BY <1>2
  <2> QED BY <1>1, <1>4, <2>1, <2>2 DEF Tells
<1> QED BY <1>5, <1>6, <1>7

LEMMA AnsweringSettles ==
    ASSUME IInv, Starts, Unopened, NEW e \in Conns, SettledAt(e),
           UxRefuses(e) \/ AgentReceivesStaleData(e) \/ AgentReceivesHeartbeat(e)
    PROVE  TidyAt(e)' /\ Narrows(e) /\ (Wired(e)' => Tells(e))
<1>t. WireTypeOK /\ AgentTypeOK
  BY DEF IInv, TypeOK
<1>1. CASE UxRefuses(e)
  <2> DEFINE x == acur[e]
  <2>1. x \in Sids /\ Opening(e, x)
    BY <1>1, WorkingLink DEF IInv, UxRefuses, At, Opening
  <2>2. rpc[<<e, x>>] = "none" /\ peer[<<e, x>>] # NoClient
    BY <2>1, Unstarted DEF IInv, Opened, Alive, Opening
  <2>3. x \notin sessions[e] /\ ~Sent(b2a[e], "CONNECT", x)
    BY <2>1, <2>2 DEF SettledAt, TidyAt, Unopened
  <2>4. \A s \in Sids : Opening(e, s) \/ Notifying(e, s) => s = x
    BY <2>1 DEF Opening, At, Notifying
  <2>5. Replies(e, Control("CLOSE", x), "replyDrain") /\ UNCHANGED <<link, sessions, rpc, b2a>>
    BY <1>1 DEF UxRefuses
  <2> HIDE DEF x
  <2> QED BY <2>3, <2>4, <2>5, AnswersSettle
<1>2. CASE AgentReceivesStaleData(e)
  <2> DEFINE x == Head(b2a[e]).sid
  <2>1. /\ Takes(e, "DATA") /\ x \notin sessions[e]
        /\ Replies(e, Control("CLOSE", x), "replyDrain") /\ UNCHANGED <<link, sessions, rpc>>
    BY <1>2 DEF AgentReceivesStaleData
  <2>2. ~Sent(b2a[e], "CONNECT", x)
    <3>1. b2a[e] \in Seq(UpFrame) /\ b2a[e] # <<>> /\ Head(b2a[e]).type = "DATA"
      BY <1>t, <2>1 DEF Takes, WireTypeOK
    <3> QED BY <3>1, DataAfterConnect DEF Starts
  <2>3. /\ At(e, "read")
        /\ \A t, s : Sent(b2a'[e], t, s) => Sent(b2a[e], t, s)
        /\ \A t, s : Sent(b2a[e], t, s) => Sent(b2a'[e], t, s) \/ (t = "DATA" /\ s = x)
    BY <1>t, <2>1, TakesSent
  <2>4. \A s \in Sids : ~Opening(e, s) /\ ~Notifying(e, s)
    BY <2>3 DEF Opening, At, Notifying
  <2> HIDE DEF x
  <2> QED BY <2>1, <2>2, <2>3, <2>4, AnswersSettle
<1>3. CASE AgentReceivesHeartbeat(e)
  <2>1. /\ Takes(e, "HEARTBEAT") /\ Replies(e, Control("HEARTBEAT", 0), "replyDrain")
        /\ UNCHANGED <<link, sessions, rpc>>
    BY <1>3 DEF AgentReceivesHeartbeat
  <2>2. /\ At(e, "read")
        /\ \A t, s : Sent(b2a'[e], t, s) => Sent(b2a[e], t, s)
        /\ \A t, s : Sent(b2a[e], t, s) => Sent(b2a'[e], t, s) \/ t = "HEARTBEAT"
    BY <1>t, <2>1, TakesSent
  <2>3. \A s \in Sids : ~Opening(e, s) /\ ~Notifying(e, s)
    BY <2>2 DEF Opening, At, Notifying
  <2> QED BY <2>1, <2>2, <2>3, AnswersSettle
<1> QED BY <1>1, <1>2, <1>3

LEMMA DataSettles ==
    ASSUME IInv, NEW e \in Conns, SettledAt(e), AgentReceivesData(e) \/ UxDrained(e)
    PROVE  TidyAt(e)' /\ Narrows(e) /\ (Wired(e)' => Tells(e))
<1>t. WireTypeOK /\ AgentTypeOK
  BY DEF IInv, TypeOK
<1>1. CASE AgentReceivesData(e)
  <2> DEFINE x == Head(b2a[e]).sid
  <2>1. Takes(e, "DATA") /\ x \in sessions[e] /\ UNCHANGED <<link, a2b, sessions, rpc, peer>>
    BY <1>1 DEF AgentReceivesData
  <2>2. /\ At(e, "read")
        /\ \A t, s : Sent(b2a'[e], t, s) => Sent(b2a[e], t, s)
        /\ \A t, s : Sent(b2a[e], t, s) => Sent(b2a'[e], t, s) \/ t = "DATA"
    BY <1>t, <2>1, TakesSent
  <2>3. apc'[e] = "read" \/ (apc'[e] = "uxDrain" /\ acur'[e] = x)
    BY <1>t, <1>1 DEF AgentReceivesData, Goes, AgentTypeOK
  <2>4. peer[<<e, x>>] # NoClient
    BY <1>t, <2>1 DEF IInv, Opened, Alive, AgentTypeOK
  <2> HIDE DEF x
  <2>5. TidyAt(e)'
    BY <2>1, <2>3, <2>4 DEF SettledAt, TidyAt
  <2>6. \A s \in Sids : ~Opening(e, s) /\ ~Notifying(e, s)
    BY <2>2 DEF Opening, At, Notifying
  <2> QED BY <2>1, <2>2, <2>3, <2>5, <2>6, MovesSettle
<1>2. CASE UxDrained(e)
  <2>1. apc'[e] = "read" /\ At(e, "uxDrain") /\ UNCHANGED <<link, a2b, b2a, sessions, rpc, peer>>
    BY <1>t, <1>2 DEF UxDrained, Goes, AgentTypeOK, wireVars, channels
  <2>2. TidyAt(e)'
    BY <2>1 DEF SettledAt, TidyAt
  <2>3. \A s \in Sids : ~Opening(e, s) /\ ~Notifying(e, s)
    BY <2>1 DEF Opening, At, Notifying
  <2> QED BY <2>1, <2>2, <2>3, MovesSettle
<1> QED BY <1>1, <1>2

LEMMA EndingSettles ==
    ASSUME IInv, Unopened, Closing, NEW e \in Conns, SettledAt(e),
           UxWriteFails(e) \/ AgentReceivesClose(e) \/ CleansUp(e)
    PROVE  TidyAt(e)' /\ Narrows(e) /\ (Wired(e)' => Tells(e))
<1>t. WireTypeOK /\ AgentTypeOK
  BY DEF IInv, TypeOK
<1>1. CASE UxWriteFails(e)
  <2> DEFINE x == acur[e]
  <2>1. At(e, "uxDrain") /\ x \in Sids /\ UNCHANGED <<link, b2a, peer>>
    BY <1>1, WorkingLink DEF IInv, UxWriteFails, At
  <2>2. CASE x \in sessions[e] /\ ClosesSession(e, x, "notify") /\ UNCHANGED a2b
    <3> HIDE DEF x
    <3> QED BY <2>1, <2>2, ClosesSettle DEF At
  <2>3. CASE /\ x \notin sessions[e] /\ Replies(e, Control("CLOSE", x), "notifyDrain")
             /\ UNCHANGED <<sessions, rpc>>
    <3>1. peer[<<e, x>>] # NoClient
      BY <2>1 DEF SettledAt, TidyAt, At
    <3>2. ~Sent(b2a[e], "CONNECT", x)
      BY <2>1, <3>1 DEF Unopened
    <3>3. \A s \in Sids : ~Opening(e, s) /\ ~Notifying(e, s)
      BY <2>1 DEF Opening, At, Notifying
    <3> HIDE DEF x
    <3> QED BY <2>1, <2>3, <3>2, <3>3, AnswersSettle
  <2> QED BY <1>1, <2>2, <2>3 DEF UxWriteFails
<1>2. CASE AgentReceivesClose(e)
  <2>1. Takes(e, "CLOSE") /\ UNCHANGED <<link, a2b, peer>>
    BY <1>2 DEF AgentReceivesClose
  <2>0. PICK x \in Sids : x = Head(b2a[e]).sid
    BY <1>t, <2>1, TakesTyped
  <2>2. /\ At(e, "read")
        /\ \A t, s : Sent(b2a'[e], t, s) => Sent(b2a[e], t, s)
        /\ \A t, s : Sent(b2a[e], t, s) => Sent(b2a'[e], t, s) \/ (t = "CLOSE" /\ s = x)
    BY <1>t, <2>0, <2>1, TakesSent
  <2>3. /\ b2a[e] \in Seq(UpFrame) /\ b2a[e] # <<>> /\ Head(b2a[e]).type = "CLOSE"
    BY <1>t, <2>1, TakesTyped DEF Takes, WireTypeOK
  <2>4. Sent(b2a[e], "CLOSE", x)
    BY <2>0, <2>3, ElemsTail DEF Sent
  <2>5. ~Sent(b2a'[e], "CONNECT", x)
    <3>1. ASSUME NEW j \in 1 .. Len(b2a[e]), b2a[e][j].type = "CONNECT", b2a[e][j].sid = x
          PROVE  FALSE
      <4>1. 1 \in 1 .. Len(b2a[e]) /\ b2a[e][1] = Head(b2a[e])
        BY <2>3
      <4>2. j < 1
        BY <2>0, <2>3, <3>1, <4>1 DEF Closing, ClosesLast
      <4> QED BY <4>2
    <3>2. ~Sent(b2a[e], "CONNECT", x)
      BY <3>1 DEF Sent, Elems
    <3> QED BY <2>2, <3>2
  <2>6. CASE x \in sessions[e] /\ ClosesSession(e, x, "read")
    <3>1. \A s \in Sids : /\ Sent(b2a'[e], "CONNECT", s) <=> Sent(b2a[e], "CONNECT", s)
                          /\ Sent(b2a[e], "CLOSE", s) /\ s # x => Sent(b2a'[e], "CLOSE", s)
      BY <2>2
    <3> QED BY <2>1, <2>2, <2>3, <2>4, <2>6, <3>1, ClosesSettle DEF At
  <2>7. CASE x \notin sessions[e] /\ UNCHANGED <<apc, acur, after, sessions, rpc>>
    <3>1. TidyAt(e)'
      BY <2>1, <2>7 DEF SettledAt, TidyAt
    <3>2. apc'[e] # "open" /\ apc'[e] = "read"
      BY <2>2, <2>7 DEF At
    <3>3. \A s \in Sids : ~Opening(e, s) /\ ~Notifying(e, s) /\ ~Opening(e, s)'
      BY <2>2, <3>2 DEF Opening, At, Notifying
    <3>4. ~Current(e, x)'
      BY <2>5, <2>7, <3>2 DEF Current, Opening, At
    <3>5. \A s \in Sids :
             Sent(b2a[e], "CLOSE", s) /\ Current(e, s)' => Sent(b2a'[e], "CLOSE", s)
      BY <2>2, <3>4
    <3> QED BY <2>1, <2>2, <2>7, <3>1, <3>2, <3>3, <3>5, MovesSettle
  <2> QED BY <1>2, <2>0, <2>6, <2>7 DEF AgentReceivesClose
<1>3. CASE CleansUp(e)
  <2>1. /\ At(e, "cleanup") /\ UNCHANGED <<link, a2b, b2a, peer>>
        /\ \E x \in sessions[e] : ClosesSession(e, x, "cleanup")
    BY <1>3 DEF CleansUp, wireVars, channels
  <2>2. PICK x \in sessions[e] : ClosesSession(e, x, "cleanup")
    BY <2>1
  <2>3. link[e] # "up"
    BY <2>1 DEF SettledAt, TidyAt, At
  <2>4. x \in Sids
    BY <1>t, <2>2 DEF AgentTypeOK
  <2> QED BY <2>1, <2>2, <2>3, <2>4, ClosesSettle DEF At
<1> QED BY <1>1, <1>2, <1>3

LEMMA WaitingSettles ==
    ASSUME IInv, Unopened, NEW e \in Conns, SettledAt(e),
           ReplyDrained(e) \/ RelayJoined(e) \/ UxClosed(e) \/ AgentEOF(e) \/ CleanedUp(e)
    PROVE  TidyAt(e)' /\ Narrows(e) /\ (Wired(e)' => Tells(e))
<1> USE DEF wireVars, channels
<1>t. WireTypeOK /\ AgentTypeOK
  BY DEF IInv, TypeOK
<1>1. CASE ReplyDrained(e)
  <2>1. /\ apc[e] \in {"replyDrain", "notifyDrain"} /\ apc'[e] \in {"read", "cleanup"}
        /\ apc'[e] = "cleanup" => link[e] # "up"
        /\ UNCHANGED <<link, a2b, b2a, sessions, rpc, peer>>
    BY <1>t, <1>1 DEF ReplyDrained, AgentDrainRaises, Goes, At, AgentTypeOK
  <2>2. TidyAt(e)'
    BY <2>1 DEF SettledAt, TidyAt
  <2>3. \A s \in Sids : ~Opening(e, s) /\ ~Notifying(e, s)
    BY <2>1 DEF Opening, At, Notifying
  <2> QED BY <2>1, <2>2, <2>3, MovesSettle
<1>2. CASE RelayJoined(e)
  <2>1. /\ apc[e] = "closeTask" /\ apc'[e] = "closeUx"
        /\ UNCHANGED <<link, a2b, b2a, sessions, rpc, peer, acur, after>>
    BY <1>t, <1>2 DEF RelayJoined, Goes, At, AgentTypeOK
  <2>2. TidyAt(e)'
    BY <2>1 DEF SettledAt, TidyAt
  <2>3. \A s \in Sids : ~Opening(e, s) /\ (Notifying(e, s) => Notifying(e, s)')
    BY <2>1 DEF Opening, At, Notifying
  <2> QED BY <2>1, <2>2, <2>3, MovesSettle
<1>3. CASE UxClosed(e)
  <2>1. /\ apc[e] = "closeUx" /\ UNCHANGED <<link, b2a, sessions, rpc, peer>>
    BY <1>3 DEF UxClosed, At
  <2>2. CASE after[e] \in {"read", "cleanup"} /\ Goes(e, after[e]) /\ UNCHANGED a2b
    <3>1. apc'[e] = after[e]
      BY <1>t, <2>2 DEF Goes, AgentTypeOK
    <3>2. TidyAt(e)'
      BY <2>1, <2>2, <3>1 DEF SettledAt, TidyAt
    <3>3. \A s \in Sids : ~Opening(e, s) /\ ~Notifying(e, s)
      BY <2>1, <2>2 DEF Opening, At, Notifying
    <3> QED BY <2>1, <2>2, <3>1, <3>2, <3>3, MovesSettle
  <2>3. CASE after[e] = "notify" /\ Replies(e, Control("CLOSE", acur[e]), "notifyDrain")
    <3> DEFINE x == acur[e]
    <3>1. x \in Sids /\ peer[<<e, x>>] # NoClient /\ x \notin sessions[e]
      BY <2>1, WorkingLink DEF IInv, SettledAt, TidyAt
    <3>2. ~Sent(b2a[e], "CONNECT", x)
      BY <3>1 DEF Unopened
    <3>3. \A s \in Sids : Opening(e, s) \/ Notifying(e, s) => s = x
      BY <2>1 DEF Opening, At, Notifying
    <3>4. Replies(e, Control("CLOSE", x), "notifyDrain")
      BY <2>3
    <3> HIDE DEF x
    <3> QED BY <2>1, <3>1, <3>2, <3>3, <3>4, AnswersSettle
  <2> QED BY <1>3, <2>2, <2>3 DEF UxClosed
<1>4. CASE AgentEOF(e) \/ CleanedUp(e)
  <2>1. /\ apc'[e] \in {"cleanup", "done"} /\ link'[e] # "up"
        /\ b2a'[e] = <<>> /\ a2b'[e] = a2b[e] /\ UNCHANGED <<sessions, rpc, peer>>
    <3>1. CASE AgentEOF(e)
      BY <1>t, <3>1 DEF AgentEOF, Goes, AgentTypeOK, WireTypeOK
    <3>2. CASE CleanedUp(e)
      <4>1. link[e] # "up"
        BY <3>2 DEF CleanedUp, SettledAt, TidyAt, At
      <4> QED BY <1>t, <3>2, <4>1 DEF CleanedUp, Closed, Goes, AgentTypeOK, WireTypeOK
    <3> QED BY <1>4, <3>1, <3>2
  <2>2. TidyAt(e)'
    BY <2>1 DEF SettledAt, TidyAt
  <2> QED BY <2>1, <2>2, SentEmpty, MovesSettle
<1> QED BY <1>1, <1>2, <1>3, <1>4

LEMMA RelaySettles ==
    ASSUME IInv, Unopened, UNCHANGED agentWriter, NEW e \in Conns, NEW x \in Sids,
           SettledAt(e), Relay(<<e, x>>)
    PROVE  TidyAt(e)' /\ Narrows(e) /\ (Wired(e)' => Tells(e))
<1> USE DEF wireVars, channels, dispatchVars
<1> DEFINE l == <<e, x>>
<1>t. WireTypeOK /\ AgentTypeOK /\ l \in Links /\ l[1] = e /\ l[2] = x
  BY DEF IInv, TypeOK, Links
<1>1. /\ UNCHANGED <<link, b2a, apc, acur, after, peer>>
      /\ rpc[l] # "none"
      /\ \A s \in Sids : s # x => rpc'[<<e, s>>] = rpc[<<e, s>>]
  BY <1>t DEF Relay, RelayStarts, RelayReads, RelayEOF, RelayDataDrained, RelayDataFails,
              RelayCancelled, RelayCloseDrained, RelayFinally, RelayLeaves, RelayGoes,
              AgentTypeOK, Links
<1>2. /\ ~Sent(b2a[e], "CONNECT", x) /\ ~Opening(e, x)
      /\ \A s \in Sids : /\ Opening(e, s)' <=> Opening(e, s)
                         /\ Notifying(e, s)' <=> Notifying(e, s)
  BY <1>1, Opposite, Unstarted DEF Alive, Opening, At, Notifying
<1>3. CASE /\ sessions'[e] = sessions[e] /\ rpc'[l] \in {"read", "dataDrain", rpc[l]}
           /\ rpc[l] \in {"created", "read", "dataDrain"}
           /\ \A s : Sent(a2b'[e], "CLOSE", s) <=> Sent(a2b[e], "CLOSE", s)
  <2>1. TidyAt(e)'
    BY <1>1, <1>3 DEF SettledAt, TidyAt
  <2>2. Narrows(e)
    BY <1>1, <1>2, <1>3 DEF Narrows
  <2>3. Tells(e)
    BY <1>1, <1>2, <1>3 DEF Tells, Current
  <2> QED BY <2>1, <2>2, <2>3
<1>4. ASSUME /\ sessions'[e] = sessions[e] \ {x} /\ rpc'[l] = "done"
             /\ \A s : Sent(a2b[e], "CLOSE", s) => Sent(a2b'[e], "CLOSE", s)
             /\ \A s : Sent(a2b'[e], "CLOSE", s) => Sent(a2b[e], "CLOSE", s) \/ s = x,
             Wired(e) /\ localClients[x] # NoClient => Sent(a2b'[e], "CLOSE", x)
      PROVE  TidyAt(e)' /\ Narrows(e) /\ (Wired(e)' => Tells(e))
  <2>1. TidyAt(e)'
    BY <1>1, <1>4 DEF SettledAt, TidyAt
  <2>2. Narrows(e)
    <3>1. Finished(e, x)'
      BY <1>1, <1>2, <1>4 DEF Finished
    <3> QED BY <1>1, <1>2, <1>4, <3>1 DEF Narrows
  <2>3. ASSUME Wired(e)'
        PROVE  Tells(e)
    BY <1>1, <1>2, <1>4, <2>3 DEF Tells, Current, Wired
  <2> QED BY <2>1, <2>2, <2>3
<1>5. ASSUME RelayFinally(l)
      PROVE  TidyAt(e)' /\ Narrows(e) /\ (Wired(e)' => Tells(e))
  <2>1. CASE AgentSends(e, Control("CLOSE", x))
    <3>1. /\ a2b[e] \in Seq(DownFrame) /\ a2b'[e] = Append(a2b[e], Control("CLOSE", x))
          /\ Control("CLOSE", x).type = "CLOSE" /\ Control("CLOSE", x).sid = x
      BY <1>t, <2>1 DEF AgentSends, WireTypeOK, Control
    <3>2. \A s : Sent(a2b'[e], "CLOSE", s) <=> Sent(a2b[e], "CLOSE", s) \/ s = x
      BY <3>1, SentAppend
    <3>3. CASE RelayLeaves(l)
      BY <1>t, <1>4, <3>2, <3>3 DEF RelayLeaves, RelayGoes, AgentTypeOK
    <3>4. CASE RelayGoes(l, "closeDrain") /\ UNCHANGED sessions
      <4>1. sessions'[e] = sessions[e] /\ rpc'[l] = "closeDrain"
        BY <1>t, <3>4 DEF RelayGoes, AgentTypeOK
      <4>2. TidyAt(e)'
        BY <1>1, <4>1 DEF SettledAt, TidyAt
      <4>3. Narrows(e)
        <5>1. Finished(e, x)'
          BY <1>1, <1>2, <4>1 DEF Finished
        <5> QED BY <1>1, <1>2, <3>2, <4>1, <5>1 DEF Narrows
      <4>4. Tells(e)
        BY <1>1, <1>2, <3>2, <4>1 DEF Tells, Current
      <4> QED BY <4>2, <4>3, <4>4
    <3> QED BY <1>5, <1>t, <2>1, <3>3, <3>4 DEF RelayFinally, AgentSends, AgentSendLost
  <2>2. CASE AgentSendLost(e) /\ RelayLeaves(l)
    BY <1>t, <1>4, <2>2 DEF RelayLeaves, RelayGoes, AgentSendLost, Wired, AgentTypeOK
  <2> QED BY <1>5, <1>t, <2>1, <2>2 DEF RelayFinally
<1>6. CASE RelayStarts(l)
  BY <1>t, <1>3, <1>6 DEF RelayStarts, RelayGoes, AgentTypeOK
<1>7. CASE RelayDataDrained(l)
  BY <1>t, <1>3, <1>7 DEF RelayDataDrained, RelayGoes, AgentTypeOK
<1>8. CASE RelayReads(l)
  <2>1. rpc[l] = "read"
    BY <1>8 DEF RelayReads
  <2>2. CASE /\ AgentSends(e, Data(x, peer[l], relayRead[l] + 1))
             /\ RelayGoes(l, IF Full(a2b'[e]) THEN "dataDrain" ELSE "read")
             /\ UNCHANGED sessions
    <3> DEFINE f == Data(x, peer[l], relayRead[l] + 1)
    <3>1. f.type = "DATA"
      BY DEF Data
    <3>2. a2b[e] \in Seq(DownFrame) /\ a2b'[e] = Append(a2b[e], f)
      BY <1>t, <2>2 DEF AgentSends, WireTypeOK
    <3>3. rpc'[l] \in {"read", "dataDrain"}
      BY <1>t, <2>2 DEF RelayGoes, AgentTypeOK
    <3> HIDE DEF f
    <3>4. \A s : Sent(a2b'[e], "CLOSE", s) <=> Sent(a2b[e], "CLOSE", s)
      BY <3>1, <3>2, SentAppend
    <3> QED BY <1>3, <2>1, <2>2, <3>3, <3>4
  <2>3. CASE AgentSendLost(e) /\ RelayLeaves(l)
    BY <1>t, <1>4, <2>3 DEF RelayLeaves, RelayGoes, AgentSendLost, Wired, AgentTypeOK
  <2>4. CASE AgentSendLost(e) /\ UNCHANGED <<rpc, sessions>>
    BY <1>3, <2>1, <2>4 DEF AgentSendLost
  <2> QED BY <1>8, <1>t, <2>2, <2>3, <2>4 DEF RelayReads
<1>9. CASE RelayCloseDrained(l)
  <2>1. /\ rpc[l] = "closeDrain" /\ RelayLeaves(l) /\ UNCHANGED a2b
    BY <1>9 DEF RelayCloseDrained
  <2>2. Wired(e) /\ localClients[x] # NoClient => Sent(a2b[e], "CLOSE", x)
    BY <2>1 DEF SettledAt, RelayOverAt
  <2> QED BY <1>t, <1>4, <2>1, <2>2 DEF RelayLeaves, RelayGoes, AgentTypeOK
<1> QED BY <1>5, <1>6, <1>7, <1>8, <1>9
        DEF Relay, RelayEOF, RelayDataFails, RelayCancelled
-----------------------------------------------------------------------------
(* A step of the agent, seen from every connection. *)
LEMMA DispatchSettles ==
    ASSUME IInv, Starts, Unopened, Closing, UNCHANGED bridgeVars,
           NEW e \in Conns, SettledAt(e), Dispatch(e)
    PROVE  SettledAt(e)'
<1>1. TidyAt(e)' /\ Narrows(e) /\ (Wired(e)' => Tells(e))
  BY ConnectSettles, OpensSettle, AnsweringSettles, DataSettles, EndingSettles,
     WaitingSettles DEF Dispatch
<1>2. link'[e] = "up" => link[e] = "up"
  BY AgentIsWired DEF AgentStep, AgentWires
<1> QED BY <1>1, <1>2, AgentSettles

LEMMA DispatchLeavesOthers ==
    ASSUME IInv, NEW e \in Conns, Dispatch(e), NEW x \in Conns \ {e}
    PROVE  /\ link'[x] = link[x] /\ b2a'[x] = b2a[x] /\ a2b'[x] = a2b[x]
           /\ apc'[x] = apc[x] /\ acur'[x] = acur[x] /\ after'[x] = after[x]
           /\ sessions'[x] = sessions[x]
           /\ \A s \in Sids : peer'[<<x, s>>] = peer[<<x, s>>] /\ rpc'[<<x, s>>] = rpc[<<x, s>>]
<1>t. WireTypeOK /\ AgentTypeOK
  BY DEF IInv, TypeOK
<1>1. after'[x] = after[x]
  <2>1. \/ UNCHANGED after
        \/ \E s, return : ClosesSession(e, s, return)
        \/ after' = [after EXCEPT ![e] = "read"]
    BY <1>t, TakesTyped
    DEF Dispatch, AgentReceivesConnect, UxOpens, UxRefuses, AgentReceivesStaleData,
        AgentReceivesData, UxDrained, UxWriteFails, AgentReceivesClose,
        AgentReceivesHeartbeat, ReplyDrained, RelayJoined, UxClosed, AgentEOF, CleansUp,
        CleanedUp, AgentTypeOK
  <2> QED BY <1>t, <2>1 DEF ClosesSession, AgentTypeOK
<1>2. CASE ~AgentReceivesConnect(e) /\ ~UxOpens(e) /\ ~AgentReceivesData(e)
  BY <1>1, <1>2, DispatchCloses DEF OnlyCloses, LeavesOthers
<1>3. CASE AgentReceivesConnect(e)
  BY <1>1, <1>3, <1>t DEF AgentReceivesConnect, Takes, Goes, WireTypeOK, AgentTypeOK, Links
<1>4. CASE UxOpens(e)
  BY <1>1, <1>4, <1>t DEF UxOpens, Goes, Idle, wireVars, channels, WireTypeOK, AgentTypeOK, Links
<1>5. CASE AgentReceivesData(e)
  BY <1>1, <1>5, <1>t DEF AgentReceivesData, Takes, Goes, WireTypeOK, AgentTypeOK, Links
<1> QED BY <1>2, <1>3, <1>4, <1>5

LEMMA AgentKeepsSettled ==
    ASSUME IInv, Starts, Unopened, Closing, UNCHANGED bridgeVars,
           \A e \in Conns : SettledAt(e),
           AgentStep \/ \E l \in Links : Usbmuxd(l), NEW x \in Conns
    PROVE  SettledAt(x)'
<1>b. UNCHANGED <<localClients, hpc, lt, sid, agentWriter>>
  BY DEF bridgeVars, connVars, handlerVars
<1>t. WireTypeOK /\ AgentTypeOK
  BY DEF IInv, TypeOK
<1>u. link'[x] = "up" => link[x] = "up"
  BY AgentIsWired DEF AgentWires
<1>1. ASSUME NEW e \in Conns, Dispatch(e)
      PROVE  SettledAt(x)'
  <2>1. CASE x = e
    BY <1>1, <2>1, DispatchSettles
  <2>2. CASE x # e
    BY <1>1, <1>b, <2>2, DispatchLeavesOthers, StandsSettled
  <2> QED BY <2>1, <2>2
<1>2. ASSUME NEW l \in Links, Relay(l)
      PROVE  SettledAt(x)'
  <2>1. PICK e \in Conns, s \in Sids : l = <<e, s>>
    BY DEF Links
  <2>2. CASE x = e
    <3>1. TidyAt(e)' /\ Narrows(e) /\ (Wired(e)' => Tells(e))
      BY <1>2, <1>b, <2>1, RelaySettles
    <3> QED BY <1>u, <2>2, <3>1, AgentSettles
  <2>3. CASE x # e
    <3>1. UNCHANGED <<link, b2a, apc, acur, peer>>
      BY <1>2, RelayIsSide DEF RelaySide
    <3> USE DEF Relay, RelayStarts, RelayReads, RelayEOF, RelayDataDrained,
                RelayDataFails, RelayCancelled, RelayCloseDrained, RelayFinally,
                wireVars, channels, dispatchVars
    <3>2. UNCHANGED after /\ (UNCHANGED a2b \/ \E f : AgentSends(l[1], f))
      BY <1>2 DEF AgentSendLost
    <3>3. UNCHANGED sessions \/ RelayLeaves(l)
      BY <1>2
    <3>4. UNCHANGED rpc \/ \E label : RelayGoes(l, label)
      BY <1>2 DEF RelayLeaves
    <3>5. a2b'[x] = a2b[x]
      BY <1>t, <2>1, <2>3, <3>2 DEF AgentSends, WireTypeOK
    <3>6. sessions'[x] = sessions[x]
      BY <1>t, <2>1, <2>3, <3>3 DEF RelayLeaves, AgentTypeOK
    <3>7. \A t \in Sids : rpc'[<<x, t>>] = rpc[<<x, t>>]
      BY <1>t, <2>1, <2>3, <3>4 DEF RelayGoes, AgentTypeOK, Links
    <3> QED BY <1>b, <1>u, <3>1, <3>2, <3>5, <3>6, <3>7, StandsSettled
  <2> QED BY <2>2, <2>3
<1>3. ASSUME NEW l \in Links, UxTransportLost(l) \/ Usbmuxd(l)
      PROVE  SettledAt(x)'
  <2>1. UNCHANGED <<wireVars, dispatchVars, rpc>>
    BY <1>3 DEF UxTransportLost, Usbmuxd, UxWrites, UxReads, UxCloses
  <2> QED BY <1>b, <2>1, StandsSettled DEF wireVars, channels, dispatchVars
<1> QED BY <1>1, <1>2, <1>3 DEF AgentStep
-----------------------------------------------------------------------------
(* Closing, for a step of the agent. *)
LEMMA TailClosesLast ==
    ASSUME NEW F, NEW ch \in Seq(F), ch # <<>>, ClosesLast(ch)
    PROVE  ClosesLast(Tail(ch))
<1> SUFFICES ASSUME NEW i \in 1 .. Len(Tail(ch)), NEW j \in 1 .. Len(Tail(ch)),
                    Tail(ch)[i].type = "CLOSE", Tail(ch)[j].type = "CONNECT",
                    Tail(ch)[i].sid = Tail(ch)[j].sid
             PROVE  j < i
  BY DEF ClosesLast
<1>1. /\ i + 1 \in 1 .. Len(ch) /\ Tail(ch)[i] = ch[i + 1]
      /\ j + 1 \in 1 .. Len(ch) /\ Tail(ch)[j] = ch[j + 1]
  OBVIOUS
<1>2. j + 1 < i + 1
  BY <1>1 DEF ClosesLast
<1> QED BY <1>2

LEMMA AgentClosesIssued ==
    ASSUME IInv, Unopened, \A e \in Conns : SettledAt(e),
           AgentStep \/ \E l \in Links : Usbmuxd(l), NEW x \in Conns
    PROVE  \/ a2b'[x] = a2b[x]
           \/ \E f : a2b'[x] = Append(a2b[x], f) /\ (f.type = "CLOSE" => f.sid < nextId)
<1>t. WireTypeOK /\ AgentTypeOK /\ nextId \in Nat
  BY DEF IInv, TypeOK, BridgeTypeOK
<1> DEFINE Good(f) == f.type = "CLOSE" => f.sid < nextId
<1>s. ASSUME NEW e \in Conns, NEW f, Good(f), AgentSends(e, f) \/ AgentSendLost(e)
      PROVE  a2b'[x] = a2b[x] \/ \E g : a2b'[x] = Append(a2b[x], g) /\ Good(g)
  BY <1>s, <1>t DEF AgentSends, AgentSendLost, WireTypeOK
<1>a. ASSUME NEW e \in Conns, NEW s \in Sids, Alive(e, s) \/ peer[<<e, s>>] # NoClient
      PROVE  Good(Control("CLOSE", s))
  BY <1>a, Opposite DEF Control
<1>1. ASSUME NEW e \in Conns, Dispatch(e)
      PROVE  UNCHANGED a2b \/ \E f : Good(f) /\ (AgentSends(e, f) \/ AgentSendLost(e))
  <2>1. CASE UxRefuses(e)
    <3>1. acur[e] \in Sids /\ Alive(e, acur[e])
      BY <2>1, WorkingLink DEF IInv, UxRefuses, At, Alive
    <3>2. Good(Control("CLOSE", acur[e]))
      BY <1>a, <3>1
    <3> QED BY <2>1, <3>2 DEF UxRefuses, Replies
  <2>2. CASE AgentReceivesStaleData(e)
    <3>1. PICK s \in Sids : s = Head(b2a[e]).sid
      BY <1>t, <2>2, TakesTyped DEF AgentReceivesStaleData
    <3>2. Head(b2a[e]) \in Elems(b2a[e]) /\ Head(b2a[e]).type = "DATA"
      BY <1>t, <2>2, ElemsTail DEF AgentReceivesStaleData, Takes, WireTypeOK
    <3>3. s < nextId
      <4>1. ~(s >= nextId)
        BY <3>1, <3>2, NoHomeYet
      <4> QED BY <1>t, <4>1 DEF Sids
    <3>4. Good(Control("CLOSE", s))
      BY <3>3 DEF Control
    <3> QED BY <2>2, <3>1, <3>4 DEF AgentReceivesStaleData, Replies
  <2>3. CASE AgentReceivesHeartbeat(e)
    <3>1. Good(Control("HEARTBEAT", 0))
      BY DEF Control
    <3> QED BY <2>3, <3>1 DEF AgentReceivesHeartbeat, Replies
  <2>4. CASE UxWriteFails(e) \/ UxClosed(e)
    <3>1. acur[e] \in Sids /\ peer[<<e, acur[e]>>] # NoClient
      BY <2>4, WorkingLink DEF IInv, UxWriteFails, UxClosed, At, SettledAt, TidyAt
    <3>2. Good(Control("CLOSE", acur[e]))
      BY <1>a, <3>1
    <3> QED BY <2>4, <3>2 DEF UxWriteFails, UxClosed, Replies
  <2>5. CASE \/ AgentReceivesConnect(e) \/ UxOpens(e) \/ AgentReceivesData(e)
             \/ UxDrained(e) \/ AgentReceivesClose(e) \/ ReplyDrained(e)
             \/ RelayJoined(e) \/ AgentEOF(e) \/ CleansUp(e) \/ CleanedUp(e)
    BY <2>5 DEF AgentReceivesConnect, UxOpens, AgentReceivesData, UxDrained,
                AgentReceivesClose, ReplyDrained, RelayJoined, AgentEOF, CleansUp,
                CleanedUp, wireVars, channels
  <2> QED BY <1>1, <2>1, <2>2, <2>3, <2>4, <2>5 DEF Dispatch
<1>2. ASSUME NEW l \in Links, Relay(l)
      PROVE  UNCHANGED a2b \/ \E f : Good(f) /\ (AgentSends(l[1], f) \/ AgentSendLost(l[1]))
  <2>1. l[1] \in Conns /\ l[2] \in Sids /\ l = <<l[1], l[2]>> /\ rpc[l] # "none"
    BY <1>2 DEF Links, Relay, RelayStarts, RelayReads, RelayEOF, RelayDataDrained,
                RelayDataFails, RelayCancelled, RelayCloseDrained
  <2>2. Good(Control("CLOSE", l[2]))
    BY <1>a, <2>1 DEF Alive
  <2>3. Good(Data(l[2], peer[l], relayRead[l] + 1))
    BY DEF Data
  <2> QED BY <1>2, <2>2, <2>3
          DEF Relay, RelayStarts, RelayReads, RelayEOF, RelayDataDrained, RelayDataFails,
              RelayCancelled, RelayCloseDrained, RelayFinally, wireVars, channels
<1>3. ASSUME NEW l \in Links, UxTransportLost(l) \/ Usbmuxd(l)
      PROVE  UNCHANGED a2b
  BY <1>3 DEF UxTransportLost, Usbmuxd, UxWrites, UxReads, UxCloses, wireVars, channels
<1>4. \A l \in Links : l[1] \in Conns
  BY DEF Links
<1> QED BY <1>s, <1>1, <1>2, <1>3, <1>4 DEF AgentStep

LEMMA AgentKeepsClosing ==
    ASSUME IInv, Unopened, Closing, \A e \in Conns : SettledAt(e), UNCHANGED bridgeVars,
           AgentStep \/ \E l \in Links : Usbmuxd(l)
    PROVE  Closing'
<1>b. UNCHANGED <<localClients, hpc, lt, sid, agentWriter, nextId, sendConn>>
  BY DEF bridgeVars, connVars, handlerVars
<1>t. WireTypeOK
  BY DEF IInv, TypeOK
<1>1. ASSUME NEW e \in Conns
      PROVE  ClosesLast(b2a[e])'
  <2>1. \/ b2a'[e] = b2a[e]
        \/ b2a[e] # <<>> /\ b2a'[e] = Tail(b2a[e])
        \/ b2a'[e] = <<>>
    BY AgentIsWired DEF AgentWires
  <2>2. b2a[e] \in Seq(UpFrame) /\ ClosesLast(b2a[e])
    BY <1>t DEF WireTypeOK, Closing
  <2>3. ClosesLast(<<>>)
    BY DEF ClosesLast
  <2>4. ClosesLast(b2a'[e])
    BY <2>1, <2>2, <2>3, TailClosesLast
  <2> QED BY <2>4 DEF ClosesLast
<1>2. Issued'
  <2> SUFFICES ASSUME NEW e \in Conns, NEW f \in Elems(b2a'[e]) \cup Elems(a2b'[e]),
                      f.type = "CLOSE"
               PROVE  f.sid < nextId
    BY <1>b DEF Issued, Elems
  <2>1. CASE f \in Elems(b2a[e]) \cup Elems(a2b[e])
    BY <2>1 DEF Closing, Issued
  <2>2. CASE f \in Elems(a2b'[e]) /\ f \notin Elems(a2b[e])
    <3>1. a2b[e] \in Seq(DownFrame)
      BY <1>t DEF WireTypeOK
    <3>2. PICK g : a2b'[e] = Append(a2b[e], g) /\ (g.type = "CLOSE" => g.sid < nextId)
      BY <2>2, AgentClosesIssued
    <3>3. f = g
      BY <2>2, <3>1, <3>2, ElemsAppend
    <3> QED BY <3>2, <3>3
  <2> QED BY <2>1, <2>2, AgentTakes
<1>3. Earned'
  <2>1. \A e \in Conns : \A s : Sent(b2a'[e], "CLOSE", s) => Sent(b2a[e], "CLOSE", s)
    BY AgentTakes DEF Sent
  <2> QED BY <1>b, <2>1 DEF Closing, Earned, Sent
<1>4. Orderly'
  <2>1. ASSUME NEW c \in Clients, NEW e \in Conns, hpc[c] = "connectDrain", Home(e, sid[c])'
        PROVE  sendConn[c] = e
    <3>1. PICK s \in Sids : s = sid[c]
      BY <2>1, HasId DEF IInv, TypeOK
    <3>2. Home(e, s)
      BY <1>b, <2>1, <3>1, AgentKeepsHome DEF Home
    <3> QED BY <2>1, <3>1, <3>2 DEF Closing, Orderly
  <2> QED BY <1>b, <2>1 DEF Closing, Orderly
<1> QED BY <1>1, <1>2, <1>3, <1>4 DEF Closing
-----------------------------------------------------------------------------
(* A step of the bridge or of a local program, a handler's first one apart *)
(* and with one connection up: how handlers end ...                        *)
Serves(c) == hpc[c] \in {"connectDrain", "read", "dataDrain"}
Severed(c) == hpc[c] = "connectDrain" /\ link[sendConn[c]] # "up"

GoesOn ==
    \A c \in Clients :
        /\ hpc[c] = "done" => hpc'[c] = "done"
        /\ hpc[c] = "closeDrain" => hpc'[c] \in {"closeDrain", "done"}
        /\ hpc'[c] = "done" => hpc[c] = "done" \/ localClients'[sid[c]] # c
        /\ hpc'[c] = "connectDrain" => hpc[c] = "connectDrain" /\ sendConn'[c] = sendConn[c]

(* ... and why an id goes out of the map: its handler has sent CLOSE, now  *)
(* or before, the agent's CLOSE was taken, or the drain() of the client    *)
(* raised, whose handler will meet the end itself.                         *)
BridgeTells(e) ==
    \A c \in Clients :
        /\ Serves(c) => Serves(c)' \/ Severed(c) \/ Sent(b2a'[e], "CLOSE", sid[c])
        /\ hpc'[c] = "closeDrain" => hpc[c] = "closeDrain" \/ Sent(b2a'[e], "CLOSE", sid[c])
        /\ sid[c] # 0 /\ localClients[sid[c]] = c /\ localClients'[sid[c]] # c =>
              \/ hpc[c] = "closeDrain" \/ Severed(c)
              \/ Sent(b2a'[e], "CLOSE", sid[c]) \/ Sent(a2b[e], "CLOSE", sid[c])
              \/ lt'[c] # "open" /\ hpc'[c] = hpc[c]

LEMMA FinallyTells ==
    ASSUME IInv, NEW c \in Clients, sid[c] \in Sids, Finally(c)
    PROVE  /\ \A e \in Conns : Wired(e) => Sent(b2a'[e], "CLOSE", sid[c])
           /\ \/ hpc'[c] = "closeDrain" /\ UNCHANGED localClients
              \/ hpc'[c] = "done" /\ Pop(sid[c])
           /\ \A d \in Clients \ {c} : hpc'[d] = hpc[d] /\ sendConn'[d] = sendConn[d]
<1>t. WireTypeOK /\ BridgeTypeOK
  BY DEF IInv, TypeOK
<1>1. ASSUME NEW e \in Conns, Wired(e)
      PROVE  Sent(b2a'[e], "CLOSE", sid[c])
  <2>1. BridgeSends(Control("CLOSE", sid[c]))
    <3>1. Connected
      BY <1>1 DEF Wired, Connected, Conns
    <3> QED BY <3>1 DEF Finally, BridgeSendRaises
  <2>2. b2a[e] \in Seq(UpFrame) /\ b2a'[e] = Append(b2a[e], Control("CLOSE", sid[c]))
    BY <1>1, <1>t, <2>1 DEF BridgeSends, Wired, WireTypeOK
  <2>3. Control("CLOSE", sid[c]).type = "CLOSE" /\ Control("CLOSE", sid[c]).sid = sid[c]
    BY DEF Control
  <2> QED BY <2>2, <2>3, SentAppend
<1>2. \/ hpc'[c] = "closeDrain" /\ UNCHANGED localClients
      \/ hpc'[c] = "done" /\ Pop(sid[c])
  BY <1>t DEF Finally, Leaves, GoesTo, BridgeTypeOK
<1>3. \A d \in Clients \ {c} : hpc'[d] = hpc[d] /\ sendConn'[d] = sendConn[d]
  BY <1>t DEF Finally, Leaves, GoesTo, BridgeTypeOK
<1> QED BY <1>1, <1>2, <1>3

LEMMA HandlerTells ==
    ASSUME IInv, NEW c \in Clients, Handler(c), ~HandlerStarts(c)
    PROVE  GoesOn /\ \A e \in Conns : Wired(e) => BridgeTells(e)
<1>t. WireTypeOK /\ BridgeTypeOK /\ Started /\ UniqueIds
  BY DEF IInv, TypeOK
<1>s. sid[c] \in Sids /\ sid[c] # 0 /\ UNCHANGED sid
  <2>1. hpc[c] \notin {"none", "accepted"} /\ UNCHANGED sid
    BY DEF Handler, ConnectDrained, ConnectFails, HandlerReads, HandlerEOF, DataDrained,
           DataFails, CloseDrained
  <2> QED BY <1>t, <2>1, HasId DEF Sids
(* Its own handler alone counts. *)
<1>o. ASSUME \A d \in Clients \ {c} : hpc'[d] = hpc[d] /\ sendConn'[d] = sendConn[d],
             UNCHANGED localClients \/ Pop(sid[c]),
             NEW d \in Clients, d # c
      PROVE  /\ hpc'[d] = hpc[d] /\ sendConn'[d] = sendConn[d]
             /\ sid[d] # 0 => localClients'[sid[d]] = localClients[sid[d]]
  <2>1. hpc'[d] = hpc[d] /\ sendConn'[d] = sendConn[d]
    BY <1>o
  <2>2. sid[d] # 0 => sid[d] # sid[c] /\ sid[d] \in Sids
    BY <1>o, <1>t DEF UniqueIds, BridgeTypeOK
  <2>3. sid[d] # 0 => localClients'[sid[d]] = localClients[sid[d]]
    BY <1>o, <1>t, <2>2 DEF Pop, BridgeTypeOK
  <2> QED BY <2>1, <2>3
<1>1. CASE Finally(c) /\ Serves(c)
  <2>1. /\ \A e \in Conns : Wired(e) => Sent(b2a'[e], "CLOSE", sid[c])
        /\ \/ hpc'[c] = "closeDrain" /\ UNCHANGED localClients
           \/ hpc'[c] = "done" /\ Pop(sid[c])
        /\ \A d \in Clients \ {c} : hpc'[d] = hpc[d] /\ sendConn'[d] = sendConn[d]
    BY <1>1, <1>s, FinallyTells
  <2>2. hpc'[c] = "done" => localClients'[sid[c]] # c
    BY <1>s, <1>t, <2>1, WireAssumption DEF Pop, BridgeTypeOK
  <2>3. GoesOn
    BY <1>1, <1>o, <2>1, <2>2 DEF GoesOn, Serves
  <2>4. \A e \in Conns : Wired(e) => BridgeTells(e)
    BY <1>o, <2>1 DEF BridgeTells, Serves
  <2> QED BY <2>3, <2>4
<1>2. CASE /\ Serves(c) /\ Serves(c)' /\ UNCHANGED localClients
           /\ hpc'[c] = "connectDrain" => hpc[c] = "connectDrain" /\ sendConn'[c] = sendConn[c]
           /\ \A d \in Clients \ {c} : hpc'[d] = hpc[d] /\ sendConn'[d] = sendConn[d]
  <2>1. GoesOn
    BY <1>2, <1>o DEF GoesOn, Serves
  <2>2. \A e \in Conns : Wired(e) => BridgeTells(e)
    BY <1>2, <1>o DEF BridgeTells, Serves
  <2> QED BY <2>1, <2>2
<1>3. CASE /\ Leaves(c) /\ UNCHANGED sendConn
           /\ hpc[c] = "closeDrain" \/ Severed(c) \/ (hpc[c] = "read" /\ ~Connected)
  <2>1. /\ hpc'[c] = "done" /\ Pop(sid[c])
        /\ \A d \in Clients \ {c} : hpc'[d] = hpc[d] /\ sendConn'[d] = sendConn[d]
    BY <1>3, <1>t DEF Leaves, GoesTo, BridgeTypeOK
  <2>2. localClients'[sid[c]] # c
    BY <1>s, <1>t, <2>1, WireAssumption DEF Pop, BridgeTypeOK
  <2>3. GoesOn
    BY <1>3, <1>o, <2>1, <2>2 DEF GoesOn, Severed
  <2>4. ~Connected => \A e \in Conns : ~Wired(e)
    BY DEF Wired, Connected, Conns
  <2>5. \A e \in Conns : Wired(e) => BridgeTells(e)
    BY <1>3, <1>o, <2>1, <2>4 DEF BridgeTells, Serves, Severed
  <2> QED BY <2>3, <2>5
<1>4. CASE ConnectDrained(c) \/ DataDrained(c)
  BY <1>2, <1>4, <1>t DEF ConnectDrained, DataDrained, GoesTo, Serves, BridgeTypeOK
<1>5. CASE ConnectFails(c)
  BY <1>3, <1>5 DEF ConnectFails, Leaves, Severed, DrainRaises
<1>6. CASE HandlerEOF(c) \/ DataFails(c)
  BY <1>1, <1>6 DEF HandlerEOF, DataFails, Serves
<1>7. CASE CloseDrained(c)
  BY <1>3, <1>7 DEF CloseDrained
<1>8. CASE HandlerReads(c)
  <2>1. CASE BridgeSendRaises /\ Leaves(c) /\ UNCHANGED sendConn
    BY <1>3, <1>8, <2>1 DEF HandlerReads, BridgeSendRaises
  <2>2. CASE ~(BridgeSendRaises /\ Leaves(c) /\ UNCHANGED sendConn)
    <3>1. hpc[c] = "read" /\ UNCHANGED localClients
      BY <1>8, <2>2 DEF HandlerReads
    <3>2. /\ hpc'[c] \in {"dataDrain", "read"}
          /\ \A d \in Clients \ {c} : hpc'[d] = hpc[d] /\ sendConn'[d] = sendConn[d]
      BY <1>8, <1>t, <2>2 DEF HandlerReads, GoesTo, AfterSend, BridgeTypeOK
    <3> QED BY <1>2, <3>1, <3>2 DEF Serves
  <2> QED BY <2>1, <2>2
<1> QED BY <1>4, <1>5, <1>6, <1>7, <1>8 DEF Handler

(* A CLOSE of the agent stays on its way until its id is out of the map. *)
Waits(e) ==
    \A s \in Sids : Sent(a2b[e], "CLOSE", s) =>
        Sent(a2b'[e], "CLOSE", s) \/ localClients'[s] = NoClient

LEMMA BridgeStepTells ==
    ASSUME IInv, Reach, Closing, BridgeStep \/ \E c \in Clients : App(c),
           ~(\E c \in Clients : HandlerStarts(c))
    PROVE  /\ GoesOn
           /\ \A e \in Conns : Wired(e) /\ Wired(e)' => BridgeTells(e) /\ Waits(e)
<1> USE DEF connVars, hbVars, handlerVars, appVars, downVars, wireVars, channels
<1>t. WireTypeOK /\ BridgeTypeOK /\ Started /\ Arrived
  BY DEF IInv, TypeOK
<1>c. ASSUME \A c \in Clients : hpc'[c] = hpc[c] \/ (hpc'[c] = "accepted" /\ hpc[c] = "none"),
             UNCHANGED sendConn
      PROVE  GoesOn
  BY <1>c DEF GoesOn
<1>l. ASSUME UNCHANGED localClients, NEW e \in Conns,
             \A c \in Clients : hpc'[c] = hpc[c] \/ (hpc'[c] = "accepted" /\ hpc[c] = "none")
      PROVE  BridgeTells(e)
  BY <1>l DEF BridgeTells, Serves
<1>1. ASSUME NEW c \in Clients, Handler(c)
      PROVE  GoesOn /\ \A e \in Conns : Wired(e) => BridgeTells(e) /\ Waits(e)
  <2>1. UNCHANGED a2b
    BY <1>1 DEF Handler, ConnectDrained, ConnectFails, HandlerReads, HandlerEOF, DataDrained,
                DataFails, CloseDrained
  <2> QED BY <1>1, <2>1, HandlerTells DEF Waits
<1>2. ASSUME NEW x \in Conns, NEW type, Receives(x, type), UNCHANGED hpc,
             type # "CLOSE", UNCHANGED <<localClients, sendConn>>
      PROVE  GoesOn /\ \A e \in Conns : BridgeTells(e) /\ Waits(e)
  <2>1. a2b[x] \in Seq(DownFrame) /\ a2b[x] # <<>> /\ Head(a2b[x]).type # "CLOSE"
    BY <1>2, <1>t DEF Receives, WireTypeOK
  <2>2. /\ a2b'[x] = Tail(a2b[x])
        /\ \A e \in Conns \ {x} : a2b'[e] = a2b[e]
    BY <1>2, <1>t DEF Receives, WireTypeOK
  <2>3. \A e \in Conns : Waits(e)
    BY <2>1, <2>2, SentKept DEF Waits
  <2> QED BY <1>2, <1>c, <1>l, <2>3
<1>3. ASSUME NEW x \in Conns, BridgeReceivesClose(x)
      PROVE  GoesOn /\ \A e \in Conns : Wired(e) => BridgeTells(e) /\ Waits(e)
  <2>1. PICK s \in Sids : s = Head(a2b[x]).sid
    BY <1>3, <1>t, ReceivesTyped DEF BridgeReceivesClose
  <2>2. /\ a2b[x] \in Seq(DownFrame) /\ a2b[x] # <<>> /\ Head(a2b[x]).type = "CLOSE"
        /\ x = agentWriter /\ a2b'[x] = Tail(a2b[x])
    BY <1>3, <1>t DEF BridgeReceivesClose, Receives, WireTypeOK
  <2>3. Sent(a2b[x], "CLOSE", s)
    BY <2>1, <2>2, ElemsTail DEF Sent
  <2>4. /\ localClients'[s] = NoClient
        /\ \A t \in Sids \ {s} : localClients'[t] = localClients[t]
    BY <1>3, <1>t, <2>1 DEF BridgeReceivesClose, Pop, BridgeTypeOK
  <2>5. Waits(x)
    BY <2>1, <2>2, <2>4, SentKept DEF Waits
  <2>6. UNCHANGED <<hpc, sendConn>>
    BY <1>3 DEF BridgeReceivesClose
  <2>7. BridgeTells(x)
    BY <1>t, <2>3, <2>4, <2>6 DEF BridgeTells, Serves, BridgeTypeOK
  <2>8. \A e \in Conns : Wired(e) => e = x
    BY <2>2 DEF Wired
  <2> QED BY <1>c, <2>5, <2>6, <2>7, <2>8
<1>4. CASE LocalDrained
  <2>1. UNCHANGED <<hpc, sendConn, a2b, lt>> /\ bpc = "localDrain"
    BY <1>4 DEF LocalDrained
  <2>2. CASE UNCHANGED localClients
    BY <1>c, <1>l, <2>1, <2>2 DEF Waits
  <2>3. CASE lt[drained[2]] = "lost" /\ Pop(drained[1])
    <3>1. PICK s \in Sids, d \in Clients : s = drained[1] /\ d = drained[2] /\ sid[d] = s
      BY <2>1 DEF Reach, Draining
    <3>2. \A t \in Sids \ {s} : localClients'[t] = localClients[t]
      BY <1>t, <2>3, <3>1 DEF Pop, BridgeTypeOK
    <3>3. \A c \in Clients : sid[c] = s => c = d
      BY <3>1 DEF IInv, UniqueIds, Sids
    <3>4. \A e \in Conns : BridgeTells(e)
      BY <1>t, <2>1, <2>3, <3>1, <3>2, <3>3 DEF BridgeTells, Serves, BridgeTypeOK
    <3> QED BY <1>c, <2>1, <3>4 DEF Waits
  <2> QED BY <1>4, <2>2, <2>3 DEF LocalDrained
<1>5. CASE TearsDown /\ UNCHANGED <<hpc, sendConn>>
  <2>1. \A e \in Conns : ~Wired(e)'
    BY <1>5 DEF TearsDown, Wired, Conns
  <2> QED BY <1>c, <1>5, <2>1
<1>6. CASE UNCHANGED <<hpc, sendConn, localClients, a2b>>
  BY <1>6, <1>c, <1>l DEF Waits
<1>7. ASSUME NEW c \in Clients, App(c)
      PROVE  GoesOn /\ \A e \in Conns : BridgeTells(e) /\ Waits(e)
  <2>1. UNCHANGED <<sendConn, localClients, a2b>>
    BY <1>7 DEF App, AppConnects, AppWrites, AppReads, AppCloses
  <2>2. \A d \in Clients : hpc'[d] = hpc[d] \/ (hpc'[d] = "accepted" /\ hpc[d] = "none")
    BY <1>7, <1>t DEF App, AppConnects, AppWrites, AppReads, AppCloses, GoesTo, Arrived,
                      BridgeTypeOK
  <2> QED BY <1>c, <1>l, <2>1, <2>2 DEF Waits
<1>8. CASE SendDrained \/ Beat \/ BeatDrained \/ \E c \in Clients : LocalTransportLost(c)
  BY <1>6, <1>8 DEF SendDrained, Beat, BeatDrained, LocalTransportLost
<1>9. CASE BridgeEOF \/ WaitClosedReturns
  BY <1>5, <1>6, <1>9 DEF BridgeEOF, WaitClosedReturns
<1>10. ASSUME NEW x \in Conns, BridgeReceivesData(x) \/ BridgeReceivesHeartbeat(x)
       PROVE  GoesOn /\ \A e \in Conns : BridgeTells(e) /\ Waits(e)
  BY <1>2, <1>10 DEF BridgeReceivesData, BridgeReceivesHeartbeat, bridgeVars
<1> QED BY <1>1, <1>3, <1>4, <1>7, <1>8, <1>9, <1>10 DEF BridgeStep, ReaderLoop

(* What the bridge puts on the channel: no CONNECT, and a CLOSE only for a *)
(* handler that is at its end or an id that has no writer.                 *)
Proper(f) ==
    /\ f.type # "CONNECT"
    /\ f.type = "CLOSE" =>
          /\ f.sid < nextId
          /\ \/ localClients[f.sid] = NoClient
             \/ \E c \in Clients : sid[c] = f.sid /\ hpc'[c] \in {"closeDrain", "done"}

LEMMA BridgeSendsProper ==
    ASSUME IInv, BridgeStep \/ \E c \in Clients : App(c),
           ~(\E c \in Clients : HandlerStarts(c)), NEW e \in Conns
    PROVE  b2a'[e] = b2a[e] \/ \E f : Proper(f) /\ b2a'[e] = Append(b2a[e], f)
<1> USE DEF connVars, hbVars, handlerVars, appVars, downVars, wireVars, channels
<1>t. WireTypeOK /\ BridgeTypeOK /\ Started
  BY DEF IInv, TypeOK
<1>a. ASSUME NEW f, Proper(f), BridgeSends(f) \/ BridgeSendRaises \/ BridgeSendDropped
      PROVE  b2a'[e] = b2a[e] \/ \E g : Proper(g) /\ b2a'[e] = Append(b2a[e], g)
  BY <1>a, <1>t, BridgeSendsAdds DEF Adds
<1>1. ASSUME NEW c \in Clients, HandlerEOF(c) \/ DataFails(c)
      PROVE  b2a'[e] = b2a[e] \/ \E g : Proper(g) /\ b2a'[e] = Append(b2a[e], g)
  <2>1. Finally(c) /\ sid[c] \in Sids
    BY <1>1, <1>t, HasId DEF HandlerEOF, DataFails
  <2>2. hpc'[c] \in {"closeDrain", "done"}
    BY <2>1, FinallyTells
  <2>3. sid[c] < nextId
    <3>1. sid[c] \in 0 .. (nextId - 1) /\ nextId \in Nat
      BY <1>t, IdsBelow DEF BridgeTypeOK
    <3> QED BY <3>1
  <2>4. Proper(Control("CLOSE", sid[c]))
    BY <2>2, <2>3 DEF Proper, Control
  <2> QED BY <1>a, <2>1, <2>4 DEF Finally
<1>2. ASSUME NEW c \in Clients, HandlerReads(c)
      PROVE  b2a'[e] = b2a[e] \/ \E g : Proper(g) /\ b2a'[e] = Append(b2a[e], g)
  <2>1. Proper(Data(sid[c], c, upRead[c] + 1))
    BY DEF Proper, Data
  <2> QED BY <1>2, <1>a, <2>1 DEF HandlerReads
<1>3. ASSUME NEW x \in Conns, BridgeReceivesData(x)
      PROVE  b2a'[e] = b2a[e] \/ \E g : Proper(g) /\ b2a'[e] = Append(b2a[e], g)
  <2>1. PICK s \in Sids : s = Head(a2b[x]).sid
    BY <1>3, <1>t, ReceivesTyped DEF BridgeReceivesData
  <2>2. Head(a2b[x]) \in Elems(a2b[x]) /\ Head(a2b[x]).type = "DATA"
    BY <1>3, <1>t, ElemsTail DEF BridgeReceivesData, Receives, WireTypeOK
  <2>3. s < nextId
    <3>1. ~(s >= nextId)
      BY <2>1, <2>2, NoHomeYet
    <3> QED BY <1>t, <3>1 DEF Sids, BridgeTypeOK
  <2>4. localClients[s] = NoClient => Proper(Control("CLOSE", s))
    BY <2>3 DEF Proper, Control
  <2>5. \/ UNCHANGED b2a
        \/ /\ localClients[s] = NoClient
           /\ BridgeSends(Control("CLOSE", s)) \/ BridgeSendRaises
    BY <1>3, <2>1 DEF BridgeReceivesData
  <2> QED BY <1>a, <2>4, <2>5
<1>4. CASE Beat
  <2>1. Proper(Control("HEARTBEAT", 0))
    BY DEF Proper, Control
  <2> QED BY <1>4, <1>a, <2>1 DEF Beat
<1>5. ASSUME NEW c \in Clients,
             \/ ConnectDrained(c) \/ ConnectFails(c) \/ DataDrained(c) \/ CloseDrained(c)
             \/ LocalTransportLost(c) \/ App(c)
      PROVE  UNCHANGED b2a
  BY <1>5 DEF ConnectDrained, ConnectFails, DataDrained, CloseDrained, LocalTransportLost,
              App, AppConnects, AppWrites, AppReads, AppCloses
<1>6. CASE \/ \E x \in Conns : BridgeReceivesClose(x) \/ BridgeReceivesHeartbeat(x)
           \/ LocalDrained \/ SendDrained \/ BeatDrained \/ BridgeEOF \/ WaitClosedReturns
  BY <1>6 DEF BridgeReceivesClose, BridgeReceivesHeartbeat, LocalDrained, SendDrained,
              BeatDrained, BridgeEOF, WaitClosedReturns
<1> QED BY <1>1, <1>2, <1>3, <1>4, <1>5, <1>6 DEF BridgeStep, ReaderLoop, Handler

LEMMA AppendClosesLast ==
    ASSUME NEW F, NEW ch \in Seq(F), ClosesLast(ch), NEW f,
           f.type = "CONNECT" => \A g \in Elems(ch) : g.type = "CLOSE" => g.sid # f.sid
    PROVE  ClosesLast(Append(ch, f))
<1> DEFINE new == Append(ch, f)
<1> SUFFICES ASSUME NEW i \in 1 .. Len(new), NEW j \in 1 .. Len(new),
                    new[i].type = "CLOSE", new[j].type = "CONNECT", new[i].sid = new[j].sid
             PROVE  j < i
  BY DEF ClosesLast
<1>1. Len(new) = Len(ch) + 1 /\ \A k \in 1 .. Len(ch) : new[k] = ch[k]
  OBVIOUS
<1>2. new[Len(ch) + 1] = f
  OBVIOUS
<1>3. CASE i \in 1 .. Len(ch) /\ j \in 1 .. Len(ch)
  BY <1>1, <1>3 DEF ClosesLast
<1>4. CASE i = Len(ch) + 1
  BY <1>1, <1>2, <1>4
<1>5. CASE i \in 1 .. Len(ch) /\ j = Len(ch) + 1
  BY <1>1, <1>2, <1>5 DEF Elems
<1> QED BY <1>1, <1>3, <1>4, <1>5

LEMMA BridgeKeepsClosing ==
    ASSUME IInv, Reach, Closing, UNCHANGED agentVars, BridgeStep \/ \E c \in Clients : App(c),
           ~(\E c \in Clients : HandlerStarts(c))
    PROVE  Closing'
<1>t. WireTypeOK /\ BridgeTypeOK /\ Started
  BY DEF IInv, TypeOK
<1>b. /\ UNCHANGED <<sid, nextId>>
      /\ \A s \in Sids : localClients'[s] \in {localClients[s], NoClient}
  BY BridgeStepEffect, AppEffect DEF BridgeEffect
<1>g. GoesOn
  BY BridgeStepTells
<1>f. ASSUME NEW e \in Conns
      PROVE  b2a'[e] = b2a[e] \/ \E f : Proper(f) /\ b2a'[e] = Append(b2a[e], f)
  BY BridgeSendsProper
<1>n. ASSUME NEW c \in Clients, sid[c] # 0, localClients[sid[c]] # c
      PROVE  localClients'[sid[c]] # c
  BY <1>b, <1>n, <1>t, WireAssumption DEF BridgeTypeOK
<1>1. ASSUME NEW e \in Conns
      PROVE  ClosesLast(b2a[e])'
  <2>1. b2a[e] \in Seq(UpFrame) /\ ClosesLast(b2a[e])
    BY <1>t DEF WireTypeOK, Closing
  <2>2. ClosesLast(b2a'[e])
    BY <1>f, <2>1, AppendClosesLast DEF Proper
  <2> QED BY <2>2 DEF ClosesLast
<1>2. Issued'
  <2> SUFFICES ASSUME NEW e \in Conns, NEW f \in Elems(b2a'[e]) \cup Elems(a2b'[e]),
                      f.type = "CLOSE"
               PROVE  f.sid < nextId
    BY <1>b DEF Issued, Elems
  <2>1. CASE f \in Elems(b2a[e]) \cup Elems(a2b[e])
    BY <2>1 DEF Closing, Issued
  <2>2. CASE f \in Elems(b2a'[e]) /\ f \notin Elems(b2a[e])
    <3>1. b2a[e] \in Seq(UpFrame)
      BY <1>t DEF WireTypeOK
    <3>2. PICK g : b2a'[e] = Append(b2a[e], g) /\ Proper(g)
      BY <1>f, <2>2
    <3>3. f = g
      BY <2>2, <3>1, <3>2, ElemsAppend
    <3> QED BY <3>2, <3>3 DEF Proper
  <2> QED BY <2>1, <2>2, BridgeTakes
<1>3. Earned'
  <2> SUFFICES ASSUME NEW c \in Clients, NEW e \in Conns, NEW s \in Sids, s = sid[c],
                      Sent(b2a'[e], "CLOSE", s)
               PROVE  hpc'[c] \in {"closeDrain", "done"} \/ localClients'[s] # c
    BY <1>b, <1>t DEF Earned, Sent, BridgeTypeOK
  <2>0. s # 0
    BY DEF Sids
  <2>1. CASE Sent(b2a[e], "CLOSE", s)
    <3>1. hpc[c] \in {"closeDrain", "done"} \/ localClients[s] # c
      BY <2>0, <2>1 DEF Closing, Earned
    <3> QED BY <1>g, <1>n, <2>0, <3>1 DEF GoesOn
  <2>2. CASE ~Sent(b2a[e], "CLOSE", s)
    <3>1. b2a[e] \in Seq(UpFrame)
      BY <1>t DEF WireTypeOK
    <3>2. PICK f : b2a'[e] = Append(b2a[e], f) /\ Proper(f)
      BY <1>f, <2>2
    <3>3. f.type = "CLOSE" /\ f.sid = s
      BY <2>2, <3>1, <3>2, SentAppend
    <3>4. CASE localClients[s] = NoClient
      BY <1>n, <2>0, <3>4, WireAssumption
    <3>5. ASSUME NEW d \in Clients, sid[d] = s, hpc'[d] \in {"closeDrain", "done"}
          PROVE  hpc'[c] \in {"closeDrain", "done"}
      BY <2>0, <3>5 DEF IInv, UniqueIds
    <3> QED BY <3>2, <3>3, <3>4, <3>5 DEF Proper
  <2> QED BY <2>1, <2>2
<1>4. Orderly'
  <2>1. ASSUME NEW c \in Clients, hpc'[c] = "done", sid[c] # 0
        PROVE  localClients'[sid[c]] # c
    BY <1>g, <1>n, <2>1 DEF GoesOn, Closing, Orderly
  <2>2. ASSUME NEW c \in Clients, NEW e \in Conns, hpc'[c] = "connectDrain",
               NEW s \in Sids, s = sid[c], Home(e, s)'
        PROVE  sendConn'[c] = e
    <3>1. Home(e, s)
      BY <2>2, BridgeKeepsHome
    <3>2. hpc[c] = "connectDrain" /\ sendConn'[c] = sendConn[c]
      BY <1>g, <2>2 DEF GoesOn
    <3> QED BY <2>2, <3>1, <3>2 DEF Closing, Orderly
  <2>3. \A c \in Clients : hpc'[c] = "connectDrain" => sid[c] \in Sids
    BY <1>g, <1>t, HasId DEF GoesOn
  <2> QED BY <1>b, <2>1, <2>2, <2>3 DEF Orderly, Home
<1> QED BY <1>1, <1>2, <1>3, <1>4 DEF Closing

LEMMA BridgeKeepsSettled ==
    ASSUME IInv, Reach, Closing, UNCHANGED agentVars, BridgeStep \/ \E c \in Clients : App(c),
           ~(\E c \in Clients : HandlerStarts(c)), NEW e \in Conns, SettledAt(e)
    PROVE  SettledAt(e)'
<1>t. WireTypeOK /\ BridgeTypeOK /\ Started
  BY DEF IInv, TypeOK
<1>a. UNCHANGED <<apc, acur, after, sessions, peer, rpc>>
  BY DEF agentVars, dispatchVars
<1>b. /\ UNCHANGED <<sid, nextId>>
      /\ \A s \in Sids : localClients'[s] \in {localClients[s], NoClient}
  BY BridgeStepEffect, AppEffect DEF BridgeEffect
<1>l. /\ link'[e] = "up" => link[e] = "up"
      /\ agentWriter' \in {agentWriter, 0}
      /\ \A c \in Clients : lt'[c] = "open" => lt[c] = "open" \/ sid[c] = 0
  <2>1. CASE \E x \in Conns : BridgeReceivesData(x)
    BY <2>1 DEF BridgeReceivesData
  <2>2. CASE ~(\E x \in Conns : BridgeReceivesData(x))
    BY <2>2, BridgeIsResting DEF BridgeRests
  <2> QED BY <2>1, <2>2
<1>w. Wired(e)' => Wired(e)
  BY <1>l DEF Wired, Conns
<1>g. GoesOn /\ (Wired(e)' => BridgeTells(e) /\ Waits(e))
  BY <1>w, BridgeStepTells
<1>f. b2a'[e] = b2a[e] \/ \E f : f.type # "CONNECT" /\ b2a'[e] = Append(b2a[e], f)
  BY BridgeSendsProper DEF Proper
<1>s. \A s \in Sids : /\ Sent(b2a'[e], "CONNECT", s) <=> Sent(b2a[e], "CONNECT", s)
                      /\ Sent(b2a[e], "CLOSE", s) => Sent(b2a'[e], "CLOSE", s)
                      /\ Sent(a2b'[e], "CLOSE", s) => Sent(a2b[e], "CLOSE", s)
  <2>1. b2a[e] \in Seq(UpFrame)
    BY <1>t DEF WireTypeOK
  <2>2. \A s \in Sids : /\ Sent(b2a'[e], "CONNECT", s) <=> Sent(b2a[e], "CONNECT", s)
                        /\ Sent(b2a[e], "CLOSE", s) => Sent(b2a'[e], "CLOSE", s)
    <3>1. CASE b2a'[e] = b2a[e]
      BY <3>1
    <3>2. ASSUME NEW f, f.type # "CONNECT", b2a'[e] = Append(b2a[e], f), NEW s, NEW type
          PROVE  Sent(b2a'[e], type, s) <=> Sent(b2a[e], type, s) \/ (f.type = type /\ f.sid = s)
      BY <2>1, <3>2, SentAppend
    <3> QED BY <1>f, <3>1, <3>2
  <2>3. \A s \in Sids : Sent(a2b'[e], "CLOSE", s) => Sent(a2b[e], "CLOSE", s)
    BY BridgeTakes DEF Sent
  <2> QED BY <2>2, <2>3
<1>c. \A s \in Sids : /\ Opening(e, s)' <=> Opening(e, s)
                      /\ Notifying(e, s)' <=> Notifying(e, s)
                      /\ Current(e, s)' <=> Current(e, s)
                      /\ Finished(e, s)' <=> Finished(e, s)
  BY <1>a, <1>s DEF Opening, At, Notifying, Current, Finished
<1>h. ASSUME NEW c \in Clients, NEW s \in Sids, sid[c] = s, Wired(e), Current(e, s)
      PROVE  ~Severed(c)
  <2>1. Home(e, s)
    BY <1>h DEF Current, Opening, Home, IInv, Opened, Alive
  <2> QED BY <1>h, <2>1 DEF Severed, Wired, Closing, Orderly
<1>1. TidyAt(e)'
  BY <1>a, <1>l DEF SettledAt, TidyAt
<1>2. EndedAt(e)'
  BY <1>c, <1>s DEF SettledAt, EndedAt
<1>3. RelayOverAt(e)'
  BY <1>a, <1>b, <1>g, <1>w DEF SettledAt, RelayOverAt, Waits
<1>4. NoZombieAt(e)'
  <2> SUFFICES ASSUME NEW c \in Clients, NEW s \in Sids, sid[c] = s,
                      Wired(e)', Current(e, s)
               PROVE  \/ localClients'[s] = c /\ hpc'[c] # "closeDrain"
                      \/ rpc[<<e, s>>] = "closeDrain"
                      \/ Sent(b2a'[e], "CLOSE", s)
                      \/ Ending(c)'
    <3>1. \A c \in Clients : sid[c] # 0 => sid[c] \in Sids
      BY <1>t DEF BridgeTypeOK
    <3> QED BY <1>a, <1>b, <1>c, <3>1 DEF NoZombieAt, Current, Opening, At
  <2>0. s # 0 /\ Wired(e) /\ BridgeTells(e) /\ ~Severed(c)
    BY <1>g, <1>h, <1>w DEF Sids
  <2>1. \/ localClients[s] = c /\ hpc[c] # "closeDrain"
        \/ rpc[<<e, s>>] = "closeDrain"
        \/ Sent(b2a[e], "CLOSE", s)
        \/ Ending(c)
    BY <2>0 DEF SettledAt, NoZombieAt
  <2>2. CASE localClients[s] = c /\ hpc[c] # "closeDrain"
    <3>1. Serves(c)
      <4>1. hpc[c] \notin {"none", "accepted"}
        BY <2>0 DEF IInv, Started
      <4>2. hpc[c] # "done"
        BY <2>0, <2>2 DEF Closing, Orderly
      <4> QED BY <1>t, <2>2, <4>1, <4>2 DEF Serves, BridgeTypeOK, HandlerPc
    <3>2. CASE localClients'[s] = c
      BY <2>0, <2>2, <3>2 DEF BridgeTells
    <3>3. CASE localClients'[s] # c
      <4>1. \/ Sent(b2a'[e], "CLOSE", s) \/ Sent(a2b[e], "CLOSE", s)
            \/ lt'[c] # "open" /\ hpc'[c] = hpc[c]
        BY <2>0, <2>2, <3>3 DEF BridgeTells
      <4>2. CASE Sent(a2b[e], "CLOSE", s)
        <5>1. Finished(e, s)
          BY <4>2 DEF SettledAt, EndedAt
        <5> QED BY <5>1 DEF Finished, Current
      <4>3. CASE lt'[c] # "open" /\ hpc'[c] = hpc[c]
        BY <3>1, <4>3 DEF Ending, Serves
      <4> QED BY <4>1, <4>2, <4>3
    <3> QED BY <3>2, <3>3
  <2>3. CASE Ending(c)
    <3>1. Serves(c) /\ lt'[c] # "open"
      BY <1>l, <2>0, <2>3 DEF Ending, Serves
    <3> QED BY <2>0, <3>1 DEF BridgeTells, Ending, Serves
  <2> QED BY <1>s, <2>1, <2>2, <2>3
<1>5. NoOrphanAt(e)'
  <2> SUFFICES ASSUME NEW c \in Clients, NEW s \in Sids, sid[c] = s,
                      Wired(e)', localClients'[s] = c
               PROVE  \/ Current(e, s)
                      \/ Sent(a2b'[e], "CLOSE", s)
                      \/ Notifying(e, s)
                      \/ hpc'[c] = "closeDrain"
    <3>1. \A c \in Clients : sid[c] # 0 => sid[c] \in Sids
      BY <1>t DEF BridgeTypeOK
    <3> QED BY <1>a, <1>b, <1>c, <3>1
            DEF NoOrphanAt, Current, Opening, At, Notifying
  <2>0. s # 0 /\ Wired(e) /\ Waits(e) /\ localClients[s] = c /\ c # NoClient
    BY <1>b, <1>g, <1>w, WireAssumption DEF Sids
  <2>1. \/ Current(e, s) \/ Sent(a2b[e], "CLOSE", s) \/ Notifying(e, s)
        \/ hpc[c] = "closeDrain"
    BY <2>0 DEF SettledAt, NoOrphanAt
  <2>2. Sent(a2b[e], "CLOSE", s) => Sent(a2b'[e], "CLOSE", s)
    BY <2>0 DEF Waits
  <2>3. hpc[c] = "closeDrain" => hpc'[c] = "closeDrain"
    BY <1>g, <2>0 DEF GoesOn
  <2> QED BY <2>1, <2>2, <2>3
<1> QED BY <1>1, <1>2, <1>3, <1>4, <1>5 DEF SettledAt
-----------------------------------------------------------------------------
(* A handler's first step: its id is new to both sides. *)
New(s) ==
    /\ localClients[s] = NoClient
    /\ \A c \in Clients : sid[c] # s
    /\ \A e \in Conns : ~Home(e, s) /\ ~Alive(e, s)
    /\ \A e \in Conns : \A f \in Elems(b2a[e]) \cup Elems(a2b[e]) : f.type = "CLOSE" => f.sid # s

LEMMA NextIsNew ==
    ASSUME IInv, Closing, nextId \in Sids
    PROVE  New(nextId)
<1>t. BridgeTypeOK /\ WireTypeOK
  BY DEF IInv, TypeOK
<1>1. ASSUME NEW c \in Clients
      PROVE  sid[c] # nextId
  <2>1. sid[c] \in 0 .. (nextId - 1) /\ nextId \in Nat
    BY <1>t, IdsBelow DEF BridgeTypeOK
  <2> QED BY <2>1
<1>2. localClients[nextId] = NoClient
  BY <1>1, <1>t DEF IInv, Registered, BridgeTypeOK
<1>3. \A e \in Conns : ~Home(e, nextId)
  BY NoHomeYet DEF Sids
<1>4. \A e \in Conns : ~Alive(e, nextId)
  BY <1>3 DEF IInv, Opened, Home
<1>5. \A e \in Conns : \A f \in Elems(b2a[e]) \cup Elems(a2b[e]) :
         f.type = "CLOSE" => f.sid # nextId
  BY DEF Closing, Issued, Sids
<1> QED BY <1>1, <1>2, <1>3, <1>4, <1>5 DEF New

(* The rest of the world stands still. *)
StartsWith(c, s) ==
    /\ s = nextId /\ nextId' = nextId + 1
    /\ sid'[c] = s
    /\ \A d \in Clients \ {c} : /\ sid'[d] = sid[d] /\ hpc'[d] = hpc[d] /\ lt'[d] = lt[d]
                               /\ sendConn'[d] = sendConn[d]
    /\ \A t \in Sids \ {s} : localClients'[t] = localClients[t]
    /\ UNCHANGED <<link, a2b, agentWriter>>
    /\ hpc'[c] \in {"connectDrain", "read", "done"}
    /\ hpc'[c] = "done" => localClients'[s] = localClients[s]
    /\ hpc'[c] = "connectDrain" => sendConn'[c] = agentWriter
    /\ \A e \in Conns :
          /\ Wired(e) => /\ hpc'[c] # "done" /\ localClients'[s] = c
                         /\ b2a'[e] = Append(b2a[e], Connect(s, c))
          /\ ~Wired(e) => b2a'[e] = b2a[e]

LEMMA HandlerStartsWith ==
    ASSUME IInv, NEW c \in Clients, HandlerStarts(c)
    PROVE  nextId \in Sids /\ StartsWith(c, nextId)
<1>t. WireTypeOK /\ BridgeTypeOK
  BY DEF IInv, TypeOK
<1> USE DEF HandlerStarts, Registers
<1>1. nextId \in Sids /\ nextId' = nextId + 1 /\ UNCHANGED <<link, a2b, agentWriter>>
  BY DEF connVars
<1>2. /\ sid'[c] = nextId /\ sendConn'[c] = agentWriter
      /\ \A d \in Clients \ {c} : sid'[d] = sid[d] /\ sendConn'[d] = sendConn[d]
  BY <1>t DEF BridgeTypeOK
<1>3. /\ hpc'[c] \in {"connectDrain", "read", "done"}
      /\ \A d \in Clients \ {c} : hpc'[d] = hpc[d]
  BY <1>t DEF GoesTo, AfterSend, BridgeTypeOK
<1>4. \A d \in Clients \ {c} : lt'[d] = lt[d]
  BY <1>t DEF CloseWriter, BridgeTypeOK
<1>5. /\ \A t \in Sids \ {nextId} : localClients'[t] = localClients[t]
      /\ hpc'[c] = "done" => localClients'[nextId] = localClients[nextId]
  BY <1>t, <1>1 DEF GoesTo, AfterSend, BridgeTypeOK
<1>6. ASSUME NEW e \in Conns, Wired(e)
      PROVE  /\ hpc'[c] # "done" /\ localClients'[nextId] = c
             /\ b2a'[e] = Append(b2a[e], Connect(nextId, c))
  <2>1. Connected
    BY <1>6 DEF Wired, Connected, Conns
  <2>2. BridgeSends(Connect(nextId, c)) /\ GoesTo(c, AfterSend("connectDrain", "read"))
        /\ localClients' = [localClients EXCEPT ![nextId] = c]
    BY <2>1 DEF BridgeSendDropped, BridgeSendRaises
  <2> QED BY <1>1, <1>6, <1>t, <2>2
          DEF BridgeSends, Wired, GoesTo, AfterSend, WireTypeOK, BridgeTypeOK
<1>7. ASSUME NEW e \in Conns, ~Wired(e)
      PROVE  b2a'[e] = b2a[e]
  <2>1. \/ BridgeSends(Connect(nextId, c)) \/ BridgeSendDropped \/ BridgeSendRaises
    OBVIOUS
  <2> QED BY <1>7, <1>t, <2>1 DEF BridgeSends, BridgeSendDropped, BridgeSendRaises, Connected,
                                  Wired, WireTypeOK
<1> QED BY <1>1, <1>2, <1>3, <1>4, <1>5, <1>6, <1>7 DEF StartsWith

LEMMA StartKeepsClosing ==
    ASSUME IInv, Closing, UNCHANGED agentVars, NEW c \in Clients, NEW s \in Sids,
           New(s), StartsWith(c, s)
    PROVE  Closing'
<1>t. WireTypeOK /\ BridgeTypeOK
  BY DEF IInv, TypeOK
<1>k. /\ Connect(s, c).type = "CONNECT" /\ Connect(s, c).sid = s
      /\ UNCHANGED peer
  BY DEF Connect, agentVars, dispatchVars
<1>b. ASSUME NEW e \in Conns
      PROVE  /\ b2a'[e] \in {b2a[e], Append(b2a[e], Connect(s, c))}
             /\ \A t : Sent(b2a'[e], "CLOSE", t) => Sent(b2a[e], "CLOSE", t)
             /\ \A t \in Sids : t # s /\ Home(e, t)' => Home(e, t)
             /\ ~Wired(e) => (Home(e, s)' <=> Home(e, s))
  <2>1. b2a'[e] \in {b2a[e], Append(b2a[e], Connect(s, c))}
    BY DEF StartsWith
  <2>2. b2a[e] \in Seq(UpFrame)
    BY <1>t DEF WireTypeOK
  <2>a. ASSUME NEW t
        PROVE  /\ Sent(Append(b2a[e], Connect(s, c)), "CLOSE", t) <=> Sent(b2a[e], "CLOSE", t)
               /\ Sent(Append(b2a[e], Connect(s, c)), "CONNECT", t) <=>
                     Sent(b2a[e], "CONNECT", t) \/ s = t
    BY <1>k, <2>2, SentAppend
  <2>3. \A t : Sent(b2a'[e], "CLOSE", t) => Sent(b2a[e], "CLOSE", t)
    BY <2>1, <2>a
  <2>4. \A t \in Sids : t # s /\ Sent(b2a'[e], "CONNECT", t) => Sent(b2a[e], "CONNECT", t)
    BY <2>1, <2>a
  <2>5. ~Wired(e) => (Home(e, s)' <=> Home(e, s))
    BY <1>k DEF StartsWith, Home
  <2>6. \A t \in Sids : t # s /\ Home(e, t)' => Home(e, t)
    BY <1>k, <2>4 DEF Home
  <2> QED BY <2>1, <2>3, <2>5, <2>6
<1>1. ASSUME NEW e \in Conns
      PROVE  ClosesLast(b2a[e])'
  <2>1. b2a[e] \in Seq(UpFrame) /\ ClosesLast(b2a[e])
    BY <1>t DEF WireTypeOK, Closing
  <2>2. ClosesLast(Append(b2a[e], Connect(s, c)))
    BY <1>k, <2>1, AppendClosesLast DEF New
  <2>3. ClosesLast(b2a'[e])
    BY <1>b, <2>1, <2>2
  <2> QED BY <2>3 DEF ClosesLast
<1>2. Issued'
  <2> SUFFICES ASSUME NEW e \in Conns, NEW f \in Elems(b2a'[e]) \cup Elems(a2b[e]),
                      f.type = "CLOSE"
               PROVE  f.sid < nextId'
    BY DEF Issued, Elems, StartsWith
  <2>1. f \in Elems(b2a[e]) \cup Elems(a2b[e])
    <3>1. b2a[e] \in Seq(UpFrame)
      BY <1>t DEF WireTypeOK
    <3>2. Elems(Append(b2a[e], Connect(s, c))) = Elems(b2a[e]) \cup {Connect(s, c)}
      BY <3>1, ElemsAppend
    <3> QED BY <1>b, <1>k, <3>2
  <2>2. f.sid < nextId
    BY <2>1 DEF Closing, Issued
  <2>3. f.sid \in Nat /\ nextId \in Nat /\ nextId' = nextId + 1
    <3>1. f \in UpFrame \/ f \in DownFrame
      BY <1>t, <2>1, ElemsTyped DEF WireTypeOK
    <3> QED BY <1>t, <3>1, UpFields, DownFields DEF StartsWith, BridgeTypeOK, Sids
  <2> QED BY <2>2, <2>3
<1>3. Earned'
  <2> SUFFICES ASSUME NEW d \in Clients, NEW e \in Conns, NEW t, t = sid'[d], t # 0,
                      Sent(b2a[e], "CLOSE", t)
               PROVE  hpc'[d] \in {"closeDrain", "done"} \/ localClients'[t] # d
    BY <1>b DEF Earned, Sent
  <2>1. t # s
    BY DEF New, Sent
  <2>2. d # c /\ sid[d] = t /\ t \in Sids
    BY <1>t, <2>1 DEF StartsWith, BridgeTypeOK
  <2> QED BY <2>1, <2>2 DEF StartsWith, Closing, Earned
<1>4. Orderly'
  <2>1. ASSUME NEW d \in Clients, hpc'[d] = "done", sid'[d] # 0
        PROVE  localClients'[sid'[d]] # d
    <3>1. CASE d = c
      BY <2>1, <3>1, WireAssumption DEF StartsWith, New
    <3>2. CASE d # c
      <4>1. sid'[d] = sid[d] /\ sid[d] # s /\ sid[d] \in Sids
        BY <1>t, <2>1, <3>2 DEF StartsWith, New, BridgeTypeOK
      <4> QED BY <2>1, <3>2, <4>1 DEF StartsWith, Closing, Orderly
    <3> QED BY <3>1, <3>2
  <2>2. ASSUME NEW d \in Clients, NEW e \in Conns, NEW t \in Sids, t = sid'[d],
               hpc'[d] = "connectDrain", Home(e, t)'
        PROVE  sendConn'[d] = e
    <3>1. CASE d = c
      <4>1. t = s /\ sendConn'[c] = agentWriter
        BY <2>2, <3>1 DEF StartsWith
      <4>2. Wired(e)
        BY <1>b, <2>2, <4>1 DEF New
      <4> QED BY <3>1, <4>1, <4>2 DEF Wired
    <3>2. CASE d # c
      <4>1. t = sid[d] /\ t # s /\ hpc[d] = "connectDrain" /\ sendConn'[d] = sendConn[d]
        BY <2>2, <3>2 DEF StartsWith, New
      <4> QED BY <1>b, <2>2, <4>1 DEF Closing, Orderly
    <3> QED BY <3>1, <3>2
  <2>3. ASSUME NEW d \in Clients, hpc'[d] = "connectDrain"
        PROVE  sid'[d] \in Sids
    BY <1>t, <2>3, HasId DEF StartsWith, IInv
  <2> QED BY <2>1, <2>2, <2>3 DEF Orderly, Home
<1> QED BY <1>1, <1>2, <1>3, <1>4 DEF Closing

LEMMA StartKeepsSettled ==
    ASSUME IInv, UNCHANGED agentVars, NEW c \in Clients, NEW s \in Sids,
           New(s), StartsWith(c, s), NEW e \in Conns, SettledAt(e)
    PROVE  SettledAt(e)'
<1>t. WireTypeOK /\ BridgeTypeOK
  BY DEF IInv, TypeOK
<1>a. UNCHANGED <<apc, acur, after, sessions, peer, rpc, link, a2b, agentWriter>>
  BY DEF agentVars, dispatchVars, StartsWith
<1>w. Wired(e)' <=> Wired(e)
  BY <1>a DEF Wired
<1>k. Connect(s, c).type = "CONNECT" /\ Connect(s, c).sid = s
  BY DEF Connect
<1>b. /\ \A t : Sent(b2a'[e], "CLOSE", t) <=> Sent(b2a[e], "CLOSE", t)
      /\ \A t \in Sids : t # s => (Sent(b2a'[e], "CONNECT", t) <=> Sent(b2a[e], "CONNECT", t))
      /\ Wired(e) => Sent(b2a'[e], "CONNECT", s)
  <2>1. b2a[e] \in Seq(UpFrame) /\ b2a'[e] \in {b2a[e], Append(b2a[e], Connect(s, c))}
    BY <1>t DEF WireTypeOK, StartsWith
  <2>2. Wired(e) => b2a'[e] = Append(b2a[e], Connect(s, c))
    BY DEF StartsWith
  <2>a. ASSUME NEW t
        PROVE  /\ Sent(Append(b2a[e], Connect(s, c)), "CLOSE", t) <=> Sent(b2a[e], "CLOSE", t)
               /\ Sent(Append(b2a[e], Connect(s, c)), "CONNECT", t) <=>
                     Sent(b2a[e], "CONNECT", t) \/ s = t
    BY <1>k, <2>1, SentAppend
  <2> QED BY <2>1, <2>2, <2>a
<1>n. /\ rpc[<<e, s>>] = "none" /\ ~Sent(a2b[e], "CLOSE", s)
  BY DEF New, Alive, Sent
<1>c. \A t \in Sids : /\ Opening(e, t)' <=> Opening(e, t)
                      /\ Notifying(e, t)' <=> Notifying(e, t)
                      /\ t # s => (Current(e, t)' <=> Current(e, t))
                      /\ t # s => (Finished(e, t)' <=> Finished(e, t))
  BY <1>a, <1>b DEF Opening, At, Notifying, Current, Finished
<1>i. \A d \in Clients : sid'[d] # 0 => sid'[d] \in Sids
  BY <1>t DEF StartsWith, BridgeTypeOK
<1>1. TidyAt(e)'
  BY <1>a DEF SettledAt, TidyAt
<1>2. EndedAt(e)'
  BY <1>a, <1>c, <1>n DEF SettledAt, EndedAt
<1>3. RelayOverAt(e)'
  BY <1>a, <1>n, <1>w DEF SettledAt, RelayOverAt, StartsWith
<1>4. NoZombieAt(e)'
  <2> SUFFICES ASSUME NEW d \in Clients, NEW t \in Sids, sid'[d] = t,
                      Wired(e), Current(e, t)'
               PROVE  \/ localClients'[t] = d /\ hpc'[d] # "closeDrain"
                      \/ rpc[<<e, t>>] = "closeDrain"
                      \/ Sent(b2a'[e], "CLOSE", t)
                      \/ Ending(d)'
    BY <1>a, <1>i, <1>w DEF NoZombieAt, Current, Opening, At
  <2>1. CASE d = c
    BY <2>1 DEF StartsWith
  <2>2. CASE d # c
    <3>1. t # s /\ t # 0 /\ sid[d] = t
      BY <2>2 DEF StartsWith, New, Sids
    <3>2. Current(e, t)
      BY <1>c, <3>1
    <3> QED BY <1>b, <2>2, <3>1, <3>2 DEF SettledAt, NoZombieAt, StartsWith, Ending
  <2> QED BY <2>1, <2>2
<1>5. NoOrphanAt(e)'
  <2> SUFFICES ASSUME NEW d \in Clients, NEW t \in Sids, sid'[d] = t,
                      Wired(e), localClients'[t] = d
               PROVE  \/ Current(e, t)'
                      \/ Sent(a2b[e], "CLOSE", t)
                      \/ Notifying(e, t)
                      \/ hpc'[d] = "closeDrain"
    BY <1>a, <1>c, <1>i, <1>w DEF NoOrphanAt, Current, Opening, At, Notifying
  <2>1. CASE d = c
    <3>1. t = s
      BY <2>1 DEF StartsWith
    <3> QED BY <1>b, <3>1 DEF Current
  <2>2. CASE d # c
    <3>1. t # s /\ t # 0 /\ sid[d] = t
      BY <2>2 DEF StartsWith, New, Sids
    <3>2. localClients[t] = d /\ hpc'[d] = hpc[d]
      BY <2>2, <3>1 DEF StartsWith
    <3> QED BY <1>c, <3>1, <3>2 DEF SettledAt, NoOrphanAt
  <2> QED BY <2>1, <2>2
<1> QED BY <1>1, <1>2, <1>3, <1>4, <1>5 DEF SettledAt
-----------------------------------------------------------------------------
(* The steps of the connections. *)
LEMMA ClosingStands ==
    ASSUME Closing,
           UNCHANGED <<b2a, a2b, peer, nextId, sid, hpc, sendConn, localClients>>
    PROVE  Closing'
BY DEF Closing, ClosesLast, Issued, Earned, Orderly, Home, Sent

LEMMA ConnectsSettles ==
    ASSUME IInv, Starts, Reach, \A e \in Conns : SettledAt(e), Connects, NEW x \in Conns
    PROVE  SettledAt(x)'
<1> USE DEF Connects, BridgeConnects, handlerVars
<1>t. WireTypeOK /\ BridgeTypeOK /\ AgentTypeOK
  BY DEF IInv, TypeOK
<1>1. UNCHANGED <<b2a, a2b, acur, after, sessions, peer, rpc, localClients, sid>>
  OBVIOUS
<1>2. \A s \in Sids : localClients'[s] = NoClient
  BY DEF Reach, Disconnected
<1>3. /\ apc[x] = "none" => apc'[x] \in {"none", "read"}
      /\ apc[x] # "none" => apc'[x] = apc[x]
  BY <1>t DEF Accepts, Goes, At, BridgeTypeOK, AgentTypeOK
<1>4. \A s \in Sids : Opening(x, s)' <=> Opening(x, s)
  BY <1>1, <1>3 DEF Opening, At
<1>5. TidyAt(x)'
  <2>1. apc'[x] \in {"closeTask", "closeUx", "uxDrain", "cleanup", "done"} =>
           apc'[x] = apc[x] /\ link'[x] = link[x]
    <3>1. apc'[x] \in {"closeTask", "closeUx", "uxDrain", "cleanup", "done"} =>
             apc'[x] = apc[x]
      BY <1>3
    <3>2. x # connCount' => link'[x] = link[x]
      BY <1>t DEF WireTypeOK, BridgeTypeOK
    <3>3. apc[x] = "none" \/ x # connCount'
      BY DEF Accepts, At
    <3> QED BY <3>1, <3>2, <3>3
  <2> QED BY <1>1, <2>1 DEF SettledAt, TidyAt
<1>6. EndedAt(x)'
  BY <1>1, <1>4 DEF SettledAt, EndedAt, Finished
<1>7. RelayOverAt(x)'
  BY <1>2 DEF RelayOverAt
<1>8. NoZombieAt(x)'
  <2> SUFFICES ASSUME Wired(x)', NEW s \in Sids, Current(x, s)
               PROVE  FALSE
    <3>1. \A c \in Clients : sid[c] # 0 => sid[c] \in Sids
      BY <1>t DEF BridgeTypeOK
    <3> QED BY <1>1, <1>4, <3>1 DEF NoZombieAt, Current, Opening, At
  <2>1. x = connCount + 1
    BY DEF Wired
  <2>2. ~Home(x, s)
    <3>1. x > connCount
      BY <1>t, <2>1 DEF BridgeTypeOK
    <3> QED BY <3>1 DEF Starts, NewConns
  <2> QED BY <2>2 DEF Current, Opening, Home, IInv, Opened, Alive
<1>9. NoOrphanAt(x)'
  <2>1. \A c \in Clients : sid[c] # 0 => sid[c] \in Sids
    BY <1>t DEF BridgeTypeOK
  <2> QED BY <1>1, <1>2, <2>1, WireAssumption DEF NoOrphanAt
<1> QED BY <1>5, <1>6, <1>7, <1>8, <1>9 DEF SettledAt

LEMMA LinkStepAgrees ==
    ASSUME IInv, Starts, Reach, Agrees,
           \/ Connects
           \/ \E e \in Conns : Watchdog(e) /\ UNCHANGED bridgeVars
           \/ \E e \in Conns : LinkLost(e) /\ UNCHANGED <<bridgeVars, agentVars>>
           \/ UNCHANGED vars
    PROVE  Agrees'
<1>t. WireTypeOK
  BY DEF IInv, TypeOK
<1>1. CASE Connects
  <2>1. UNCHANGED <<b2a, a2b, peer, nextId, sid, hpc, sendConn, localClients>>
    BY <1>1 DEF Connects, BridgeConnects, handlerVars
  <2> QED BY <1>1, <2>1, ClosingStands, ConnectsSettles DEF Agrees
<1>2. ASSUME UNCHANGED <<b2a, a2b, bridgeVars, agentVars>>,
             \A e \in Conns : link'[e] = "up" => link[e] = "up"
      PROVE  Agrees'
  <2>1. /\ UNCHANGED <<nextId, sid, hpc, sendConn, localClients, lt, agentWriter>>
        /\ UNCHANGED <<b2a, a2b, apc, acur, after, sessions, peer, rpc>>
    BY <1>2 DEF bridgeVars, connVars, handlerVars, agentVars, dispatchVars
  <2>2. \A e \in Conns : SettledAt(e)'
    BY <1>2, <2>1, StandsSettled DEF Agrees
  <2>3. Closing'
    BY <2>1, ClosingStands DEF Agrees
  <2> QED BY <2>2, <2>3 DEF Agrees
<1>3. ASSUME NEW e \in Conns, Watchdog(e), UNCHANGED bridgeVars
      PROVE  Agrees'
  <2>1. \A y \in Conns : link'[y] = "up" => link[y] = "up"
    BY <1>3, <1>t DEF Watchdog, Closed, WireTypeOK, LinkState
  <2> QED BY <1>2, <1>3, <2>1 DEF Watchdog
<1>4. ASSUME NEW e \in Conns, LinkLost(e), UNCHANGED <<bridgeVars, agentVars>>
      PROVE  Agrees'
  <2>1. \A y \in Conns : link'[y] = "up" => link[y] = "up"
    BY <1>4, <1>t DEF LinkLost, WireTypeOK
  <2> QED BY <1>2, <1>4, <2>1 DEF LinkLost
<1>5. CASE UNCHANGED vars
  BY <1>2, <1>5 DEF vars, wireVars, channels
<1> QED BY <1>1, <1>3, <1>4, <1>5

-----------------------------------------------------------------------------
LEMMA InitAgrees == Init => Agrees
<1> SUFFICES ASSUME Init PROVE Agrees
  OBVIOUS
<1> USE DEF Init, WireInit, BridgeInit, AgentInit
<1>1. ASSUME NEW e \in Conns
      PROVE  SettledAt(e) /\ ClosesLast(b2a[e]) /\ Elems(b2a[e]) = {} /\ Elems(a2b[e]) = {}
  <2>1. \A type, s : ~Sent(b2a[e], type, s) /\ ~Sent(a2b[e], type, s)
    BY SentEmpty
  <2>2. TidyAt(e)
    BY DEF TidyAt
  <2>3. EndedAt(e)
    BY <2>1 DEF EndedAt
  <2>4. RelayOverAt(e) /\ NoZombieAt(e) /\ NoOrphanAt(e)
    BY DEF RelayOverAt, NoZombieAt, NoOrphanAt
  <2>5. ClosesLast(b2a[e]) /\ Elems(b2a[e]) = {} /\ Elems(a2b[e]) = {}
    BY ElemsEmpty DEF ClosesLast
  <2> QED BY <2>2, <2>3, <2>4, <2>5 DEF SettledAt
<1>2. Closing
  BY <1>1 DEF Closing, Issued, Earned, Orderly
<1> QED BY <1>1, <1>2 DEF Agrees

LEMMA StepKeepsAgrees ==
    ASSUME IInv, Starts, Piped, Reach, Agrees, [Next]_vars
    PROVE  Agrees'
<1>p. Unopened
  BY DEF Piped
<1>1. CASE \/ Connects
           \/ \E e \in Conns : Watchdog(e) /\ UNCHANGED bridgeVars
           \/ \E e \in Conns : LinkLost(e) /\ UNCHANGED <<bridgeVars, agentVars>>
           \/ UNCHANGED vars
  BY <1>1, LinkStepAgrees
<1>2. CASE /\ BridgeStep \/ \E c \in Clients : App(c)
           /\ UNCHANGED agentVars
           /\ ~(\E c \in Clients : HandlerStarts(c))
  BY <1>2, BridgeKeepsClosing, BridgeKeepsSettled DEF Agrees
<1>3. ASSUME NEW c \in Clients, HandlerStarts(c), UNCHANGED agentVars
      PROVE  Agrees'
  <2>1. PICK s \in Sids : s = nextId /\ New(s) /\ StartsWith(c, s)
    BY <1>3, HandlerStartsWith, NextIsNew DEF Agrees
  <2> QED BY <1>3, <2>1, StartKeepsClosing, StartKeepsSettled DEF Agrees
<1>4. CASE (AgentStep \/ \E l \in Links : Usbmuxd(l)) /\ UNCHANGED bridgeVars
  BY <1>4, <1>p, AgentKeepsClosing, AgentKeepsSettled DEF Agrees
<1> QED BY <1>1, <1>2, <1>3, <1>4 DEF Next

LEMMA Agreed == Spec => [](IInv /\ Agrees)
<1>1. Init => Starts /\ Piped /\ Reach /\ Agrees
  BY InitOrder, InitPiped, InitReleases, InitAgrees
<1>2. IInv /\ (Starts /\ Piped /\ Reach /\ Agrees) /\ [Next]_vars
         => (Starts /\ Piped /\ Reach /\ Agrees)'
  BY StepKeepsStarts, StepKeepsPiped, StepKeepsReach, StepKeepsAgrees
<1> QED BY <1>1, <1>2, Invariance, PTL DEF Spec

(* A session the agent still serves is never ended by the bridge but for   *)
(* its own end: when a CLOSE for it is on its way, its handler has left    *)
(* its loop or has no writer any more.  The CLOSE that                     *)
(* _agent_reader_loop() sends for an id it does not know, and the one of a *)
(* handler that outlived its connection, hit no living session.            *)
THEOREM UpClosesEarned == Spec => []CloseIsEarnedUp
<1>1. IInv /\ Agrees => CloseIsEarnedUp
  BY EarnedIsUp
<1> QED BY <1>1, Agreed, PTL

(* A registered client is never closed but for the end of its link: when a *)
(* CLOSE for it is on its way from the agent, usbmuxd's connection is not  *)
(* being opened and its relay is over or in its last send, whether the     *)
(* relay, a refused CONNECT, DATA for an unknown session or a failed write *)
(* to usbmuxd made the agent send it.                                      *)
THEOREM DownClosesEarned == Spec => []CloseIsEarnedDown
<1>1. IInv /\ Agrees => CloseIsEarnedDown
  BY EarnedIsDown
<1> QED BY <1>1, Agreed, PTL

(* When nothing is under way on a connection, the agent's map and the      *)
(* bridge's hold the same sessions, after any number of connections,       *)
(* failed sends, cancelled relays and crossing CLOSE frames.               *)
THEOREM SidesAgree == Spec => []Agreement
<1>1. IInv /\ Agrees => Agreement
  BY SettledAgree
<1> QED BY <1>1, Agreed, PTL
=============================================================================
