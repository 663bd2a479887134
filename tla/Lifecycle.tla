------------------------------ MODULE Lifecycle ------------------------------
(***************************************************************************)
(* A bridge and an agent over their lives: dialling, authentication,       *)
(* serving, reconnecting, stop() and cancellation on both sides.  One      *)
(* agent process; what it serves on a connection is the concern of Tunnel. *)
(***************************************************************************)
EXTENDS BridgeLife, AgentLife

vars == <<lineVars, bridgeVars, agentVars>>

Init == LineInit /\ BridgeInit /\ AgentInit

(* TCP connects a dialling bridge to a listening agent. *)
Meet(e) == Dials(e) /\ Admits(e)

(* HEARTBEATs of connection e are sent, arrive and are taken. *)
Beating(e) ==
    /\ dialled = e /\ hb = "runs"
    /\ e \notin cut
    /\ hp[e] # "join"

(* More than 90 s have passed without one. *)
TimesOut(e) == ~Beating(e) /\ Watchdog(e)

Next ==
    \/ \E e \in Conns : Meet(e)
    \/ BridgeSteps /\ UNCHANGED agentVars
    \/ AgentSteps /\ UNCHANGED bridgeVars
    \/ \E e \in Conns : TimesOut(e) /\ UNCHANGED bridgeVars
    \/ \E e \in Conns : LineCut(e) /\ UNCHANGED <<bridgeVars, agentVars>>

Spec == Init /\ [][Next]_vars

(* The event loops run what can go on.  An agent may never hear of the     *)
(* loss of a connection: only its time limits are certain.  Once its end   *)
(* is closed, the frames left to read are finitely many (hence SF).        *)
(* Joining a relay may wait for the bridge to read, as long as the         *)
(* connection has not ended.  Nobody need interrupt, stop or attach.       *)
Fairness ==
    /\ WF_vars(RunSteps /\ UNCHANGED agentVars)
    /\ WF_vars(ProgramHandled /\ UNCHANGED agentVars)
    /\ \A e \in Conns :
          /\ WF_vars(Collects(e) /\ UNCHANGED agentVars)
          /\ WF_vars((HandshakeDone(e) \/ HandshakeFails(e)) /\ UNCHANGED bridgeVars)
          /\ WF_vars(HandlerSteps(e) /\ UNCHANGED bridgeVars)
          /\ WF_vars(RelayJoined(e) /\ (aend[e] = "closed" \/ e \in leaving)
                        /\ UNCHANGED bridgeVars)
          /\ SF_vars(LoopEnds(e) /\ (aend[e] = "closed" \/ e \notin cut)
                        /\ UNCHANGED bridgeVars)
          /\ WF_vars(TimesOut(e) /\ UNCHANGED bridgeVars)
    /\ WF_vars(StopSeen /\ UNCHANGED bridgeVars)
    /\ \A k \in Runners : WF_vars((Gathered(k) \/ ServerClosed(k)) /\ UNCHANGED bridgeVars)

FairSpec == Spec /\ Fairness

-----------------------------------------------------------------------------
TypeOK == LineTypeOK /\ BridgeTypeOK /\ AgentTypeOK

(* A program whose handler has not run yet is closed when it does.         *)
NothingOffered ==
    /\ unixServer = "none" /\ ~socketFile /\ ~active
    /\ attached = {} /\ "registered" \notin former

(* Between two connections nothing offers a tunnel that is not there: no   *)
(* server, no socket file, no active.json, no registered program,          *)
(* whichever of run()'s awaits failed or was cancelled.  One failure is    *)
(* excepted, up to the next teardown or the next server: that of making    *)
(* the directory of active.json, when the socket is bound already.         *)
NothingStale ==
    bpc \in {"dial", "tls", "auth", "sleep"} /\ ~unlisted => NothingOffered

(* A run() that was cancelled once at most, at whatever await, has left    *)
(* nothing behind when it ends; after the failure named above, one that    *)
(* was not cancelled, since the final teardown may be the one that waits.  *)
(* A connection given up during the handshake is not meant: it is closed   *)
(* when it is collected, or by the end of the process.                     *)
CleanExit ==
    (bpc = "ended" /\ cancels <= (IF unlisted THEN 0 ELSE 1))
        => NothingOffered /\ agentWriter = 0

(* The phases of a handler before authentication. *)
Early == {"none", "tls", "created", "auth"}

(* Whatever programs send goes over a connection whose handler at the      *)
(* agent has authenticated it, if it has not given it up again; and while  *)
(* the bridge serves this is the newest connection.                        *)
ServesAuthenticated ==
    /\ agentWriter # 0 => hp[agentWriter] \notin Early
    /\ bpc \in {"listen", "serve"} => agentWriter = dialled

Gathering(e) == \E k \in Runners : e \in waits[k]

(* A handler forgets an open session only when a shutdown cancelled it.    *)
ForgetsOnShutdownOnly ==
    \A e \in Conns : hp[e] = "ended" /\ sess[e] > 0 => Gathering(e)

(* Why they hold.  Of the bridge: whoever is attached came by the server,  *)
(* a program of an earlier one is gone before the next connection is       *)
(* dialled, and it takes a cancellation to come to a final wait, unless a  *)
(* server was left open before.                                            *)
Wound ==
    /\ attached # {} => unixServer # "none"
    /\ bpc = "listen" /\ ~unlisted => NothingOffered
    /\ bpc = "sleep" /\ ~unlisted /\ former # {} => agentWriter = 0
    /\ bpc \in {"dial", "tls", "auth", "listen"} /\ ~unlisted => former = {}
    /\ bpc \in {"tls", "auth", "listen", "serve"} => dialled \in Conns
    /\ bpc \in {"listen", "serve"} => agentWriter # 0
    /\ cancelling => cancels >= 1
    /\ bpc = "final" =>
           cancels >= (IF cancelling THEN 1 ELSE 0) + (IF unlisted THEN 0 ELSE 1)

(* Of the handlers: OK is said once the token was, sessions are opened     *)
(* after it, and only a handler that some _cleanup() gathers is cancelled. *)
Granted == \A e \in Conns : hp[e] \in Early => said[e] # "OK" /\ sess[e] = 0
CancelledByCleanup ==
    /\ \A e \in hcancel : Gathering(e)
    /\ \A e \in Conns : hp[e] \in {"writerWait", "final"} /\ sess[e] > 0 => Gathering(e)
    /\ cpc["start"] \in {"binding", "serving"} => waits["start"] = {}
    /\ cpc["stop"] = "idle" => waits["stop"] = {}

IInv ==
    /\ TypeOK
    /\ NothingStale /\ CleanExit /\ ServesAuthenticated /\ ForgetsOnShutdownOnly
    /\ Wound /\ Granted /\ CancelledByCleanup

-----------------------------------------------------------------------------
(* A shutdown ends, also when close_session() swallows a cancellation or a *)
(* relay waits for a bridge that does not read: closing the connections    *)
(* first is what makes it so.                                              *)
ShutdownEnds ==
    \A k \in Runners : (Woken \/ cpc[k] = "gather") ~> cpc[k] = "ended"

(* A connection that was lost without a word, that the bridge gave up or   *)
(* left open does not keep a handler of the agent, nor its sessions, for   *)
(* ever: the limits of AUTH and of the heartbeats see to it.               *)
Abandoned(e) ==
    /\ hp[e] # "none"
    /\ \/ e \in cut
       \/ e # dialled
       \/ bpc \in {"dial", "sleep", "teardown", "final", "ended"}

AbandonedEnds == \A e \in Conns : Abandoned(e) ~> hp[e] = "ended"

(* A cancellation of run() ends the bridge wherever it is delivered, at    *)
(* once or after the teardown, with two exceptions: in the wait for the    *)
(* heartbeat task it is swallowed, and a teardown that waits for attached  *)
(* programs (Python 3.12 and later) waits as long as one of them stays.    *)
StaysAttached == bpc \in {"teardown", "final"} /\ attached # {}

CancelHeeded ==
    [](cancelling /\ bpc # "joinHb" => <>(bpc = "ended") \/ <>[]StaysAttached)

-----------------------------------------------------------------------------
(* What two docstrings say, and the code does not keep where wait_closed() *)
(* waits.  client.py:12: on any disconnect all local clients are cleaned   *)
(* up; client.py:99-100: run() runs until its task is cancelled.  A bridge *)
(* whose connection is over and which is cancelled, in the reader loop or  *)
(* in the teardown, would then be rid of its programs, or at its end.      *)
TeardownEnds ==
    (cancelling /\ bpc \in {"serve", "teardown"} /\ BridgeSeesEnd(dialled))
        ~> (attached = {} \/ bpc = "ended")
=============================================================================
