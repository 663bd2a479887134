--------------------------- MODULE LifecycleProofs ---------------------------
(***************************************************************************)
(* What Lifecycle promises for any number of connections, cancellations,   *)
(* lost connections and sessions: type correctness, that a bridge leaves   *)
(* nothing stale behind, and whom the two sides serve.                     *)
(***************************************************************************)
EXTENDS Lifecycle, TLAPS

USE BridgeLifeAssumption, DialogueAssumption, AgentLifeAssumption

LEMMA InitInv == Init => IInv
<1> SUFFICES ASSUME Init PROVE IInv
  OBVIOUS
<1> USE DEF Init, LineInit, BridgeInit, AgentInit
<1>1. LineTypeOK
  BY DEF LineTypeOK, Ends, Lines
<1>2. BridgeTypeOK
  <2>1. cancels \in 0 .. MaxCancels /\ dialled \in Conns \cup {0} /\ agentWriter \in Conns \cup {0}
    OBVIOUS
  <2>2. bpc \in BridgePc /\ hb \in {"none", "runs", "over"} /\ unixServer \in {"none", "open", "closing"}
    BY DEF BridgePc
  <2>3. /\ running \in BOOLEAN /\ cancelling \in BOOLEAN /\ socketFile \in BOOLEAN
        /\ active \in BOOLEAN /\ unlisted \in BOOLEAN
        /\ attached \in SUBSET {"accepted", "registered"}
        /\ former \in SUBSET {"accepted", "registered"}
    OBVIOUS
  <2> QED
    BY <2>1, <2>2, <2>3 DEF BridgeTypeOK
<1>3. AgentTypeOK
  <2>1. cpc \in [Runners -> {"idle", "binding", "serving", "gather", "waitClosed", "ended"}]
        /\ waits \in [Runners -> SUBSET Conns]
    OBVIOUS
  <2>2. stopEvent \in BOOLEAN
    OBVIOUS
  <2>3. hp \in [Conns -> Phases] /\ sess \in [Conns -> 0 .. MaxSess]
    BY DEF Phases
  <2> QED
    BY <2>1, <2>2, <2>3 DEF AgentTypeOK
<1>4. NothingStale /\ CleanExit /\ ServesAuthenticated /\ ForgetsOnShutdownOnly
  BY DEF NothingStale, NothingOffered, CleanExit, ServesAuthenticated, Early,
     ForgetsOnShutdownOnly
<1>5. Wound /\ Granted /\ CancelledByCleanup
  BY DEF Wound, NothingOffered, Granted, CancelledByCleanup, Runners, Gathering
<1> QED
  BY <1>1, <1>2, <1>3, <1>4, <1>5 DEF IInv, TypeOK

-----------------------------------------------------------------------------
(* The bridge: what the helpers of its steps come to. *)

LEMMA ClosingTypes ==
  ASSUME LineTypeOK, NEW S, bend' = ClosingEnds(S)
  PROVE  bend' \in [Conns -> Ends]
  BY DEF LineTypeOK, ClosingEnds, Shut, Ends

(* What a teardown may change has its types. *)
SockTypeOK ==
  /\ agentWriter \in Conns \cup {0}
  /\ unixServer \in {"none", "open", "closing"}
  /\ socketFile \in BOOLEAN /\ active \in BOOLEAN /\ unlisted \in BOOLEAN
  /\ attached \in SUBSET {"accepted", "registered"}
  /\ former \in SUBSET {"accepted", "registered"}

(* What its end leaves. *)
Released == NothingOffered /\ agentWriter = 0 /\ ~unlisted

LEMMA ReleasesEffect ==
  ASSUME LineTypeOK, BridgeTypeOK, NEW S, Releases(S)
  PROVE  bend' \in [Conns -> Ends] /\ SockTypeOK' /\ Released'
<1>1. attached' = {} /\ former' = (attached \cup former) \ {"registered"}
  BY DEF Releases, ClosesPrograms
<1>2. bend' \in [Conns -> Ends]
  BY ClosingTypes DEF Releases
<1> QED
  BY <1>1, <1>2 DEF Releases, Released, NothingOffered, SockTypeOK, BridgeTypeOK

(* A teardown waits for the programs of a server, or releases everything.  *)
LEMMA TearsDownEffect ==
  ASSUME LineTypeOK, BridgeTypeOK, NEW S, NEW waiting, NEW next, TearsDown(S, waiting, next)
  PROVE  /\ bend' \in [Conns -> Ends]
         /\ SockTypeOK'
         /\ \/ /\ bpc' = waiting
               /\ unixServer # "none" /\ unixServer' = "closing"
               /\ UNCHANGED <<agentWriter, socketFile, active, attached, former, unlisted>>
            \/ bpc' = next /\ Released'
<1>1. CASE WaitsForPrograms
  BY <1>1, ClosingTypes DEF TearsDown, WaitsForPrograms, SockTypeOK, BridgeTypeOK
<1>2. CASE ~WaitsForPrograms
  BY <1>2, ReleasesEffect DEF TearsDown
<1> QED
  BY <1>1, <1>2

LEMMA LeavesLoopEffect ==
  ASSUME LineTypeOK, BridgeTypeOK, NEW S, LeavesLoop(S)
  PROVE  /\ bend' \in [Conns -> Ends]
         /\ SockTypeOK'
         /\ \/ /\ bpc' = "final"
               /\ unixServer # "none" /\ unixServer' = "closing"
               /\ UNCHANGED <<agentWriter, socketFile, active, attached, former, unlisted>>
            \/ bpc' = "ended" /\ Released'
  BY TearsDownEffect DEF LeavesLoop

LEMMA FailsEffect ==
  ASSUME LineTypeOK, BridgeTypeOK, NEW S, Fails(S)
  PROVE  /\ bend' \in [Conns -> Ends]
         /\ SockTypeOK'
         /\ \/ bpc' = "sleep" /\ UNCHANGED <<agentWriter, sockVars>>
            \/ /\ bpc' = "final"
               /\ unixServer # "none" /\ unixServer' = "closing"
               /\ UNCHANGED <<agentWriter, socketFile, active, attached, former, unlisted>>
            \/ bpc' = "ended" /\ Released'
<1>1. CASE running /\ bpc' = "sleep" /\ bend' = ClosingEnds(S)
                   /\ UNCHANGED <<agentWriter, sockVars>>
  BY <1>1, ClosingTypes DEF sockVars, SockTypeOK, BridgeTypeOK
<1>2. CASE ~running /\ LeavesLoop(S)
  BY <1>2, LeavesLoopEffect
<1> QED
  BY <1>1, <1>2 DEF Fails

BridgeFacts == NothingStale /\ CleanExit /\ ServesAuthenticated /\ Wound

(* An attempt to connect that fails keeps them: nothing was offered before *)
(* it, or a server was left open.                                          *)
LEMMA FailureKeeps ==
  ASSUME LineTypeOK, BridgeTypeOK, BridgeFacts, NEW S, Fails(S),
         bpc \in {"dial", "tls", "auth", "listen"}, ~cancelling,
         UNCHANGED <<cancelling, cancels, dialled, hp>>
  PROVE  BridgeFacts'
<1> USE DEF BridgeFacts, NothingStale, CleanExit, ServesAuthenticated, Wound
<1>1. cancels \in Nat
  BY DEF BridgeTypeOK
<1>2. CASE bpc' = "sleep" /\ UNCHANGED <<agentWriter, sockVars>>
  BY <1>2 DEF sockVars, NothingOffered
<1>3. CASE /\ bpc' = "final"
           /\ unixServer # "none" /\ unixServer' = "closing"
           /\ UNCHANGED <<agentWriter, socketFile, active, attached, former, unlisted>>
  <2>1. unlisted
    BY <1>3 DEF NothingOffered
  <2> QED
    BY <1>1, <1>3, <2>1
<1>4. CASE bpc' = "ended" /\ Released'
  BY <1>4 DEF Released, NothingOffered
<1> QED
  BY <1>2, <1>3, <1>4, FailsEffect

(* Each step of the bridge keeps its types and its facts. *)
LEMMA BridgeKeeps ==
  ASSUME IInv, BridgeSteps, UNCHANGED agentVars
  PROVE  LineTypeOK' /\ BridgeTypeOK' /\ BridgeFacts'
<1>0. LineTypeOK /\ BridgeTypeOK /\ BridgeFacts /\ Granted /\ UNCHANGED hp
  BY DEF IInv, TypeOK, BridgeFacts, agentVars, handlerVars
<1> USE DEF BridgeFacts, NothingStale, CleanExit, ServesAuthenticated, Wound,
        NothingOffered, Released
<1>1. CASE DialFails
  <2>1. LineTypeOK' /\ BridgeTypeOK'
    BY <1>0, <1>1, FailsEffect DEF DialFails, LineTypeOK, BridgeTypeOK,
       SockTypeOK, Ends, Lines, BridgePc, sockVars, lineVars, bridgeVars,
       ClosingEnds, Shut
  <2>2. BridgeFacts'
    BY <1>0, <1>1, FailureKeeps DEF DialFails
  <2> QED
    BY <2>1, <2>2
<1>2. CASE PinFails
  <2>1. LineTypeOK' /\ BridgeTypeOK'
    BY <1>0, <1>2, FailsEffect DEF PinFails, LineTypeOK, BridgeTypeOK,
       SockTypeOK, Ends, Lines, BridgePc, sockVars, lineVars, bridgeVars,
       ClosingEnds, Shut
  <2>2. BridgeFacts'
    BY <1>0, <1>2, FailureKeeps DEF PinFails
  <2> QED
    BY <2>1, <2>2
<1>3. CASE AuthFails
  <2>1. LineTypeOK' /\ BridgeTypeOK'
    BY <1>0, <1>3, FailsEffect DEF AuthFails, LineTypeOK, BridgeTypeOK,
       SockTypeOK, Ends, Lines, BridgePc, sockVars, lineVars, bridgeVars,
       ClosingEnds, Shut
  <2>2. BridgeFacts'
    BY <1>0, <1>3, FailureKeeps DEF AuthFails
  <2> QED
    BY <2>1, <2>2
<1>4. CASE ListenFails
  <2>1. LineTypeOK' /\ BridgeTypeOK'
    BY <1>0, <1>4, FailsEffect DEF ListenFails, LineTypeOK, BridgeTypeOK,
       SockTypeOK, Ends, Lines, BridgePc, sockVars, lineVars, bridgeVars,
       ClosingEnds, Shut
  <2>2. BridgeFacts'
    BY <1>0, <1>4, FailureKeeps DEF ListenFails
  <2> QED
    BY <2>1, <2>2
<1>5. CASE MetadataFails
  <2>1. LineTypeOK' /\ BridgeTypeOK'
    BY <1>0, <1>5, ReleasesEffect DEF MetadataFails, Binds, LineTypeOK,
       BridgeTypeOK, SockTypeOK, Ends, Lines, BridgePc, sockVars, lineVars,
       bridgeVars, ClosingEnds, Shut
  <2>2. BridgeFacts'
    BY <1>0, <1>5, ReleasesEffect DEF MetadataFails, Binds, BridgeTypeOK,
       sockVars, lineVars, bridgeVars, Granted, Early
  <2> QED
    BY <2>1, <2>2
<1>6. CASE Wakes
  <2>1. LineTypeOK' /\ BridgeTypeOK'
    BY <1>0, <1>6, LeavesLoopEffect DEF Wakes, LineTypeOK, BridgeTypeOK,
       SockTypeOK, Ends, Lines, BridgePc, sockVars, lineVars, bridgeVars,
       ClosingEnds, Shut
  <2>2. BridgeFacts'
    <3>1. CASE bpc' = "dial" /\ UNCHANGED <<agentWriter, sockVars>>
      <4>1. ~unlisted => former = {}
        BY <1>0, <1>6 DEF Wakes, BridgeTypeOK
      <4> QED
        BY <1>0, <1>6, <3>1, <4>1 DEF Wakes, sockVars
    <3>2. CASE LeavesLoop({})
      BY <1>0, <1>6, <3>2, LeavesLoopEffect DEF Wakes, BridgeTypeOK
    <3> QED
      BY <1>6, <3>1, <3>2 DEF Wakes
  <2> QED
    BY <2>1, <2>2
<1>7. CASE CancelledBeforeServing
  <2>1. LineTypeOK' /\ BridgeTypeOK'
    BY <1>0, <1>7, LeavesLoopEffect DEF CancelledBeforeServing, LineTypeOK,
       BridgeTypeOK, SockTypeOK, Ends, Lines, BridgePc, sockVars, lineVars,
       bridgeVars, ClosingEnds, Shut
  <2>2. BridgeFacts'
    BY <1>0, <1>7, LeavesLoopEffect DEF CancelledBeforeServing, BridgeTypeOK,
       sockVars, lineVars, bridgeVars, Granted, Early
  <2> QED
    BY <2>1, <2>2
<1>8. CASE FinalWaitEnds
  <2>1. LineTypeOK' /\ BridgeTypeOK'
    BY <1>0, <1>8, ReleasesEffect DEF FinalWaitEnds, LineTypeOK, BridgeTypeOK,
       SockTypeOK, Ends, Lines, BridgePc, sockVars, lineVars, bridgeVars,
       ClosingEnds, Shut
  <2>2. BridgeFacts'
    BY <1>0, <1>8, ReleasesEffect DEF FinalWaitEnds, BridgeTypeOK, sockVars,
       lineVars, bridgeVars, Granted, Early
  <2> QED
    BY <2>1, <2>2
<1>9. CASE WaitClosedReturns
  <2>1. LineTypeOK' /\ BridgeTypeOK'
    BY <1>0, <1>9, ReleasesEffect DEF WaitClosedReturns, AfterServing,
       LineTypeOK, BridgeTypeOK, SockTypeOK, Ends, Lines, BridgePc, sockVars,
       lineVars, bridgeVars, ClosingEnds, Shut
  <2>2. BridgeFacts'
    BY <1>0, <1>9, ReleasesEffect DEF WaitClosedReturns, AfterServing,
       BridgeTypeOK, sockVars, lineVars, bridgeVars, Granted, Early
  <2> QED
    BY <2>1, <2>2
<1>10. CASE HbJoined
  <2>1. LineTypeOK' /\ BridgeTypeOK'
    BY <1>0, <1>10, TearsDownEffect DEF HbJoined, AfterServing, LineTypeOK,
       BridgeTypeOK, SockTypeOK, Ends, Lines, BridgePc, sockVars, lineVars,
       bridgeVars, ClosingEnds, Shut
  <2>2. BridgeFacts'
    BY <1>0, <1>10, TearsDownEffect DEF HbJoined, AfterServing, BridgeTypeOK,
       sockVars, lineVars, bridgeVars, Granted, Early
  <2> QED
    BY <2>1, <2>2
<1>11. CASE CancelledInTeardown
  <2>1. LineTypeOK' /\ BridgeTypeOK'
    BY <1>0, <1>11, LeavesLoopEffect DEF CancelledInTeardown, LineTypeOK,
       BridgeTypeOK, SockTypeOK, Ends, Lines, BridgePc, sockVars, lineVars,
       bridgeVars, ClosingEnds, Shut
  <2>2. BridgeFacts'
    BY <1>0, <1>11, LeavesLoopEffect DEF CancelledInTeardown, BridgeTypeOK,
       sockVars, lineVars, bridgeVars, Granted, Early
  <2> QED
    BY <2>1, <2>2
<1>12. CASE ConnectionEnds
  <2>1. LineTypeOK' /\ BridgeTypeOK'
    BY <1>0, <1>12, TearsDownEffect DEF ConnectionEnds, LeavesReader,
       AfterServing, LineTypeOK, BridgeTypeOK, SockTypeOK, Ends, Lines,
       BridgePc, sockVars, lineVars, bridgeVars, ClosingEnds, Shut
  <2>2. BridgeFacts'
    BY <1>0, <1>12, TearsDownEffect DEF ConnectionEnds, LeavesReader,
       AfterServing, BridgeTypeOK, sockVars, lineVars, bridgeVars, Granted,
       Early
  <2> QED
    BY <2>1, <2>2
<1>13. CASE CancelledServing
  <2>1. LineTypeOK' /\ BridgeTypeOK'
    BY <1>0, <1>13, TearsDownEffect DEF CancelledServing, LeavesReader,
       AfterServing, LineTypeOK, BridgeTypeOK, SockTypeOK, Ends, Lines,
       BridgePc, sockVars, lineVars, bridgeVars, ClosingEnds, Shut
  <2>2. BridgeFacts'
    BY <1>0, <1>13, TearsDownEffect DEF CancelledServing, LeavesReader,
       AfterServing, BridgeTypeOK, sockVars, lineVars, bridgeVars, Granted,
       Early
  <2> QED
    BY <2>1, <2>2
<1>14. CASE SendsAuth
  <2>1. LineTypeOK' /\ BridgeTypeOK'
    BY <1>0, <1>14 DEF SendsAuth, LineTypeOK, BridgeTypeOK, SockTypeOK, Ends,
       Lines, BridgePc, sockVars, lineVars, bridgeVars, ClosingEnds, Shut
  <2>2. BridgeFacts'
    BY <1>0, <1>14 DEF SendsAuth, BridgeTypeOK, sockVars, lineVars, bridgeVars,
       Granted, Early
  <2> QED
    BY <2>1, <2>2
<1>15. CASE Authenticated
  <2>1. LineTypeOK' /\ BridgeTypeOK'
    <3>1. said' \in [Conns -> Lines] /\ bend' \in [Conns -> Ends]
      BY <1>0, <1>15 DEF Authenticated, LineTypeOK, Lines
    <3>2. socketFile' \in BOOLEAN
      BY <1>0, <1>15 DEF Authenticated, Unlinks, BridgeTypeOK
    <3>3. LineTypeOK'
      BY <1>0, <1>15, <3>1 DEF Authenticated, LineTypeOK
    <3>4. BridgeTypeOK'
      BY <1>0, <1>15, <3>2 DEF Authenticated, Unlinks, BridgeTypeOK, BridgePc
    <3> QED
      BY <3>3, <3>4
  <2>2. BridgeFacts'
    <3>1. dialled \in Conns /\ hp'[dialled] \notin Early
      BY <1>0, <1>15 DEF Authenticated, Granted
    <3>2. ServesAuthenticated'
      BY <1>0, <1>15, <3>1 DEF Authenticated, BridgeTypeOK
    <3>3. ~unlisted => NothingOffered'
      BY <1>0, <1>15 DEF Authenticated, Unlinks
    <3> QED
      BY <1>0, <1>15, <3>1, <3>2, <3>3 DEF Authenticated, Unlinks, BridgeTypeOK, Conns
  <2> QED
    BY <2>1, <2>2
<1>16. CASE Listens
  <2>1. LineTypeOK' /\ BridgeTypeOK'
    BY <1>0, <1>16 DEF Listens, Binds, LineTypeOK, BridgeTypeOK, SockTypeOK,
       Ends, Lines, BridgePc, sockVars, lineVars, bridgeVars, ClosingEnds, Shut
  <2>2. BridgeFacts'
    BY <1>0, <1>16 DEF Listens, Binds, BridgeTypeOK, sockVars, lineVars,
       bridgeVars, Granted, Early
  <2> QED
    BY <2>1, <2>2
<1>17. CASE CancelledInFinal
  <2>1. LineTypeOK' /\ BridgeTypeOK'
    BY <1>0, <1>17 DEF CancelledInFinal, LineTypeOK, BridgeTypeOK, SockTypeOK,
       Ends, Lines, BridgePc, sockVars, lineVars, bridgeVars, ClosingEnds, Shut
  <2>2. BridgeFacts'
    BY <1>0, <1>17 DEF CancelledInFinal, BridgeTypeOK, sockVars, lineVars,
       bridgeVars, Granted, Early
  <2> QED
    BY <2>1, <2>2
<1>18. CASE HbEnds
  <2>1. LineTypeOK' /\ BridgeTypeOK'
    BY <1>0, <1>18 DEF HbEnds, LineTypeOK, BridgeTypeOK, SockTypeOK, Ends,
       Lines, BridgePc, sockVars, lineVars, bridgeVars, ClosingEnds, Shut
  <2>2. BridgeFacts'
    BY <1>0, <1>18 DEF HbEnds, BridgeTypeOK, sockVars, lineVars, bridgeVars,
       Granted, Early
  <2> QED
    BY <2>1, <2>2
<1>19. CASE Stop
  <2>1. LineTypeOK' /\ BridgeTypeOK'
    BY <1>0, <1>19 DEF Stop, LineTypeOK, BridgeTypeOK, SockTypeOK, Ends, Lines,
       BridgePc, sockVars, lineVars, bridgeVars, ClosingEnds, Shut
  <2>2. BridgeFacts'
    BY <1>0, <1>19 DEF Stop, BridgeTypeOK, sockVars, lineVars, bridgeVars,
       Granted, Early
  <2> QED
    BY <2>1, <2>2
<1>20. CASE Cancel
  <2>1. LineTypeOK' /\ BridgeTypeOK'
    BY <1>0, <1>20 DEF Cancel, LineTypeOK, BridgeTypeOK, SockTypeOK, Ends,
       Lines, BridgePc, sockVars, lineVars, bridgeVars, ClosingEnds, Shut
  <2>2. BridgeFacts'
    BY <1>0, <1>20 DEF Cancel, BridgeTypeOK, sockVars, lineVars, bridgeVars,
       Granted, Early
  <2> QED
    BY <2>1, <2>2
<1>21. CASE LocalAttaches
  <2>1. LineTypeOK' /\ BridgeTypeOK'
    BY <1>0, <1>21 DEF LocalAttaches, LineTypeOK, BridgeTypeOK, SockTypeOK,
       Ends, Lines, BridgePc, sockVars, lineVars, bridgeVars, ClosingEnds, Shut
  <2>2. BridgeFacts'
    BY <1>0, <1>21 DEF LocalAttaches, BridgeTypeOK, sockVars, lineVars,
       bridgeVars, Granted, Early
  <2> QED
    BY <2>1, <2>2
<1>22. CASE ProgramHandled
  <2>1. LineTypeOK' /\ BridgeTypeOK'
    <3>1. /\ attached' \in SUBSET {"accepted", "registered"}
          /\ former' \in SUBSET {"accepted", "registered"}
      BY <1>0, <1>22 DEF ProgramHandled, Handled, BridgeTypeOK
    <3> QED
      BY <1>0, <1>22, <3>1 DEF ProgramHandled, LineTypeOK, BridgeTypeOK, lineVars
  <2>2. BridgeFacts'
    BY <1>0, <1>22 DEF ProgramHandled, Handled, BridgeTypeOK, sockVars,
       lineVars, bridgeVars, Granted, Early
  <2> QED
    BY <2>1, <2>2
<1>23. CASE LocalLeaves
  <2>1. LineTypeOK' /\ BridgeTypeOK'
    <3>1. /\ attached' \in SUBSET {"accepted", "registered"}
          /\ former' \in SUBSET {"accepted", "registered"}
      BY <1>0, <1>23 DEF LocalLeaves, BridgeTypeOK
    <3> QED
      BY <1>0, <1>23, <3>1 DEF LocalLeaves, LineTypeOK, BridgeTypeOK, lineVars
  <2>2. BridgeFacts'
    BY <1>0, <1>23 DEF LocalLeaves, BridgeTypeOK, sockVars, lineVars,
       bridgeVars, Granted, Early
  <2> QED
    BY <2>1, <2>2
<1>24. CASE \E e \in Conns : Collects(e)
  <2>1. LineTypeOK' /\ BridgeTypeOK'
    BY <1>0, <1>24, ClosingTypes DEF Collects, Forgotten, LineTypeOK,
       BridgeTypeOK, SockTypeOK, Ends, Lines, BridgePc, sockVars, lineVars,
       bridgeVars, ClosingEnds, Shut
  <2>2. BridgeFacts'
    BY <1>0, <1>24, ClosingTypes DEF Collects, Forgotten, BridgeTypeOK,
       sockVars, lineVars, bridgeVars, Granted, Early
  <2> QED
    BY <2>1, <2>2
<1>25. CASE ProcessExits
  <2>1. LineTypeOK' /\ BridgeTypeOK'
    BY <1>0, <1>25, ClosingTypes DEF ProcessExits, LineTypeOK, BridgeTypeOK,
       SockTypeOK, Ends, Lines, BridgePc, sockVars, lineVars, bridgeVars,
       ClosingEnds, Shut
  <2>2. BridgeFacts'
    BY <1>0, <1>25, ClosingTypes DEF ProcessExits, BridgeTypeOK, sockVars,
       lineVars, bridgeVars, Granted, Early
  <2> QED
    BY <2>1, <2>2
<1> QED
  BY <1>1, <1>2, <1>3, <1>4, <1>5, <1>6, <1>7, <1>8, <1>9, <1>10, <1>11, <1>12,
     <1>13, <1>14, <1>15, <1>16, <1>17, <1>18, <1>19, <1>20, <1>21, <1>22,
     <1>23, <1>24, <1>25 DEF
     BridgeSteps, RunSteps

-----------------------------------------------------------------------------
(* The agent. *)

AgentFacts == Granted /\ CancelledByCleanup /\ ForgetsOnShutdownOnly

(* No handler goes back before its authentication. *)
NoReturn == \A e \in Conns : hp[e] \notin Early => hp'[e] \notin Early

LEMMA AgentClosingTypes ==
  ASSUME LineTypeOK, NEW S, Closing(S)
  PROVE  aend' \in [Conns -> Ends]
  BY DEF LineTypeOK, Closing, Shut, Ends

(* A new _cleanup() gathers whom it cancels, and loses nobody an earlier   *)
(* one gathers.                                                            *)
LEMMA CleansUpEffect ==
  ASSUME AgentTypeOK, LineTypeOK, CancelledByCleanup, NEW k \in Runners, CleansUp(k),
         cpc[k] \in {"serving", "idle"}, k = "start" => cpc[k] = "serving",
         k = "stop" => cpc[k] = "idle", stopEvent' \in BOOLEAN, UNCHANGED <<hp, leaving, sess>>
  PROVE  /\ aend' \in [Conns -> Ends]
         /\ AgentTypeOK'
         /\ \A e \in Conns : Gathering(e) => Gathering(e)'
         /\ CancelledByCleanup'
<1>1. aend' \in [Conns -> Ends]
  BY AgentClosingTypes DEF CleansUp
<1>2. /\ cpc' \in [Runners -> {"idle", "binding", "serving", "gather", "waitClosed", "ended"}]
      /\ server' \in {"none", "open", "closing"}
      /\ cpc'[k] \in {"gather", "waitClosed", "ended"}
      /\ \A j \in Runners \ {k} : cpc'[j] = cpc[j]
  BY DEF CleansUp, ClosesListener, AgentTypeOK
<1>3. waits' = [waits EXCEPT ![k] = tasks] /\ hcancel' = hcancel \cup tasks /\ tasks' = tasks
  BY DEF CleansUp
<1>4. AgentTypeOK'
  <2>1. waits' \in [Runners -> SUBSET Conns] /\ tasks' \in SUBSET Conns /\ hcancel' \in SUBSET Conns
    BY <1>3 DEF AgentTypeOK
  <2>2. hp' \in [Conns -> Phases] /\ leaving' \in SUBSET Conns
        /\ sess' \in [Conns -> 0 .. MaxSess]
    BY DEF AgentTypeOK
  <2> QED
    BY <1>2, <2>1, <2>2 DEF AgentTypeOK
<1>5. waits[k] = {}
  BY DEF CancelledByCleanup, Runners
<1>6. \A e \in Conns : Gathering(e) => Gathering(e)'
  BY <1>3, <1>5 DEF Gathering, AgentTypeOK
<1>7. \A e \in hcancel' : Gathering(e)'
  <2> TAKE e \in hcancel'
  <2>1. CASE e \in hcancel
    BY <2>1, <1>6 DEF CancelledByCleanup, AgentTypeOK
  <2>2. CASE e \in tasks
    BY <2>2, <1>3 DEF Gathering, AgentTypeOK
  <2> QED
    BY <1>3, <2>1, <2>2
<1>8. \A j \in Runners \ {k} : waits'[j] = waits[j]
  BY <1>3 DEF AgentTypeOK
<1>9. /\ cpc'["start"] \in {"binding", "serving"} => waits'["start"] = {}
      /\ cpc'["stop"] = "idle" => waits'["stop"] = {}
  BY <1>2, <1>8 DEF CancelledByCleanup, Runners
<1> QED
  BY <1>1, <1>4, <1>6, <1>7, <1>9 DEF CancelledByCleanup

(* What a step of one handler may do to the facts: it goes to phase p with *)
(* n sessions.                                                             *)
GoesOn(e, p, n) ==
  /\ hp' = [hp EXCEPT ![e] = p] /\ sess' = [sess EXCEPT ![e] = n]
  /\ p \in Phases /\ n \in 0 .. MaxSess
  /\ UNCHANGED <<cpc, waits>> /\ hcancel' \in SUBSET hcancel
  /\ \A d \in Conns : d # e => said'[d] = said[d]
  /\ hp[e] \notin Early => p \notin Early
  /\ p \in Early => n = 0 /\ said'[e] # "OK"
  /\ p \in {"writerWait", "final", "ended"} /\ n > 0 => Gathering(e)

LEMMA HandlerKeeps ==
  ASSUME AgentTypeOK, AgentFacts, NEW e \in Conns, NEW p, NEW n, GoesOn(e, p, n)
  PROVE  AgentFacts' /\ NoReturn
<1> USE DEF GoesOn
<1>1. \A d \in Conns : Gathering(d)' <=> Gathering(d)
  BY DEF Gathering
<1>2. Granted'
  BY DEF AgentFacts, Granted, AgentTypeOK
<1>3. \A d \in Conns : hp'[d] \in {"writerWait", "final"} /\ sess'[d] > 0 => Gathering(d)'
  BY <1>1 DEF AgentFacts, CancelledByCleanup, AgentTypeOK
<1>4. CancelledByCleanup'
  BY <1>1, <1>3 DEF AgentFacts, CancelledByCleanup, AgentTypeOK
<1>5. ForgetsOnShutdownOnly'
  BY <1>1 DEF AgentFacts, ForgetsOnShutdownOnly, AgentTypeOK
<1> QED
  BY <1>2, <1>4, <1>5 DEF AgentFacts, NoReturn, AgentTypeOK


USE DEF cleanupVars, handlerVars, agentVars, lineVars

(* Each step of the agent keeps its types and its facts. *)
LEMMA AgentKeeps ==
  ASSUME IInv, AgentSteps \/ \E e \in Conns : TimesOut(e)
  PROVE  /\ aend' \in [Conns -> Ends] /\ said' \in [Conns -> Lines] /\ UNCHANGED <<bend, cut>>
         /\ AgentTypeOK' /\ AgentFacts' /\ NoReturn
<1>0. LineTypeOK /\ AgentTypeOK /\ AgentFacts
  BY DEF IInv, TypeOK, AgentFacts
<1>t. aend \in [Conns -> Ends] /\ said \in [Conns -> Lines]
  BY <1>0 DEF LineTypeOK
<1>s. ASSUME AgentTypeOK', NEW k \in Runners, UNCHANGED <<said, hp, sess>>,
             CancelledByCleanup', \A e \in Conns : Gathering(e) => Gathering(e)'
      PROVE  AgentFacts' /\ NoReturn
  BY <1>0, <1>s DEF AgentFacts, Granted, ForgetsOnShutdownOnly, NoReturn
<1>1. CASE Bound
  <2>1. AgentTypeOK'
    BY <1>0, <1>1 DEF Bound, AgentTypeOK, Runners
  <2>2. AgentFacts' /\ NoReturn
    BY <1>0, <1>1 DEF Bound, AgentFacts, Granted, ForgetsOnShutdownOnly,
       CancelledByCleanup, Gathering, NoReturn, AgentTypeOK, Runners
  <2> QED
    BY <1>1, <1>t, <2>1, <2>2 DEF Bound
<1>2. CASE BindFails
  <2>1. AgentTypeOK'
    BY <1>0, <1>2 DEF BindFails, AgentTypeOK, Runners
  <2>2. AgentFacts' /\ NoReturn
    BY <1>0, <1>2 DEF BindFails, AgentFacts, Granted, ForgetsOnShutdownOnly,
       CancelledByCleanup, Gathering, NoReturn, AgentTypeOK, Runners
  <2> QED
    BY <1>2, <1>t, <2>1, <2>2 DEF BindFails
<1>3. CASE StopSeen
  <2>0. stopEvent' \in BOOLEAN
    BY <1>0, <1>3 DEF StopSeen, AgentTypeOK
  <2>1. /\ cpc["start"] \in {"serving", "idle"} /\ "start" \in Runners
        /\ CleansUp("start") /\ UNCHANGED <<hp, leaving, sess>>
    BY <1>3 DEF StopSeen, Woken, Runners
  <2>2. /\ aend' \in [Conns -> Ends] /\ AgentTypeOK' /\ CancelledByCleanup'
        /\ \A e \in Conns : Gathering(e) => Gathering(e)'
    BY <1>0, <1>3, <2>0, <2>1, CleansUpEffect DEF StopSeen, Woken, AgentFacts
  <2> QED
    BY <1>3, <1>t, <1>s, <2>1, <2>2 DEF StopSeen
<1>4. CASE Interrupted
  <2>0. stopEvent' \in BOOLEAN
    BY <1>0, <1>4 DEF Interrupted, AgentTypeOK
  <2>1. /\ cpc["start"] \in {"serving", "idle"} /\ "start" \in Runners
        /\ CleansUp("start") /\ UNCHANGED <<hp, leaving, sess>>
    BY <1>4 DEF Interrupted, Woken, Runners
  <2>2. /\ aend' \in [Conns -> Ends] /\ AgentTypeOK' /\ CancelledByCleanup'
        /\ \A e \in Conns : Gathering(e) => Gathering(e)'
    BY <1>0, <1>4, <2>0, <2>1, CleansUpEffect DEF Interrupted, Woken, AgentFacts
  <2> QED
    BY <1>4, <1>t, <1>s, <2>1, <2>2 DEF Interrupted
<1>5. CASE StopCalled
  <2>0. stopEvent' \in BOOLEAN
    BY <1>0, <1>5 DEF StopCalled, AgentTypeOK
  <2>1. /\ cpc["stop"] \in {"serving", "idle"} /\ "stop" \in Runners
        /\ CleansUp("stop") /\ UNCHANGED <<hp, leaving, sess>>
    BY <1>5 DEF StopCalled, Woken, Runners
  <2>2. /\ aend' \in [Conns -> Ends] /\ AgentTypeOK' /\ CancelledByCleanup'
        /\ \A e \in Conns : Gathering(e) => Gathering(e)'
    BY <1>0, <1>5, <2>0, <2>1, CleansUpEffect DEF StopCalled, Woken, AgentFacts
  <2> QED
    BY <1>5, <1>t, <1>s, <2>1, <2>2 DEF StopCalled
<1>6. CASE \E k \in Runners : Gathered(k)
  <2> PICK k \in Runners : Gathered(k)
    BY <1>6
  <2>1. AgentTypeOK'
    BY <1>0 DEF Gathered, ClosesListener, AgentTypeOK, Runners
  <2>2. UNCHANGED <<waits, hcancel, hp, sess, said>> /\ \A j \in Runners : cpc'[j] \in {cpc[j], "waitClosed", "ended"}
    BY <1>0 DEF Gathered, ClosesListener, AgentTypeOK
  <2>3. AgentFacts' /\ NoReturn
    BY <1>0, <2>2 DEF AgentFacts, Granted, ForgetsOnShutdownOnly,
       CancelledByCleanup, Gathering, NoReturn, AgentTypeOK, Runners
  <2> QED
    BY <1>t, <2>1, <2>3 DEF Gathered
<1>7. CASE \E k \in Runners : ServerClosed(k)
  <2> PICK k \in Runners : ServerClosed(k)
    BY <1>7
  <2>1. AgentTypeOK'
    BY <1>0 DEF ServerClosed, AgentTypeOK, Runners
  <2>2. UNCHANGED <<waits, hcancel, hp, sess, said>> /\ \A j \in Runners : cpc'[j] \in {cpc[j], "waitClosed", "ended"}
    BY <1>0 DEF ServerClosed, AgentTypeOK
  <2>3. AgentFacts' /\ NoReturn
    BY <1>0, <2>2 DEF AgentFacts, Granted, ForgetsOnShutdownOnly,
       CancelledByCleanup, Gathering, NoReturn, AgentTypeOK, Runners
  <2> QED
    BY <1>t, <2>1, <2>3 DEF ServerClosed
<1>8. CASE \E e \in Conns : HandshakeDone(e)
  <2> PICK e \in Conns : HandshakeDone(e)
    BY <1>8
  <2>1. aend' \in [Conns -> Ends] /\ said' \in [Conns -> Lines]
    BY <1>0, <1>t, AgentClosingTypes DEF HandshakeDone, Moves, Lines
  <2>2. AgentTypeOK'
    BY <1>0 DEF HandshakeDone, Moves, AgentTypeOK, Phases
  <2>3. AgentFacts' /\ NoReturn
    <3>1. GoesOn(e, "created", sess[e])
      BY <1>0, <1>t DEF GoesOn, HandshakeDone, Moves, AgentTypeOK, Phases,
         AgentFacts, Granted, CancelledByCleanup, Early
    <3> QED
      BY <1>0, <3>1, HandlerKeeps
  <2> QED
    BY <2>1, <2>2, <2>3 DEF HandshakeDone, Moves
<1>9. CASE \E e \in Conns : HandshakeFails(e)
  <2> PICK e \in Conns : HandshakeFails(e)
    BY <1>9
  <2>1. aend' \in [Conns -> Ends] /\ said' \in [Conns -> Lines]
    BY <1>0, <1>t, AgentClosingTypes DEF HandshakeFails, Moves, Lines
  <2>2. AgentTypeOK'
    BY <1>0 DEF HandshakeFails, Moves, AgentTypeOK, Phases
  <2>3. AgentFacts' /\ NoReturn
    <3>1. GoesOn(e, "ended", sess[e])
      BY <1>0, <1>t DEF GoesOn, HandshakeFails, Moves, AgentTypeOK, Phases,
         AgentFacts, Granted, CancelledByCleanup, Early
    <3> QED
      BY <1>0, <3>1, HandlerKeeps
  <2> QED
    BY <2>1, <2>2, <2>3 DEF HandshakeFails, Moves
<1>10. CASE \E e \in Conns : HandlerStarts(e)
  <2> PICK e \in Conns : HandlerStarts(e)
    BY <1>10
  <2>1. aend' \in [Conns -> Ends] /\ said' \in [Conns -> Lines]
    BY <1>0, <1>t, AgentClosingTypes DEF HandlerStarts, Moves, Lines
  <2>2. AgentTypeOK'
    BY <1>0 DEF HandlerStarts, Moves, AgentTypeOK, Phases
  <2>3. AgentFacts' /\ NoReturn
    <3>1. GoesOn(e, "auth", sess[e])
      BY <1>0, <1>t DEF GoesOn, HandlerStarts, Moves, AgentTypeOK, Phases,
         AgentFacts, Granted, CancelledByCleanup, Early
    <3> QED
      BY <1>0, <3>1, HandlerKeeps
  <2> QED
    BY <2>1, <2>2, <2>3 DEF HandlerStarts, Moves
<1>11. CASE \E e \in Conns : Authenticates(e)
  <2> PICK e \in Conns : Authenticates(e)
    BY <1>11
  <2>1. aend' \in [Conns -> Ends] /\ said' \in [Conns -> Lines]
    BY <1>0, <1>t, AgentClosingTypes DEF Authenticates, Leaves, Moves, Lines
  <2>2. AgentTypeOK'
    BY <1>0 DEF Authenticates, Leaves, Moves, AgentTypeOK, Phases
  <2>3. AgentFacts' /\ NoReturn
    <3>1. CASE Moves(e, "serve")
      <4>1. GoesOn(e, "serve", sess[e])
        BY <1>0, <1>t, <3>1 DEF GoesOn, Authenticates, Leaves, Moves,
           AgentTypeOK, Phases, AgentFacts, Granted, CancelledByCleanup, Early
      <4> QED
        BY <1>0, <4>1, HandlerKeeps
    <3>2. CASE Leaves(e)
      <4>1. GoesOn(e, "final", sess[e])
        BY <1>0, <1>t, <3>2 DEF GoesOn, Authenticates, Leaves, Moves,
           AgentTypeOK, Phases, AgentFacts, Granted, CancelledByCleanup, Early
      <4> QED
        BY <1>0, <4>1, HandlerKeeps
    <3> QED
      BY <3>1, <3>2 DEF Authenticates, Finally, Early
  <2> QED
    BY <2>1, <2>2, <2>3 DEF Authenticates, Leaves, Moves
<1>12. CASE \E e \in Conns : Rejects(e)
  <2> PICK e \in Conns : Rejects(e)
    BY <1>12
  <2>1. aend' \in [Conns -> Ends] /\ said' \in [Conns -> Lines]
    BY <1>0, <1>t, AgentClosingTypes DEF Rejects, Leaves, Moves, Lines
  <2>2. AgentTypeOK'
    BY <1>0 DEF Rejects, Leaves, Moves, AgentTypeOK, Phases
  <2>3. AgentFacts' /\ NoReturn
    <3>1. GoesOn(e, "final", sess[e])
      BY <1>0, <1>t DEF GoesOn, Rejects, Leaves, Moves, AgentTypeOK, Phases,
         AgentFacts, Granted, CancelledByCleanup, Early
    <3> QED
      BY <1>0, <3>1, HandlerKeeps
  <2> QED
    BY <2>1, <2>2, <2>3 DEF Rejects, Leaves, Moves
<1>13. CASE \E e \in Conns : UxClosed(e)
  <2> PICK e \in Conns : UxClosed(e)
    BY <1>13
  <2>1. aend' \in [Conns -> Ends] /\ said' \in [Conns -> Lines]
    BY <1>0, <1>t, AgentClosingTypes DEF UxClosed, Finally, ClosesSession, Moves, Lines
  <2>2. AgentTypeOK'
    BY <1>0 DEF UxClosed, Finally, ClosesSession, Moves, AgentTypeOK, Phases
  <2>3. AgentFacts' /\ NoReturn
    <3>1. CASE ClosesSession(e)
      <4>1. GoesOn(e, "join", sess[e] - 1)
        BY <1>0, <1>t, <3>1 DEF GoesOn, UxClosed, Finally, ClosesSession,
           Moves, AgentTypeOK, Phases, AgentFacts, Granted,
           CancelledByCleanup, Early
      <4> QED
        BY <1>0, <4>1, HandlerKeeps
    <3>2. CASE sess[e] = 0 /\ Moves(e, "writerWait") /\ UNCHANGED sess
      <4>1. GoesOn(e, "writerWait", sess[e])
        BY <1>0, <1>t, <3>2 DEF GoesOn, UxClosed, Finally, ClosesSession,
           Moves, AgentTypeOK, Phases, AgentFacts, Granted,
           CancelledByCleanup, Early
      <4> QED
        BY <1>0, <4>1, HandlerKeeps
    <3>3. CASE Moves(e, "serve") /\ UNCHANGED sess
      <4>1. GoesOn(e, "serve", sess[e])
        BY <1>0, <1>t, <3>3 DEF GoesOn, UxClosed, Finally, ClosesSession,
           Moves, AgentTypeOK, Phases, AgentFacts, Granted,
           CancelledByCleanup, Early
      <4> QED
        BY <1>0, <4>1, HandlerKeeps
    <3> QED
      BY <3>1, <3>2, <3>3 DEF UxClosed, Finally, Early
  <2> QED
    BY <2>1, <2>2, <2>3 DEF UxClosed, Finally, ClosesSession, Moves
<1>14. CASE \E e \in Conns : WriterClosed(e)
  <2> PICK e \in Conns : WriterClosed(e)
    BY <1>14
  <2>1. aend' \in [Conns -> Ends] /\ said' \in [Conns -> Lines]
    BY <1>0, <1>t, AgentClosingTypes DEF WriterClosed, Leaves, Moves, Lines
  <2>2. AgentTypeOK'
    BY <1>0 DEF WriterClosed, Leaves, Moves, AgentTypeOK, Phases
  <2>3. AgentFacts' /\ NoReturn
    <3>1. GoesOn(e, "final", sess[e])
      BY <1>0, <1>t DEF GoesOn, WriterClosed, Leaves, Moves, AgentTypeOK,
         Phases, AgentFacts, Granted, CancelledByCleanup, Early
    <3> QED
      BY <1>0, <3>1, HandlerKeeps
  <2> QED
    BY <2>1, <2>2, <2>3 DEF WriterClosed, Leaves, Moves
<1>15. CASE \E e \in Conns : HandlerEnds(e)
  <2> PICK e \in Conns : HandlerEnds(e)
    BY <1>15
  <2>1. aend' \in [Conns -> Ends] /\ said' \in [Conns -> Lines]
    BY <1>0, <1>t, AgentClosingTypes DEF HandlerEnds, Moves, Lines
  <2>2. AgentTypeOK'
    BY <1>0 DEF HandlerEnds, Moves, AgentTypeOK, Phases
  <2>3. AgentFacts' /\ NoReturn
    <3>1. GoesOn(e, "ended", sess[e])
      BY <1>0, <1>t DEF GoesOn, HandlerEnds, Moves, AgentTypeOK, Phases,
         AgentFacts, Granted, CancelledByCleanup, Early
    <3> QED
      BY <1>0, <3>1, HandlerKeeps
  <2> QED
    BY <2>1, <2>2, <2>3 DEF HandlerEnds, Moves
<1>16. CASE \E e \in Conns : Cancelled(e)
  <2> PICK e \in Conns : Cancelled(e)
    BY <1>16
  <2>1. aend' \in [Conns -> Ends] /\ said' \in [Conns -> Lines]
    BY <1>0, <1>t, AgentClosingTypes DEF Cancelled, Finally, ClosesSession,
       Leaves, Moves, Lines
  <2>2. AgentTypeOK'
    BY <1>0 DEF Cancelled, Finally, ClosesSession, Leaves, Moves, AgentTypeOK, Phases
  <2>3. AgentFacts' /\ NoReturn
    <3>1. CASE hp[e] \notin Early /\ ClosesSession(e)
      <4>1. GoesOn(e, "join", sess[e] - 1)
        BY <1>0, <1>t, <3>1 DEF GoesOn, Cancelled, Finally, ClosesSession,
           Leaves, Moves, AgentTypeOK, Phases, AgentFacts, Granted,
           CancelledByCleanup, Early
      <4> QED
        BY <1>0, <4>1, HandlerKeeps
    <3>2. CASE sess[e] = 0 /\ Moves(e, "writerWait") /\ UNCHANGED sess
      <4>1. GoesOn(e, "writerWait", sess[e])
        BY <1>0, <1>t, <3>2 DEF GoesOn, Cancelled, Finally, ClosesSession,
           Leaves, Moves, AgentTypeOK, Phases, AgentFacts, Granted,
           CancelledByCleanup, Early
      <4> QED
        BY <1>0, <4>1, HandlerKeeps
    <3>3. CASE Leaves(e) /\ UNCHANGED sess
      <4>1. GoesOn(e, "final", sess[e])
        BY <1>0, <1>t, <3>3 DEF GoesOn, Cancelled, Finally, ClosesSession,
           Leaves, Moves, AgentTypeOK, Phases, AgentFacts, Granted,
           CancelledByCleanup, Early
      <4> QED
        BY <1>0, <4>1, HandlerKeeps
    <3> QED
      BY <3>1, <3>2, <3>3 DEF Cancelled, Finally, Early
  <2> QED
    BY <2>1, <2>2, <2>3 DEF Cancelled, Finally, ClosesSession, Leaves, Moves
<1>17. CASE \E e \in Conns : SessionOpens(e)
  <2> PICK e \in Conns : SessionOpens(e)
    BY <1>17
  <2>1. aend' \in [Conns -> Ends] /\ said' \in [Conns -> Lines]
    BY <1>0, <1>t, AgentClosingTypes DEF SessionOpens, Moves, Lines
  <2>2. AgentTypeOK'
    BY <1>0 DEF SessionOpens, Moves, AgentTypeOK, Phases
  <2>3. AgentFacts' /\ NoReturn
    <3>1. GoesOn(e, hp[e], sess[e] + 1)
      BY <1>0, <1>t DEF GoesOn, SessionOpens, Moves, AgentTypeOK, Phases,
         AgentFacts, Granted, CancelledByCleanup, Early
    <3> QED
      BY <1>0, <3>1, HandlerKeeps
  <2> QED
    BY <2>1, <2>2, <2>3 DEF SessionOpens, Moves
<1>18. CASE \E e \in Conns : SessionEnds(e)
  <2> PICK e \in Conns : SessionEnds(e)
    BY <1>18
  <2>1. aend' \in [Conns -> Ends] /\ said' \in [Conns -> Lines]
    BY <1>0, <1>t, AgentClosingTypes DEF SessionEnds, Moves, Lines
  <2>2. AgentTypeOK'
    BY <1>0 DEF SessionEnds, Moves, AgentTypeOK, Phases
  <2>3. AgentFacts' /\ NoReturn
    <3>1. GoesOn(e, hp[e], sess[e] - 1)
      BY <1>0, <1>t DEF GoesOn, SessionEnds, Moves, AgentTypeOK, Phases,
         AgentFacts, Granted, CancelledByCleanup, Early, ForgetsOnShutdownOnly
    <3> QED
      BY <1>0, <3>1, HandlerKeeps
  <2> QED
    BY <2>1, <2>2, <2>3 DEF SessionEnds, Moves
<1>19. CASE \E e \in Conns : CloseTaken(e)
  <2> PICK e \in Conns : CloseTaken(e)
    BY <1>19
  <2>1. aend' \in [Conns -> Ends] /\ said' \in [Conns -> Lines]
    BY <1>0, <1>t, AgentClosingTypes DEF CloseTaken, ClosesSession, Moves, Lines
  <2>2. AgentTypeOK'
    BY <1>0 DEF CloseTaken, ClosesSession, Moves, AgentTypeOK, Phases
  <2>3. AgentFacts' /\ NoReturn
    <3>1. GoesOn(e, "join", sess[e] - 1)
      BY <1>0, <1>t DEF GoesOn, CloseTaken, ClosesSession, Moves, AgentTypeOK,
         Phases, AgentFacts, Granted, CancelledByCleanup, Early
    <3> QED
      BY <1>0, <3>1, HandlerKeeps
  <2> QED
    BY <2>1, <2>2, <2>3 DEF CloseTaken, ClosesSession, Moves
<1>20. CASE \E e \in Conns : RelayJoined(e)
  <2> PICK e \in Conns : RelayJoined(e)
    BY <1>20
  <2>1. aend' \in [Conns -> Ends] /\ said' \in [Conns -> Lines]
    BY <1>0, <1>t, AgentClosingTypes DEF RelayJoined, Moves, Lines
  <2>2. AgentTypeOK'
    BY <1>0 DEF RelayJoined, Moves, AgentTypeOK, Phases
  <2>3. AgentFacts' /\ NoReturn
    <3>1. GoesOn(e, "uxClose", sess[e])
      BY <1>0, <1>t DEF GoesOn, RelayJoined, Moves, AgentTypeOK, Phases,
         AgentFacts, Granted, CancelledByCleanup, Early
    <3> QED
      BY <1>0, <3>1, HandlerKeeps
  <2> QED
    BY <2>1, <2>2, <2>3 DEF RelayJoined, Moves
<1>21. CASE \E e \in Conns : LoopEnds(e)
  <2> PICK e \in Conns : LoopEnds(e)
    BY <1>21
  <2>1. aend' \in [Conns -> Ends] /\ said' \in [Conns -> Lines]
    BY <1>0, <1>t, AgentClosingTypes DEF LoopEnds, Finally, ClosesSession, Moves, Lines
  <2>2. AgentTypeOK'
    BY <1>0 DEF LoopEnds, Finally, ClosesSession, Moves, AgentTypeOK, Phases
  <2>3. AgentFacts' /\ NoReturn
    <3>1. CASE ClosesSession(e)
      <4>1. GoesOn(e, "join", sess[e] - 1)
        BY <1>0, <1>t, <3>1 DEF GoesOn, LoopEnds, Finally, ClosesSession,
           Moves, AgentTypeOK, Phases, AgentFacts, Granted,
           CancelledByCleanup, Early
      <4> QED
        BY <1>0, <4>1, HandlerKeeps
    <3>2. CASE sess[e] = 0 /\ Moves(e, "writerWait") /\ UNCHANGED sess
      <4>1. GoesOn(e, "writerWait", sess[e])
        BY <1>0, <1>t, <3>2 DEF GoesOn, LoopEnds, Finally, ClosesSession,
           Moves, AgentTypeOK, Phases, AgentFacts, Granted,
           CancelledByCleanup, Early
      <4> QED
        BY <1>0, <4>1, HandlerKeeps
    <3> QED
      BY <3>1, <3>2 DEF LoopEnds, Finally, Early
  <2> QED
    BY <2>1, <2>2, <2>3 DEF LoopEnds, Finally, ClosesSession, Moves
<1>22. CASE \E e \in Conns : TimesOut(e)
  <2> PICK e \in Conns : TimesOut(e)
    BY <1>22
  <2>1. aend' \in [Conns -> Ends] /\ UNCHANGED <<bend, said, cut, agentVars>>
    BY <1>0, AgentClosingTypes DEF TimesOut, Watchdog
  <2>2. AgentTypeOK'
    BY <1>0, <2>1 DEF AgentTypeOK
  <2>3. AgentFacts' /\ NoReturn
    BY <1>0, <2>1 DEF AgentFacts, Granted, ForgetsOnShutdownOnly,
       CancelledByCleanup, Gathering, NoReturn
  <2> QED
    BY <1>t, <2>1, <2>2, <2>3
<1> QED
  BY <1>1, <1>2, <1>3, <1>4, <1>5, <1>6, <1>7, <1>8, <1>9, <1>10, <1>11, <1>12,
     <1>13, <1>14, <1>15, <1>16, <1>17, <1>18, <1>19, <1>20, <1>21, <1>22 DEF
     AgentSteps, HandlerSteps

-----------------------------------------------------------------------------
(* Both together. *)

(* What no step of the agent touches, and what it keeps of the others.     *)
LEMMA AgentStepKeeps ==
  ASSUME IInv, AgentSteps \/ \E e \in Conns : TimesOut(e), UNCHANGED bridgeVars
  PROVE  IInv'
<1>1. /\ aend' \in [Conns -> Ends] /\ said' \in [Conns -> Lines] /\ UNCHANGED <<bend, cut>>
      /\ AgentTypeOK' /\ AgentFacts' /\ NoReturn
  BY AgentKeeps
<1>2. /\ LineTypeOK /\ BridgeTypeOK /\ NothingStale /\ CleanExit /\ ServesAuthenticated /\ Wound
  BY DEF IInv, TypeOK
<1>3. LineTypeOK'
  BY <1>1, <1>2 DEF LineTypeOK
<1>4. BridgeTypeOK' /\ NothingStale' /\ CleanExit' /\ Wound'
  BY <1>2 DEF bridgeVars, sockVars, BridgeTypeOK, NothingStale, CleanExit, Wound,
     NothingOffered
<1>5. ServesAuthenticated'
  BY <1>1, <1>2 DEF bridgeVars, BridgeTypeOK, ServesAuthenticated, NoReturn
<1> QED
  BY <1>1, <1>3, <1>4, <1>5 DEF IInv, TypeOK, AgentFacts

(* The bridge's steps never write OK. *)
LEMMA BridgeSaysAuth ==
  ASSUME LineTypeOK, BridgeSteps
  PROVE  \A e \in Conns : said[e] # "OK" => said'[e] # "OK"
  BY DEF LineTypeOK, BridgeSteps, RunSteps, DialFails, PinFails, AuthFails,
     ListenFails, MetadataFails, Wakes, CancelledBeforeServing, FinalWaitEnds, WaitClosedReturns,
     HbJoined, CancelledInTeardown, ConnectionEnds, CancelledServing, SendsAuth,
     Authenticated, Listens, CancelledInFinal, HbEnds, Stop, Cancel, LocalAttaches,
     ProgramHandled, LocalLeaves, Collects, ProcessExits

LEMMA BridgeStepKeeps ==
  ASSUME IInv, BridgeSteps, UNCHANGED agentVars
  PROVE  IInv'
<1>1. LineTypeOK' /\ BridgeTypeOK' /\ BridgeFacts'
  BY BridgeKeeps
<1>2. LineTypeOK /\ AgentTypeOK /\ Granted /\ CancelledByCleanup /\ ForgetsOnShutdownOnly
  BY DEF IInv, TypeOK
<1>3. AgentTypeOK' /\ CancelledByCleanup' /\ ForgetsOnShutdownOnly'
  BY <1>2 DEF AgentTypeOK, CancelledByCleanup, ForgetsOnShutdownOnly, Gathering
<1>4. Granted'
  BY <1>2, BridgeSaysAuth DEF Granted
<1> QED
  BY <1>1, <1>3, <1>4 DEF IInv, TypeOK, BridgeFacts

LEMMA MeetKeeps ==
  ASSUME IInv, NEW e \in Conns, Meet(e)
  PROVE  IInv'
<1> USE DEF Meet, Dials, Admits, Moves
<1>1. LineTypeOK' /\ BridgeTypeOK'
  BY DEF IInv, TypeOK, LineTypeOK, BridgeTypeOK, BridgePc, Ends, sockVars
<1>2. AgentTypeOK'
  BY DEF IInv, TypeOK, AgentTypeOK, Phases
<1>3. NothingStale' /\ CleanExit' /\ Wound'
  BY DEF IInv, TypeOK, BridgeTypeOK, sockVars, NothingStale, CleanExit,
     Wound, NothingOffered
<1>4. ServesAuthenticated'
  <2>1. agentWriter # 0 => agentWriter # e
    BY DEF IInv, ServesAuthenticated, Early
  <2> QED
    BY <2>1 DEF IInv, TypeOK, BridgeTypeOK, AgentTypeOK, sockVars, ServesAuthenticated
<1>5. Granted' /\ CancelledByCleanup' /\ ForgetsOnShutdownOnly'
  BY DEF IInv, TypeOK, AgentTypeOK, Granted, CancelledByCleanup,
     ForgetsOnShutdownOnly, Gathering, Early
<1> QED
  BY <1>1, <1>2, <1>3, <1>4, <1>5 DEF IInv, TypeOK

LEMMA CutKeeps ==
  ASSUME IInv, NEW e \in Conns, LineCut(e), UNCHANGED <<bridgeVars, agentVars>>
  PROVE  IInv'
<1>1. LineTypeOK'
  BY DEF IInv, TypeOK, LineTypeOK, LineCut
<1>2. UNCHANGED <<said, bridgeVars, agentVars>>
  BY DEF LineCut
<1>3. BridgeTypeOK' /\ AgentTypeOK'
  BY <1>2 DEF IInv, TypeOK, BridgeTypeOK, AgentTypeOK, bridgeVars, sockVars
<1>4. NothingStale' /\ CleanExit' /\ ServesAuthenticated' /\ Wound'
  BY <1>2 DEF IInv, bridgeVars, sockVars, NothingStale, CleanExit,
     ServesAuthenticated, Wound, NothingOffered
<1>5. Granted' /\ CancelledByCleanup' /\ ForgetsOnShutdownOnly'
  BY <1>2 DEF IInv, Granted, CancelledByCleanup, ForgetsOnShutdownOnly, Gathering
<1> QED
  BY <1>1, <1>3, <1>4, <1>5 DEF IInv, TypeOK

LEMMA StutterKeeps ==
  ASSUME IInv, UNCHANGED vars
  PROVE  IInv'
<1> USE DEF vars
<1>1. TypeOK'
  BY DEF IInv, TypeOK, LineTypeOK, BridgeTypeOK, AgentTypeOK, bridgeVars, sockVars
<1>2. NothingStale' /\ CleanExit' /\ ServesAuthenticated' /\ Wound'
  BY DEF IInv, bridgeVars, sockVars, NothingStale, CleanExit, ServesAuthenticated,
     Wound, NothingOffered
<1>3. Granted' /\ CancelledByCleanup' /\ ForgetsOnShutdownOnly'
  BY DEF IInv, Granted, CancelledByCleanup, ForgetsOnShutdownOnly, Gathering
<1> QED
  BY <1>1, <1>2, <1>3 DEF IInv

(* The invariant the theorems rest on: of dialling, authentication,        *)
(* teardown, cancellation and shutdown in networkusb/bridge/client.py and  *)
(* networkusb/agent/server.py.                                             *)
THEOREM Invariance == Spec => []IInv
<1>1. Init => IInv
  BY InitInv
<1>2. IInv /\ [Next]_vars => IInv'
  <2> SUFFICES ASSUME IInv, [Next]_vars PROVE IInv'
    OBVIOUS
  <2>1. CASE \E e \in Conns : Meet(e)
    BY <2>1, MeetKeeps
  <2>2. CASE BridgeSteps /\ UNCHANGED agentVars
    BY <2>2, BridgeStepKeeps
  <2>3. CASE AgentSteps /\ UNCHANGED bridgeVars
    BY <2>3, AgentStepKeeps
  <2>4. CASE \E e \in Conns : TimesOut(e) /\ UNCHANGED bridgeVars
    BY <2>4, AgentStepKeeps
  <2>5. CASE \E e \in Conns : LineCut(e) /\ UNCHANGED <<bridgeVars, agentVars>>
    BY <2>5, CutKeeps
  <2>6. CASE UNCHANGED vars
    BY <2>6, StutterKeeps
  <2> QED
    BY <2>1, <2>2, <2>3, <2>4, <2>5, <2>6 DEF Next
<1> QED
  BY <1>1, <1>2, PTL DEF Spec

(* Every variable of the two lives keeps its type, whatever the numbers of *)
(* connections, cancellations, cuts and sessions.                          *)
THEOREM TypeCorrect == Spec => []TypeOK
<1>1. IInv => TypeOK
  BY DEF IInv
<1> QED
  BY <1>1, Invariance, PTL

(* _teardown() and the finally block of _connect_and_serve() see to it     *)
(* that a bridge that dials, authenticates or sleeps offers nothing, up to *)
(* the exception NothingStale makes: where the mkdir() of active.json      *)
(* failed last, nothing is said until a teardown or a server follows.      *)
THEOREM NothingStaleHolds == Spec => []NothingStale
<1>1. IInv => NothingStale
  BY DEF IInv
<1> QED
  BY <1>1, Invariance, PTL

(* The finally block of run() leaves nothing behind, wherever its first    *)
(* cancellation struck; after a mkdir() of active.json that failed, if no  *)
(* cancellation struck.                                                    *)
THEOREM CleanExitHolds == Spec => []CleanExit
<1>1. IInv => CleanExit
  BY DEF IInv
<1> QED
  BY <1>1, Invariance, PTL

(* _agent_writer is never a connection whose handler at the agent has not  *)
(* taken the token, and is the one dialled last while the bridge serves.   *)
THEOREM ServesAuthenticatedHolds == Spec => []ServesAuthenticated
<1>1. IInv => ServesAuthenticated
  BY DEF IInv
<1> QED
  BY <1>1, Invariance, PTL

(* A handler that ends with open sessions was cancelled by a _cleanup().   *)
THEOREM ForgetsOnShutdownOnlyHolds == Spec => []ForgetsOnShutdownOnly
<1>1. IInv => ForgetsOnShutdownOnly
  BY DEF IInv
<1> QED
  BY <1>1, Invariance, PTL
=============================================================================
