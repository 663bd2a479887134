----------------------------- MODULE TunnelPipes -----------------------------
(***************************************************************************)
(* The tunnel implements BytePipe: forget the two programs' tasks, frames, *)
(* ids and connections, and what is left is one pipe per local program.    *)
(***************************************************************************)
EXTENDS Tunnel

(* The session of client c at the agent: it has one at most, on whatever   *)
(* connection its CONNECT went to.                                         *)
HasLink(c) == \E l \in Links : peer[l] = c
LinkOf(c) == CHOOSE l \in Links : peer[l] = c
OfLink(f, c, none) == IF HasLink(c) THEN f[LinkOf(c)] ELSE none

(* A transport that is closing takes no more data: its end is closed. *)
End(state) == IF state \in {"closing", "lost"} THEN "closed" ELSE state

Near == [c \in Clients |-> End(lt[c])]
Far == [c \in Clients |-> End(OfLink(ut, c, "none"))]
UpGot == [c \in Clients |-> OfLink(toUx, c, <<>>)]
DownSent == [c \in Clients |-> OfLink(downSent, c, 0)]

Pipes == INSTANCE BytePipe WITH
    near <- Near, far <- Far, upGot <- UpGot, downSent <- DownSent, downGot <- toLocal

(* The promise of the bridge's and the agent's docstrings ("relay bytes    *)
(* bidirectionally"): through reconnections, late frames and handlers that *)
(* outlive their connection, every program sees one connection to usbmuxd  *)
(* that opens and closes once and delivers, in order and once, only what   *)
(* the other end wrote, and nothing after it has closed.                   *)
ImplementsPipes == Pipes!Spec
=============================================================================
