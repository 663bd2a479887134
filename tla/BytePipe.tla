------------------------------ MODULE BytePipe ------------------------------
(***************************************************************************)
(* What the tunnel promises a local program: a connection to usbmuxd.  The *)
(* program has one end, usbmuxd the other; each opens once and closes      *)
(* once, and each receives, piece by piece, a prefix of what the other has *)
(* written.  There are no bridge, agent, frames or reconnections here.     *)
(***************************************************************************)
EXTENDS Naturals, Sequences

CONSTANT Clients

VARIABLES
    near,       \* near[c]: the end c talks to
    far,        \* far[c]: the end usbmuxd talks to
    upSent,     \* upSent[c]: pieces c has written
    upGot,      \* upGot[c]: what of them has been passed on to usbmuxd
    downSent,   \* downSent[c]: pieces usbmuxd has written
    downGot     \* downGot[c]: what of them has been passed on to c

pipeVars == <<near, far, upSent, upGot, downSent, downGot>>

Init ==
    /\ near = [c \in Clients |-> "none"]
    /\ far = [c \in Clients |-> "none"]
    /\ upSent = [c \in Clients |-> 0]
    /\ upGot = [c \in Clients |-> <<>>]
    /\ downSent = [c \in Clients |-> 0]
    /\ downGot = [c \in Clients |-> <<>>]

(* A program connects, and usbmuxd is connected to on its behalf. *)
OpensNear(c) ==
    /\ near[c] = "none"
    /\ near' = [near EXCEPT ![c] = "open"]
    /\ UNCHANGED <<far, upSent, upGot, downSent, downGot>>

OpensFar(c) ==
    /\ near[c] # "none"
    /\ far[c] = "none"
    /\ far' = [far EXCEPT ![c] = "open"]
    /\ UNCHANGED <<near, upSent, upGot, downSent, downGot>>

(* Ends close, for whatever reason; a lost connection closes many at once. *)
ClosedAmong(ends, S) == [c \in Clients |-> IF c \in S THEN "closed" ELSE ends[c]]

ClosesNear ==
    /\ \E S \in SUBSET {c \in Clients : near[c] = "open"} : near' = ClosedAmong(near, S)
    /\ UNCHANGED <<far, upSent, upGot, downSent, downGot>>

ClosesFar(c) ==
    /\ far[c] = "open"
    /\ far' = [far EXCEPT ![c] = "closed"]
    /\ UNCHANGED <<near, upSent, upGot, downSent, downGot>>

WritesUp(c) ==
    /\ near[c] = "open"
    /\ upSent' = [upSent EXCEPT ![c] = @ + 1]
    /\ UNCHANGED <<near, far, upGot, downSent, downGot>>

WritesDown(c) ==
    /\ far[c] = "open"
    /\ downSent' = [downSent EXCEPT ![c] = @ + 1]
    /\ UNCHANGED <<near, far, upSent, upGot, downGot>>

(* The next piece, and no other, of what this client's other end wrote.    *)
NextPiece(c, got) == Append(got, [client |-> c, n |-> Len(got) + 1])

PassesUp(c) ==
    /\ far[c] = "open"
    /\ Len(upGot[c]) < upSent[c]
    /\ upGot' = [upGot EXCEPT ![c] = NextPiece(c, @)]
    /\ UNCHANGED <<near, far, upSent, downSent, downGot>>

PassesDown(c) ==
    /\ near[c] = "open"
    /\ Len(downGot[c]) < downSent[c]
    /\ downGot' = [downGot EXCEPT ![c] = NextPiece(c, @)]
    /\ UNCHANGED <<near, far, upSent, upGot, downSent>>

Next ==
    \/ ClosesNear
    \/ \E c \in Clients :
          \/ OpensNear(c) \/ OpensFar(c) \/ ClosesFar(c)
          \/ WritesUp(c) \/ WritesDown(c) \/ PassesUp(c) \/ PassesDown(c)

Spec == Init /\ [][Next]_pipeVars
=============================================================================
