---------------------------- MODULE SessionIdsMC ----------------------------
(* The allocator over a small id space.  MaxId = 5 wraps after five         *)
(* sessions; the starting values are 0, 1, the largest id and values beyond *)
(* the width.  Every id may be taken at once, so next_id() also fails.      *)
EXTENDS SessionIds

MCStarts == {0, 1, MaxId, MaxId + 1, MaxId + 3}
=============================================================================
