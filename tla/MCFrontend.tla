----------------------------- MODULE MCFrontend -----------------------------
(* Constant values for checking Frontend with TLC. *)
EXTENDS Frontend

CONSTANTS b1, b2

(* b2 is the later release; deploying b1 after it is a rollback. *)
Releases == {b1, b2}
ReleasedAt == [b \in Releases |-> IF b = b1 THEN 1 ELSE 2]
=============================================================================
