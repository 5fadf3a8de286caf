------------------------------ MODULE MCBackend ------------------------------
(* Constant values for checking Backend with TLC. *)
EXTENDS Backend

CONSTANTS w1, w2, w3, p1, p2

(* The release installed, one that migrates and repins, and a later one *)
(* without a requirements file.                                         *)
Releases   == {w1, w2, w3}
ReleaseHead == [w \in Releases |-> CASE w = w1 -> 1 [] w = w2 -> 2 [] w = w3 -> 3]
ReleasePins == [w \in Releases |-> CASE w = w1 -> p1 [] w = w2 -> p2 [] w = w3 -> None]
=============================================================================
