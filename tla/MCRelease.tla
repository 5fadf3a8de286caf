------------------------------ MODULE MCRelease ------------------------------
(* Constant values for checking Release with TLC. *)
EXTENDS Release

CONSTANTS a, b, c, d, r1, r2

(* Three builds of one commit, which carry the same version, and another one. *)
Zips     == {a, b, c, d}
Versions == [z \in Zips |-> IF z = c THEN 2 ELSE 1]
=============================================================================
