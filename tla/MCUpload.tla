----------------------------- MODULE MCUpload -----------------------------
(* Constant values for checking Upload with TLC: p1 holds a file, p2 none;  *)
(* u1 is for p1, u2 for either.                                             *)
EXTENDS Upload, TLC
CONSTANTS u1, u2, p1, p2

SameOrNot == {(u1 :> p1) @@ (u2 :> q) : q \in {p1, p2}}
=============================================================================
