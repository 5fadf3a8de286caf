---------------------------- MODULE MCStreamer ----------------------------
(* Constant values for checking Streamer with TLC.  The two nginx logs are  *)
(* one source: "all" has the cases of a half with two.                      *)
EXTENDS Streamer

AidenHalves == [ui |-> {"nginx"}, backend |-> {"journal"}]
=============================================================================
