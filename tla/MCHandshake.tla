---------------------------- MODULE MCHandshake ----------------------------
(* Handshake with three candidates, the last one too small to be tried.     *)
EXTENDS Handshake

ThreeCandidates == <<4, 3, 1>>
Resolutions == { << >>, <<"v4">>, <<"v4", "v6">> }
=============================================================================
