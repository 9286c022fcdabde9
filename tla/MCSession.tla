----------------------------- MODULE MCSession -----------------------------
(***************************************************************************)
(* Session with short streams of a server.  Two receivers may be exchanged  *)
(* for each other: nothing tells them apart but what they do, and the run   *)
(* with two of them checks no liveness.                                     *)
(***************************************************************************)
EXTENDS Session, TLC

SomeStreams == { <<"app", "app", "app">>,
                 <<"accepted", "disconnect">> }
FewFrames   == { <<"accepted", "app", "app">>, <<"ping", "malformed">> }
ShortStream == { <<"accepted", "app">> }

TaskSymmetry == Permutations(Receivers)
=============================================================================
