------------------------------ MODULE MCCliRun ------------------------------
(***************************************************************************)
(* Two hosts; every command line of up to two arguments, a host given      *)
(* twice and no host among them.                                           *)
(***************************************************************************)
EXTENDS CliRun

CONSTANT MaxHosts  \* the longest list of HOST arguments

AllCommands ==
  [hosts : UNION {[1..n -> Hosts] : n \in 0..MaxHosts},
   mode : Modes, latency : BOOLEAN]

SomeResolutions == {<<>>, <<"v4">>, <<"v4", "v6">>}
=============================================================================
