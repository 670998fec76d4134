---------------------------- MODULE MCRunnerFleet ----------------------------
(* A small instance of RunnerFleet for TLC: one runner and two processes of  *)
(* it, the second a restart, or a launcher started under the same name.     *)
EXTENDS RunnerFleet, TLC

CONSTANTS a, b, n1, j1

MCRunnerOf == a :> n1 @@ b :> n1
=============================================================================
