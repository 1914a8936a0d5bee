----------------------------- MODULE MCEvalPipe -----------------------------
(***************************************************************************)
(* Instances of EvalPipe for TLC.                                          *)
(***************************************************************************)
EXTENDS EvalPipe

NoFaults  == {}
AllFaults == {"early", "slow", "signal", "fork", "files"}
Early     == {"early"}
=============================================================================
