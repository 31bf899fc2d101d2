------------------------------ MODULE MCMiner ------------------------------
(***************************************************************************)
(* Three sources in two chunks, two runners, two attempts, for TLC.  The   *)
(* model may point at a passage of either text, or at both.                *)
(***************************************************************************)
EXTENDS Miner

MCText == {"one", "two", "binary"}
MCIn(c, t) == c = t
MCAnswers == {{}, {"one", "two"}}
=============================================================================
