------------------------------ MODULE MCAssets ------------------------------
(***************************************************************************)
(* One authored path, two takes of it, and two processes for TLC.          *)
(***************************************************************************)
EXTENDS AssetStore

CONSTANTS p1, p2, take1, take2
=============================================================================
