------------------------------ MODULE MCEpisode ------------------------------
(***************************************************************************)
(* pc processes for TLC: one alone, or two whose verbs may interleave.     *)
(***************************************************************************)
EXTENDS EpisodeRefines, MCDir

CONSTANTS p1, p2

One == {p1}
Two == {p1, p2}

Alone == [p \in {p1} |-> {"build", "validate"}]
AloneReview == [p \in {p1} |-> {"build", "validate", "review"}]
BuildAndOthers == p1 :> {"build"} @@ p2 :> {"validate", "status"}
=============================================================================
