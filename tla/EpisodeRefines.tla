--------------------------- MODULE EpisodeRefines ---------------------------
(***************************************************************************)
(* Episode implements Production: with one process at a time, no edit      *)
(* while it runs and no failure after the ledger is written, every verb is *)
(* one indivisible step, taken when its ledger is written.                 *)
(***************************************************************************)
EXTENDS Episode

\* A ledger that is being written still is what it was, to whoever waits for the verb.
ledgerBar ==
  IF \E p \in Proc : Running(p, "writing")
  THEN job[CHOOSE p \in Proc : Running(p, "writing")].base ELSE ledger

\* An output whose record is written is in place.
diskBar ==
  IF \E p \in Proc : Running(p, "rename")
  THEN LET p == CHOOSE p \in Proc : Running(p, "rename")
       IN  [disk EXCEPT ![OutPath[job[p].target]] = temp[p]]
  ELSE disk

Atomic == INSTANCE Production WITH ledger <- ledgerBar, disk <- diskBar

\* Every verb either does all it promises in one step or changes nothing (build.ts
\* buildTarget, validate.ts validateTarget, cli/review.ts reviewCommand).
VerbsAreAtomic == Atomic!Spec
=============================================================================
