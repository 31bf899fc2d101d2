-------------------------------- MODULE Agent --------------------------------
(***************************************************************************)
(* The loop the oracle is made for: an agent asks pc next, works down the  *)
(* list it printed in whatever order, and asks again, until release-check  *)
(* says yes.  The verbs are those of Production; a human edits beside the  *)
(* agent, so an item may be out of date when it is worked on.  The edits   *)
(* are bounded, so that they stop.                                         *)
(***************************************************************************)
EXTENDS Production

CONSTANT MaxEdits    \* bound on the number of edits of a behaviour

ASSUME AgentAssumption == MaxEdits \in Nat

VARIABLES edits,     \* edits made so far
          list       \* at each node, what the last pc next lists and is not yet worked on

agentVars == <<dirVars, edits, list>>

\* What pc next lists for node n (actionFor).
Todo(n) == ActionFor(ReportNow[n], IF n \in Derived THEN Validated(ledger, n) ELSE Nil)

\* The agent asks for a new list when nothing is left of the last one.
Look ==
  /\ list = [n \in Node |-> Nil]
  /\ list' = [n \in Node |-> Todo(n)]
  /\ UNCHANGED <<dirVars, edits>>

\* Putting an absent authored file in place.
Supply(a) ==
  /\ file[a] = Nil
  /\ \E c \in Edits[a] \ {Nil} : file' = [file EXCEPT ![a] = c]
  /\ UNCHANGED <<recipe, disk, ledger>>

\* The verb listed for n, run to its end.  A hand edit is resolved by giving it up: the output
\* is built again.
Done(n) ==
  \/ list[n] \in {"build", "rebuild", "resolve-edit"} /\ Build(n)
  \/ list[n] = "validate" /\ Validate(n)
  \/ list[n] = "review" /\ Review(n)
  \/ list[n] = "supply" /\ Supply(n)

\* The verb listed for n, refusing: an input is gone, the bytes to judge are not the recorded
\* ones, what is to be reviewed resolves to nothing, or the file is there already.
Refused(n) ==
  /\ \/ list[n] \in {"build", "rebuild", "resolve-edit"} /\ ~ InputsAvailable(n)
     \/ list[n] = "validate" /\ ~ Validatable(n)
     \/ list[n] = "review" /\ ~ Reviewable(n)
     \/ list[n] = "supply" /\ file[n] # Nil
  /\ UNCHANGED dirVars

\* An item is struck off once its verb has ended, whether it changed anything, wrote what was
\* there before, or refused.
Act(n) ==
  /\ list[n] # Nil
  /\ Done(n) \/ Refused(n)
  /\ list' = [list EXCEPT ![n] = Nil]
  /\ UNCHANGED edits

CountedEdit ==
  /\ edits < MaxEdits
  /\ edits' = edits + 1
  /\ Human
  /\ UNCHANGED list

AgentInit == DirInit /\ edits = 0 /\ list = [n \in Node |-> Nil]

Work == Look \/ \E n \in Node : Act(n)

AgentNext == CountedEdit \/ Work

\* The agent goes on: it strikes off what it has, in an order left open, and asks again.  Every
\* step of its work changes the list, save a look at which nothing is listed, so a verb that
\* ends as it began is a step of the behaviour and not a stutter.
AgentSpec == AgentInit /\ [][AgentNext]_agentVars /\ WF_agentVars(Work)

\* An agent that works down what pc next lists and asks again gets the episode to a release,
\* in whatever order it takes the items of a list and however many of them were out of date,
\* once the edits have stopped (frontier.ts actionFor, release.ts).
FrontierLeadsToRelease == <>[]Releasable(ReportNow, ledger)

\* Nothing blocks a release without the frontier naming something to do about it, however
\* deep the absence that blocks it lies (frontier.ts frontier, release.ts assessRelease).
BlockedMeansActionable ==
  Blockers(ReportNow, ledger) # {} => Frontier(ReportNow, ledger) # {}
=============================================================================
