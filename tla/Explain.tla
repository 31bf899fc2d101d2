------------------------------- MODULE Explain -------------------------------
(***************************************************************************)
(* pc explain: the walk from a node back to what is responsible for its    *)
(* state (src/cli/chain.ts), over the states the oracle reports.  Inputs   *)
(* propagate and are walked; the follows edge does not, and is shown only  *)
(* for the node that was asked about.                                      *)
(***************************************************************************)
EXTENDS Agent, SequencesExt

ASSUME ExplainAssumption == IsFiniteSet(Node)

\* Bound of the walk, which the code leaves to the graph: no path of an acyclic one is longer.
MaxDepth == Cardinality(Node)

\* The first declared input of t that is one of ids, as assessFreshness meets them.
FirstInput(t, ids) ==
  LET found == {k \in DOMAIN recipe[t] : recipe[t][k] \in ids}
  IN  IF found = {} THEN Nil ELSE recipe[t][Min(found)]

\* cause.identity: the one node the report blames for n's state, Nil when it blames none.
Cause(n) ==
  LET Cur(i) == Resolved(AuthoredNow, ledger.artifacts, i)
      rec == ledger.artifacts[n]
      moved == FirstInput(n, {i \in Members(recipe[n]) : InputMoved(rec, Cur(i), i)})
  IN CASE ReportNow[n] = "absent" -> n
       [] ReportNow[n] = "needs-review" -> Follows[n]
       [] ReportNow[n] = "blocked" -> FirstInput(n, {i \in Members(recipe[n]) : Cur(i) = Nil})
       [] ReportNow[n] = "stale" ->
            IF moved # Nil THEN moved
            ELSE CHOOSE i \in DOMAIN rec.inputs : i \notin Members(recipe[n])
       [] OTHER -> Nil

\* Mutant: the first declared input is followed, whatever the cause names.
FirstOfInputs(n) == <<Head(recipe[n])>>

\* causalInputs: the input the cause names if it is one, else every declared input.
CausalInputs(n) == IF Cause(n) \in Members(recipe[n]) THEN <<Cause(n)>> ELSE recipe[n]

Link(n, via, from, depth, halt) ==
  [id |-> n, via |-> via, from |-> from, depth |-> depth, halt |-> halt]

\* Mutant: a pending decision shows what it observes wherever the walk meets it.
ObservationAnywhere(n, via, depth) ==
  IF Follows[n] = Nil THEN <<>>
  ELSE <<Link(Follows[n], "observation", n, depth + 1, "observation-does-not-propagate")>>

\* descendObservation: only the node being explained shows what it observes.
Observation(n, via, depth) ==
  IF via # "root" \/ Follows[n] = Nil THEN <<>>
  ELSE <<Link(Follows[n], "observation", n, depth + 1, "observation-does-not-propagate")>>

\* visit, the link of n itself: the walk halts at a node that awaits a human decision.
Emit(n, via, from, depth) ==
  IF n \in Authored /\ ReportNow[n] = "needs-review"
  THEN <<Link(n, via, from, depth, "pending-human-decision")>> \o Observation(n, via, depth)
  ELSE <<Link(n, via, from, depth, Nil)>>

\* visit, each of the inputs implicated in the state of n, with what lies below it.
Descend(n, depth, below) ==
  FlattenSeq([k \in DOMAIN CausalInputs(n) |->
    Emit(CausalInputs(n)[k], "dependency", n, depth) \o below[CausalInputs(n)[k]]])

\* visit, below every node, left levels down: the walk ends at an authored node and goes on
\* through a derived one.
Below[left \in 0..MaxDepth] ==
  [n \in Node |-> IF left = 0 \/ n \in Authored THEN <<>>
                  ELSE Descend(n, MaxDepth - left + 1, Below[left - 1])]

ExplainChain(n) == Emit(n, "root", Nil, 0) \o Below[MaxDepth][n]

\* The chain of a blocked node arrives at something a human or an agent can do: a file to
\* supply or an artifact to build, however deep it lies (chain.ts causalInputs).
ExplainLeadsToWork ==
  \A t \in Derived : ReportNow[t] = "blocked" =>
    \E k \in DOMAIN ExplainChain(t) :
      /\ ReportNow[ExplainChain(t)[k].id] \in {"absent", "missing"}
      /\ ExplainChain(t)[k].id \in Frontier(ReportNow, ledger)

\* No chain of an artifact shows a change as flowing past a pending human decision: each of
\* its links is a declared input of the link it came from (chain.ts descendObservation).
DecisionsStopTheChain ==
  \A t \in Derived :
    LET chain == ExplainChain(t)
    IN \A k \in 2..Len(chain) : \E j \in 1..(k - 1) :
         /\ chain[j].id = chain[k].from /\ chain[j].depth + 1 = chain[k].depth
         /\ chain[j].id \in Derived /\ chain[k].id \in Members(recipe[chain[j].id])
=============================================================================
