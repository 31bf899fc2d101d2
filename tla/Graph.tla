-------------------------------- MODULE Graph --------------------------------
(***************************************************************************)
(* How a manifest and a profile become the graph the oracle works on, or   *)
(* are refused (src/graph, src/zoning): the walk of what the episode asked *)
(* for, the rules on what it reached, and the depth-first search for a     *)
(* dependency cycle.  One behaviour is one call of validateGraph.          *)
(***************************************************************************)
EXTENDS Naturals, FiniteSets, SequencesExt

CONSTANTS Identity,   \* every name a manifest or a profile uses
          Catalogue,  \* the targets of the profile
          Manifests,  \* episodes: authored, path, follows and targets, with the profile's inputs
          Nil         \* no edge, no reason

Segment == {"name", "dot", "up"}   \* a path segment: plain, beginning with a dot, or ..

Reasons == {"undeclared-target", "two-kinds", "zone", "follows", "dangling", "cycle"}

ASSUME GraphAssumption ==
  /\ Catalogue \subseteq Identity /\ Nil \notin Identity \cup Reasons
  /\ \A e \in Manifests :
       /\ e.authored \subseteq Identity
       /\ e.path \in [e.authored -> Seq(Segment)]
       /\ e.follows \in [e.authored -> Identity \cup {Nil}]
       /\ e.targets \in Seq(Identity)
       /\ e.inputs \in [Catalogue -> Seq(Identity)]

VARIABLES episode,  \* the manifest with its profile
          at,       \* "select", "reach", "cycle", "accepted" or "refused"
          reason,   \* why it was refused
          reached,  \* profile targets the episode's targets are built from, themselves included
          pending,  \* identities the reach walk has still to visit, next one first
          color,    \* of each reached target: "white", "gray" or "black"
          stack     \* calls of the cycle search: a target and the inputs it has still to look at

vars == <<episode, at, reason, reached, pending, color, stack>>

Colors == {"white", "gray", "black"}

Inputs(t) == ToSet(episode.inputs[t])

-----------------------------------------------------------------------------
(* The zone of a path. *)

Ascend(rest, segment) ==
  IF segment = "up" /\ rest # <<>> /\ Last(rest) # "up" THEN Front(rest)
  ELSE Append(rest, segment)

\* path.posix.normalize: an interior .. takes away the segment before it.
Normalize(path) == FoldLeft(Ascend, <<>>, path)

\* RelativePathSchema lets no path of an episode climb above the episode's directory.
Relative(path) == "up" \notin ToSet(Normalize(path))

\* Mutant: the segments are looked at as they are written.
AiPermittedAsWritten(path) == \E k \in 1..(Len(path) - 1) : path[k] = "dot"

\* classifyZone of a file: a dot among the directories it lies in; its own name does not count.
AiPermitted(path) ==
  LET segments == Normalize(path) IN \E k \in 1..(Len(segments) - 1) : segments[k] = "dot"

AiPermittedDirectory(path) == "dot" \in ToSet(Normalize(path))

-----------------------------------------------------------------------------

Init ==
  /\ episode \in {e \in Manifests : \A a \in e.authored : Relative(e.path[a])}
  /\ at = "select" /\ reason = Nil
  /\ reached = {} /\ pending = <<>> /\ color = <<>> /\ stack = <<>>

Refuse(why) ==
  /\ at' = "refused" /\ reason' = why
  /\ UNCHANGED <<episode, reached, pending, color, stack>>

\* Rule 4, first: every target the episode asks for is one the profile produces.
Select ==
  /\ at = "select"
  /\ IF ToSet(episode.targets) \subseteq Catalogue
     THEN /\ at' = "reach" /\ pending' = episode.targets
          /\ UNCHANGED <<episode, reason, reached, color, stack>>
     ELSE Refuse("undeclared-target")

\* Mutant: only the inputs of the targets that were asked for are walked.
VisitAskedFor ==
  /\ at = "reach" /\ pending # <<>>
  /\ LET id == Head(pending) IN
       /\ reached' = reached \cup ({id} \cap Catalogue)
       /\ pending' = (IF id \in ToSet(episode.targets) \ reached THEN episode.inputs[id] ELSE <<>>)
                       \o Tail(pending)
  /\ UNCHANGED <<episode, at, reason, color, stack>>

\* Mutant: what is not a target is added like one.
VisitLeaves ==
  /\ at = "reach" /\ pending # <<>>
  /\ reached' = reached \cup {Head(pending)}
  /\ pending' = (IF Head(pending) \in Catalogue \ reached THEN episode.inputs[Head(pending)]
                 ELSE <<>>) \o Tail(pending)
  /\ UNCHANGED <<episode, at, reason, color, stack>>

\* reachableTargets, visit: an identity is added before its inputs are visited.
Visit ==
  /\ at = "reach" /\ pending # <<>>
  /\ LET id == Head(pending) IN
       IF id \in Catalogue \ reached
       THEN reached' = reached \cup {id} /\ pending' = episode.inputs[id] \o Tail(pending)
       ELSE pending' = Tail(pending) /\ UNCHANGED reached
  /\ UNCHANGED <<episode, at, reason, color, stack>>

\* buildGraph: every authored node and every reached target; of an identity that is both,
\* the target replaces the authored node.
GraphNode == episode.authored \cup reached
AuthoredNode == episode.authored \ reached

\* Mutant: an identity the catalogue knows may be followed whether it is in the graph or not.
FollowsKnown == \A a \in episode.authored :
  episode.follows[a] # Nil => episode.follows[a] \in episode.authored \cup Catalogue

\* Rule 3.
FollowsNodes == \A a \in episode.authored :
  episode.follows[a] # Nil => episode.follows[a] \in GraphNode

\* Rules 6, 7, 3 and 2 in the order they are asked; rule 5 is implied by rule 6.
Refusal ==
  IF episode.authored \cap reached # {} THEN "two-kinds"
  ELSE IF \E a \in episode.authored : AiPermitted(episode.path[a]) THEN "zone"
  ELSE IF ~FollowsNodes THEN "follows"
  ELSE IF \E t \in reached : ~(Inputs(t) \subseteq episode.authored \cup Catalogue)
       THEN "dangling"
  ELSE Nil

CheckNodes ==
  /\ at = "reach" /\ pending = <<>>
  /\ IF Refusal # Nil THEN Refuse(Refusal)
     ELSE /\ at' = "cycle" /\ color' = [t \in reached |-> "white"]
          /\ UNCHANGED <<episode, reason, reached, pending, stack>>

\* detectCycle: the search starts at each target that is still white, in their order.
Roots == {k \in DOMAIN episode.targets : color[episode.targets[k]] = "white"}

EnterRoot ==
  /\ at = "cycle" /\ stack = <<>>
  /\ \E k \in Roots :
       LET id == episode.targets[k] IN
         /\ \A l \in Roots : k <= l
         /\ color' = [color EXCEPT ![id] = "gray"]
         /\ stack' = <<[id |-> id, rest |-> episode.inputs[id]]>>
  /\ UNCHANGED <<episode, at, reason, reached, pending>>

Consumed == [stack EXCEPT ![Len(stack)].rest = Tail(@)]

\* Mutant: an input on the path is met again only when it is the one being searched.
LookAtInputForSelf ==
  /\ at = "cycle" /\ stack # <<>> /\ Last(stack).rest # <<>>
  /\ LET i == Head(Last(stack).rest) IN
       CASE i \in reached /\ i = Last(stack).id -> Refuse("cycle")
         [] i \in reached /\ i # Last(stack).id /\ color[i] # "black" ->
              /\ color' = [color EXCEPT ![i] = "gray"]
              /\ stack' = Append(Consumed, [id |-> i, rest |-> episode.inputs[i]])
              /\ UNCHANGED <<episode, at, reason, reached, pending>>
         [] OTHER -> stack' = Consumed /\ UNCHANGED <<episode, at, reason, reached, pending, color>>

\* Mutant: a target that was met before closes a cycle, though its search has ended.
LookAtInputOnce ==
  /\ at = "cycle" /\ stack # <<>> /\ Last(stack).rest # <<>>
  /\ LET i == Head(Last(stack).rest) IN
       CASE i \in reached /\ color[i] # "white" -> Refuse("cycle")
         [] i \in reached /\ color[i] = "white" ->
              /\ color' = [color EXCEPT ![i] = "gray"]
              /\ stack' = Append(Consumed, [id |-> i, rest |-> episode.inputs[i]])
              /\ UNCHANGED <<episode, at, reason, reached, pending>>
         [] OTHER -> stack' = Consumed /\ UNCHANGED <<episode, at, reason, reached, pending, color>>

\* An input that is gray closes a cycle, a white one is searched, any other is passed over.
LookAtInput ==
  /\ at = "cycle" /\ stack # <<>> /\ Last(stack).rest # <<>>
  /\ LET i == Head(Last(stack).rest) IN
       CASE i \in reached /\ color[i] = "gray" -> Refuse("cycle")
         [] i \in reached /\ color[i] = "white" ->
              /\ color' = [color EXCEPT ![i] = "gray"]
              /\ stack' = Append(Consumed, [id |-> i, rest |-> episode.inputs[i]])
              /\ UNCHANGED <<episode, at, reason, reached, pending>>
         [] OTHER -> stack' = Consumed /\ UNCHANGED <<episode, at, reason, reached, pending, color>>

\* A target all of whose inputs were looked at is black.
Leave ==
  /\ at = "cycle" /\ stack # <<>> /\ Last(stack).rest = <<>>
  /\ color' = [color EXCEPT ![Last(stack).id] = "black"]
  /\ stack' = Front(stack)
  /\ UNCHANGED <<episode, at, reason, reached, pending>>

Accept ==
  /\ at = "cycle" /\ stack = <<>> /\ Roots = {}
  /\ at' = "accepted"
  /\ UNCHANGED <<episode, reason, reached, pending, color, stack>>

Next == Select \/ Visit \/ CheckNodes \/ EnterRoot \/ LookAtInput \/ Leave \/ Accept

Spec == Init /\ [][Next]_vars

\* Mutant: the audit counts the file's own name as a directory.
AuditViolationsByName == {a \in AuthoredNode : AiPermittedDirectory(episode.path[a])}

\* audit-zones: the authored nodes that lie in a dot-zone, in a graph that nobody validated.
\* The impure output root .ai is in one, so no target adds to them.
AuditViolations == {a \in AuthoredNode : AiPermitted(episode.path[a])}

-----------------------------------------------------------------------------
(* What must hold. *)

Walked == at \in {"cycle", "accepted"} \/ (at = "refused" /\ reason # "undeclared-target")

Grays == {t \in DOMAIN color : color[t] = "gray"}

GraphTypeOK ==
  /\ at \in {"select", "reach", "cycle", "accepted", "refused"}
  /\ reached \subseteq Catalogue
  /\ pending \in Seq(Identity)
  /\ DOMAIN color \subseteq Catalogue /\ \A t \in DOMAIN color : color[t] \in Colors
  /\ \A k \in DOMAIN stack : stack[k].id \in reached /\ stack[k].rest \in Seq(Identity)

Closed(S) == \A t \in S : Inputs(t) \cap Catalogue \subseteq S

\* The walk finds the least set that holds the episode's targets and is closed under inputs,
\* whatever cycles it runs through (reachable.ts visit).
ReachedIsClosure ==
  Walked =>
    /\ Closed(reached) /\ ToSet(episode.targets) \subseteq reached
    /\ \A S \in SUBSET Catalogue :
         Closed(S) /\ ToSet(episode.targets) \subseteq S => reached \subseteq S

\* Edges that can be ranked form no cycle: an input is built before what is built from it.
Buildable(S) ==
  \E rank \in [S -> 1..Cardinality(S)] :
    \A t \in S : \A i \in Inputs(t) \cap S : rank[i] < rank[t]

\* Of an accepted episode every node is of one kind, everything a node names is a node, and
\* the targets can be built in some order: what status, build and explain take for granted
\* (validate.ts, resolve.ts resolveStatus, chain.ts visit).
AcceptedIsAGraph ==
  at = "accepted" =>
    /\ episode.authored \cap reached = {}
    /\ ToSet(episode.targets) \subseteq reached
    /\ \A t \in reached : Inputs(t) \subseteq GraphNode
    /\ \A a \in episode.authored : episode.follows[a] \in GraphNode \cup {Nil}
    /\ Buildable(reached)

\* A diamond is not a cycle and a defect the episode never asked for is none of its business:
\* an episode refused for a cycle has no order in which what it reaches could be built, and
\* the cycle that is named is one (validate.ts detectCycle).
CyclesAreReal ==
  reason = "cycle" =>
    /\ ~Buildable(reached)
    /\ LET back == Head(Last(stack).rest)
           path == [k \in DOMAIN stack |-> stack[k].id]
           start == CHOOSE k \in DOMAIN path : path[k] = back
       IN \A k \in start..Len(path) :
            (IF k = Len(path) THEN back ELSE path[k + 1]) \in Inputs(path[k])

\* The search never enters a target twice: what is gray is what is on the stack, once each,
\* so it ends on every graph (validate.ts detectCycle).
NeverTwiceOnThePath ==
  /\ at = "cycle" => Grays = {stack[k].id : k \in DOMAIN stack}
  /\ Len(stack) <= Cardinality(Grays)

\* Where a path leads: the directory levels it is at after its first k segments.
Level(path, k) ==
  LET down == Cardinality({j \in 1..k : path[j] # "up"}) IN down - (k - down)

\* The directories a path still lies in when it ends: those it never climbs out of again.
LiesIn(path) ==
  {k \in DOMAIN path :
     /\ path[k] # "up"
     /\ \A j \in (k + 1)..Len(path) : Level(path, j) >= Level(path, k)
     /\ Level(path, k) < Level(path, Len(path))}

\* A file is in the AI-permitted zone exactly when one of the directories it ends up in
\* begins with a dot, however its path is spelt (zoning/classify.ts classifyZone).
ZoneIsWhereTheFileLies ==
  \A a \in episode.authored :
    LET path == episode.path[a]
    IN AiPermitted(path) <=> \E k \in LiesIn(path) : path[k] = "dot"

\* The lenient audit and the strict rule agree: it names a node of every episode refused for
\* a zone and none of an episode that is accepted (cli/audit-zones.ts, validate.ts rule 7).
AuditAgrees ==
  /\ reason = "zone" => AuditViolations # {}
  /\ at = "accepted" => AuditViolations = {}
=============================================================================
