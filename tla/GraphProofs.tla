----------------------------- MODULE GraphProofs -----------------------------
(***************************************************************************)
(* What validateGraph computes, for every profile and every episode.       *)
(* First the walk of reachable.ts: what it reaches is the least set of     *)
(* targets that holds the episode's and is closed under inputs.  The       *)
(* invariant speaks of the unfinished walk: what was reached and what is   *)
(* still pending together miss nothing (Found) and hold nothing that is    *)
(* not needed (Needed).  Then the rules and the search for a cycle.        *)
(***************************************************************************)
EXTENDS Graph, FiniteSetTheorems, SequenceTheorems, WellFoundedInduction, TLAPS

Walking == at = "reach" \/ Walked

\* Nothing of the closure is lost: what was not reached yet is still pending.
Found ==
  Walking => /\ ToSet(episode.targets) \subseteq Catalogue
             /\ ToSet(episode.targets) \subseteq reached \cup ToSet(pending)
             /\ \A t \in reached : Inputs(t) \cap Catalogue \subseteq reached \cup ToSet(pending)

\* Nothing else is walked: every closed set with the episode's targets holds all of it.
Needed ==
  \A S \in SUBSET Catalogue :
    Closed(S) /\ ToSet(episode.targets) \subseteq S =>
      reached \subseteq S /\ ToSet(pending) \cap Catalogue \subseteq S

WalkInv ==
  /\ episode \in Manifests
  /\ reached \subseteq Catalogue
  /\ pending \in Seq(Identity)
  /\ at = "select" => reached = {}
  /\ Walked => pending = <<>>
  /\ Found
  /\ Needed

-----------------------------------------------------------------------------

\* What a list holds is what stands at one of its places.
LEMMA InList ==
  ASSUME NEW s \in Seq(Identity)
  PROVE  Len(s) \in Nat /\ \A x : x \in ToSet(s) <=> \E k \in 1..Len(s) : x = s[k]
<1>1. Len(s) \in Nat /\ DOMAIN s = 1..Len(s)
  OBVIOUS
<1>2. ToSet(s) = {s[k] : k \in 1..Len(s)}
  BY <1>1, Zenon DEF ToSet
<1> QED
  BY <1>1, <1>2

\* The first identity of a list and the ones after it are all it holds.
LEMMA HeadAndTail ==
  ASSUME NEW s \in Seq(Identity), s # <<>>
  PROVE  /\ Head(s) \in Identity /\ Tail(s) \in Seq(Identity)
         /\ ToSet(s) = {Head(s)} \cup ToSet(Tail(s))
<1> DEFINE u == Tail(s)
<1>1. /\ Len(s) \in Nat \ {0} /\ Head(s) = s[1] /\ s[1] \in Identity /\ u \in Seq(Identity)
      /\ Len(u) = Len(s) - 1 /\ \A k \in 1..(Len(s) - 1) : u[k] = s[k + 1]
  OBVIOUS
<1> HIDE DEF u
<1>2. ASSUME NEW x \in ToSet(s)  PROVE x = s[1] \/ x \in ToSet(u)
  <2>1. PICK k \in 1..Len(s) : x = s[k]
    BY InList
  <2>2. CASE k = 1
    BY <2>1, <2>2
  <2>3. CASE k # 1
    <3>1. k - 1 \in 1..Len(u) /\ u[k - 1] = s[k]
      BY <1>1, <2>3
    <3> QED
      BY <1>1, <2>1, <3>1, InList
  <2> QED
    BY <2>2, <2>3
<1>3. ASSUME NEW x \in ToSet(u)  PROVE x \in ToSet(s)
  <2>1. PICK k \in 1..Len(u) : x = u[k]
    BY <1>1, InList
  <2>2. k + 1 \in 1..Len(s) /\ x = s[k + 1]
    BY <1>1, <2>1
  <2> QED
    BY <2>2, InList
<1>4. s[1] \in ToSet(s)
  <2>1. 1 \in 1..Len(s)
    BY <1>1
  <2> QED
    BY <2>1, InList
<1>5. ToSet(s) = {s[1]} \cup ToSet(u)
  BY <1>2, <1>3, <1>4
<1> QED
  BY <1>1, <1>5 DEF u

\* Two lists, one after the other, hold what either holds.
LEMMA ToSetConcat ==
  ASSUME NEW s \in Seq(Identity), NEW u \in Seq(Identity)
  PROVE  s \o u \in Seq(Identity) /\ ToSet(s \o u) = ToSet(s) \cup ToSet(u)
<1> DEFINE w == s \o u
<1>1. /\ w \in Seq(Identity) /\ Len(w) = Len(s) + Len(u) /\ Len(s) \in Nat /\ Len(u) \in Nat
      /\ \A k \in 1..Len(s) : w[k] = s[k]
  OBVIOUS
<1>2. \A k \in (Len(s) + 1)..(Len(s) + Len(u)) : w[k] = u[k - Len(s)]
  OBVIOUS
<1> HIDE DEF w
<1>3. ASSUME NEW x \in ToSet(s)  PROVE x \in ToSet(w)
  <2>1. PICK k \in 1..Len(s) : x = s[k]
    BY InList
  <2>2. k \in 1..Len(w) /\ x = w[k]
    BY <1>1, <2>1
  <2> QED
    BY <1>1, <2>2, InList
<1>4. ASSUME NEW x \in ToSet(u)  PROVE x \in ToSet(w)
  <2>1. PICK k \in 1..Len(u) : x = u[k]
    BY InList
  <2>2. /\ Len(s) + k \in (Len(s) + 1)..(Len(s) + Len(u)) /\ Len(s) + k \in 1..Len(w)
        /\ (Len(s) + k) - Len(s) = k
    BY <1>1, <2>1
  <2>3. x = w[Len(s) + k]
    BY <1>2, <2>1, <2>2
  <2> QED
    BY <1>1, <2>2, <2>3, InList
<1>5. ASSUME NEW x \in ToSet(w)  PROVE x \in ToSet(s) \cup ToSet(u)
  <2>1. PICK k \in 1..Len(w) : x = w[k]
    BY <1>1, InList
  <2>2. CASE k \in 1..Len(s)
    BY <1>1, <2>1, <2>2, InList
  <2>3. CASE k \notin 1..Len(s)
    <3>1. k \in (Len(s) + 1)..(Len(s) + Len(u)) /\ k - Len(s) \in 1..Len(u)
      BY <1>1, <2>1, <2>3
    <3> QED
      BY <1>2, <2>1, <3>1, InList
  <2> QED
    BY <2>2, <2>3
<1>6. ToSet(w) = ToSet(s) \cup ToSet(u)
  BY <1>3, <1>4, <1>5
<1> QED
  BY <1>1, <1>6 DEF w

\* What an episode asks for and what a target is built from are lists of identities.
LEMMA ListsOfIdentities ==
  ASSUME NEW e \in Manifests
  PROVE  e.targets \in Seq(Identity) /\ \A t \in Catalogue : e.inputs[t] \in Seq(Identity)
BY GraphAssumption

-----------------------------------------------------------------------------

\* A step that leaves the walk's own state alone keeps the invariant, when it starts from a
\* finished walk or goes on with none.
LEMMA RestOfTheCall ==
  ASSUME WalkInv, UNCHANGED <<episode, reached, pending>>, at' # "select",
         Walked' => Walked \/ (at = "reach" /\ pending = <<>>), at' # "reach"
  PROVE  WalkInv'
<1>1. Walking' => Walking /\ pending = <<>>
  BY DEF Walking, WalkInv
<1>2. Found'
  BY <1>1 DEF WalkInv, Found, Inputs
<1>3. Needed'
  BY DEF WalkInv, Needed, Closed, Inputs
<1> QED
  BY <1>1, <1>2, <1>3 DEF WalkInv

LEMMA SelectKeeps ==
  ASSUME WalkInv, Select
  PROVE  WalkInv'
<1>1. CASE ToSet(episode.targets) \subseteq Catalogue
  <2>1. /\ at' = "reach" /\ pending' = episode.targets /\ episode' = episode
        /\ reached' = {} /\ reached = {} /\ ~Walked'
    BY <1>1 DEF Select, WalkInv, Walked
  <2>2. ToSet(pending') = ToSet(episode'.targets) /\ ToSet(episode'.targets) \subseteq Catalogue
    BY <1>1, <2>1
  <2>3. Found'
    BY <2>1, <2>2 DEF Found
  <2>4. Needed'
    BY <2>1, <2>2 DEF Needed
  <2> QED
    BY <2>1, <2>3, <2>4, ListsOfIdentities DEF WalkInv
<1>2. CASE ~(ToSet(episode.targets) \subseteq Catalogue)
  <2>1. /\ at' = "refused" /\ ~Walked' /\ UNCHANGED <<episode, reached, pending>>
    BY <1>2 DEF Select, Refuse, Walked
  <2> QED
    BY <2>1, RestOfTheCall
<1> QED
  BY <1>1, <1>2

LEMMA VisitKeeps ==
  ASSUME WalkInv, Visit
  PROVE  WalkInv'
<1> DEFINE id == Head(pending)
<1>1. /\ id \in Identity /\ Tail(pending) \in Seq(Identity)
      /\ ToSet(pending) = {id} \cup ToSet(Tail(pending))
  BY HeadAndTail DEF WalkInv, Visit
<1>2. /\ at = "reach" /\ at' = "reach" /\ episode' = episode /\ ~Walked' /\ Walking
  BY DEF Visit, Walked, Walking
<1>3. CASE id \in Catalogue \ reached
  <2>1. reached' = reached \cup {id} /\ pending' = episode.inputs[id] \o Tail(pending)
    BY <1>3 DEF Visit
  <2>2. episode.inputs[id] \in Seq(Identity)
    BY <1>3, ListsOfIdentities DEF WalkInv
  <2>3. pending' \in Seq(Identity) /\ ToSet(pending') = Inputs(id) \cup ToSet(Tail(pending))
    BY <1>1, <2>1, <2>2, ToSetConcat DEF Inputs
  <2>4. Found'
    <3>1. /\ ToSet(episode.targets) \subseteq Catalogue
          /\ ToSet(episode.targets) \subseteq reached' \cup ToSet(pending')
      BY <1>1, <1>2, <2>1, <2>3 DEF WalkInv, Found
    <3>2. ASSUME NEW t \in reached'
          PROVE  Inputs(t) \cap Catalogue \subseteq reached' \cup ToSet(pending')
      <4>1. CASE t = id
        BY <4>1, <2>3
      <4>2. CASE t \in reached
        BY <4>2, <1>1, <1>2, <2>1, <2>3 DEF WalkInv, Found
      <4> QED
        BY <4>1, <4>2, <2>1
    <3> QED
      BY <1>2, <3>1, <3>2 DEF Found, Inputs
  <2>5. Needed'
    <3>1. SUFFICES ASSUME NEW S \in SUBSET Catalogue,
                          Closed(S), ToSet(episode.targets) \subseteq S
                   PROVE  reached' \subseteq S /\ ToSet(pending') \cap Catalogue \subseteq S
      BY <1>2 DEF Needed, Closed, Inputs
    <3>2. reached \subseteq S /\ ToSet(pending) \cap Catalogue \subseteq S
      BY <3>1 DEF WalkInv, Needed
    <3>3. id \in S /\ ToSet(Tail(pending)) \cap Catalogue \subseteq S
      BY <3>2, <1>1, <1>3
    <3>4. Inputs(id) \cap Catalogue \subseteq S
      BY <3>1, <3>3 DEF Closed
    <3> QED
      BY <3>2, <3>3, <3>4, <2>1, <2>3
  <2> QED
    BY <1>2, <1>3, <2>1, <2>3, <2>4, <2>5 DEF WalkInv
<1>4. CASE id \notin Catalogue \ reached
  <2>1. reached' = reached /\ pending' = Tail(pending)
    BY <1>4 DEF Visit
  <2>2. ToSet(pending) \cap Catalogue \subseteq reached \cup ToSet(pending')
    BY <1>1, <1>4, <2>1
  <2>3. Found'
    BY <1>2, <2>1, <2>2 DEF WalkInv, Found, Inputs
  <2>4. Needed'
    <3>1. ToSet(pending') \subseteq ToSet(pending)
      BY <1>1, <2>1
    <3> QED
      BY <1>2, <2>1, <3>1 DEF WalkInv, Needed, Closed, Inputs
  <2> QED
    BY <1>1, <1>2, <2>1, <2>3, <2>4 DEF WalkInv
<1> QED
  BY <1>3, <1>4

LEMMA CheckNodesKeeps ==
  ASSUME WalkInv, CheckNodes
  PROVE  WalkInv'
<1>1. UNCHANGED <<episode, reached, pending>> /\ at' \in {"refused", "cycle"}
  BY DEF CheckNodes, Refuse
<1>2. at = "reach" /\ pending = <<>>
  BY DEF CheckNodes
<1> QED
  BY <1>1, <1>2, RestOfTheCall

\* The cycle search reads what the walk reached and changes none of it.
LEMMA CycleSearchKeeps ==
  ASSUME WalkInv, EnterRoot \/ LookAtInput \/ Leave \/ Accept
  PROVE  WalkInv'
<1>1. at = "cycle" /\ Walked
  BY DEF EnterRoot, LookAtInput, Leave, Accept, Walked
<1>2. UNCHANGED <<episode, reached, pending>> /\ at' \in {"cycle", "refused", "accepted"}
  <2>1. CASE EnterRoot
    BY <1>1, <2>1 DEF EnterRoot
  <2>2. CASE LookAtInput
    BY <1>1, <2>2 DEF LookAtInput, Refuse
  <2>3. CASE Leave
    BY <1>1, <2>3 DEF Leave
  <2>4. CASE Accept
    BY <1>1, <2>4 DEF Accept
  <2> QED
    BY <2>1, <2>2, <2>3, <2>4
<1> QED
  BY <1>1, <1>2, RestOfTheCall

LEMMA StartsRight == Init => WalkInv
<1> SUFFICES ASSUME Init  PROVE WalkInv
  OBVIOUS
<1>1. episode \in Manifests /\ at = "select" /\ reached = {} /\ pending = <<>>
  BY DEF Init
<1>2. ToSet(pending) = {}
  BY <1>1 DEF ToSet
<1>3. ~Walked /\ ~Walking
  BY <1>1 DEF Walked, Walking
<1> QED
  BY <1>1, <1>2, <1>3 DEF WalkInv, Found, Needed

LEMMA EveryStepKeeps == WalkInv /\ [Next]_vars => WalkInv'
<1> SUFFICES ASSUME WalkInv, [Next]_vars  PROVE WalkInv'
  OBVIOUS
<1>1. CASE UNCHANGED vars
  BY <1>1 DEF vars, WalkInv, Found, Needed, Closed, Inputs, Walked, Walking
<1> QED
  BY <1>1, SelectKeeps, VisitKeeps, CheckNodesKeeps, CycleSearchKeeps DEF Next

\* A finished walk has nothing pending, so what it found is closed and holds the targets.
LEMMA FinishedWalk == WalkInv => ReachedIsClosure
<1> SUFFICES ASSUME WalkInv, Walked
             PROVE  /\ Closed(reached) /\ ToSet(episode.targets) \subseteq reached
                    /\ \A S \in SUBSET Catalogue :
                         Closed(S) /\ ToSet(episode.targets) \subseteq S => reached \subseteq S
  BY DEF ReachedIsClosure
<1>1. ToSet(pending) = {}
  BY DEF WalkInv, ToSet
<1>2. Closed(reached) /\ ToSet(episode.targets) \subseteq reached
  BY <1>1 DEF WalkInv, Found, Walking, Closed
<1> QED
  BY <1>2 DEF WalkInv, Needed

\* For every profile and every episode, cyclic and dangling ones included: what validateGraph
\* and buildGraph call reached is the least set of targets that holds the episode's and is
\* closed under inputs (reachable.ts reachableTargets).
THEOREM ReachIsClosure == Spec => []ReachedIsClosure
<1>1. WalkInv /\ [][Next]_vars => []WalkInv
  BY EveryStepKeeps, PTL
<1> QED
  BY <1>1, StartsRight, FinishedWalk, PTL DEF Spec

-----------------------------------------------------------------------------
(* What validateGraph decides.  Of an accepted episode, an order in which  *)
(* its targets can be built is put together as the depth-first search      *)
(* goes: a target that turns black is ranked above everything ranked so    *)
(* far (Ordered).  Of a refused one, any such order would have to fall     *)
(* along the path the search stands on (Falling), and the input that       *)
(* closes the cycle would lie below itself.                                *)

Frame == [id : Catalogue, rest : Seq(Identity)]

Searched == at \in {"cycle", "accepted"} \/ reason = "cycle"

Blacks == {t \in reached : color[t] = "black"}

Ranks(S) ==
  {rank \in [S -> 1..Cardinality(S)] : \A t \in S : \A i \in Inputs(t) \cap S : rank[i] < rank[t]}

\* What is gray is what is on the stack, once each.
OnPath ==
  /\ \A k \in 1..Len(stack) : stack[k].id \in reached /\ color[stack[k].id] = "gray"
  /\ \A t \in reached : color[t] = "gray" => \E k \in 1..Len(stack) : stack[k].id = t
  /\ \A j, k \in 1..Len(stack) : stack[j].id = stack[k].id => j = k

\* Each call of the search was made for an input of the one below it.
PathOfInputs ==
  /\ \A k \in 1..Len(stack) : ToSet(stack[k].rest) \subseteq Inputs(stack[k].id)
  /\ \A k \in 1..Len(stack) : k < Len(stack) => stack[k + 1].id \in Inputs(stack[k].id)

\* Of a target on the stack, an input that has been looked at is black or is being searched.
LookedAt ==
  \A k \in 1..Len(stack) : \A i \in Inputs(stack[k].id) \cap reached :
    \/ color[i] = "black"
    \/ i \in ToSet(stack[k].rest)
    \/ k < Len(stack) /\ i = stack[k + 1].id

\* What is black needs nothing that is not, and can be built in some order.
Ordered ==
  /\ \A t \in Blacks : Inputs(t) \cap reached \subseteq Blacks
  /\ Ranks(Blacks) # {}

\* In every order that respects the edges, the path the search stands on falls.
Falling ==
  \A rank \in Ranks(reached) : \A j, k \in 1..Len(stack) :
    j < k => rank[stack[k].id] < rank[stack[j].id]

\* Where a search ended: with nothing white, or in front of an input that is gray.
Ended ==
  /\ at = "accepted" => stack = <<>> /\ Roots = {}
  /\ reason = "cycle" =>
       /\ stack # <<>> /\ Last(stack).rest # <<>>
       /\ Head(Last(stack).rest) \in reached
       /\ color[Head(Last(stack).rest)] = "gray"

SearchOK ==
  /\ color \in [reached -> Colors] /\ stack \in Seq(Frame)
  /\ OnPath /\ PathOfInputs /\ LookedAt /\ Ordered /\ Falling

\* What the rules said of the graph when the walk was over.
Judged ==
  /\ at # "refused" => reason = Nil
  /\ at = "refused" => reason \in Reasons
  /\ at \in {"cycle", "accepted"} => Refusal = Nil
  /\ reason \in {"two-kinds", "zone", "follows", "dangling"} => reason = Refusal

SearchInv ==
  /\ WalkInv
  /\ at \in {"select", "reach", "cycle", "accepted", "refused"}
  /\ IsFiniteSet(reached)
  /\ Judged
  /\ ~Searched => color = <<>> /\ stack = <<>>
  /\ Searched => SearchOK
  /\ Ended

-----------------------------------------------------------------------------
(* The stack. *)

LEMMA TopOfStack ==
  ASSUME stack \in Seq(Frame), stack # <<>>
  PROVE  /\ Len(stack) \in Nat \ {0} /\ Len(stack) \in 1..Len(stack)
         /\ Last(stack) = stack[Len(stack)] /\ Last(stack) \in Frame
         /\ Last(stack).id \in Catalogue /\ Last(stack).rest \in Seq(Identity)
<1>1. Len(stack) \in Nat \ {0} /\ stack[Len(stack)] \in Frame
  OBVIOUS
<1>2. Last(stack) = stack[Len(stack)]
  BY DEF Last
<1> QED
  BY <1>1, <1>2 DEF Frame

\* The input that is looked at leaves the list of the target on top, and nothing else moves.
LEMMA ConsumedStack ==
  ASSUME stack \in Seq(Frame), stack # <<>>, Last(stack).rest # <<>>
  PROVE  /\ Consumed \in Seq(Frame) /\ Len(Consumed) = Len(stack)
         /\ \A k \in 1..Len(stack) : k < Len(stack) => Consumed[k] = stack[k]
         /\ Consumed[Len(stack)] = [id |-> Last(stack).id, rest |-> Tail(Last(stack).rest)]
<1> DEFINE n == Len(stack)
           top == stack[n]
           f == [top EXCEPT !.rest = Tail(top.rest)]
<1>1. n \in Nat \ {0} /\ n \in 1..n /\ Last(stack) = top /\ top \in Frame /\ n \in DOMAIN stack
  BY TopOfStack
<1>2. Consumed = [stack EXCEPT ![n] = f]
  BY DEF Consumed
<1>3. Tail(top.rest) \in Seq(Identity)
  BY <1>1, TopOfStack, HeadAndTail
<1>4. f = [id |-> top.id, rest |-> Tail(top.rest)] /\ f \in Frame
  <2> DEFINE r == Tail(top.rest)
  <2>1. r \in Seq(Identity)
    BY <1>3
  <2> HIDE DEF top, r
  <2>2. [top EXCEPT !.rest = r] = [id |-> top.id, rest |-> r] /\ top.id \in Catalogue
    BY <1>1 DEF Frame
  <2> QED
    BY <2>1, <2>2 DEF r, Frame
<1> HIDE DEF n, top, f
<1>5. [stack EXCEPT ![n] = f] \in Seq(Frame) /\ Len([stack EXCEPT ![n] = f]) = Len(stack)
  BY <1>1, <1>4
<1>6. /\ [stack EXCEPT ![n] = f][n] = f
      /\ \A k \in 1..Len(stack) : k # n => [stack EXCEPT ![n] = f][k] = stack[k]
  BY <1>1
<1> QED
  BY <1>1, <1>2, <1>4, <1>5, <1>6 DEF n, top

LEMMA PushedStack ==
  ASSUME NEW s \in Seq(Frame), NEW f \in Frame
  PROVE  /\ Append(s, f) \in Seq(Frame) /\ Len(Append(s, f)) = Len(s) + 1
         /\ Append(s, f)[Len(s) + 1] = f
         /\ \A k \in 1..Len(s) : Append(s, f)[k] = s[k]
OBVIOUS

\* What is left of a list whose last member is taken away.
LEMMA AllButLast ==
  ASSUME NEW S, NEW s \in Seq(S), s # <<>>
  PROVE  /\ Front(s) \in Seq(S) /\ Len(Front(s)) = Len(s) - 1
         /\ \A k \in 1..(Len(s) - 1) : Front(s)[k] = s[k]
<1>1. Len(s) \in Nat \ {0}
  OBVIOUS
<1> DEFINE m == Len(s) - 1
<1>2. m \in Nat /\ 1 \in Int /\ m \in Int /\ \A k \in 1..m : s[k] \in S
  BY <1>1
<1> HIDE DEF m
<1>3. /\ SubSeq(s, 1, m) \in Seq(S)
      /\ Len(SubSeq(s, 1, m)) = IF 1 <= m THEN m - 1 + 1 ELSE 0
      /\ \A k \in 1..(m - 1 + 1) : SubSeq(s, 1, m)[k] = s[1 + k - 1]
  BY <1>2, SubSeqProperties
<1>4. Len(SubSeq(s, 1, m)) = m /\ \A k \in 1..m : SubSeq(s, 1, m)[k] = s[k]
  BY <1>2, <1>3
<1>5. Front(s) = SubSeq(s, 1, m)
  BY DEF Front, m
<1> QED
  BY <1>3, <1>4, <1>5 DEF m

-----------------------------------------------------------------------------
(* One lemma for each way the search moves. *)

\* A white target turns gray and its search is put on top of the one that met it, if any.
LEMMA Descends ==
  ASSUME WalkInv, SearchOK, UNCHANGED <<episode, reached>>,
         NEW i \in reached, color[i] = "white", color' = [color EXCEPT ![i] = "gray"],
         stack' \in Seq(Frame), Len(stack') = Len(stack) + 1,
         \A k \in 1..Len(stack) : stack'[k].id = stack[k].id,
         \A k \in 1..Len(stack) : k < Len(stack) => stack'[k].rest = stack[k].rest,
         stack'[Len(stack) + 1] = [id |-> i, rest |-> episode.inputs[i]],
         Len(stack) > 0 =>
           /\ i \in Inputs(stack[Len(stack)].id)
           /\ ToSet(stack[Len(stack)].rest) = {i} \cup ToSet(stack'[Len(stack)].rest)
  PROVE  SearchOK'
<1> DEFINE n == Len(stack)
<1>1. n \in Nat /\ Len(stack') = n + 1
  BY DEF SearchOK
<1>2. /\ color' \in [reached -> Colors] /\ color'[i] = "gray"
      /\ \A t \in reached : t # i => color'[t] = color[t]
  BY DEF SearchOK, Colors
<1>3. stack'[n + 1].id = i /\ stack'[n + 1].rest = episode.inputs[i]
  OBVIOUS
<1>4. \A k \in 1..(n + 1) : k \in 1..n \/ k = n + 1
  BY <1>1
<1>5. \A k \in 1..n : stack[k].id # i
  BY DEF SearchOK, OnPath
<1>6. \A k \in 1..n : ToSet(stack'[k].rest) \subseteq ToSet(stack[k].rest)
  BY SMTT(30), <1>1
<1> HIDE DEF n
<1>7. OnPath'
  <2>1. \A k \in 1..(n + 1) : stack'[k].id \in reached /\ color'[stack'[k].id] = "gray"
    BY <1>2, <1>3, <1>4, <1>5 DEF SearchOK, OnPath, n
  <2>2. ASSUME NEW t \in reached, color'[t] = "gray"
        PROVE  \E k \in 1..(n + 1) : stack'[k].id = t
    <3>1. CASE t = i
      BY <3>1, <1>1, <1>3
    <3>2. CASE t # i
      <4>1. PICK k \in 1..n : stack[k].id = t
        BY <3>2, <2>2, <1>2 DEF SearchOK, OnPath, n
      <4>2. k \in 1..(n + 1) /\ stack'[k].id = t
        BY <4>1, <1>1 DEF n
      <4> QED
        BY <4>2
    <3> QED
      BY <3>1, <3>2
  <2>3. \A j, k \in 1..(n + 1) : stack'[j].id = stack'[k].id => j = k
    BY <1>3, <1>4, <1>5 DEF SearchOK, OnPath, n
  <2> QED
    BY <2>1, <2>2, <2>3, <1>1 DEF OnPath
<1>8. PathOfInputs'
  <2>1. ASSUME NEW k \in 1..(n + 1)
        PROVE  ToSet(stack'[k].rest) \subseteq Inputs(stack'[k].id)
    <3>1. CASE k \in 1..n
      BY <3>1, <1>6 DEF SearchOK, PathOfInputs, n
    <3>2. CASE k = n + 1
      BY <3>2, <1>3 DEF Inputs
    <3> QED
      BY <3>1, <3>2, <1>4
  <2>2. ASSUME NEW k \in 1..(n + 1), k < n + 1
        PROVE  stack'[k + 1].id \in Inputs(stack'[k].id)
    <3>1. k \in 1..n /\ (k < n => k + 1 \in 1..n)
      BY <2>2, <1>1
    <3>2. CASE k = n
      BY <3>1, <3>2, <1>1, <1>3 DEF n
    <3>3. CASE k < n
      <4>1. stack'[k + 1].id = stack[k + 1].id /\ stack'[k].id = stack[k].id
        BY <3>1, <3>3 DEF n
      <4> QED
        BY <3>1, <3>3, <4>1 DEF SearchOK, PathOfInputs, n
    <3> QED
      BY <3>1, <3>2, <3>3, <1>1
  <2> QED
    BY <2>1, <2>2, <1>1 DEF PathOfInputs, Inputs
<1>9. LookedAt'
  <2>1. ASSUME NEW k \in 1..(n + 1), NEW x \in Inputs(stack'[k].id) \cap reached
        PROVE  \/ color'[x] = "black"
               \/ x \in ToSet(stack'[k].rest)
               \/ k < n + 1 /\ x = stack'[k + 1].id
    <3>1. CASE k = n + 1
      BY <3>1, <2>1, <1>3 DEF Inputs
    <3>2. CASE k \in 1..n
      <4>1. x \in Inputs(stack[k].id) \cap reached
        BY <3>2, <2>1 DEF n
      <4>2. CASE color[x] = "black"
        BY <4>2, <1>2, <2>1
      <4>3. CASE x \in ToSet(stack[k].rest)
        <5>1. CASE k = n
          <6>1. x = i \/ x \in ToSet(stack'[k].rest)
            BY <5>1, <4>3, <3>2, <1>1 DEF n
          <6> QED
            BY <6>1, <5>1, <1>1, <1>3
        <5>2. CASE k # n
          BY <5>2, <4>3, <3>2, <1>1 DEF n
        <5> QED
          BY <5>1, <5>2
      <4>4. CASE k < n /\ x = stack[k + 1].id
        <5>1. k + 1 \in 1..n /\ k < n + 1
          BY <3>2, <4>4, <1>1
        <5> QED
          BY <5>1, <4>4 DEF n
      <4> QED
        BY <3>2, <4>1, <4>2, <4>3, <4>4 DEF SearchOK, LookedAt, n
    <3> QED
      BY <3>1, <3>2, <1>4
  <2> QED
    BY <2>1, <1>1 DEF LookedAt, Inputs
<1>10. Blacks' = Blacks
  BY <1>2 DEF Blacks
<1>11. Ordered'
  BY <1>10 DEF SearchOK, Ordered, Ranks, Inputs
<1>12. Falling'
  <2>1. Ranks(reached)' = Ranks(reached)
    BY DEF Ranks, Inputs
  <2>2. ASSUME NEW rank \in Ranks(reached), NEW j \in 1..(n + 1), NEW k \in 1..(n + 1), j < k
        PROVE  rank[stack'[k].id] < rank[stack'[j].id]
    <3>1. j \in 1..n
      BY <2>2, <1>1
    <3>2. CASE k \in 1..n
      BY <3>1, <3>2, <2>2 DEF SearchOK, Falling, n
    <3>3. CASE k = n + 1
      <4>1. n \in 1..n /\ n > 0 /\ (j = n \/ j < n)
        BY <3>1, <1>1
      <4>2. stack[n].id \in reached /\ i \in Inputs(stack[n].id) \cap reached
        BY <4>1 DEF SearchOK, OnPath, n
      <4>3. rank[i] < rank[stack[n].id]
        BY <4>2 DEF Ranks
      <4>4. j < n => rank[stack[n].id] < rank[stack[j].id]
        BY <3>1, <4>1 DEF SearchOK, Falling, n
      <4>5. rank[i] \in Int /\ rank[stack[n].id] \in Int /\ rank[stack[j].id] \in Int
        <5>1. rank \in [reached -> Int]
          BY DEF Ranks
        <5> QED
          BY <5>1, <3>1, <4>1 DEF SearchOK, OnPath, n
      <4>6. stack'[j].id = stack[j].id /\ stack'[k].id = i
        BY <3>1, <3>3, <1>3 DEF n
      <4> QED
        BY <4>1, <4>3, <4>4, <4>5, <4>6
    <3> QED
      BY <3>2, <3>3, <1>4
  <2> QED
    BY <2>1, <2>2, <1>1 DEF Falling
<1> QED
  BY <1>2, <1>7, <1>8, <1>9, <1>11, <1>12 DEF SearchOK

\* An input that is no target, or is black, is passed over.
LEMMA PassesOver ==
  ASSUME WalkInv, SearchOK, UNCHANGED <<episode, reached, color>>,
         stack # <<>>, Last(stack).rest # <<>>, stack' = Consumed,
         NEW i, i = Head(Last(stack).rest), i \in reached => color[i] = "black"
  PROVE  SearchOK'
<1> DEFINE n == Len(stack)
<1>1. /\ n \in Nat \ {0} /\ n \in 1..n /\ Last(stack) = stack[n]
      /\ stack[n].rest \in Seq(Identity) /\ stack[n].rest # <<>>
  BY TopOfStack DEF SearchOK
<1>2. /\ stack' \in Seq(Frame) /\ Len(stack') = n
      /\ \A k \in 1..n : k < n => stack'[k] = stack[k]
      /\ stack'[n] = [id |-> stack[n].id, rest |-> Tail(stack[n].rest)]
  BY <1>1, ConsumedStack DEF SearchOK
<1>3. ToSet(stack[n].rest) = {i} \cup ToSet(Tail(stack[n].rest))
  BY <1>1, HeadAndTail
<1> DEFINE Id(k) == stack[k].id
           Rest(k) == stack[k].rest
<1>4. \A k \in 1..n : stack'[k].id = Id(k)
  BY <1>1, <1>2
<1>5. \A k \in 1..n : /\ ToSet(stack'[k].rest) \subseteq ToSet(Rest(k))
                      /\ ToSet(Rest(k)) \subseteq {i} \cup ToSet(stack'[k].rest)
  <2> SUFFICES ASSUME NEW k \in 1..n
               PROVE  /\ ToSet(stack'[k].rest) \subseteq ToSet(Rest(k))
                      /\ ToSet(Rest(k)) \subseteq {i} \cup ToSet(stack'[k].rest)
    OBVIOUS
  <2>1. CASE k = n
    BY <2>1, <1>2, <1>3
  <2>2. CASE k < n
    BY <2>2, <1>2
  <2> QED
    BY <2>1, <2>2, <1>1
<1>6. \A k \in 1..n : k < n => k + 1 \in 1..n
  BY <1>1
<1> HIDE DEF n
<1>7. OnPath'
  BY <1>2, <1>4 DEF SearchOK, OnPath, n
<1>8. PathOfInputs'
  BY ZenonT(60), <1>2, <1>4, <1>5, <1>6 DEF SearchOK, PathOfInputs, Inputs, n
<1>9. LookedAt'
  <2> SUFFICES ASSUME NEW k \in 1..n, NEW x \in Inputs(Id(k)) \cap reached
               PROVE  \/ color[x] = "black"
                      \/ x \in ToSet(stack'[k].rest)
                      \/ k < n /\ x = stack'[k + 1].id
    BY <1>2, <1>4 DEF LookedAt, Inputs
  <2> QED
    BY <1>4, <1>5, <1>6 DEF SearchOK, LookedAt, n
<1>10. Ordered'
  <2>1. Blacks' = Blacks
    BY DEF Blacks
  <2>2. \A S : Ranks(S)' = Ranks(S)
    BY DEF Ranks, Inputs
  <2> QED
    BY <2>1, <2>2 DEF SearchOK, Ordered, Ranks, Inputs
<1>11. Falling'
  <2>1. Ranks(reached)' = Ranks(reached)
    BY DEF Ranks, Inputs
  <2> QED
    BY <2>1, <1>2, <1>4 DEF SearchOK, Falling, n
<1> QED
  BY <1>2, <1>7, <1>8, <1>9, <1>10, <1>11 DEF SearchOK

\* The order found so far goes on with the target that turns black.
LEMMA OrderGrows ==
  ASSUME IsFiniteSet(reached), color \in [reached -> Colors], Ordered,
         UNCHANGED <<episode, reached>>,
         NEW t \in reached, color[t] = "gray", color' = [color EXCEPT ![t] = "black"],
         Inputs(t) \cap reached \subseteq Blacks
  PROVE  Ordered'
<1> DEFINE B == Blacks
           c == Cardinality(Blacks)
<1>1. Blacks' = B \cup {t} /\ t \notin B /\ B \subseteq reached
  BY DEF Blacks, Colors
<1>2. c \in Nat /\ Cardinality(B \cup {t}) = c + 1
  <2>1. IsFiniteSet(B)
    BY <1>1, FS_Subset
  <2> QED
    BY <2>1, <1>1, FS_AddElement, FS_CardinalityType
<1>3. PICK rank \in [B -> 1..c] : \A x \in B : \A y \in Inputs(x) \cap B : rank[y] < rank[x]
  BY DEF Ordered, Ranks
<1> DEFINE grown == [x \in B \cup {t} |-> IF x = t THEN c + 1 ELSE rank[x]]
<1>4. grown \in [B \cup {t} -> 1..(c + 1)]
  BY <1>2, <1>3
<1>5. ASSUME NEW x \in B \cup {t}, NEW y \in Inputs(x) \cap (B \cup {t})
      PROVE  grown[y] < grown[x]
  <2>1. y \in B /\ y # t
    BY <1>1, <1>5 DEF Ordered
  <2>2. grown[y] = rank[y] /\ rank[y] \in 1..c
    BY <2>1, <1>3
  <2>3. CASE x = t
    BY <2>2, <2>3, <1>2
  <2>4. CASE x # t
    <3>1. x \in B /\ grown[x] = rank[x]
      BY <2>4
    <3> QED
      BY <3>1, <2>1, <2>2, <1>3, <1>5
  <2> QED
    BY <2>3, <2>4
<1>6. grown \in Ranks(Blacks)'
  BY <1>1, <1>2, <1>4, <1>5 DEF Ranks, Inputs
<1>7. \A x \in Blacks' : Inputs(x) \cap reached \subseteq Blacks'
  BY <1>1 DEF Ordered
<1> QED
  BY <1>6, <1>7 DEF Ordered, Inputs

\* A target all of whose inputs were looked at turns black and its search is over.
LEMMA Returns ==
  ASSUME WalkInv, IsFiniteSet(reached), SearchOK, Leave
  PROVE  SearchOK'
<1> DEFINE n == Len(stack)
           t == stack[n].id
<1>1. /\ UNCHANGED <<episode, reached>> /\ stack # <<>> /\ Last(stack).rest = <<>>
      /\ color' = [color EXCEPT ![Last(stack).id] = "black"] /\ stack' = Front(stack)
  BY DEF Leave
<1>2. n \in Nat \ {0} /\ n \in 1..n /\ Last(stack) = stack[n] /\ stack[n].rest = <<>>
  BY <1>1, TopOfStack DEF SearchOK
<1>3. /\ stack' \in Seq(Frame) /\ Len(stack') = n - 1
      /\ \A k \in 1..(n - 1) : stack'[k] = stack[k]
  BY <1>1, AllButLast DEF SearchOK
<1>4. t \in reached /\ color[t] = "gray" /\ color' = [color EXCEPT ![t] = "black"]
  BY <1>1, <1>2 DEF SearchOK, OnPath
<1>5. /\ color' \in [reached -> Colors] /\ color'[t] = "black"
      /\ \A x \in reached : x # t => color'[x] = color[x]
  BY <1>4 DEF SearchOK, Colors
<1>6. \A k \in 1..(n - 1) : k \in 1..n /\ k < n /\ k + 1 \in 1..n /\ stack[k].id # t
  BY <1>2 DEF SearchOK, OnPath
<1>7. ToSet(stack[n].rest) = {}
  BY <1>2 DEF ToSet
<1> HIDE DEF n, t
<1>8. OnPath'
  <2>1. \A k \in 1..(n - 1) : stack'[k].id \in reached /\ color'[stack'[k].id] = "gray"
    BY <1>3, <1>5, <1>6 DEF SearchOK, OnPath, n
  <2>2. ASSUME NEW x \in reached, color'[x] = "gray"
        PROVE  \E k \in 1..(n - 1) : stack'[k].id = x
    <3>1. x # t /\ color[x] = "gray"
      BY <2>2, <1>5
    <3>2. PICK k \in 1..n : stack[k].id = x
      BY <3>1 DEF SearchOK, OnPath, n
    <3>3. k \in 1..(n - 1)
      BY <3>1, <3>2, <1>2 DEF t
    <3> QED
      BY <3>2, <3>3, <1>3
  <2>3. \A j, k \in 1..(n - 1) : stack'[j].id = stack'[k].id => j = k
    BY <1>3, <1>6 DEF SearchOK, OnPath, n
  <2> QED
    BY <2>1, <2>2, <2>3, <1>1, <1>3 DEF OnPath
<1>9. PathOfInputs'
  <2>1. \A k \in 1..(n - 1) : ToSet(stack'[k].rest) \subseteq Inputs(stack'[k].id)
    BY <1>3, <1>6 DEF SearchOK, PathOfInputs, n
  <2>2. ASSUME NEW k \in 1..(n - 1), k < n - 1
        PROVE  stack'[k + 1].id \in Inputs(stack'[k].id)
    <3>1. k + 1 \in 1..(n - 1)
      BY <2>2, <1>2
    <3> QED
      BY <3>1, <1>3, <1>6 DEF SearchOK, PathOfInputs, n
  <2> QED
    BY <2>1, <2>2, <1>1, <1>3 DEF PathOfInputs, Inputs
<1>10. LookedAt'
  <2> SUFFICES ASSUME NEW k \in 1..(n - 1), NEW x \in Inputs(stack[k].id) \cap reached
               PROVE  \/ color'[x] = "black"
                      \/ x \in ToSet(stack[k].rest)
                      \/ k < n - 1 /\ x = stack'[k + 1].id
    BY <1>1, <1>3 DEF LookedAt, Inputs
  <2>1. CASE color[x] = "black"
    BY <2>1, <1>4, <1>5
  <2>2. CASE x = stack[k + 1].id
    <3>1. CASE k + 1 = n
      BY <3>1, <2>2, <1>5 DEF t
    <3>2. CASE k + 1 # n
      <4>1. k < n - 1 /\ k + 1 \in 1..(n - 1)
        BY <3>2, <1>2
      <4> QED
        BY <4>1, <2>2, <1>3
    <3> QED
      BY <3>1, <3>2
  <2> QED
    BY <2>1, <2>2, <1>6 DEF SearchOK, LookedAt, n
<1>11. Ordered'
  <2>1. Inputs(t) \cap reached \subseteq Blacks
    BY <1>2, <1>7 DEF SearchOK, LookedAt, Blacks, n, t
  <2> QED
    BY <2>1, <1>1, <1>4, OrderGrows DEF SearchOK
<1>12. Falling'
  <2>1. Ranks(reached)' = Ranks(reached)
    BY <1>1 DEF Ranks, Inputs
  <2> QED
    BY <2>1, <1>3, <1>6 DEF SearchOK, Falling, n
<1> QED
  BY <1>1, <1>3, <1>5, <1>8, <1>9, <1>10, <1>11, <1>12 DEF SearchOK

-----------------------------------------------------------------------------
(* One lemma for each action. *)

\* Nil is no reason, and the rules give none but theirs.
LEMMA RulesGiveReasons ==
  /\ Nil \notin Reasons
  /\ Refusal \in {"two-kinds", "zone", "follows", "dangling"} \cup {Nil}
BY GraphAssumption DEF Refusal

\* The rules look at the episode and at what was reached.
LEMMA SameRefusal ==
  ASSUME UNCHANGED <<episode, reached>>
  PROVE  Refusal' = Refusal
BY DEF Refusal, FollowsNodes, GraphNode, Inputs

\* What the search needs to know when a step moves none of its state.
LEMMA SearchStays ==
  ASSUME SearchOK, UNCHANGED <<episode, reached, color, stack>>
  PROVE  SearchOK'
<1>1. Blacks' = Blacks /\ \A S : Ranks(S)' = Ranks(S)
  BY DEF Blacks, Ranks, Inputs
<1>2. OnPath' /\ PathOfInputs' /\ LookedAt'
  BY DEF SearchOK, OnPath, PathOfInputs, LookedAt, Inputs
<1>3. Ordered' /\ Falling'
  BY <1>1 DEF SearchOK, Ordered, Falling, Inputs
<1> QED
  BY <1>2, <1>3 DEF SearchOK

LEMMA SelectSearch ==
  ASSUME SearchInv, Select
  PROVE  SearchInv'
<1>1. /\ at = "select" /\ UNCHANGED <<episode, reached, color, stack>>
      /\ \/ at' = "reach" /\ reason' = reason
         \/ at' = "refused" /\ reason' = "undeclared-target"
  BY DEF Select, Refuse
<1>2. ~Searched /\ ~Searched' /\ reason = Nil
  BY <1>1, RulesGiveReasons DEF SearchInv, Judged, Searched, Reasons
<1>3. Judged'
  BY <1>1, <1>2, RulesGiveReasons DEF Judged, Reasons
<1>4. Ended'
  BY <1>1, <1>2, RulesGiveReasons DEF Ended, Reasons
<1> QED
  BY <1>1, <1>2, <1>3, <1>4, SelectKeeps DEF SearchInv

LEMMA VisitSearch ==
  ASSUME SearchInv, Visit
  PROVE  SearchInv'
<1>1. /\ at = "reach" /\ UNCHANGED <<episode, at, reason, color, stack>>
      /\ reached' = reached \/ reached' = reached \cup {Head(pending)}
  BY DEF Visit
<1>2. ~Searched /\ ~Searched' /\ reason = Nil
  BY <1>1, RulesGiveReasons DEF SearchInv, Judged, Searched, Reasons
<1>3. IsFiniteSet(reached')
  BY <1>1, FS_AddElement DEF SearchInv
<1>4. Judged'
  BY <1>1, <1>2, RulesGiveReasons DEF Judged, Reasons
<1>5. Ended'
  BY <1>1, <1>2, RulesGiveReasons DEF Ended, Reasons
<1> QED
  BY <1>1, <1>2, <1>3, <1>4, <1>5, VisitKeeps DEF SearchInv

\* The search starts with everything white, nothing on the stack and nothing ordered.
LEMMA CheckNodesSearch ==
  ASSUME SearchInv, CheckNodes
  PROVE  SearchInv'
<1>1. at = "reach" /\ UNCHANGED <<episode, reached, stack>>
  BY DEF CheckNodes, Refuse
<1>2. ~Searched /\ reason = Nil /\ stack = <<>> /\ color = <<>>
  BY <1>1, RulesGiveReasons DEF SearchInv, Judged, Searched, Reasons
<1>3. CASE Refusal # Nil
  <2>1. at' = "refused" /\ reason' = Refusal /\ color' = color
    BY <1>3 DEF CheckNodes, Refuse
  <2>2. ~Searched'
    BY <2>1, <1>3, RulesGiveReasons DEF Searched
  <2>3. Judged'
    BY <2>1, <1>1, <1>3, RulesGiveReasons, SameRefusal DEF Judged, Reasons
  <2>4. Ended'
    BY <2>1, <1>3, RulesGiveReasons DEF Ended
  <2> QED
    BY <2>1, <2>2, <2>3, <2>4, <1>1, <1>2, CheckNodesKeeps DEF SearchInv
<1>4. CASE Refusal = Nil
  <2>1. at' = "cycle" /\ reason' = reason /\ color' = [t \in reached |-> "white"]
    BY <1>4 DEF CheckNodes
  <2>2. Blacks' = {}
    BY <2>1, <1>1 DEF Blacks
  <2>3. [t \in {} |-> 1] \in Ranks({})'
    BY DEF Ranks
  <2>4. Ordered'
    BY <2>2, <2>3 DEF Ordered
  <2>5. Len(stack') = 0 /\ stack' \in Seq(Frame)
    BY <1>1, <1>2
  <2>6. OnPath' /\ PathOfInputs' /\ LookedAt' /\ Falling'
    BY <2>1, <2>5, <1>1 DEF OnPath, PathOfInputs, LookedAt, Falling
  <2>7. SearchOK'
    BY <2>1, <2>4, <2>5, <2>6, <1>1 DEF SearchOK, Colors
  <2>8. Judged'
    BY <2>1, <1>1, <1>2, <1>4, RulesGiveReasons, SameRefusal DEF Judged, Reasons
  <2>9. Ended' /\ Searched'
    BY <2>1, <1>2, RulesGiveReasons DEF Ended, Reasons, Searched
  <2> QED
    BY <2>1, <2>7, <2>8, <2>9, <1>1, CheckNodesKeeps DEF SearchInv
<1> QED
  BY <1>3, <1>4

\* A step of the search that refuses nothing changes nothing that was judged.
LEMMA StillSearching ==
  ASSUME SearchInv, at = "cycle", UNCHANGED <<episode, at, reason, reached>>,
         WalkInv', SearchOK'
  PROVE  SearchInv'
<1>1. reason = Nil /\ Refusal' = Refusal
  BY SameRefusal DEF SearchInv, Judged
<1>2. Judged'
  BY <1>1, RulesGiveReasons DEF SearchInv, Judged, Reasons
<1>3. Ended' /\ Searched'
  BY <1>1, RulesGiveReasons DEF Ended, Searched, Reasons
<1> QED
  BY <1>2, <1>3 DEF SearchInv

LEMMA EnterRootSearch ==
  ASSUME SearchInv, EnterRoot
  PROVE  SearchInv'
<1>1. /\ at = "cycle" /\ UNCHANGED <<episode, at, reason, reached>> /\ stack = <<>>
      /\ WalkInv /\ SearchOK
  BY DEF EnterRoot, SearchInv, Searched
<1>2. PICK k \in Roots :
        /\ color' = [color EXCEPT ![episode.targets[k]] = "gray"]
        /\ stack' = <<[id |-> episode.targets[k], rest |-> episode.inputs[episode.targets[k]]]>>
  BY DEF EnterRoot
<1> DEFINE i == episode.targets[k]
<1>3. i \in ToSet(episode.targets) /\ color[i] = "white"
  BY DEF Roots, ToSet
<1>4. i \in reached /\ i \in Catalogue
  BY <1>1, <1>3 DEF WalkInv, Found, Walking, Walked, ToSet
<1>5. episode.inputs[i] \in Seq(Identity)
  BY <1>1, <1>4, ListsOfIdentities DEF WalkInv
<1> HIDE DEF i
<1>6. [id |-> i, rest |-> episode.inputs[i]] \in Frame
  BY <1>4, <1>5 DEF Frame
<1>7. /\ Len(stack) = 0 /\ stack' \in Seq(Frame) /\ Len(stack') = Len(stack) + 1
      /\ stack'[Len(stack) + 1] = [id |-> i, rest |-> episode.inputs[i]]
      /\ \A l \in 1..Len(stack) : FALSE
  BY <1>1, <1>2, <1>6 DEF i
<1>8. SearchOK'
  <2>1. /\ ~(Len(stack) > 0) /\ UNCHANGED <<episode, reached>>
        /\ \A l \in 1..Len(stack) : stack'[l].id = stack[l].id
        /\ \A l \in 1..Len(stack) : l < Len(stack) => stack'[l].rest = stack[l].rest
    BY <1>1, <1>7
  <2>2. color' = [color EXCEPT ![i] = "gray"]
    BY <1>2 DEF i
  <2> QED
    BY <2>1, <2>2, <1>1, <1>3, <1>4, <1>7, Descends
<1> QED
  BY <1>1, <1>8, StillSearching, CycleSearchKeeps

LEMMA LookAtInputSearch ==
  ASSUME SearchInv, LookAtInput
  PROVE  SearchInv'
<1> DEFINE i == Head(Last(stack).rest)
           n == Len(stack)
           top == stack[n]
           f == [id |-> i, rest |-> episode.inputs[i]]
<1>1. /\ at = "cycle" /\ stack # <<>> /\ Last(stack).rest # <<>>
      /\ UNCHANGED <<episode, reached>> /\ WalkInv /\ SearchOK
  BY DEF LookAtInput, Refuse, SearchInv, Searched
<1>2. /\ n \in Nat \ {0} /\ n \in 1..n /\ Last(stack) = top /\ top \in Frame
      /\ top.rest \in Seq(Identity) /\ top.rest # <<>>
  BY <1>1, TopOfStack DEF SearchOK
<1>3. ToSet(top.rest) = {i} \cup ToSet(Tail(top.rest))
  BY <1>2, HeadAndTail
<1>4. WalkInv'
  BY <1>1, CycleSearchKeeps
<1>5. CASE i \in reached /\ color[i] = "gray"
  <2>1. at' = "refused" /\ reason' = "cycle" /\ UNCHANGED <<color, stack>>
    BY <1>5 DEF LookAtInput, Refuse
  <2>2. SearchOK'
    BY <2>1, <1>1, SearchStays
  <2>3. Judged'
    BY <2>1 DEF Judged, Reasons
  <2>4. Ended' /\ Searched'
    BY <2>1, <1>1, <1>5 DEF Ended, Searched
  <2> QED
    BY <2>1, <2>2, <2>3, <2>4, <1>1, <1>4 DEF SearchInv
<1>6. CASE i \in reached /\ color[i] = "white"
  <2>1. /\ color' = [color EXCEPT ![i] = "gray"] /\ stack' = Append(Consumed, f)
        /\ UNCHANGED <<at, reason>>
    BY <1>6 DEF LookAtInput, Refuse
  <2>2. episode.inputs[i] \in Seq(Identity) /\ i \in Catalogue
    BY <1>6, <1>1, ListsOfIdentities DEF WalkInv
  <2>3. f \in Frame
    BY <2>2 DEF Frame
  <2>4. /\ Consumed \in Seq(Frame) /\ Len(Consumed) = n
        /\ \A k \in 1..n : k < n => Consumed[k] = stack[k]
        /\ Consumed[n] = [id |-> top.id, rest |-> Tail(top.rest)]
    BY <1>1, <1>2, ConsumedStack DEF SearchOK
  <2> HIDE DEF f, n
  <2>5. /\ stack' \in Seq(Frame) /\ Len(stack') = n + 1 /\ stack'[n + 1] = f
        /\ \A k \in 1..n : stack'[k] = Consumed[k]
    BY <2>1, <2>3, <2>4, PushedStack
  <2>6. /\ \A k \in 1..n : stack'[k].id = stack[k].id
        /\ \A k \in 1..n : k < n => stack'[k].rest = stack[k].rest
    <3> SUFFICES ASSUME NEW k \in 1..n
                 PROVE  stack'[k].id = stack[k].id /\ (k < n => stack'[k].rest = stack[k].rest)
      OBVIOUS
    <3>1. CASE k < n
      BY <3>1, <2>4, <2>5
    <3>2. CASE k = n
      BY <3>2, <2>4, <2>5, <1>2
    <3> QED
      BY <3>1, <3>2, <1>2
  <2>7. ToSet(top.rest) = {i} \cup ToSet(stack'[n].rest)
    <3> HIDE DEF top, i
    <3>1. stack'[n] = [id |-> top.id, rest |-> Tail(top.rest)]
      BY <2>4, <2>5, <1>2
    <3>2. stack'[n].rest = Tail(top.rest)
      BY <3>1
    <3> QED
      BY <3>2, <1>3
  <2>8. i \in Inputs(top.id)
    BY <1>1, <1>2, <1>3 DEF SearchOK, PathOfInputs, n
  <2>9. SearchOK'
    BY <2>1, <2>5, <2>6, <2>7, <2>8, <1>1, <1>6, Descends DEF f, n
  <2> QED
    BY <2>1, <2>9, <1>1, <1>4, StillSearching
<1>7. CASE ~(i \in reached /\ color[i] \in {"gray", "white"})
  <2>1. stack' = Consumed /\ UNCHANGED <<at, reason, color>>
    BY <1>7 DEF LookAtInput
  <2>2. i \in reached => color[i] = "black"
    BY <1>1, <1>7 DEF SearchOK, Colors
  <2>3. SearchOK'
    BY <2>1, <2>2, <1>1, PassesOver
  <2> QED
    BY <2>1, <2>3, <1>1, <1>4, StillSearching
<1> QED
  BY <1>5, <1>6, <1>7

LEMMA LeaveSearch ==
  ASSUME SearchInv, Leave
  PROVE  SearchInv'
<1>1. /\ at = "cycle" /\ UNCHANGED <<episode, at, reason, reached>>
      /\ WalkInv /\ SearchOK /\ IsFiniteSet(reached)
  BY DEF Leave, SearchInv, Searched
<1>2. SearchOK'
  BY <1>1, Returns
<1> QED
  BY <1>1, <1>2, StillSearching, CycleSearchKeeps

LEMMA AcceptSearch ==
  ASSUME SearchInv, Accept
  PROVE  SearchInv'
<1>1. /\ at = "cycle" /\ at' = "accepted" /\ stack = <<>> /\ Roots = {}
      /\ UNCHANGED <<episode, reason, reached, color, stack>>
      /\ WalkInv /\ SearchOK /\ Refusal = Nil /\ reason = Nil
  BY DEF Accept, SearchInv, Searched, Judged
<1>2. SearchOK' /\ WalkInv'
  BY <1>1, SearchStays, CycleSearchKeeps
<1>3. Judged'
  BY <1>1, SameRefusal, RulesGiveReasons DEF Judged, Reasons
<1>4. Ended' /\ Searched'
  BY <1>1, RulesGiveReasons DEF Ended, Searched, Reasons, Roots
<1> QED
  BY <1>1, <1>2, <1>3, <1>4 DEF SearchInv

LEMMA SearchStarts == Init => SearchInv
<1> SUFFICES ASSUME Init  PROVE SearchInv
  OBVIOUS
<1>1. at = "select" /\ reason = Nil /\ reached = {} /\ color = <<>> /\ stack = <<>>
  BY DEF Init
<1>2. ~Searched /\ Judged /\ Ended
  BY <1>1, RulesGiveReasons DEF Searched, Judged, Ended, Reasons
<1> QED
  BY <1>1, <1>2, StartsRight, FS_EmptySet DEF SearchInv

LEMMA SearchStep == SearchInv /\ [Next]_vars => SearchInv'
<1> SUFFICES ASSUME SearchInv, [Next]_vars  PROVE SearchInv'
  OBVIOUS
<1>1. CASE UNCHANGED vars
  <2>1. UNCHANGED <<episode, at, reason, reached, pending, color, stack>>
    BY <1>1 DEF vars
  <2>2. WalkInv'
    BY <1>1, EveryStepKeeps DEF SearchInv
  <2>3. Judged' /\ Ended' /\ (Searched' <=> Searched)
    BY <2>1, SameRefusal DEF SearchInv, Judged, Ended, Searched, Roots
  <2>4. Searched => SearchOK'
    BY <2>1, SearchStays DEF SearchInv
  <2> QED
    BY <2>1, <2>2, <2>3, <2>4 DEF SearchInv
<1> QED
  BY <1>1, SelectSearch, VisitSearch, CheckNodesSearch, EnterRootSearch, LookAtInputSearch,
     LeaveSearch, AcceptSearch DEF Next

LEMMA SearchInvariant == Spec => []SearchInv
<1>1. SearchInv /\ [][Next]_vars => []SearchInv
  BY SearchStep, PTL
<1> QED
  BY <1>1, SearchStarts, PTL DEF Spec

-----------------------------------------------------------------------------
(* What follows. *)

LEMMA SearchTypes == SearchInv => GraphTypeOK
<1> SUFFICES ASSUME SearchInv  PROVE GraphTypeOK
  OBVIOUS
<1>1. CASE ~Searched
  <2>1. color = <<>> /\ stack = <<>> /\ DOMAIN color = {} /\ DOMAIN stack = {}
    BY <1>1 DEF SearchInv
  <2> QED
    BY <2>1 DEF SearchInv, WalkInv, GraphTypeOK
<1>2. CASE Searched
  <2>1. color \in [reached -> Colors] /\ stack \in Seq(Frame) /\ OnPath
    BY <1>2 DEF SearchInv, SearchOK
  <2>2. DOMAIN stack = 1..Len(stack) /\ \A k \in 1..Len(stack) : stack[k] \in Frame
    BY <2>1
  <2>3. \A k \in DOMAIN stack : stack[k].id \in reached /\ stack[k].rest \in Seq(Identity)
    BY <2>1, <2>2 DEF OnPath, Frame
  <2>4. DOMAIN color \subseteq Catalogue /\ \A t \in DOMAIN color : color[t] \in Colors
    BY <2>1 DEF SearchInv, WalkInv
  <2> QED
    BY <2>3, <2>4 DEF SearchInv, WalkInv, GraphTypeOK
<1> QED
  BY <1>1, <1>2

\* The path and the gray targets are the same, so there are as many of one as of the other.
LEMMA PathIsGray == SearchInv => NeverTwiceOnThePath
<1> SUFFICES ASSUME SearchInv  PROVE NeverTwiceOnThePath
  OBVIOUS
<1> DEFINE n == Len(stack)
<1>1. CASE ~Searched
  <2>1. at # "cycle" /\ Grays = {} /\ n = 0
    BY <1>1 DEF SearchInv, Searched, Grays
  <2> QED
    BY <2>1, FS_EmptySet DEF NeverTwiceOnThePath
<1>2. CASE Searched
  <2>1. /\ color \in [reached -> Colors] /\ OnPath /\ n \in Nat /\ DOMAIN stack = 1..n
        /\ IsFiniteSet(reached)
    BY <1>2 DEF SearchInv, SearchOK
  <2>2. Grays = {stack[k].id : k \in 1..n}
    BY <2>1 DEF OnPath, Grays
  <2> DEFINE path == [k \in 1..n |-> stack[k].id]
  <2>3. path \in Injection(1..n, Grays)
    BY <2>1, <2>2 DEF OnPath, Injection, IsInjective
  <2>4. IsFiniteSet(Grays)
    <3>1. Grays \subseteq reached
      BY <2>1 DEF Grays
    <3> QED
      BY <3>1, <2>1, FS_Subset
  <2>5. Cardinality(1..n) <= Cardinality(Grays)
    BY <2>3, <2>4, FS_Injection
  <2>6. Cardinality(1..n) = n
    BY <2>1, FS_Interval
  <2> QED
    BY <2>1, <2>2, <2>5, <2>6 DEF NeverTwiceOnThePath
<1> QED
  BY <1>1, <1>2

\* When nothing is white and nothing is gray, what was ordered is all that was reached: it
\* holds the targets and is closed, and the walk found the least such set.
LEMMA OrderIsComplete ==
  ASSUME SearchInv, at = "accepted"
  PROVE  Buildable(reached)
<1>1. /\ SearchOK /\ stack = <<>> /\ Roots = {} /\ WalkInv /\ Walked
  BY DEF SearchInv, Searched, Ended, Walked
<1>2. /\ Closed(reached) /\ ToSet(episode.targets) \subseteq reached /\ reached \subseteq Catalogue
      /\ \A S \in SUBSET Catalogue :
           Closed(S) /\ ToSet(episode.targets) \subseteq S => reached \subseteq S
  BY <1>1, FinishedWalk DEF ReachedIsClosure, WalkInv
<1>3. Blacks \subseteq reached /\ Blacks \in SUBSET Catalogue
  BY <1>2 DEF Blacks
<1>4. ToSet(episode.targets) \subseteq Blacks
  <2>1. \A t \in ToSet(episode.targets) : color[t] # "white" /\ color[t] # "gray"
    BY <1>1, <1>2 DEF Roots, ToSet, SearchOK, OnPath
  <2> QED
    BY <2>1, <1>1, <1>2 DEF SearchOK, Colors, Blacks
<1>5. Closed(Blacks)
  BY <1>1, <1>2, <1>3 DEF SearchOK, Ordered, Closed
<1>6. Blacks = reached
  BY <1>2, <1>3, <1>4, <1>5
<1> QED
  BY <1>1, <1>6 DEF SearchOK, Ordered, Ranks, Buildable

LEMMA AcceptedGraph == SearchInv => AcceptedIsAGraph
<1> SUFFICES ASSUME SearchInv, at = "accepted"
             PROVE  /\ episode.authored \cap reached = {}
                    /\ ToSet(episode.targets) \subseteq reached
                    /\ \A t \in reached : Inputs(t) \subseteq GraphNode
                    /\ \A a \in episode.authored : episode.follows[a] \in GraphNode \cup {Nil}
                    /\ Buildable(reached)
  BY DEF AcceptedIsAGraph
<1>1. /\ episode.authored \cap reached = {} /\ FollowsNodes
      /\ \A t \in reached : Inputs(t) \subseteq episode.authored \cup Catalogue
  BY RulesGiveReasons DEF SearchInv, Judged, Refusal, Reasons
<1>2. Closed(reached) /\ ToSet(episode.targets) \subseteq reached
  BY FinishedWalk DEF SearchInv, ReachedIsClosure, Walked
<1> QED
  BY <1>1, <1>2, OrderIsComplete DEF FollowsNodes, GraphNode, Closed

\* The input that closes the cycle is on the path; an order would rank it below itself.
LEMMA CycleIsReal == SearchInv => CyclesAreReal
<1> SUFFICES ASSUME SearchInv, reason = "cycle"  PROVE CyclesAreReal
  BY DEF CyclesAreReal
<1> DEFINE n == Len(stack)
           back == Head(Last(stack).rest)
           path == [k \in DOMAIN stack |-> stack[k].id]
           start == CHOOSE k \in DOMAIN path : path[k] = back
<1>1. /\ SearchOK /\ stack # <<>> /\ Last(stack).rest # <<>>
      /\ back \in reached /\ color[back] = "gray"
  BY DEF SearchInv, Searched, Ended
<1>2. /\ n \in Nat \ {0} /\ n \in 1..n /\ Last(stack) = stack[n]
      /\ stack[n].rest \in Seq(Identity) /\ stack[n].rest # <<>> /\ DOMAIN stack = 1..n
  BY <1>1, TopOfStack DEF SearchOK
<1>3. back \in Inputs(stack[n].id)
  <2>1. back \in ToSet(stack[n].rest)
    BY <1>2, HeadAndTail
  <2> QED
    BY <2>1, <1>1, <1>2 DEF SearchOK, PathOfInputs
<1>4. PICK j \in 1..n : stack[j].id = back
  BY <1>1 DEF SearchOK, OnPath
<1>5. start \in 1..n /\ stack[start].id = back /\ Len(path) = n
  BY <1>2, <1>4
<1>6. ~Buildable(reached)
  <2> SUFFICES ASSUME Buildable(reached)  PROVE FALSE
    OBVIOUS
  <2>1. PICK rank \in Ranks(reached) : TRUE
    BY DEF Buildable, Ranks
  <2>2. stack[n].id \in reached /\ rank[back] < rank[stack[n].id]
    BY <2>1, <1>1, <1>2, <1>3 DEF SearchOK, OnPath, Ranks
  <2>3. j < n => rank[stack[n].id] < rank[back]
    BY <2>1, <1>1, <1>2, <1>4 DEF SearchOK, Falling
  <2>4. rank[back] \in Int /\ rank[stack[n].id] \in Int
    <3>1. rank \in [reached -> Int]
      BY <2>1 DEF Ranks
    <3> QED
      BY <3>1, <2>2, <1>1
  <2>5. j = n \/ j < n
    <3>1. n \in Nat /\ j \in 1..n
      BY <1>2, <1>4
    <3> HIDE DEF n
    <3> QED
      BY <3>1
  <2> QED
    BY <2>2, <2>3, <2>4, <2>5, <1>4
<1> HIDE DEF start
<1>7. ASSUME NEW k \in start..Len(path)
      PROVE  (IF k = Len(path) THEN back ELSE path[k + 1]) \in Inputs(path[k])
  <2>1. k \in 1..n /\ path[k] = stack[k].id
    BY <1>5, <1>2
  <2>2. CASE k = n
    BY <2>1, <2>2, <1>3, <1>5
  <2>3. CASE k # n
    <3>1. k < n /\ k + 1 \in 1..n
      <4>1. n \in Nat
        BY <1>2
      <4> HIDE DEF n
      <4> QED
        BY <4>1, <2>1, <2>3
    <3>2. path[k + 1] = stack[k + 1].id
      BY <3>1, <1>2
    <3> QED
      BY <3>1, <3>2, <2>1, <1>1, <1>5, <2>3 DEF SearchOK, PathOfInputs
  <2> QED
    BY <2>2, <2>3
<1> QED
  BY <1>6, <1>7 DEF CyclesAreReal, start

LEMMA AuditFollowsRules == SearchInv => AuditAgrees
<1> SUFFICES ASSUME SearchInv  PROVE AuditAgrees
  OBVIOUS
<1>1. ASSUME reason = "zone"  PROVE AuditViolations # {}
  <2>1. Refusal = "zone"
    BY <1>1 DEF SearchInv, Judged
  <2>2. episode.authored \cap reached = {} /\ \E a \in episode.authored : AiPermitted(episode.path[a])
    BY <2>1, RulesGiveReasons DEF Refusal, Reasons
  <2> QED
    BY <2>2 DEF AuditViolations, AuthoredNode
<1>2. ASSUME at = "accepted"  PROVE AuditViolations = {}
  <2>1. \A a \in episode.authored : ~AiPermitted(episode.path[a])
    BY <1>2, RulesGiveReasons DEF SearchInv, Judged, Refusal, Reasons
  <2> QED
    BY <2>1 DEF AuditViolations, AuthoredNode
<1> QED
  BY <1>1, <1>2 DEF AuditAgrees

-----------------------------------------------------------------------------
(* For every profile and every episode. *)

\* Every variable of the call keeps its type.
THEOREM GraphTypeCorrect == Spec => []GraphTypeOK
BY SearchInvariant, SearchTypes, PTL

\* The depth-first search has each target on its path at most once, so it cannot go deeper
\* than there are targets (validate.ts detectCycle).
THEOREM SearchNeverRepeats == Spec => []NeverTwiceOnThePath
BY SearchInvariant, PathIsGray, PTL

\* An episode validateGraph lets through has a graph in which every node is of one kind, every
\* edge leads to a node and the targets can be built in some order.
THEOREM AcceptedCorrect == Spec => []AcceptedIsAGraph
BY SearchInvariant, AcceptedGraph, PTL

\* An episode refused for a cycle has no build order, and the path in the message is a cycle.
THEOREM RefusedCorrect == Spec => []CyclesAreReal
BY SearchInvariant, CycleIsReal, PTL

\* The audit of the zones agrees with the rule that refuses.
THEOREM AuditCorrect == Spec => []AuditAgrees
BY SearchInvariant, AuditFollowsRules, PTL

-----------------------------------------------------------------------------
(* The zone of a path.  normalize keeps a stack of segments: what it holds *)
(* after n of them are, from the bottom up, those that climb to a level    *)
(* and are not climbed out of again up to the n-th (Opened).               *)

\* Every set of naturals that is not empty has a least member.
LEMMA LeastNatural ==
  ASSUME NEW T \in SUBSET Nat, T # {}
  PROVE  \E x \in T : \A y \in T : x <= y
<1> DEFINE R == {s \in Nat \X Nat : s[1] < s[2]}
<1>1. R = OpToRel(<, Nat)
  BY DEF OpToRel
<1>2. IsWellFoundedOn(R, Nat)
  BY ONLY <1>1, NatLessThanWellFounded, Zenon
<1>3. \A x, y \in Nat : <<x, y>> \in R <=> x < y
  OBVIOUS
<1> HIDE DEF R
<1>4. PICK x \in T : \A y \in T : ~ (<<y, x>> \in R)
  BY <1>2, WFMin
<1>5. ASSUME NEW y \in T  PROVE x <= y
  <2>1. x \in Nat /\ y \in Nat
    BY ONLY T \in SUBSET Nat, x \in T, y \in T
  <2>2. ~(y < x)
    BY <1>3, <1>4, <2>1, Zenon
  <2> QED
    BY ONLY <2>1, <2>2
<1> QED
  BY <1>5

\* The function that the fold of normalize is the value of.
Folded(path, g, D) ==
  g = [s \in SUBSET D |->
         IF s = {} THEN <<>> ELSE Ascend(g[s \ {Max(s)}], path[Max(s)])]

Stacks(path) == CHOOSE g : Folded(path, g, DOMAIN path)

LEMMA MaxIs ==
  ASSUME NEW S \in SUBSET Nat, NEW x \in S, \A y \in S : x >= y
  PROVE  Max(S) = x
<1>1. Max(S) \in S /\ \A y \in S : Max(S) >= y
  BY Zenon DEF Max
<1>2. Max(S) \in Nat /\ x \in Nat /\ Max(S) >= x /\ x >= Max(S)
  BY <1>1
<1> QED
  BY ONLY <1>2

\* A fold up to n can be carried one segment further.
LEMMA FoldsFurther ==
  ASSUME NEW path, NEW n \in Nat, NEW f, Folded(path, f, 1..n)
  PROVE  \E g : Folded(path, g, 1..(n + 1))
<1> DEFINE S == SUBSET (1..(n + 1))
           g == [s \in S |->
                   IF n + 1 \in s THEN Ascend(f[s \ {n + 1}], path[n + 1]) ELSE f[s]]
<1>1. ASSUME NEW s \in S
      PROVE  g[s] = IF s = {} THEN <<>> ELSE Ascend(g[s \ {Max(s)}], path[Max(s)])
  <2>1. CASE n + 1 \in s
    <3>1. Max(s) = n + 1
      <4>1. s \in SUBSET Nat /\ \A y \in s : n + 1 >= y
        OBVIOUS
      <4> QED
        BY <2>1, <4>1, MaxIs
    <3>2. s \ {n + 1} \in S /\ n + 1 \notin s \ {n + 1} /\ s # {}
      BY <2>1
    <3>3. g[s \ {n + 1}] = f[s \ {n + 1}]
      BY <3>2, Zenon
    <3>4. g[s] = Ascend(f[s \ {n + 1}], path[n + 1])
      BY <2>1, Zenon
    <3> QED
      BY <3>1, <3>2, <3>3, <3>4, Zenon
  <2>2. CASE n + 1 \notin s
    <3>1. s \in SUBSET (1..n)
      BY <2>2
    <3>2. f[s] = IF s = {} THEN <<>> ELSE Ascend(f[s \ {Max(s)}], path[Max(s)])
      BY <3>1, Zenon DEF Folded
    <3>3. s \ {Max(s)} \in S /\ n + 1 \notin s \ {Max(s)}
      BY <2>2
    <3>4. g[s] = f[s] /\ g[s \ {Max(s)}] = f[s \ {Max(s)}]
      BY <2>2, <3>3, Zenon
    <3> QED
      BY <3>2, <3>4, Zenon
  <2> QED
    BY <2>1, <2>2
<1>2. g = [s \in S |-> g[s]]
  BY Zenon
<1> HIDE DEF g
<1>3. g = [s \in S |-> IF s = {} THEN <<>> ELSE Ascend(g[s \ {Max(s)}], path[Max(s)])]
  BY <1>1, <1>2, Zenon
<1> QED
  BY <1>3 DEF Folded

LEMMA StacksFold ==
  ASSUME NEW path \in Seq(Segment)
  PROVE  Folded(path, Stacks(path), 1..Len(path)) /\ Normalize(path) = Stacks(path)[1..Len(path)]
<1> DEFINE bad == {n \in Nat : ~\E g : Folded(path, g, 1..n)}
<1>1. \E g : Folded(path, g, 1..0)
  <2> DEFINE g == [s \in SUBSET (1..0) |-> <<>>]
  <2>1. \A s \in SUBSET (1..0) : s = {}
    OBVIOUS
  <2>2. g = [s \in SUBSET (1..0) |->
               IF s = {} THEN <<>> ELSE Ascend(g[s \ {Max(s)}], path[Max(s)])]
    BY <2>1, Zenon
  <2> QED
    BY <2>2 DEF Folded
<1>2. bad = {}
  <2> SUFFICES ASSUME bad # {}  PROVE FALSE
    OBVIOUS
  <2>1. bad \in SUBSET Nat
    OBVIOUS
  <2>2. PICK n \in bad : \A m \in bad : n <= m
    <3> HIDE DEF bad
    <3> QED
      BY <2>1, LeastNatural
  <2>3. n \in Nat /\ ~\E g : Folded(path, g, 1..n)
    OBVIOUS
  <2>4. n # 0
    BY <1>1, <2>3
  <2>5. n - 1 \in Nat /\ (n - 1) + 1 = n /\ ~(n <= n - 1)
    BY <2>3, <2>4
  <2>6. n - 1 \notin bad
    BY ONLY <2>2, <2>5
  <2>7. PICK f : Folded(path, f, 1..(n - 1))
    BY <2>5, <2>6
  <2> QED
    BY <2>3, <2>5, <2>7, FoldsFurther
<1>3. Len(path) \in Nat /\ DOMAIN path = 1..Len(path)
  OBVIOUS
<1>4. \E g : Folded(path, g, 1..Len(path))
  BY <1>2, <1>3
<1>5. Folded(path, Stacks(path), 1..Len(path))
  BY <1>3, <1>4, Zenon DEF Stacks
<1>6. Normalize(path) = Stacks(path)[DOMAIN path]
  BY Zenon DEF Normalize, FoldLeft, MapThenFoldSet, Stacks, Folded
<1> QED
  BY <1>3, <1>5, <1>6

\* The stack after the first n segments.
After(path, n) == Stacks(path)[1..n]

LEMMA NormalizeStep ==
  ASSUME NEW path \in Seq(Segment)
  PROVE  /\ After(path, 0) = <<>>
         /\ \A n \in 1..Len(path) : After(path, n) = Ascend(After(path, n - 1), path[n])
         /\ Normalize(path) = After(path, Len(path))
<1>1. Folded(path, Stacks(path), 1..Len(path)) /\ Len(path) \in Nat
  BY StacksFold
<1>2. After(path, 0) = <<>>
  <2>1. 1..0 = {} /\ {} \in SUBSET (1..Len(path))
    OBVIOUS
  <2> QED
    BY <1>1, <2>1, Zenon DEF Folded, After
<1>3. ASSUME NEW n \in 1..Len(path)
      PROVE  After(path, n) = Ascend(After(path, n - 1), path[n])
  <2>0. n \in Nat /\ n >= 1 /\ n <= Len(path)
    BY <1>1
  <2>1. 1..n \in SUBSET (1..Len(path)) /\ 1..n # {} /\ (1..n) \ {n} = 1..(n - 1)
    <3>1. 1..n \in SUBSET (1..Len(path))
      BY <1>1, <2>0
    <3>2. (1..n) \ {n} = 1..(n - 1)
      BY <2>0
    <3>3. n \in 1..n
      BY <2>0
    <3> QED
      BY <3>1, <3>2, <3>3
  <2>2. Max(1..n) = n
    <3>1. 1..n \in SUBSET Nat /\ n \in 1..n /\ \A y \in 1..n : n >= y
      BY <2>0
    <3> QED
      BY <3>1, MaxIs
  <2>3. Stacks(path)[1..n] = Ascend(Stacks(path)[(1..n) \ {Max(1..n)}], path[Max(1..n)])
    BY <1>1, <2>1, Zenon DEF Folded
  <2> QED
    BY <2>1, <2>2, <2>3 DEF After
<1> QED
  BY <1>2, <1>3, StacksFold DEF After

-----------------------------------------------------------------------------

\* One segment takes the level one up or one down.
LEMMA LevelStep ==
  ASSUME NEW path \in Seq(Segment)
  PROVE  /\ Level(path, 0) = 0
         /\ \A n \in 1..Len(path) :
              /\ Level(path, n - 1) \in Int
              /\ path[n] = "up" => Level(path, n) = Level(path, n - 1) - 1
              /\ path[n] # "up" => Level(path, n) = Level(path, n - 1) + 1
<1> DEFINE D(n) == {j \in 1..n : path[j] # "up"}
<1>1. \A n \in Nat : IsFiniteSet(D(n)) /\ Cardinality(D(n)) \in Nat
  <2> TAKE n \in Nat
  <2>1. IsFiniteSet(1..n)
    BY FS_Interval
  <2>2. IsFiniteSet(D(n))
    BY <2>1, FS_Subset
  <2> QED
    BY <2>2, FS_CardinalityType
<1>2. Level(path, 0) = 0
  <2>1. D(0) = {}
    OBVIOUS
  <2>2. Cardinality(D(0)) = 0
    BY <2>1, FS_EmptySet
  <2> QED
    BY <2>2 DEF Level
<1>3. ASSUME NEW n \in 1..Len(path)
      PROVE  /\ Level(path, n - 1) \in Int
             /\ path[n] = "up" => Level(path, n) = Level(path, n - 1) - 1
             /\ path[n] # "up" => Level(path, n) = Level(path, n - 1) + 1
  <2>1. n \in Nat /\ n - 1 \in Nat /\ 1..n = (1..(n - 1)) \cup {n} /\ n \notin 1..(n - 1)
    OBVIOUS
  <2>2. Cardinality(D(n - 1)) \in Nat
    BY <1>1, <2>1
  <2>3. CASE path[n] = "up"
    <3>1. D(n) = D(n - 1)
      BY <2>1, <2>3
    <3>2. Cardinality(D(n)) = Cardinality(D(n - 1))
      BY <3>1
    <3> HIDE DEF D
    <3>3. /\ Level(path, n) = Cardinality(D(n)) - (n - Cardinality(D(n)))
          /\ Level(path, n - 1) = Cardinality(D(n - 1)) - ((n - 1) - Cardinality(D(n - 1)))
      BY DEF D, Level
    <3> QED
      BY <2>1, <2>2, <2>3, <3>2, <3>3
  <2>4. CASE path[n] # "up"
    <3>1. D(n) = D(n - 1) \cup {n} /\ n \notin D(n - 1)
      BY <2>1, <2>4
    <3>2. Cardinality(D(n)) = Cardinality(D(n - 1)) + 1
      <4>1. IsFiniteSet(D(n - 1))
        BY <1>1, <2>1
      <4> HIDE DEF D
      <4> QED
        BY <3>1, <4>1, FS_AddElement
    <3> HIDE DEF D
    <3>3. /\ Level(path, n) = Cardinality(D(n)) - (n - Cardinality(D(n)))
          /\ Level(path, n - 1) = Cardinality(D(n - 1)) - ((n - 1) - Cardinality(D(n - 1)))
      BY DEF D, Level
    <3> QED
      BY <2>1, <2>2, <2>4, <3>2, <3>3
  <2> QED
    BY <2>3, <2>4
<1> QED
  BY <1>2, <1>3

\* The k-th of n segments climbs to a level that is not left again.
Stands(path, k, n) ==
  /\ path[k] # "up"
  /\ \A j \in (k + 1)..n : Level(path, j) >= Level(path, k)

\* A stack is made of the segments that stand, each at its level.
Opened(path, n) ==
  LET s == After(path, n) IN
  /\ Len(s) = Level(path, n)
  /\ \A m \in 1..Len(s) : s[m] # "up"
  /\ \A m \in 1..Len(s) : \E k \in 1..n :
       Stands(path, k, n) /\ Level(path, k) = m /\ s[m] = path[k]
  /\ \A k \in 1..n : Stands(path, k, n) =>
       Level(path, k) \in 1..Len(s) /\ s[Level(path, k)] = path[k]

\* A segment that climbs goes on top.
LEMMA OpensOne ==
  ASSUME NEW path \in Seq(Segment), NEW n \in 1..Len(path), path[n] # "up",
         After(path, n - 1) \in Seq(Segment), Opened(path, n - 1)
  PROVE  Opened(path, n)
<1> DEFINE s == After(path, n - 1)
           u == After(path, n)
<1>1. u = Append(s, path[n])
  BY NormalizeStep DEF Ascend
<1>2. path[n] \in Segment /\ Len(s) \in Nat /\ n \in Nat
  OBVIOUS
<1>3. Level(path, n) = Len(s) + 1
  BY <1>2, LevelStep DEF Opened
<1> HIDE DEF s, u
<1>4. Len(u) = Len(s) + 1 /\ u[Len(s) + 1] = path[n] /\ \A m \in 1..Len(s) : u[m] = s[m]
  BY <1>1, <1>2 DEF s
<1>5. ASSUME NEW k \in 1..(n - 1), Stands(path, k, n - 1), Level(path, k) \in 1..Len(s)
      PROVE  Stands(path, k, n)
  <2>1. \A j \in (k + 1)..n : j = n \/ j \in (k + 1)..(n - 1)
    BY <1>2
  <2> QED
    BY <1>2, <1>3, <1>5, <2>1 DEF Stands
<1>6. ASSUME NEW m \in 1..Len(u)
      PROVE  /\ u[m] # "up"
             /\ \E k \in 1..n : Stands(path, k, n) /\ Level(path, k) = m /\ u[m] = path[k]
  <2>1. CASE m = Len(s) + 1
    <3>1. Stands(path, n, n)
      BY <1>2 DEF Stands
    <3> QED
      BY <1>2, <1>3, <1>4, <2>1, <3>1
  <2>2. CASE m \in 1..Len(s)
    <3>1. PICK k \in 1..(n - 1) :
            Stands(path, k, n - 1) /\ Level(path, k) = m /\ s[m] = path[k] /\ s[m] # "up"
      BY <2>2 DEF Opened, s
    <3>2. Stands(path, k, n) /\ k \in 1..n
      BY <1>2, <1>5, <2>2, <3>1
    <3> QED
      BY <1>4, <2>2, <3>1, <3>2
  <2> QED
    BY <1>2, <1>4, <2>1, <2>2
<1>7. ASSUME NEW k \in 1..n, Stands(path, k, n)
      PROVE  Level(path, k) \in 1..Len(u) /\ u[Level(path, k)] = path[k]
  <2>1. CASE k = n
    BY <1>2, <1>3, <1>4, <2>1
  <2>2. CASE k # n
    <3>1. k \in 1..(n - 1) /\ Stands(path, k, n - 1)
      BY <1>2, <1>7, <2>2 DEF Stands
    <3>2. Level(path, k) \in 1..Len(s) /\ s[Level(path, k)] = path[k]
      BY <3>1 DEF Opened, s
    <3> QED
      BY <1>2, <1>4, <3>2
  <2> QED
    BY <2>1, <2>2
<1> QED
  BY <1>3, <1>4, <1>6, <1>7 DEF Opened, u

\* A segment that climbs down takes the top away.
LEMMA ClosesOne ==
  ASSUME NEW path \in Seq(Segment), NEW n \in 1..Len(path), path[n] = "up",
         After(path, n - 1) \in Seq(Segment), Opened(path, n - 1),
         After(path, n - 1) # <<>>
  PROVE  Opened(path, n)
<1> DEFINE s == After(path, n - 1)
           u == After(path, n)
<1>1. Len(s) \in Nat /\ Len(s) > 0 /\ n \in Nat
  OBVIOUS
<1>2. u = Front(s)
  <2>1. Last(s) # "up"
    BY <1>1 DEF Opened, Last
  <2> QED
    BY <2>1, NormalizeStep DEF Ascend
<1>3. Level(path, n) = Len(s) - 1
  BY <1>1, LevelStep DEF Opened
<1>4. Len(u) = Len(s) - 1 /\ \A m \in 1..Len(u) : u[m] = s[m]
  BY <1>2, AllButLast
<1> HIDE DEF s, u
<1>5. ASSUME NEW m \in 1..Len(u)
      PROVE  /\ u[m] # "up"
             /\ \E k \in 1..n : Stands(path, k, n) /\ Level(path, k) = m /\ u[m] = path[k]
  <2>1. m \in 1..Len(s)
    BY <1>1, <1>4
  <2>2. PICK k \in 1..(n - 1) :
          Stands(path, k, n - 1) /\ Level(path, k) = m /\ s[m] = path[k] /\ s[m] # "up"
    BY <2>1 DEF Opened, s
  <2>3. Stands(path, k, n)
    <3>1. \A j \in (k + 1)..n : j = n \/ j \in (k + 1)..(n - 1)
      BY <1>1
    <3> QED
      BY <1>1, <1>3, <1>4, <2>2, <3>1 DEF Stands
  <2>4. k \in 1..n
    BY <1>1
  <2> QED
    BY <1>4, <2>2, <2>3, <2>4
<1>6. ASSUME NEW k \in 1..n, Stands(path, k, n)
      PROVE  Level(path, k) \in 1..Len(u) /\ u[Level(path, k)] = path[k]
  <2>1. k # n
    BY <1>6 DEF Stands
  <2>2. k \in 1..(n - 1) /\ Stands(path, k, n - 1) /\ Level(path, n) >= Level(path, k)
    BY <1>1, <1>6, <2>1 DEF Stands
  <2>3. Level(path, k) \in 1..Len(s) /\ s[Level(path, k)] = path[k]
    BY <2>2 DEF Opened, s
  <2>4. Level(path, k) \in 1..Len(u)
    BY <1>1, <1>3, <1>4, <2>2, <2>3
  <2> QED
    BY <1>4, <2>3, <2>4
<1> QED
  BY <1>3, <1>4, <1>5, <1>6 DEF Opened, u

\* A path that climbs above its start never comes back.
StackOK(path, n) ==
  /\ After(path, n) \in Seq(Segment)
  /\ "up" \in ToSet(After(path, n)) \/ Opened(path, n)

LEMMA StackStep ==
  ASSUME NEW path \in Seq(Segment), NEW n \in 1..Len(path), StackOK(path, n - 1)
  PROVE  StackOK(path, n)
<1> DEFINE s == After(path, n - 1)
           u == After(path, n)
<1>1. u = Ascend(s, path[n])
  BY NormalizeStep
<1>2. path[n] \in Segment /\ s \in Seq(Segment)
  BY DEF StackOK
<1>3. CASE path[n] = "up" /\ s # <<>> /\ Last(s) # "up"
  <2>1. u = Front(s)
    BY <1>1, <1>3 DEF Ascend
  <2> HIDE DEF s, u
  <2>2. /\ u \in Seq(Segment) /\ Len(u) = Len(s) - 1 /\ Len(s) \in Nat
        /\ \A m \in 1..Len(u) : u[m] = s[m]
    <3>1. Len(s) \in Nat /\ Len(Front(s)) = Len(s) - 1
      BY <1>2, <1>3, AllButLast
    <3> QED
      BY <1>2, <1>3, <2>1, <3>1, AllButLast
  <2>3. ASSUME "up" \in ToSet(s)  PROVE "up" \in ToSet(u)
    <3>1. PICK m \in 1..Len(s) : s[m] = "up"
      BY <1>2, <2>3 DEF ToSet
    <3>2. m # Len(s)
      BY <1>3, <3>1 DEF Last
    <3>3. m \in 1..Len(u) /\ DOMAIN u = 1..Len(u)
      BY <2>2, <3>1, <3>2
    <3> QED
      BY <2>2, <3>1, <3>3 DEF ToSet
  <2>4. Opened(path, n - 1) => Opened(path, n)
    BY <1>2, <1>3, ClosesOne DEF s
  <2> QED
    BY <2>2, <2>3, <2>4 DEF StackOK, s, u
<1>4. CASE ~(path[n] = "up" /\ s # <<>> /\ Last(s) # "up")
  <2>1. u = Append(s, path[n])
    BY <1>1, <1>4 DEF Ascend
  <2> HIDE DEF s, u
  <2>2. /\ u \in Seq(Segment) /\ Len(u) = Len(s) + 1 /\ Len(s) \in Nat
        /\ u[Len(s) + 1] = path[n] /\ \A m \in 1..Len(s) : u[m] = s[m]
        /\ DOMAIN u = 1..Len(u) /\ DOMAIN s = 1..Len(s)
    BY <1>2, <2>1
  <2>3. "up" \in ToSet(s) => "up" \in ToSet(u)
    <3>1. ASSUME NEW m \in 1..Len(s), s[m] = "up"  PROVE "up" \in ToSet(u)
      BY <2>2, <3>1 DEF ToSet
    <3> QED
      BY <2>2, <3>1 DEF ToSet
  <2>4. path[n] = "up" => "up" \in ToSet(u)
    BY <2>2 DEF ToSet
  <2>5. path[n] # "up" /\ Opened(path, n - 1) => Opened(path, n)
    BY <1>2, OpensOne DEF s
  <2> QED
    BY <2>2, <2>3, <2>4, <2>5 DEF StackOK, s, u
<1> QED
  BY <1>3, <1>4

LEMMA StackAlways ==
  ASSUME NEW path \in Seq(Segment)
  PROVE  StackOK(path, Len(path))
<1> DEFINE bad == {n \in 0..Len(path) : ~StackOK(path, n)}
<1>1. StackOK(path, 0)
  <2>1. After(path, 0) = <<>> /\ Level(path, 0) = 0
    BY NormalizeStep, LevelStep
  <2>2. Opened(path, 0)
    <3>1. Len(After(path, 0)) = 0
      BY <2>1
    <3>2. 1..0 = {}
      OBVIOUS
    <3> QED
      BY <2>1, <3>1, <3>2 DEF Opened
  <2>3. <<>> \in Seq(Segment)
    OBVIOUS
  <2> QED
    BY <2>1, <2>2, <2>3 DEF StackOK
<1>2. bad = {}
  <2> SUFFICES ASSUME bad # {}  PROVE FALSE
    OBVIOUS
  <2>1. bad \in SUBSET Nat
    OBVIOUS
  <2>2. PICK n \in bad : \A m \in bad : n <= m
    <3> HIDE DEF bad
    <3> QED
      BY <2>1, LeastNatural
  <2>3. n \in 0..Len(path) /\ ~StackOK(path, n)
    OBVIOUS
  <2>4. n # 0
    BY <1>1, <2>3
  <2>5. n \in 1..Len(path) /\ n - 1 \in 0..Len(path) /\ ~(n <= n - 1)
    BY <2>3, <2>4
  <2>6. n - 1 \notin bad
    BY ONLY <2>2, <2>5
  <2>7. StackOK(path, n - 1)
    BY <2>5, <2>6
  <2> QED
    BY <2>3, <2>5, <2>7, StackStep
<1>3. Len(path) \in 0..Len(path)
  OBVIOUS
<1> QED
  BY <1>2, <1>3

LEMMA ZoneOfPath ==
  ASSUME NEW path \in Seq(Segment), Relative(path)
  PROVE  AiPermitted(path) <=> \E k \in LiesIn(path) : path[k] = "dot"
<1> DEFINE N == Len(path)
           s == Normalize(path)
<1>1. s = After(path, N) /\ N \in Nat /\ DOMAIN path = 1..N
  BY NormalizeStep
<1>2. Opened(path, N) /\ s \in Seq(Segment)
  BY <1>1, StackAlways DEF StackOK, Relative
<1> HIDE DEF N, s
<1>3. /\ Len(s) \in Nat /\ Len(s) = Level(path, N)
      /\ \A m \in 1..Len(s) : \E k \in 1..N :
           Stands(path, k, N) /\ Level(path, k) = m /\ s[m] = path[k]
      /\ \A k \in 1..N : Stands(path, k, N) =>
           Level(path, k) \in 1..Len(s) /\ s[Level(path, k)] = path[k]
  BY <1>1, <1>2 DEF Opened
<1>4. LiesIn(path) = {k \in 1..N : Stands(path, k, N) /\ Level(path, k) < Len(s)}
  BY <1>1, <1>3 DEF LiesIn, Stands, N
<1>5. AiPermitted(path) <=> \E m \in 1..(Len(s) - 1) : s[m] = "dot"
  BY DEF AiPermitted, s
<1>6. ASSUME NEW m \in 1..(Len(s) - 1), s[m] = "dot"
      PROVE  \E k \in LiesIn(path) : path[k] = "dot"
  <2>1. m \in 1..Len(s) /\ m < Len(s)
    BY <1>3
  <2>2. PICK k \in 1..N : Stands(path, k, N) /\ Level(path, k) = m /\ s[m] = path[k]
    BY <1>3, <2>1
  <2> QED
    BY <1>4, <1>6, <2>1, <2>2
<1>7. ASSUME NEW k \in LiesIn(path), path[k] = "dot"
      PROVE  \E m \in 1..(Len(s) - 1) : s[m] = "dot"
  <2>1. k \in 1..N /\ Stands(path, k, N) /\ Level(path, k) < Len(s)
    BY <1>4
  <2>2. Level(path, k) \in 1..Len(s) /\ s[Level(path, k)] = path[k]
    BY <1>3, <2>1
  <2> QED
    BY <1>3, <1>7, <2>1, <2>2
<1> QED
  BY <1>5, <1>6, <1>7

\* However an authored path is spelt, and however long it is: the file is in the AI-permitted
\* zone exactly when one of the directories it ends up in begins with a dot
\* (zoning/classify.ts classifyZone, schema.ts RelativePathSchema).
THEOREM ZoneCorrect == Spec => []ZoneIsWhereTheFileLies
<1> DEFINE PathsOK == /\ episode \in Manifests
                      /\ \A a \in episode.authored : Relative(episode.path[a])
<1>1. Init => PathsOK
  BY DEF Init
<1>2. PathsOK /\ [Next]_vars => PathsOK'
  <2>1. [Next]_vars => episode' = episode
    BY DEF Next, vars, Select, Visit, CheckNodes, EnterRoot, LookAtInput, Leave, Accept, Refuse
  <2> QED
    BY <2>1
<1>3. PathsOK => ZoneIsWhereTheFileLies
  <2> SUFFICES ASSUME PathsOK, NEW a \in episode.authored
               PROVE  LET path == episode.path[a]
                      IN  AiPermitted(path) <=> \E k \in LiesIn(path) : path[k] = "dot"
    BY DEF ZoneIsWhereTheFileLies
  <2>1. episode.path[a] \in Seq(Segment)
    BY GraphAssumption
  <2> QED
    BY <2>1, ZoneOfPath
<1> QED
  BY <1>1, <1>2, <1>3, PTL DEF Spec
=============================================================================
