----------------------------- MODULE AgentProofs -----------------------------
(***************************************************************************)
(* An agent that works off pc next is never left without work while a      *)
(* release is blocked, and pc explain leads from a blocked artifact to     *)
(* such work and past no pending decision, for every episode whose recipes *)
(* have no cycle and however deep they are.                                *)
(***************************************************************************)
EXTENDS Explain, FiniteSetTheorems, WellFoundedInduction, TLAPS

\* Every set of naturals that is not empty has a least member.
LEMMA LeastNatural ==
  ASSUME NEW T \in SUBSET Nat, T # {}
  PROVE  \E x \in T : \A y \in T : x <= y
<1> DEFINE R == {s \in Nat \X Nat : s[1] < s[2]}
<1>1. R = OpToRel(<, Nat)
  BY DEF OpToRel
<1>2. IsWellFoundedOn(R, Nat)
  BY ONLY <1>1, NatLessThanWellFounded, Zenon
<1>3. \A x, y \in Nat : <<x, y>> \in R <=> x < y
  OBVIOUS
<1> HIDE DEF R
<1>4. PICK x \in T : \A y \in T : ~ (<<y, x>> \in R)
  BY <1>2, WFMin
<1>5. ASSUME NEW y \in T  PROVE x <= y
  <2>1. x \in Nat /\ y \in Nat
    BY ONLY T \in SUBSET Nat, x \in T, y \in T
  <2>2. ~(y < x)
    BY <1>3, <1>4, <2>1, Zenon
  <2> QED
    BY ONLY <2>1, <2>2
<1> QED
  BY <1>5

\* The graph of every recipe can be built in some order: what validateGraph makes sure of
\* (Graph, AcceptedIsAGraph).
Ordered ==
  \A r \in Recipes : \E rank \in [Derived -> Nat] :
    \A t \in Derived : \A i \in Members(r[t]) \cap Derived : rank[i] < rank[t]

AgentInv ==
  /\ DirTypeOK
  /\ recipe \in Recipes
  /\ ledger # Torn

\* What is on the list suits its node, however long ago it was listed.
ListInv ==
  /\ list \in [Node -> Action \cup {Nil}]
  /\ \A n \in Node :
       /\ list[n] \in {"build", "rebuild", "resolve-edit", "validate"} => n \in Derived
       /\ list[n] \in {"review", "supply"} => n \in Authored

-----------------------------------------------------------------------------
(* What the agent finds. *)

\* A verb that changes one entry of the ledger leaves a ledger.
LEMMA EntryStaysLedger ==
  ASSUME ledger \in Ledger,
         \/ \E t \in Derived, r \in Record :
              ledger' = [ledger EXCEPT !.artifacts = [@ EXCEPT ![t] = r]]
         \/ \E a \in Authored, c \in Content :
              ledger' = [ledger EXCEPT !.reviews = [@ EXCEPT ![a] = c]]
  PROVE  ledger' \in Ledger /\ ledger' # Torn
<1>1. ledger' \in Ledger
  BY DEF Ledger
<1> QED
  BY <1>1, LedgerAssumption

\* What an input resolves to, when it resolves, is a content.
LEMMA InputIsContent ==
  ASSUME AgentInv, NEW i \in Node, InputBytes(i, ledger) # Nil
  PROVE  InputBytes(i, ledger) \in Content
<1>1. ledger \in Ledger
  BY DEF AgentInv, DirTypeOK
<1>2. CASE i \in Derived
  <2>1. ledger.artifacts[i] \in Record
    BY <1>1, <1>2 DEF Ledger, InputBytes
  <2> QED
    BY <1>2, <2>1 DEF InputBytes, AgentInv, DirTypeOK, Record
<1>3. CASE i \in Authored /\ i \notin Derived
  BY <1>3, DirAssumption DEF InputBytes, AgentInv, DirTypeOK
<1> QED
  BY <1>2, <1>3 DEF Node

LEMMA InputsAreRecordable ==
  ASSUME AgentInv, NEW t \in Derived, InputsAvailable(t)
  PROVE  BytesIn(t) \in InputMap
<1>1. Members(recipe[t]) \in SUBSET Node
  <2>1. recipe[t] \in Seq(Node)
    BY DEF AgentInv, DirTypeOK, Recipe
  <2> QED
    BY <2>1 DEF Members
<1>2. \A i \in Members(recipe[t]) : InputBytes(i, ledger) \in Content
  BY <1>1, InputIsContent DEF InputsAvailable
<1>3. BytesIn(t) \in [Members(recipe[t]) -> Content]
  BY <1>2 DEF BytesIn
<1> QED
  BY <1>1, <1>3 DEF InputMap

LEMMA BuildKeeps ==
  ASSUME AgentInv, NEW t \in Derived, Build(t)
  PROVE  AgentInv'
<1>1. PICK c \in Content, v \in Verdict \cup {Nil} :
        /\ ledger' = [ledger EXCEPT !.artifacts = [@ EXCEPT ![t] =
             [inputs |-> BytesIn(t), path |-> OutPath[t], hash |-> c, validation |-> v,
              judged |-> About(BytesIn(t), v)]]]
        /\ disk' = [disk EXCEPT ![OutPath[t]] = c]
  BY DEF Build
<1> DEFINE r == [inputs |-> BytesIn(t), path |-> OutPath[t], hash |-> c, validation |-> v,
                 judged |-> About(BytesIn(t), v)]
<1>2. r \in Record
  <2>1. BytesIn(t) \in InputMap
    BY InputsAreRecordable DEF Build
  <2>2. OutPath[t] \in Path
    BY DirAssumption
  <2>3. About(BytesIn(t), v) \in InputMap \cup {Nil}
    BY <2>1 DEF About
  <2> QED
    BY <2>1, <2>2, <2>3 DEF Record
<1>3. ledger \in Ledger
  BY DEF AgentInv, DirTypeOK
<1> HIDE DEF r
<1>4. ledger' = [ledger EXCEPT !.artifacts = [@ EXCEPT ![t] = r]]
  BY <1>1 DEF r
<1>5. ledger' \in Ledger /\ ledger' # Torn
  BY <1>2, <1>3, <1>4, EntryStaysLedger
<1>6. disk' \in [Path -> Content \cup {Nil}]
  BY <1>1 DEF AgentInv, DirTypeOK
<1> QED
  BY <1>5, <1>6 DEF AgentInv, DirTypeOK, Build

LEMMA ValidateKeeps ==
  ASSUME AgentInv, NEW t \in Derived, Validate(t)
  PROVE  AgentInv'
<1>6. PICK v \in Verdict :
        ledger' = [ledger EXCEPT !.artifacts = [@ EXCEPT ![t] =
          [ledger.artifacts[t] EXCEPT !.validation = v, !.judged = BytesIn(t)]]]
  BY DEF Validate
<1> DEFINE r == [ledger.artifacts[t] EXCEPT !.validation = v, !.judged = BytesIn(t)]
<1>1. ledger \in Ledger
  BY DEF AgentInv, DirTypeOK
<1>2. ledger.artifacts[t] \in Record
  BY <1>1 DEF Ledger, Validate, Validatable
<1>3. r \in Record
  <2>1. BytesIn(t) \in InputMap
    BY InputsAreRecordable DEF Validate, Validatable
  <2> QED
    BY <1>2, <2>1 DEF Record
<1>4. ledger' = [ledger EXCEPT !.artifacts = [@ EXCEPT ![t] = r]]
  BY <1>6
<1> HIDE DEF r
<1>5. ledger' \in Ledger /\ ledger' # Torn
  BY <1>1, <1>3, <1>4, EntryStaysLedger
<1> QED
  BY <1>5 DEF AgentInv, DirTypeOK, Validate

\* What a node resolves to, when it resolves, is a content.
LEMMA ResolvedIsContent ==
  ASSUME AgentInv, NEW n \in Node, Resolved(AuthoredNow, ledger.artifacts, n) # Nil
  PROVE  Resolved(AuthoredNow, ledger.artifacts, n) \in Content
<1>1. ledger \in Ledger
  BY DEF AgentInv, DirTypeOK
<1>2. CASE n \in Authored
  BY <1>2, DirAssumption DEF Resolved, AuthoredNow, AuthoredContent, AgentInv, DirTypeOK
<1>3. CASE n \notin Authored
  <2>1. n \in Derived /\ ledger.artifacts[n] # Nil
    BY <1>3 DEF Node, Resolved
  <2>2. ledger.artifacts[n] \in Record
    BY <1>1, <2>1 DEF Ledger
  <2> QED
    BY <1>3, <2>1, <2>2 DEF Resolved, Record
<1> QED
  BY <1>2, <1>3

LEMMA ReviewKeeps ==
  ASSUME AgentInv, NEW a \in Authored, Review(a)
  PROVE  AgentInv'
<1> DEFINE c == Resolved(AuthoredNow, ledger.artifacts, Follows[a])
<1>1. ledger \in Ledger
  BY DEF AgentInv, DirTypeOK
<1>2. c \in Content
  <2>1. Follows[a] \in Node
    BY NodeAssumption DEF Review, Reviewable
  <2> QED
    BY <2>1, ResolvedIsContent DEF Review, Reviewable
<1>3. ledger' = [ledger EXCEPT !.reviews = [@ EXCEPT ![a] = c]]
  BY DEF Review
<1> HIDE DEF c
<1>4. ledger' \in Ledger /\ ledger' # Torn
  BY <1>1, <1>2, <1>3, EntryStaysLedger
<1> QED
  BY <1>4 DEF AgentInv, DirTypeOK, Review

LEMMA EditKeeps ==
  ASSUME AgentInv, Human \/ \E a \in Authored : Supply(a)
  PROVE  AgentInv'
<1>1. ASSUME NEW a \in Authored, NEW c \in Edits[a], file' = [file EXCEPT ![a] = c],
             UNCHANGED <<recipe, disk, ledger>>
      PROVE  AgentInv'
  <2>1. c \in Content \cup {Nil}
    BY <1>1, DirAssumption DEF Node
  <2> QED
    BY <1>1, <2>1 DEF AgentInv, DirTypeOK
<1>2. ASSUME NEW t \in Derived, EditOutput(t)  PROVE AgentInv'
  <2>1. PICK c \in Edits[t] : disk' = [disk EXCEPT ![OutPath[t]] = c]
    BY <1>2 DEF EditOutput
  <2>2. c \in Content \cup {Nil}
    BY <2>1, DirAssumption DEF Node
  <2> QED
    BY <1>2, <2>1, <2>2 DEF AgentInv, DirTypeOK, EditOutput
<1>3. CASE EditRecipe
  BY <1>3, DirAssumption DEF AgentInv, DirTypeOK, EditRecipe
<1>4. ASSUME NEW a \in Authored, EditFile(a) \/ Supply(a)  PROVE AgentInv'
  BY <1>1, <1>4 DEF EditFile, Supply
<1> QED
  BY <1>2, <1>3, <1>4 DEF Human

\* What a node's state calls for tells an authored node from a derived one.
LEMMA WhatIsListed ==
  ASSUME NEW n \in Node
  PROVE  /\ Todo(n) \in Action \cup {Nil}
         /\ Todo(n) \in {"build", "rebuild", "resolve-edit", "validate"} => n \in Derived
         /\ Todo(n) \in {"review", "supply"} => n \in Authored
<1> DEFINE s == ReportNow[n]
           v == IF n \in Derived THEN Validated(ledger, n) ELSE Nil
<1>1. Todo(n) = ActionFor(s, v)
  BY DEF Todo
<1>2. n \in Authored => s \in AuthoredStates
  BY DEF ReportNow, StateOf, AuthoredState, AuthoredStates
<1>3. n \notin Authored => s \in DerivedStates
  <2> SUFFICES ASSUME n \notin Authored  PROVE s \in DerivedStates
    OBVIOUS
  <2>1. PICK a, w : s = DerivedState(a, w) /\
          a \in {"input-absent", "never-built", "input-changed", "input-removed",
                "output-absent", "output-edited", "consistent"}
    BY DEF ReportNow, StateOf, Assessment
  <2> QED
    BY <2>1 DEF DerivedState, DerivedStates
<1> HIDE DEF s, v
<1>4. CASE n \in Authored
  BY <1>1, <1>2, <1>4, ActionAssumption DEF ActionFor, AuthoredStates, Action
<1>5. CASE n \notin Authored
  BY <1>1, <1>3, <1>5, ActionAssumption DEF ActionFor, DerivedStates, Action, Node
<1> QED
  BY <1>4, <1>5

LEMMA AgentInvariant == AgentSpec => []AgentInv
<1>1. AgentInit => AgentInv /\ ListInv
  <2>1. EmptyLedger \in Ledger
    BY DEF EmptyLedger, Ledger
  <2> QED
    BY <2>1, DirAssumption, LedgerAssumption, ActionAssumption
       DEF AgentInit, DirInit, AgentInv, DirTypeOK, ListInv, Action
<1>2. AgentInv /\ ListInv /\ [AgentNext]_agentVars => (AgentInv /\ ListInv)'
  <2> SUFFICES ASSUME AgentInv, ListInv, [AgentNext]_agentVars
               PROVE  AgentInv' /\ ListInv'
    OBVIOUS
  <2>1. UNCHANGED dirVars => AgentInv'
    BY DEF dirVars, AgentInv, DirTypeOK
  <2>2. UNCHANGED list => ListInv'
    BY DEF ListInv
  <2>3. CASE CountedEdit
    BY <2>2, <2>3, EditKeeps DEF CountedEdit
  <2>4. CASE Look
    <3>1. ListInv'
      BY <2>4, WhatIsListed DEF Look, ListInv
    <3> QED
      BY <2>1, <2>4, <3>1 DEF Look
  <2>5. ASSUME NEW n \in Node, Act(n)  PROVE AgentInv' /\ ListInv'
    <3>1. n \in Derived /\ Build(n) => AgentInv'
      BY BuildKeeps
    <3>2. n \in Derived /\ Validate(n) => AgentInv'
      BY ValidateKeeps
    <3>3. n \in Authored /\ Review(n) => AgentInv'
      BY ReviewKeeps
    <3>4. n \in Authored /\ Supply(n) => AgentInv'
      BY EditKeeps
    <3>5. Done(n) => AgentInv'
      BY <3>1, <3>2, <3>3, <3>4 DEF Done, ListInv
    <3>6. Refused(n) => AgentInv'
      BY <2>1 DEF Refused
    <3>7. ListInv'
      BY <2>5, ActionAssumption DEF Act, ListInv, Action
    <3> QED
      BY <2>5, <3>5, <3>6, <3>7 DEF Act
  <2>6. CASE UNCHANGED agentVars
    BY <2>1, <2>2, <2>6 DEF agentVars
  <2> QED
    BY <2>3, <2>4, <2>5, <2>6 DEF AgentNext, Work
<1> QED
  BY <1>1, <1>2, PTL DEF AgentSpec

-----------------------------------------------------------------------------
(* Why there is always something to do. *)

\* While nothing is listed, every authored node is there and every artifact that is not
\* blocked is fresh, has a record and a verdict that is not a failure.
LEMMA NothingListed ==
  ASSUME AgentInv, Frontier(ReportNow, ledger) = {}
  PROVE  /\ \A a \in Authored : AuthoredNow[a] # Nil /\ ReportNow[a] = "present"
         /\ \A t \in Derived :
              \/ ReportNow[t] = "blocked"
              \/ /\ ReportNow[t] = "fresh" /\ ledger.artifacts[t] # Nil
                 /\ Validated(ledger, t) = "passed"
<1>1. \A n \in Node : Todo(n) = Nil
  BY DEF Frontier, Todo
<1>2. ASSUME NEW a \in Authored
      PROVE  AuthoredNow[a] # Nil /\ ReportNow[a] = "present"
  <2>1. a \in Node /\ a \notin Derived
    BY NodeAssumption DEF Node
  <2>2. ReportNow[a] \in AuthoredStates
    BY <2>1 DEF ReportNow, StateOf, AuthoredState, AuthoredStates
  <2>3. ActionFor(ReportNow[a], Nil) = Nil
    BY <1>1, <2>1 DEF Todo
  <2>4. ReportNow[a] = "present"
    BY <2>2, <2>3, ActionAssumption DEF ActionFor, AuthoredStates, Action
  <2>5. AuthoredNow[a] = Nil => ReportNow[a] = "absent"
    BY <2>1 DEF ReportNow, StateOf, AuthoredState
  <2> QED
    BY <2>4, <2>5
<1>3. ASSUME NEW t \in Derived, ReportNow[t] # "blocked"
      PROVE  /\ ReportNow[t] = "fresh" /\ ledger.artifacts[t] # Nil
             /\ Validated(ledger, t) = "passed"
  <2> DEFINE cur == [i \in Members(recipe[t]) |-> Resolved(AuthoredNow, ledger.artifacts, i)]
             a == Assessment(cur, ledger.artifacts[t], FoundNow[t])
             v == Validated(ledger, t)
  <2>1. t \in Node /\ t \notin Authored
    BY NodeAssumption DEF Node
  <2>2. ReportNow[t] = DerivedState(a, v)
    BY <2>1 DEF ReportNow, StateOf
  <2>3. /\ a \in {"input-absent", "never-built", "input-changed", "input-removed",
                  "output-absent", "output-edited", "consistent"}
        /\ a = "consistent" => ledger.artifacts[t] # Nil
    BY DEF Assessment
  <2>4. ActionFor(ReportNow[t], v) = Nil
    BY <1>1, <2>1 DEF Todo
  <2>5. v \in {"passed", "failed", Nil}
    <3>1. ledger.artifacts[t] \in Record \cup {Nil}
      BY DEF AgentInv, DirTypeOK, Ledger
    <3> QED
      BY <3>1 DEF Validated, Record, Verdict
  <2> HIDE DEF a, v
  <2>6. ReportNow[t] = "fresh" /\ a = "consistent" /\ v # "failed"
    BY <1>3, <2>2, <2>3, <2>4, ActionAssumption, VerdictAssumption
       DEF DerivedState, ActionFor, Action, Verdict
  <2>7. v # Nil
    BY <2>4, <2>6, ActionAssumption DEF ActionFor, Action
  <2> QED
    BY <2>3, <2>5, <2>6, <2>7 DEF v
<1> QED
  BY <1>2, <1>3

\* An artifact is blocked by an input that resolves to nothing.
LEMMA BlockedByAbsence ==
  ASSUME AgentInv, NEW t \in Derived, ReportNow[t] = "blocked"
  PROVE  \E i \in Members(recipe[t]) : Resolved(AuthoredNow, ledger.artifacts, i) = Nil
<1> DEFINE cur == [i \in Members(recipe[t]) |-> Resolved(AuthoredNow, ledger.artifacts, i)]
           a == Assessment(cur, ledger.artifacts[t], FoundNow[t])
<1>1. t \in Node /\ t \notin Authored
  BY NodeAssumption DEF Node
<1>2. ReportNow[t] = DerivedState(a, Validated(ledger, t))
  BY <1>1 DEF ReportNow, StateOf
<1>3. a = "input-absent" \/ a \in {"never-built", "input-changed", "input-removed",
                                  "output-absent", "output-edited", "consistent"}
  BY DEF Assessment
<1>4. a = "input-absent"
  <2> HIDE DEF a
  <2> QED
    BY <1>2, <1>3 DEF DerivedState
<1> QED
  BY <1>4 DEF Assessment

\* However the recipes are laid out, as long as each can be built in some order: while a
\* release is blocked, pc next lists something.  What blocks an artifact can be followed
\* down its inputs, and the last artifact on the way misses an authored file or a build
\* (frontier.ts frontier, release.ts assessRelease).
THEOREM BlockedCorrect ==
  ASSUME Ordered
  PROVE  AgentSpec => []BlockedMeansActionable
<1>1. AgentInv => BlockedMeansActionable
  <2> SUFFICES ASSUME AgentInv, Frontier(ReportNow, ledger) = {}
               PROVE  Blockers(ReportNow, ledger) = {}
    BY DEF BlockedMeansActionable
  <2> DEFINE blocked == {t \in Derived : ReportNow[t] = "blocked"}
  <2>1. blocked = {}
    <3> SUFFICES ASSUME blocked # {}  PROVE FALSE
      OBVIOUS
    <3>1. PICK rank \in [Derived -> Nat] :
            \A t \in Derived : \A i \in Members(recipe[t]) \cap Derived : rank[i] < rank[t]
      BY DEF Ordered, AgentInv
    <3> DEFINE ranks == {rank[t] : t \in blocked}
    <3>0. ranks \in SUBSET Nat /\ ranks # {}
      BY <3>1
    <3> HIDE DEF ranks
    <3>2. PICK r \in ranks : \A q \in ranks : r <= q
      BY <3>0, LeastNatural
    <3>3. PICK t \in Derived : ReportNow[t] = "blocked" /\ r = rank[t]
      BY <3>2 DEF ranks
    <3>4. PICK i \in Members(recipe[t]) : Resolved(AuthoredNow, ledger.artifacts, i) = Nil
      BY <3>3, BlockedByAbsence
    <3>5. i \in Node
      <4>1. recipe[t] \in Seq(Node)
        BY DEF AgentInv, DirTypeOK, Recipe
      <4> QED
        BY <4>1 DEF Members
    <3>6. i \notin Authored
      BY <3>4, NothingListed DEF Resolved
    <3>7. i \in Derived /\ i \notin blocked
      <4>1. i \in Derived /\ rank[i] < rank[t]
        BY <3>1, <3>5, <3>6 DEF Node
      <4>2. rank[i] \in Nat /\ rank[t] \in Nat
        BY <3>1, <4>1
      <4>3. i \in blocked => rank[t] <= rank[i]
        BY <3>2, <3>3 DEF ranks
      <4> QED
        BY <4>1, <4>2, <4>3
    <3>8. ledger.artifacts[i] # Nil
      BY <3>7, NothingListed
    <3>9. Resolved(AuthoredNow, ledger.artifacts, i) \in Content
      <4>1. ledger.artifacts[i] \in Record
        BY <3>7, <3>8 DEF AgentInv, DirTypeOK, Ledger
      <4> QED
        BY <3>6, <3>8, <4>1 DEF Resolved, Record
    <3> QED
      BY <3>4, <3>9, ContentAssumption
  <2>2. \A t \in Derived : ReportNow[t] = "fresh" /\ Validated(ledger, t) = "passed"
    BY <2>1, NothingListed
  <2>3. \A a \in Authored : ReportNow[a] = "present"
    BY NothingListed
  <2> QED
    BY <2>2, <2>3, NodeAssumption DEF Blockers, Node
<1> QED
  BY <1>1, AgentInvariant, PTL

-----------------------------------------------------------------------------
(* The walk back from a node. *)

\* What holds at zero and is passed on holds up to n.
LEMMA Upwards ==
  ASSUME NEW n \in Nat, NEW good, 0 \in good, \A k \in 1..n : k - 1 \in good => k \in good
  PROVE  \A k \in 0..n : k \in good
<1> DEFINE bad == {k \in 0..n : k \notin good}
<1>1. SUFFICES ASSUME bad # {}  PROVE FALSE
  OBVIOUS
<1>2. PICK k \in bad : \A m \in bad : k <= m
  <2>1. bad \in SUBSET Nat
    OBVIOUS
  <2> HIDE DEF bad
  <2> QED
    BY <1>1, <2>1, LeastNatural
<1>3. k \in 1..n /\ k - 1 \in 0..n /\ ~(k <= k - 1)
  OBVIOUS
<1>4. k - 1 \notin bad
  BY <1>2, <1>3
<1> QED
  BY <1>3, <1>4

\* f goes from a in n steps, the k-th of them taken by G.
Steps(f, a, G, n) == f[0] = a /\ \A k \in 1..n : f[k] = G[<<f[k - 1], k>>]

\* A step can be taken n times, each time from where the last one ended.
LEMMA Repeats ==
  ASSUME NEW A, NEW a \in A, NEW n \in Nat, NEW G \in [A \X (1..n) -> A]
  PROVE  \E f \in [0..n -> A] : Steps(f, a, G, n)
<1> DEFINE Runs(k) == \E f \in [0..k -> A] :
             f[0] = a /\ \A m \in 1..k : f[m] = G[<<f[m - 1], m>>]
           good == {k \in 0..n : Runs(k)}
<1>1. 0 \in good
  <2> DEFINE f == [k \in 0..0 |-> a]
  <2>1. f \in [0..0 -> A] /\ f[0] = a
    OBVIOUS
  <2>2. \A m \in 1..0 : FALSE
    OBVIOUS
  <2> HIDE DEF f
  <2>3. Runs(0)
    BY <2>1, <2>2
  <2> HIDE DEF Runs
  <2> QED
    BY <2>3
<1>2. ASSUME NEW k \in 1..n, k - 1 \in good  PROVE k \in good
  <2>1. PICK f \in [0..(k - 1) -> A] :
          f[0] = a /\ \A m \in 1..(k - 1) : f[m] = G[<<f[m - 1], m>>]
    <3>1. Runs(k - 1)
      <4> HIDE DEF Runs
      <4> QED
        BY <1>2
    <3> QED
      BY <3>1
  <2> DEFINE next == G[<<f[k - 1], k>>]
             g == [m \in 0..k |-> IF m = k THEN next ELSE f[m]]
  <2>2. next \in A
    <3>1. f[k - 1] \in A
      BY <2>1
    <3> QED
      BY <3>1
  <2>3. \A m \in 0..k : m # k => m \in 0..(k - 1)
    OBVIOUS
  <2>4. k \in 0..k /\ 0 \in 0..k /\ 0 # k /\ k - 1 # k /\ k - 1 \in 0..k
    OBVIOUS
  <2>5. g \in [0..k -> A]
    <3> HIDE DEF next
    <3> QED
      BY <2>1, <2>2, <2>3
  <2>6. /\ g[k] = next /\ \A m \in 0..k : m # k => g[m] = f[m]
    OBVIOUS
  <2> HIDE DEF g
  <2>7. g[0] = a
    BY <2>1, <2>4, <2>6
  <2>8. ASSUME NEW m \in 1..k  PROVE g[m] = G[<<g[m - 1], m>>]
    <3>1. m \in 0..k /\ m - 1 \in 0..k /\ m - 1 # k
      OBVIOUS
    <3>2. g[m - 1] = f[m - 1]
      BY <2>6, <3>1
    <3>3. CASE m = k
      BY <2>6, <3>2, <3>3
    <3>4. CASE m # k
      <4>1. m \in 1..(k - 1)
        BY <3>4
      <4> QED
        BY <2>1, <2>6, <3>1, <3>2, <3>4, <4>1
    <3> QED
      BY <3>3, <3>4
  <2>9. Runs(k)
    BY <2>5, <2>7, <2>8
  <2> HIDE DEF Runs
  <2> QED
    BY <2>9
<1>3. n \in good
  <2>1. \A k \in 0..n : k \in good
    <3> HIDE DEF good
    <3> QED
      BY ONLY n \in Nat, <1>1, <1>2, Upwards
  <2> QED
    BY <2>1
<1> QED
  BY <1>3 DEF Steps

\* Laying sequences end to end keeps whatever two sequences laid end to end keep.
LEMMA FlattenKeeps ==
  ASSUME NEW S, NEW P \in SUBSET Seq(S), <<>> \in P, \A x, y \in P : x \o y \in P,
         NEW parts \in Seq(P)
  PROVE  FlattenSeq(parts) \in P
<1>1. CASE Len(parts) = 0
  <2>1. FlattenSeq(parts) = parts /\ parts = <<>>
    BY <1>1 DEF FlattenSeq
  <2> QED
    BY <2>1
<1>2. CASE Len(parts) # 0
  <2> DEFINE n == Len(parts)
             Is(g) == g = [i \in 1..n |-> IF i = 1 THEN parts[i] ELSE g[i - 1] \o parts[i]]
             h == CHOOSE g : Is(g)
  <2>1. n \in Nat /\ 1 \in 1..n /\ n \in 1..n /\ \A k \in 1..n : parts[k] \in P
    BY <1>2
  <2>2. FlattenSeq(parts) = h[n]
    BY <1>2, Zenon DEF FlattenSeq
  <2>3. \E g : Is(g)
    <3> DEFINE G == [p \in P \X (1..n) |-> IF p[2] = 1 THEN parts[1] ELSE p[1] \o parts[p[2]]]
    <3>1. G \in [P \X (1..n) -> P]
      <4>1. ASSUME NEW x \in P, NEW k \in 1..n  PROVE x \o parts[k] \in P
        BY <2>1
      <4> HIDE DEF n
      <4> QED
        BY <2>1, <4>1
    <3>2. \A x \in P, k \in 1..n : G[<<x, k>>] = IF k = 1 THEN parts[1] ELSE x \o parts[k]
      OBVIOUS
    <3> HIDE DEF G
    <3> HIDE DEF n
    <3>3. PICK f \in [0..n -> P] : \A k \in 1..n : f[k] = G[<<f[k - 1], k>>]
      <4>1. PICK e \in P : TRUE
        OBVIOUS
      <4>2. \E f \in [0..n -> P] : Steps(f, e, G, n)
        BY ONLY <2>1, <3>1, e \in P, Repeats
      <4> QED
        BY <4>2 DEF Steps
    <3> DEFINE g == [k \in 1..n |-> f[k]]
    <3>4. ASSUME NEW k \in 1..n
          PROVE  g[k] = IF k = 1 THEN parts[k] ELSE g[k - 1] \o parts[k]
      <4>1. k - 1 \in 0..n /\ (k # 1 => k - 1 \in 1..n)
        BY <2>1
      <4>2. f[k - 1] \in P
        BY <4>1
      <4> QED
        BY <3>2, <3>3, <4>1, <4>2
    <3>5. g = [k \in 1..n |-> g[k]]
      OBVIOUS
    <3> HIDE DEF g
    <3>6. Is(g)
      BY <3>4, <3>5
    <3> QED
      BY <3>6
  <2>4. Is(h)
    BY <2>3, Zenon
  <2> HIDE DEF h
  <2> DEFINE good == {k \in 0..n : k = 0 \/ h[k] \in P}
  <2>5. ASSUME NEW k \in 1..n, k - 1 \in good  PROVE k \in good
    <3>1. h[k] = IF k = 1 THEN parts[k] ELSE h[k - 1] \o parts[k]
      BY <2>4
    <3>2. k # 1 => h[k - 1] \in P
      BY <2>5
    <3>3. h[k] \in P
      BY ONLY <2>1, <3>1, <3>2, k \in 1..n, \A x, y \in P : x \o y \in P
    <3> QED
      BY <3>3
  <2>6. 0 \in good
    BY <2>1
  <2>7. \A k \in 0..n : k \in good
    <3> HIDE DEF n, good
    <3> QED
      BY <2>1, <2>5, <2>6, Upwards
  <2> QED
    BY <2>1, <2>2, <2>7
<1> QED
  BY <1>1, <1>2

\* One sequence laid end to end is that sequence.
LEMMA FlattenOne ==
  ASSUME NEW s
  PROVE  FlattenSeq(<<s>>) = s
<1> DEFINE Is(g) == g = [i \in 1..1 |-> IF i = 1 THEN <<s>>[i] ELSE g[i - 1] \o <<s>>[i]]
           h == CHOOSE g : Is(g)
<1>1. FlattenSeq(<<s>>) = h[1]
  <2>1. Len(<<s>>) = 1
    OBVIOUS
  <2> QED
    BY <2>1 DEF FlattenSeq
<1>2. Is([i \in 1..1 |-> s])
  OBVIOUS
<1>3. Is(h)
  BY <1>2, Zenon
<1> HIDE DEF h
<1> QED
  BY <1>1, <1>3

\* What a walk emits.
Links == [id : Node, via : {"root", "dependency", "observation"}, from : Node \cup {Nil},
          depth : Nat, halt : {"pending-human-decision", "observation-does-not-propagate", Nil}]

\* Link b was reached from link a, over a declared input.
Under(a, b) ==
  /\ a.id = b.from /\ a.depth + 1 = b.depth
  /\ a.id \in Derived /\ b.id \in Members(recipe[a.id])

\* Every link of s was reached from an earlier one, or from n, which lies just above depth d.
Hangs(s, k, n, d) ==
  \/ s[k].from = n /\ s[k].depth = d /\ s[k].id \in Members(recipe[n])
  \/ \E j \in 1..(k - 1) : Under(s[j], s[k])

Hanging(n, d) == {s \in Seq(Links) : \A k \in DOMAIN s : Hangs(s, k, n, d)}

\* The inputs that are walked are declared ones.
LEMMA CausalAreDeclared ==
  ASSUME AgentInv, NEW n \in Derived
  PROVE  /\ CausalInputs(n) \in Seq(Node)
         /\ \A k \in DOMAIN CausalInputs(n) : CausalInputs(n)[k] \in Members(recipe[n])
<1>1. recipe[n] \in Seq(Node)
  BY DEF AgentInv, DirTypeOK, Recipe
<1>2. Members(recipe[n]) \subseteq Node /\ \A k \in DOMAIN recipe[n] : recipe[n][k] \in Members(recipe[n])
  BY <1>1 DEF Members
<1> DEFINE c == Cause(n)
<1>3. CausalInputs(n) = IF c \in Members(recipe[n]) THEN <<c>> ELSE recipe[n]
  BY DEF CausalInputs
<1> HIDE DEF c
<1>4. CASE c \in Members(recipe[n])
  BY <1>2, <1>3, <1>4
<1>5. CASE c \notin Members(recipe[n])
  BY <1>1, <1>2, <1>3, <1>5
<1> QED
  BY <1>4, <1>5

\* An input is one link: what it observes is not shown.
LEMMA EmitsOne ==
  ASSUME NEW i \in Node, NEW n \in Derived, NEW d \in Nat
  PROVE  \E x \in Links : /\ Emit(i, "dependency", n, d) = <<x>>
                          /\ x.id = i /\ x.from = n /\ x.depth = d
<1> DEFINE x(h) == Link(i, "dependency", n, d, h)
<1>1. \A h \in {"pending-human-decision", Nil} :
        x(h) \in Links /\ x(h).id = i /\ x(h).from = n /\ x(h).depth = d
  BY DEF Link, Links, Node
<1>2. Observation(i, "dependency", d) = <<>>
  BY DEF Observation
<1> HIDE DEF x
<1>3. Emit(i, "dependency", n, d) \in {<<x("pending-human-decision")>>, <<x(Nil)>>}
  <2>1. <<x("pending-human-decision")>> \o <<>> = <<x("pending-human-decision")>>
    OBVIOUS
  <2> QED
    BY <1>2, <2>1 DEF Emit, x
<1> QED
  BY <1>1, <1>3

\* Two sequences of links that hang from n hang from it when they are laid end to end.
LEMMA HangTogether ==
  ASSUME NEW n, NEW d, NEW x \in Hanging(n, d), NEW y \in Hanging(n, d)
  PROVE  x \o y \in Hanging(n, d)
<1>1. x \in Seq(Links) /\ y \in Seq(Links) /\ x \o y \in Seq(Links)
  BY DEF Hanging
<1>2. ASSUME NEW k \in DOMAIN (x \o y)  PROVE Hangs(x \o y, k, n, d)
  <2>1. CASE k \in DOMAIN x
    <3>1. Hangs(x, k, n, d)
      BY <2>1 DEF Hanging
    <3>2. /\ k \in 1..Len(x) /\ (x \o y)[k] = x[k]
          /\ \A j \in 1..(k - 1) : (x \o y)[j] = x[j]
      BY <1>1, <2>1
    <3> QED
      BY <3>1, <3>2 DEF Hangs
  <2>2. CASE k \notin DOMAIN x
    <3> DEFINE m == k - Len(x)
    <3>1. Len(x) \in Nat /\ k \in Nat /\ m \in 1..Len(y) /\ (x \o y)[k] = y[m]
      BY <1>1, <2>2
    <3>2. Hangs(y, m, n, d)
      BY <1>1, <3>1 DEF Hanging
    <3>3. \A j \in 1..(m - 1) : j + Len(x) \in 1..(k - 1) /\ (x \o y)[j + Len(x)] = y[j]
      BY <1>1, <3>1
    <3> HIDE DEF m
    <3> QED
      BY <3>1, <3>2, <3>3 DEF Hangs
  <2> QED
    BY <2>1, <2>2
<1> QED
  BY <1>1, <1>2 DEF Hanging

LEMMA DescendIn ==
  ASSUME AgentInv, NEW n \in Derived, NEW d \in Nat, NEW below \in [Node -> Seq(Links)]
  PROVE  Descend(n, d, below) \in Seq(Links)
<1> DEFINE c == CausalInputs(n)
           parts == [k \in DOMAIN c |-> Emit(c[k], "dependency", n, d) \o below[c[k]]]
<1>1. c \in Seq(Node)
  BY CausalAreDeclared
<1> HIDE DEF c
<1>2. ASSUME NEW k \in DOMAIN c
      PROVE  Emit(c[k], "dependency", n, d) \o below[c[k]] \in Seq(Links)
  <2>1. c[k] \in Node
    BY <1>1
  <2>2. PICK x \in Links : Emit(c[k], "dependency", n, d) = <<x>>
    BY <2>1, EmitsOne
  <2>3. below[c[k]] \in Seq(Links)
    BY <2>1
  <2>4. \A y \in Seq(Links) : <<x>> \o y \in Seq(Links)
    OBVIOUS
  <2>5. <<x>> \o below[c[k]] \in Seq(Links)
    BY ONLY <2>3, <2>4
  <2> QED
    BY ONLY <2>2, <2>5
<1>3. parts \in Seq(Seq(Links))
  <2>1. DOMAIN c = 1..Len(c) /\ Len(c) \in Nat
    BY <1>1
  <2> QED
    BY <1>2, <2>1
<1> HIDE DEF parts
<1>4. FlattenSeq(parts) \in Seq(Links)
  <2> DEFINE P == Seq(Links)
  <2>1. P \in SUBSET Seq(Links) /\ <<>> \in P /\ \A x, y \in P : x \o y \in P
    OBVIOUS
  <2> HIDE DEF P
  <2>2. parts \in Seq(P)
    BY <1>3 DEF P
  <2>3. FlattenSeq(parts) \in P
    BY ONLY <2>1, <2>2, FlattenKeeps
  <2> QED
    BY <2>3 DEF P
<1> QED
  BY <1>4 DEF Descend, parts, c

\* What hangs from the inputs hangs, with their links, from the node.
LEMMA DescendHangs ==
  ASSUME AgentInv, NEW n \in Derived, NEW d \in Nat, NEW below \in [Node -> Seq(Links)],
         \A i \in Node : below[i] # <<>> => i \in Derived /\ below[i] \in Hanging(i, d + 1)
  PROVE  Descend(n, d, below) \in Hanging(n, d)
<1> DEFINE c == CausalInputs(n)
           parts == [k \in DOMAIN c |-> Emit(c[k], "dependency", n, d) \o below[c[k]]]
<1>1. c \in Seq(Node) /\ \A k \in DOMAIN c : c[k] \in Members(recipe[n])
  BY CausalAreDeclared
<1> HIDE DEF c
<1>2. ASSUME NEW k \in DOMAIN c
      PROVE  Emit(c[k], "dependency", n, d) \o below[c[k]] \in Hanging(n, d)
  <2> DEFINE i == c[k]
             b == below[i]
  <2>1. i \in Node /\ i \in Members(recipe[n])
    BY <1>1
  <2> HIDE DEF i
  <2>2. PICK x \in Links : /\ Emit(i, "dependency", n, d) = <<x>>
                           /\ x.id = i /\ x.from = n /\ x.depth = d
    BY <2>1, EmitsOne
  <2>3. b \in Seq(Links) /\ (b # <<>> => i \in Derived /\ b \in Hanging(i, d + 1))
    BY <2>1
  <2> HIDE DEF b
  <2> DEFINE s == <<x>> \o b
  <2>4. /\ s \in Seq(Links) /\ Len(s) = Len(b) + 1 /\ s[1] = x
        /\ \A m \in 1..Len(b) : s[m + 1] = b[m]
    BY <2>3
  <2>5. ASSUME NEW m \in DOMAIN s  PROVE Hangs(s, m, n, d)
    <3>1. CASE m = 1
      BY <2>1, <2>2, <2>4, <3>1 DEF Hangs
    <3>2. CASE m # 1
      <4> DEFINE q == m - 1
      <4>1. m = q + 1 /\ q \in 1..Len(b) /\ Len(b) \in Nat /\ s[m] = b[q]
        BY <2>3, <2>4, <3>2
      <4> HIDE DEF q, s
      <4>2. i \in Derived /\ b \in Hanging(i, d + 1)
        BY <2>3, <4>1
      <4>3. Hangs(b, q, i, d + 1)
        BY <2>3, <4>1, <4>2 DEF Hanging
      <4>4. CASE b[q].from = i /\ b[q].depth = d + 1 /\ b[q].id \in Members(recipe[i])
        <5>1. Under(s[1], s[m])
          BY <2>2, <2>4, <4>1, <4>2, <4>4 DEF Under
        <5>2. 1 \in 1..(m - 1)
          BY <4>1
        <5> QED
          BY <5>1, <5>2 DEF Hangs
      <4>5. ASSUME NEW j \in 1..(q - 1), Under(b[j], b[q])  PROVE Hangs(s, m, n, d)
        <5>1. j + 1 \in 1..(m - 1) /\ j \in 1..Len(b)
          BY <4>1
        <5>2. Under(s[j + 1], s[m])
          BY <2>4, <4>1, <4>5, <5>1
        <5> QED
          BY <5>1, <5>2 DEF Hangs
      <4> QED
        BY <4>3, <4>4, <4>5 DEF Hangs
    <3> QED
      BY <3>1, <3>2
  <2> HIDE DEF s
  <2>6. s \in Hanging(n, d)
    BY <2>4, <2>5 DEF Hanging
  <2> QED
    BY <2>2, <2>6 DEF s, b, i
<1>3. parts \in Seq(Hanging(n, d))
  <2>1. DOMAIN c = 1..Len(c) /\ Len(c) \in Nat
    BY <1>1
  <2> QED
    BY <1>2, <2>1
<1> HIDE DEF parts
<1>4. FlattenSeq(parts) \in Hanging(n, d)
  <2> DEFINE P == Hanging(n, d)
  <2>1. P \in SUBSET Seq(Links) /\ <<>> \in P
    BY DEF Hanging
  <2>2. \A x, y \in P : x \o y \in P
    BY HangTogether
  <2> HIDE DEF P
  <2>3. parts \in Seq(P)
    BY <1>3 DEF P
  <2>4. FlattenSeq(parts) \in P
    BY ONLY <2>1, <2>2, <2>3, FlattenKeeps
  <2> QED
    BY <2>4 DEF P
<1> QED
  BY <1>4 DEF Descend, parts, c

\* The walk, level by level: nothing lies below an authored node, and below a derived one
\* its implicated inputs and what lies below them.
LEMMA BelowIs ==
  ASSUME AgentInv
  PROVE  /\ MaxDepth \in Nat
         /\ \A left \in 0..MaxDepth : Below[left] \in [Node -> Seq(Links)]
         /\ \A left \in 0..MaxDepth : \A n \in Node :
              Below[left][n] = IF left = 0 \/ n \in Authored THEN <<>>
                               ELSE Descend(n, MaxDepth - left + 1, Below[left - 1])
<1> DEFINE A == [Node -> Seq(Links)]
           Is(g) == g = [left \in 0..MaxDepth |->
                      [n \in Node |-> IF left = 0 \/ n \in Authored THEN <<>>
                                      ELSE Descend(n, MaxDepth - left + 1, g[left - 1])]]
           start == [n \in Node |-> <<>>]
           G == [p \in A \X (1..MaxDepth) |->
                  [n \in Node |-> IF n \in Authored THEN <<>>
                                  ELSE Descend(n, MaxDepth - p[2] + 1, p[1])]]
           h == CHOOSE g : Is(g)
<1>1. MaxDepth \in Nat
  BY ExplainAssumption, FS_CardinalityType DEF MaxDepth
<1>2. start \in A
  OBVIOUS
<1>3. ASSUME NEW b \in A, NEW k \in 1..MaxDepth, NEW n \in Node, n \notin Authored
      PROVE  Descend(n, MaxDepth - k + 1, b) \in Seq(Links)
  <2>1. n \in Derived /\ MaxDepth - k + 1 \in Nat
    BY <1>1, <1>3 DEF Node
  <2> QED
    BY <2>1, DescendIn
<1>4. G \in [A \X (1..MaxDepth) -> A]
  <2>1. ASSUME NEW b \in A, NEW k \in 1..MaxDepth
        PROVE  [n \in Node |-> IF n \in Authored THEN <<>>
                               ELSE Descend(n, MaxDepth - k + 1, b)] \in A
    BY <1>3
  <2> HIDE DEF A
  <2> QED
    BY <2>1
<1>5. \A b \in A, k \in 1..MaxDepth :
        G[<<b, k>>] = [n \in Node |-> IF n \in Authored THEN <<>>
                                      ELSE Descend(n, MaxDepth - k + 1, b)]
  <2> HIDE DEF A
  <2> QED
    OBVIOUS
<1> HIDE DEF A, G, start
<1>6. PICK f \in [0..MaxDepth -> A] : Steps(f, start, G, MaxDepth)
  BY ONLY <1>1, <1>2, <1>4, Repeats
<1>7. Is(f)
  <2>1. ASSUME NEW left \in 0..MaxDepth
        PROVE  f[left] = [n \in Node |-> IF left = 0 \/ n \in Authored THEN <<>>
                                         ELSE Descend(n, MaxDepth - left + 1, f[left - 1])]
    <3>1. CASE left = 0
      BY <1>6, <3>1 DEF Steps, start
    <3>2. CASE left # 0
      <4>1. left \in 1..MaxDepth /\ left - 1 \in 0..MaxDepth
        BY <1>1, <3>2
      <4>2. f[left - 1] \in A
        BY <1>6, <4>1
      <4>3. f[left] = G[<<f[left - 1], left>>]
        BY <1>6, <4>1 DEF Steps
      <4> QED
        BY <1>5, <3>2, <4>1, <4>2, <4>3
    <3> QED
      BY <3>1, <3>2
  <2> QED
    BY <1>6, <2>1
<1>8. Is(h)
  BY <1>7, Zenon
<1>9. Below = h
  BY Zenon DEF Below
<1> HIDE DEF h
<1>10. \A left \in 0..MaxDepth :
         h[left] = [n \in Node |-> IF left = 0 \/ n \in Authored THEN <<>>
                                   ELSE Descend(n, MaxDepth - left + 1, h[left - 1])]
  BY <1>8
<1> DEFINE good == {left \in 0..MaxDepth : h[left] \in A}
<1>11. 0 \in good
  <2>1. 0 \in 0..MaxDepth
    BY <1>1
  <2>2. h[0] = [n \in Node |-> <<>>]
    BY <1>10, <2>1
  <2> QED
    BY <1>2, <2>1, <2>2 DEF start
<1>12. ASSUME NEW left \in 1..MaxDepth, left - 1 \in good  PROVE left \in good
  <2>1. left \in 0..MaxDepth /\ left # 0 /\ h[left - 1] \in A
    BY <1>1, <1>12
  <2>2. h[left] = [n \in Node |-> IF n \in Authored THEN <<>>
                                  ELSE Descend(n, MaxDepth - left + 1, h[left - 1])]
    BY <1>10, <2>1
  <2>3. h[left] \in [Node -> Seq(Links)]
    BY <1>3, <2>1, <2>2
  <2> QED
    BY <2>1, <2>3 DEF A
<1>13. \A left \in 0..MaxDepth : left \in good
  <2> HIDE DEF good
  <2> QED
    BY ONLY <1>1, <1>11, <1>12, Upwards
<1>14. \A left \in 0..MaxDepth : Below[left] \in [Node -> Seq(Links)]
  BY <1>9, <1>13 DEF A
<1>15. \A left \in 0..MaxDepth : \A n \in Node :
         Below[left][n] = IF left = 0 \/ n \in Authored THEN <<>>
                          ELSE Descend(n, MaxDepth - left + 1, Below[left - 1])
  BY <1>9, <1>10
<1> QED
  BY <1>1, <1>14, <1>15

\* However deep it goes, what lies below a derived node hangs from it.
LEMMA BelowHangs ==
  ASSUME AgentInv
  PROVE  \A left \in 0..MaxDepth : \A n \in Node :
           Below[left][n] # <<>> =>
             n \in Derived /\ Below[left][n] \in Hanging(n, MaxDepth - left + 1)
<1> DEFINE P(left) == \A n \in Node :
             Below[left][n] # <<>> =>
               n \in Derived /\ Below[left][n] \in Hanging(n, MaxDepth - left + 1)
           good == {left \in 0..MaxDepth : P(left)}
<1>1. MaxDepth \in Nat
  BY BelowIs
<1>2. 0 \in good
  BY <1>1, BelowIs
<1>3. ASSUME NEW left \in 1..MaxDepth, left - 1 \in good  PROVE left \in good
  <2> DEFINE d == MaxDepth - left + 1
             below == Below[left - 1]
  <2>1. left \in 0..MaxDepth /\ left - 1 \in 0..MaxDepth /\ left # 0 /\ d \in Nat
        /\ MaxDepth - (left - 1) + 1 = d + 1
    BY <1>1
  <2>2. below \in [Node -> Seq(Links)]
    BY <2>1, BelowIs
  <2>3. \A i \in Node : below[i] # <<>> => i \in Derived /\ below[i] \in Hanging(i, d + 1)
    <3>1. P(left - 1)
      <4> HIDE DEF P
      <4> QED
        BY <1>3
    <3> QED
      BY <2>1, <3>1
  <2> HIDE DEF below, d
  <2>4. ASSUME NEW n \in Node, Below[left][n] # <<>>
        PROVE  n \in Derived /\ Below[left][n] \in Hanging(n, d)
    <3>1. Below[left][n] = IF left = 0 \/ n \in Authored THEN <<>> ELSE Descend(n, d, below)
      BY <2>1, BelowIs DEF d, below
    <3>2. n \in Derived /\ Below[left][n] = Descend(n, d, below)
      BY <2>1, <2>4, <3>1 DEF Node
    <3> QED
      BY <2>1, <2>2, <2>3, <3>2, DescendHangs
  <2>5. P(left)
    BY <2>4 DEF d
  <2> HIDE DEF P
  <2> QED
    BY <2>1, <2>5
<1>4. \A left \in 0..MaxDepth : left \in good
  <2> HIDE DEF good
  <2> QED
    BY ONLY <1>1, <1>2, <1>3, Upwards
<1> QED
  BY <1>4

\* The link of an artifact itself, which awaits no decision.
LEMMA EmitsRoot ==
  ASSUME NEW t \in Derived
  PROVE  Emit(t, "root", Nil, 0) = <<Link(t, "root", Nil, 0, Nil)>>
<1>1. t \notin Authored
  BY NodeAssumption
<1> QED
  BY <1>1 DEF Emit

\* For every episode and every depth of its graph: no chain of an artifact shows a change as
\* flowing past a pending decision, each link is a declared input of an earlier one that
\* lies right above it (chain.ts visit, descendObservation).
THEOREM DecisionsStopCorrect == AgentSpec => []DecisionsStopTheChain
<1>1. AgentInv => DecisionsStopTheChain
  <2> SUFFICES ASSUME AgentInv, NEW t \in Derived,
                      NEW k \in 2..Len(ExplainChain(t))
               PROVE  \E j \in 1..(k - 1) :
                        LET chain == ExplainChain(t)
                        IN  /\ chain[j].id = chain[k].from
                            /\ chain[j].depth + 1 = chain[k].depth
                            /\ chain[j].id \in Derived
                            /\ chain[k].id \in Members(recipe[chain[j].id])
    BY Zenon DEF DecisionsStopTheChain
  <2> DEFINE root == Link(t, "root", Nil, 0, Nil)
             b == Below[MaxDepth][t]
             chain == <<root>> \o b
  <2>1. ExplainChain(t) = chain
    BY EmitsRoot DEF ExplainChain
  <2>2. t \in Node /\ MaxDepth \in Nat /\ MaxDepth \in 0..MaxDepth
    BY BelowIs DEF Node
  <2>3. b \in Seq(Links) /\ (b # <<>> => b \in Hanging(t, 1))
    <3>1. MaxDepth - MaxDepth + 1 = 1
      BY <2>2
    <3> QED
      BY <2>2, <3>1, BelowIs, BelowHangs
  <2>4. root.id = t /\ root.depth = 0
    BY DEF Link
  <2> HIDE DEF b, root
  <2>5. /\ Len(chain) = Len(b) + 1 /\ chain[1] = root /\ Len(b) \in Nat
        /\ \A m \in 1..Len(b) : chain[m + 1] = b[m]
    BY <2>3
  <2> HIDE DEF chain
  <2> DEFINE q == k - 1
  <2>6. k = q + 1 /\ q \in 1..Len(b) /\ chain[k] = b[q]
    BY <2>1, <2>5
  <2> HIDE DEF q
  <2>7. Hangs(b, q, t, 1)
    BY <2>3, <2>6 DEF Hanging
  <2>8. \E j \in 1..(k - 1) : Under(chain[j], chain[k])
    <3>1. CASE b[q].from = t /\ b[q].depth = 1 /\ b[q].id \in Members(recipe[t])
      <4>1. Under(chain[1], chain[k])
        BY <2>4, <2>5, <2>6, <3>1 DEF Under
      <4>2. 1 \in 1..(k - 1)
        BY <2>6
      <4> QED
        BY <4>1, <4>2
    <3>2. ASSUME NEW j \in 1..(q - 1), Under(b[j], b[q])
          PROVE  \E m \in 1..(k - 1) : Under(chain[m], chain[k])
      <4>1. j + 1 \in 1..(k - 1) /\ j \in 1..Len(b)
        BY <2>5, <2>6
      <4>2. Under(chain[j + 1], chain[k])
        BY <2>5, <2>6, <3>2, <4>1
      <4> QED
        BY <4>1, <4>2
    <3> QED
      BY <2>7, <3>1, <3>2 DEF Hangs
  <2> QED
    BY <2>1, <2>8 DEF Under
<1> QED
  BY <1>1, AgentInvariant, PTL

\* The artifacts no later than t in the order rank gives them.
UpTo(rank, t) == {m \in Derived : rank[m] <= rank[t]}

LEMMA UpToShrinks ==
  ASSUME NEW rank \in [Derived -> Nat], NEW t \in Derived
  PROVE  /\ Cardinality(UpTo(rank, t)) \in 1..MaxDepth
         /\ \A i \in Derived : rank[i] < rank[t] =>
              Cardinality(UpTo(rank, i)) + 1 <= Cardinality(UpTo(rank, t))
<1> DEFINE U(i) == UpTo(rank, i)
<1>1. ASSUME NEW i \in Derived
      PROVE  U(i) \subseteq Node /\ IsFiniteSet(U(i)) /\ i \in U(i)
  <2>1. U(i) \subseteq Node
    BY DEF UpTo, Node
  <2>2. IsFiniteSet(U(i))
    BY ONLY <2>1, ExplainAssumption, FS_Subset
  <2>3. i \in U(i)
    BY DEF UpTo
  <2> QED
    BY <2>1, <2>2, <2>3
<1>2. Cardinality(U(t)) \in 1..MaxDepth
  <2>1. MaxDepth \in Nat /\ Cardinality(U(t)) \in Nat
    BY <1>1, ExplainAssumption, FS_CardinalityType DEF MaxDepth
  <2>2. Cardinality(U(t)) <= MaxDepth
    BY <1>1, ExplainAssumption, FS_Subset DEF MaxDepth
  <2>3. Cardinality(U(t)) # 0
    BY <1>1, FS_EmptySet
  <2> QED
    BY <2>1, <2>2, <2>3
<1>3. ASSUME NEW i \in Derived, rank[i] < rank[t]
      PROVE  Cardinality(U(i)) + 1 <= Cardinality(U(t))
  <2>1. U(i) \subseteq U(t) /\ t \notin U(i)
    BY <1>3 DEF UpTo
  <2>2. U(i) # U(t)
    BY <1>1, <2>1
  <2> HIDE DEF U
  <2>3. Cardinality(U(i)) \in Nat /\ Cardinality(U(t)) \in Nat
    BY <1>1, FS_CardinalityType
  <2>4. ASSUME NEW few, NEW more, IsFiniteSet(more), few \subseteq more, few # more
        PROVE  Cardinality(few) < Cardinality(more)
    <3>1. /\ Cardinality(few) \in Nat /\ Cardinality(more) \in Nat
          /\ Cardinality(few) <= Cardinality(more)
          /\ Cardinality(few) # Cardinality(more)
      BY ONLY <2>4, FS_Subset, FS_CardinalityType
    <3> QED
      BY ONLY <3>1
  <2>5. Cardinality(U(i)) < Cardinality(U(t))
    BY ONLY <1>1, <2>1, <2>2, <2>4, i \in Derived, t \in Derived
  <2> QED
    BY <2>3, <2>5
<1> QED
  BY <1>2, <1>3

\* A blocked artifact is followed to one input, which resolves to nothing.
LEMMA BlockedIsFollowed ==
  ASSUME AgentInv, NEW t \in Derived, ReportNow[t] = "blocked"
  PROVE  \E i \in Members(recipe[t]) :
           /\ Resolved(AuthoredNow, ledger.artifacts, i) = Nil
           /\ CausalInputs(t) = <<i>>
<1> DEFINE Gone(i) == Resolved(AuthoredNow, ledger.artifacts, i) = Nil
           gone == {i \in Members(recipe[t]) : Gone(i)}
           found == {k \in DOMAIN recipe[t] : recipe[t][k] \in gone}
<1>1. recipe[t] \in Seq(Node) /\ DOMAIN recipe[t] = 1..Len(recipe[t])
  BY DEF AgentInv, DirTypeOK, Recipe
<1>2. Cause(t) = FirstInput(t, gone)
  BY DEF Cause
<1>3. found # {} /\ found \in SUBSET Nat
  <2>1. PICK i \in Members(recipe[t]) : Gone(i)
    BY BlockedByAbsence
  <2>2. PICK k \in DOMAIN recipe[t] : recipe[t][k] = i
    BY DEF Members
  <2>3. k \in found
    BY <2>1, <2>2
  <2> QED
    BY <1>1, <2>3
<1> HIDE DEF found
<1>4. Min(found) \in found
  <2>1. \E k \in found : \A m \in found : k <= m
    BY <1>3, LeastNatural
  <2>2. Min(found) = CHOOSE k \in found : \A m \in found : k <= m
    BY DEF Min
  <2> QED
    BY <2>1, <2>2
<1>5. FirstInput(t, gone) = recipe[t][Min(found)]
  BY <1>3 DEF FirstInput, found
<1>6. Cause(t) \in gone
  BY <1>2, <1>4, <1>5 DEF found
<1> QED
  BY <1>6 DEF CausalInputs

\* What a blocked artifact misses is itself work, or is blocked in turn.
LEMMA GoneIsWork ==
  ASSUME AgentInv, NEW i \in Node, Resolved(AuthoredNow, ledger.artifacts, i) = Nil
  PROVE  \/ i \in Derived /\ ReportNow[i] = "blocked"
         \/ ReportNow[i] \in {"absent", "missing"} /\ i \in Frontier(ReportNow, ledger)
<1>1. ReportNow[i] \in {"absent", "missing"} => i \in Frontier(ReportNow, ledger)
  BY ActionAssumption DEF Frontier, ActionFor, Action
<1>2. CASE i \in Authored
  <2>1. AuthoredNow[i] = Nil
    BY <1>2 DEF Resolved
  <2>2. ReportNow[i] = "absent"
    BY <1>2, <2>1 DEF ReportNow, StateOf, AuthoredState
  <2> QED
    BY <1>1, <2>2
<1>3. CASE i \notin Authored
  <2> DEFINE cur == [x \in Members(recipe[i]) |-> Resolved(AuthoredNow, ledger.artifacts, x)]
             a == Assessment(cur, ledger.artifacts[i], FoundNow[i])
  <2>1. i \in Derived
    BY <1>3 DEF Node
  <2>2. ledger.artifacts[i] = Nil
    <3>1. ledger.artifacts[i] \in Record \cup {Nil}
      BY <2>1 DEF AgentInv, DirTypeOK, Ledger
    <3>2. ledger.artifacts[i] # Nil => ledger.artifacts[i].hash = Nil
      BY <1>3 DEF Resolved
    <3> QED
      BY <3>1, <3>2, ContentAssumption DEF Record
  <2>3. a \in {"input-absent", "never-built"}
    BY <2>2 DEF Assessment
  <2>4. ReportNow[i] = DerivedState(a, Validated(ledger, i))
    BY <1>3 DEF ReportNow, StateOf
  <2> HIDE DEF a
  <2>5. ReportNow[i] \in {"blocked", "missing"}
    BY <2>3, <2>4 DEF DerivedState
  <2> QED
    BY <1>1, <2>1, <2>5
<1> QED
  BY <1>2, <1>3

\* A link the walk shows at which something can be done.
IsWork(x) == ReportNow[x.id] \in {"absent", "missing"} /\ x.id \in Frontier(ReportNow, ledger)

\* The walk goes deep enough: below a blocked artifact it comes to such a link.
LEMMA WorkBelow ==
  ASSUME AgentInv, NEW rank \in [Derived -> Nat],
         \A t \in Derived : \A i \in Members(recipe[t]) \cap Derived : rank[i] < rank[t]
  PROVE  \A left \in 0..MaxDepth : \A t \in Derived :
           ReportNow[t] = "blocked" /\ Cardinality(UpTo(rank, t)) <= left =>
             \E k \in DOMAIN Below[left][t] : IsWork(Below[left][t][k])
<1> DEFINE size(t) == Cardinality(UpTo(rank, t))
           Reached(left, t) == \E k \in DOMAIN Below[left][t] : IsWork(Below[left][t][k])
           P(left) == \A t \in Derived :
                        ReportNow[t] = "blocked" /\ size(t) <= left => Reached(left, t)
           good == {left \in 0..MaxDepth : P(left)}
<1>1. MaxDepth \in Nat /\ \A t \in Derived : size(t) \in 1..MaxDepth
  BY BelowIs, UpToShrinks
<1> HIDE DEF size, Reached
<1>2. 0 \in good
  BY <1>1
<1>3. ASSUME NEW left \in 1..MaxDepth, left - 1 \in good  PROVE left \in good
  <2>1. P(left - 1)
    <3> HIDE DEF P
    <3> QED
      BY <1>3
  <2>2. ASSUME NEW t \in Derived, ReportNow[t] = "blocked", size(t) <= left
        PROVE  Reached(left, t)
    <3> DEFINE d == MaxDepth - left + 1
               below == Below[left - 1]
    <3>1. /\ left \in 0..MaxDepth /\ left - 1 \in 0..MaxDepth /\ left # 0 /\ d \in Nat
          /\ t \in Node /\ t \notin Authored
      BY <1>1, NodeAssumption DEF Node
    <3>2. PICK i \in Members(recipe[t]) :
            /\ Resolved(AuthoredNow, ledger.artifacts, i) = Nil
            /\ CausalInputs(t) = <<i>>
      BY <2>2, BlockedIsFollowed
    <3>3. i \in Node
      <4>1. recipe[t] \in Seq(Node)
        BY DEF AgentInv, DirTypeOK, Recipe
      <4> QED
        BY <4>1 DEF Members
    <3>4. PICK x \in Links : Emit(i, "dependency", t, d) = <<x>> /\ x.id = i
      BY <3>1, <3>3, EmitsOne
    <3>5. below[i] \in Seq(Links)
      BY <3>1, <3>3, BelowIs
    <3>6. Below[left][t] = <<x>> \o below[i]
      <4>1. Below[left][t] = Descend(t, d, below)
        BY <3>1, BelowIs
      <4> HIDE DEF below, d
      <4> DEFINE s == Emit(i, "dependency", t, d) \o below[i]
      <4>2. Descend(t, d, below) = FlattenSeq(<<s>>)
        <5> DEFINE c == CausalInputs(t)
                   parts == [k \in DOMAIN c |-> Emit(c[k], "dependency", t, d) \o below[c[k]]]
        <5>1. c = <<i>> /\ DOMAIN c = {1} /\ c[1] = i
          BY <3>2
        <5> HIDE DEF c
        <5>2. parts = <<s>>
          <6>1. DOMAIN parts = {1} /\ parts[1] = s
            BY <5>1
          <6> HIDE DEF s
          <6>2. parts = [k \in {1} |-> s]
            BY <5>1, <6>1
          <6>3. <<s>> = [k \in {1} |-> s]
            OBVIOUS
          <6> QED
            BY ONLY <6>2, <6>3
        <5> QED
          BY <5>2 DEF Descend, c
      <4> HIDE DEF s
      <4> QED
        BY <3>4, <4>1, <4>2, FlattenOne DEF s
    <3> DEFINE s == <<x>> \o below[i]
    <3> HIDE DEF below
    <3>7. /\ Len(s) = Len(below[i]) + 1 /\ DOMAIN s = 1..Len(s) /\ s[1] = x
          /\ \A k \in DOMAIN below[i] : k + 1 \in DOMAIN s /\ s[k + 1] = below[i][k]
      BY <3>5
    <3> HIDE DEF s
    <3>8. CASE IsWork(x)
      <4>1. 1 \in DOMAIN s
        BY <3>5, <3>7
      <4> QED
        BY <3>6, <3>7, <3>8, <4>1 DEF Reached, s
    <3>9. CASE i \in Derived /\ ReportNow[i] = "blocked"
      <4>1. size(i) + 1 <= size(t)
        BY <3>9, UpToShrinks DEF size
      <4>2. size(i) <= left - 1
        BY <1>1, <2>2, <3>9, <4>1
      <4>3. PICK k \in DOMAIN below[i] : IsWork(below[i][k])
        BY <2>1, <3>9, <4>2 DEF Reached, below
      <4> QED
        BY <3>6, <3>7, <4>3 DEF Reached, s
    <3> QED
      BY <3>2, <3>3, <3>4, <3>8, <3>9, GoneIsWork DEF IsWork
  <2>3. P(left)
    BY <2>2
  <2> HIDE DEF P
  <2> QED
    BY <1>1, <2>3
<1>4. \A left \in 0..MaxDepth : left \in good
  <2> HIDE DEF good
  <2> QED
    BY ONLY <1>1, <1>2, <1>3, Upwards
<1> QED
  BY <1>4 DEF size, Reached

\* For every episode whose recipes have no cycle: the chain of a blocked artifact arrives at
\* a file to supply or an artifact to build, whatever it is made of (chain.ts causalInputs).
THEOREM LeadsCorrect ==
  ASSUME Ordered
  PROVE  AgentSpec => []ExplainLeadsToWork
<1>1. AgentInv => ExplainLeadsToWork
  <2> SUFFICES ASSUME AgentInv, NEW t \in Derived, ReportNow[t] = "blocked"
               PROVE  \E k \in DOMAIN ExplainChain(t) : IsWork(ExplainChain(t)[k])
    BY DEF ExplainLeadsToWork, IsWork
  <2>1. PICK rank \in [Derived -> Nat] :
          \A n \in Derived : \A i \in Members(recipe[n]) \cap Derived : rank[i] < rank[n]
    BY DEF Ordered, AgentInv
  <2> DEFINE root == Link(t, "root", Nil, 0, Nil)
             b == Below[MaxDepth][t]
             chain == <<root>> \o b
  <2>2. ExplainChain(t) = chain
    BY EmitsRoot DEF ExplainChain
  <2>3. MaxDepth \in Nat /\ MaxDepth \in 0..MaxDepth /\ b \in Seq(Links)
    BY BelowIs DEF Node
  <2>4. PICK k \in DOMAIN b : IsWork(b[k])
    BY <2>1, <2>3, UpToShrinks, WorkBelow
  <2> HIDE DEF b, root
  <2>5. k + 1 \in DOMAIN chain /\ chain[k + 1] = b[k]
    BY <2>3
  <2> HIDE DEF chain
  <2> QED
    BY <2>2, <2>4, <2>5
<1> QED
  BY <1>1, AgentInvariant, PTL
=============================================================================
