----------------------------- MODULE OutputProofs -----------------------------
(***************************************************************************)
(* What a build and a validate have in hand at each step, and what the     *)
(* output files hold: theorems about verdicts, release, edited outputs and *)
(* finished builds of Episode.                                             *)
(***************************************************************************)
EXTENDS EpisodeProofs

Producers == {"build", "validate"}

\* At most one process runs providers and validators; any number review and report.
OneProducer ==
  \A p, q \in Proc : Verbs[p] \cap Producers # {} /\ Verbs[q] \cap Producers # {} => p = q

VerdictsTrue(l) ==
  \A t \in Derived :
    (l.artifacts[t] # Nil /\ l.artifacts[t].validation # Nil) =>
      VerdictIsAbout(t, l.artifacts[t], l.artifacts[t].hash)

HoldsInputs == {"check", "resolve", "scratch", "run", "collect", "stage", "judge", "reread",
                "write", "writing", "rename"}

\* The declared inputs are resolved or still to resolve; a resolved one still is what it was
\* resolved to, and lies where the provider looks for it.
InputsOK(p) ==
  LET j == job[p] IN
  /\ j.at \in {"check", "resolve"} =>
       Members(recipe[j.target]) = DOMAIN j.inputs \cup Members(j.todo)
  /\ j.at \in HoldsInputs \ {"check", "resolve"} => Members(recipe[j.target]) = DOMAIN j.inputs
  /\ j.at \in HoldsInputs =>
       \A i \in DOMAIN j.inputs :
         j.inputs[i] = InputBytes(i, j.snap) /\ (Fetches(i) => i \in j.fetched)

\* The output c and the verdict in hand are what the provider gave for the inputs in hand.
ProducedFor(j, c) ==
  Produces(j.target, j.inputs, c, j.verdict) /\ j.judged = About(j.inputs, j.verdict)

BuiltOK(p) ==
  LET j == job[p] IN
  j.verb = "build" =>
    /\ j.at \in {"stage", "reread", "write", "writing", "rename"} =>
         ProducedFor(j, j.hash)
    /\ j.at = "stage" => scratch[ScratchOf(p)] = j.hash
    /\ j.at \in {"reread", "write", "writing", "rename"} => temp[p] = j.hash

JudgedOK(p) ==
  LET j == job[p]
      rec == j.snap.artifacts[j.target]
  IN  j.verb = "validate" =>
        /\ j.at \in {"scratch", "run", "collect"} => j.target \notin DeclaresValidator
        /\ j.at \in {"check", "judge"} => j.target \in DeclaresValidator
        /\ (j.target \in DeclaresValidator
              /\ j.at \in {"resolve", "judge", "reread", "write", "writing"}) =>
             disk[rec.path] = rec.hash
        /\ j.at \in {"reread", "write", "writing"} =>
             /\ Judges(j.target, j.inputs, rec.hash, j.verdict)
             /\ j.verdict # Nil /\ j.judged = j.inputs
             /\ j.target \notin DeclaresValidator =>
                  j.target \in SelfReporting /\ Makes(j.target, j.inputs, rec.hash)

ProducedOK(p) ==
  LET j == job[p] IN
  j.at = "collect" => ProducedFor(j, scratch[ScratchOf(p)])

HandOK(p) ==
  (job[p] # Idle /\ job[p].verb \in Producers) =>
    InputsOK(p) /\ ProducedOK(p) /\ BuiltOK(p) /\ JudgedOK(p)

\* The ledgers a process carries are as true as the one on disk.
VerdictsOK(p) ==
  job[p] # Idle =>
    /\ job[p].verb \in Verbs[p]
    /\ VerdictsTrue(job[p].snap)
    /\ job[p].at \in {"write", "writing"} => VerdictsTrue(job[p].base)

ProducerInv == VerdictsAreTrue /\ \A p \in Proc : HandOK(p) /\ VerdictsOK(p)

-----------------------------------------------------------------------------
(* A step of one process leaves in the others' hands what was there.       *)

Producing(p) == job[p] # Idle /\ job[p].verb \in Producers

LEMMA InHandOf ==
  ASSUME TypeInv, NEW p \in Proc, job[p] # Idle
  PROVE  job[p] \in Job /\ JobOK(job[p])
BY DEF TypeInv, TypeOK, JobsOK

LEMMA OthersProduce ==
  ASSUME TypeInv, ProducerInv, OneProducer, NEW p \in Proc, NEW q \in Proc, q # p,
         job'[q] = job[q], temp'[q] = temp[q], UNCHANGED <<recipe, file>>,
         Producing(p) \/ UNCHANGED <<disk, scratch>>
  PROVE  HandOK(q)' /\ VerdictsOK(q)'
<1>1. HandOK(q) /\ VerdictsOK(q)
  BY DEF ProducerInv
<1>2. VerdictsOK(q)'
  BY <1>1 DEF VerdictsOK, VerdictsTrue
<1>3. CASE UNCHANGED <<disk, scratch>>
  <2>1. \A i, snap : InputBytes(i, snap)' = InputBytes(i, snap) /\ Fetches(i)' = Fetches(i)
    BY <1>3 DEF InputBytes, Fetches
  <2>2. ScratchOf(q)' = ScratchOf(q)
    BY DEF ScratchOf
  <2>3. (InputsOK(q) => InputsOK(q)') /\ (ProducedOK(q) => ProducedOK(q)')
    BY <1>3, <2>1, <2>2 DEF InputsOK, ProducedOK
  <2>4. (BuiltOK(q) => BuiltOK(q)') /\ (JudgedOK(q) => JudgedOK(q)')
    BY <1>3, <2>2 DEF BuiltOK, JudgedOK
  <2> QED
    BY <1>1, <1>2, <2>3, <2>4 DEF HandOK
<1>4. CASE Producing(p)
  <2>1. ~Producing(q)
    BY <1>4 DEF ProducerInv, VerdictsOK, Producing, OneProducer
  <2> QED
    BY <1>2, <2>1 DEF HandOK, Producing
<1> QED
  BY <1>3, <1>4

\* What is left to show of a step of a process that goes on with its job.
LEMMA ProducerMoves ==
  ASSUME TypeInv, ProducerInv, OneProducer, NEW p \in Proc, Moved(p),
         UNCHANGED <<recipe, file>>, \A q \in Proc : q # p => temp'[q] = temp[q],
         Producing(p) \/ UNCHANGED <<disk, scratch>>,
         HandOK(p)', VerdictsAreTrue',
         job'[p].at \in {"write", "writing"} => VerdictsTrue(job'[p].base)
  PROVE  ProducerInv'
<1>1. \A q \in Proc : q # p => HandOK(q)' /\ VerdictsOK(q)'
  BY OthersProduce DEF Moved
<1>2. VerdictsOK(p)
  BY DEF ProducerInv
<1>3. VerdictsOK(p)'
  BY <1>2 DEF VerdictsOK, VerdictsTrue, Moved, Steady
<1> QED
  BY <1>1, <1>3 DEF ProducerInv

\* The same for a step that leaves the files alone and comes before the ledger is written.
LEMMA ProducerGoesOn ==
  ASSUME TypeInv, ProducerInv, OneProducer, NEW p \in Proc, Moved(p), DirStays,
         job'[p].at \notin {"write", "writing"}, HandOK(p)'
  PROVE  ProducerInv'
<1>1. VerdictsAreTrue'
  BY DEF DirStays, ProducerInv, VerdictsAreTrue
<1> QED
  BY <1>1, ProducerMoves DEF DirStays

LEMMA ProducerRefused ==
  ASSUME TypeInv, ProducerInv, OneProducer, NEW p \in Proc, Refused(p)
  PROVE  ProducerInv'
<1>1. HandOK(p)'
  BY DEF Refused, HandOK, InputsOK, ProducedOK, BuiltOK, JudgedOK, HoldsInputs
<1> QED
  BY <1>1, ProducerGoesOn DEF Refused

\* The process that ends has nothing in hand any more.
LEMMA ProducerEnds ==
  ASSUME TypeInv, ProducerInv, OneProducer, NEW p \in Proc, CleanUp(p) \/ Crash(p) \/ EndStatus(p)
  PROVE  ProducerInv'
<1>1. Ended(p)
  BY EndMoves
<1>2. Producing(p) \/ scratch' = scratch
  BY <1>1 DEF CleanUp, Crash, EndStatus, Ended, Producing, Producers
<1>3. \A q \in Proc : q # p => HandOK(q)' /\ VerdictsOK(q)'
  BY <1>1, <1>2, OthersProduce DEF Ended
<1>4. HandOK(p)' /\ VerdictsOK(p)' /\ VerdictsAreTrue'
  BY <1>1 DEF Ended, HandOK, VerdictsOK, ProducerInv, VerdictsAreTrue
<1> QED
  BY <1>3, <1>4 DEF ProducerInv

\* The inputs in hand stay in hand.
LEMMA InputsStay ==
  ASSUME NEW p \in Proc, Moved(p), InputsOK(p), UNCHANGED <<recipe, file, disk>>,
         job'[p].inputs = job[p].inputs, job'[p].fetched = job[p].fetched,
         job[p].at \in HoldsInputs \ {"check", "resolve"},
         job'[p].at \in HoldsInputs \ {"check", "resolve"}
  PROVE  InputsOK(p)'
<1>1. \A i, snap : InputBytes(i, snap)' = InputBytes(i, snap) /\ Fetches(i)' = Fetches(i)
  BY DEF InputBytes, Fetches
<1> QED
  BY <1>1 DEF InputsOK, Moved, Steady

-----------------------------------------------------------------------------
(* The steps, one by one. *)

LEMMA StartProduces ==
  ASSUME TypeInv, TypeInv', ProducerInv, OneProducer, NEW p \in Proc, Begin(p)
  PROVE  ProducerInv'
<1>1. Started(p)
  BY Starts
<1>2. VerdictsTrue(ledger)
  BY <1>1 DEF ProducerInv, VerdictsAreTrue, VerdictsTrue, Started
<1> DEFINE k == job'[p]
<1>3. /\ k \in Job /\ k.snap = ledger /\ k.verb \in Verbs[p] /\ UNCHANGED <<recipe, file, disk>>
      /\ k.inputs = [i \in {} |-> Nil]
      /\ k.verb \in Producers => k.todo = recipe[k.target]
      /\ k.at \in {"resolve", "check", "pin", "scan"}
      /\ k.at = "check" => k.target \in DeclaresValidator
      /\ k.at = "resolve" => k.verb = "build" \/ k.target \notin DeclaresValidator
  BY <1>1 DEF Started, Job, Verb, Producers, DirStays
<1>4. HandOK(p)'
  <2> SUFFICES ASSUME k.verb \in Producers
               PROVE  (InputsOK(p) /\ ProducedOK(p) /\ BuiltOK(p) /\ JudgedOK(p))'
    BY DEF HandOK
  <2>1. DOMAIN k.inputs = {}
    BY <1>3
  <2>2. InputsOK(p)'
    BY <1>3, <2>1 DEF InputsOK, HoldsInputs
  <2> QED
    BY <1>3, <2>2 DEF ProducedOK, BuiltOK, JudgedOK
<1>5. VerdictsOK(p)'
  BY <1>2, <1>3 DEF VerdictsOK, VerdictsTrue
<1>6. \A q \in Proc : q # p => HandOK(q)' /\ VerdictsOK(q)'
  BY <1>1, OthersProduce DEF Started, DirStays
<1> QED
  BY <1>1, <1>4, <1>5, <1>6 DEF ProducerInv, Started, DirStays, VerdictsAreTrue

LEMMA HeadAndTail ==
  ASSUME NEW s \in Seq(Node), s # <<>>
  PROVE  Members(s) = Members(Tail(s)) \cup {Head(s)}
<1>1. /\ Len(s) \in Nat \ {0} /\ DOMAIN s = 1..Len(s) /\ DOMAIN Tail(s) = 1..(Len(s) - 1)
      /\ \A k \in 1..(Len(s) - 1) : Tail(s)[k] = s[k + 1]
      /\ Head(s) = s[1]
  OBVIOUS
<1>2. \A k \in 1..Len(s) : k = 1 \/ (k - 1 \in 1..(Len(s) - 1) /\ s[k] = Tail(s)[k - 1])
  BY <1>1
<1>3. \A k \in 1..(Len(s) - 1) : k + 1 \in 1..Len(s) /\ Tail(s)[k] = s[k + 1]
  BY <1>1
<1>4. 1 \in 1..Len(s)
  BY <1>1
<1>5. ASSUME NEW k \in 1..Len(s)  PROVE s[k] \in Members(Tail(s)) \cup {Head(s)}
  <2>1. CASE k = 1
    BY <1>1, <2>1
  <2>2. CASE k - 1 \in DOMAIN Tail(s) /\ s[k] = Tail(s)[k - 1]
    BY <2>2 DEF Members
  <2> QED
    BY <1>1, <1>2, <2>1, <2>2
<1>6. Members(Tail(s)) \cup {Head(s)} \subseteq Members(s)
  BY <1>1, <1>3, <1>4 DEF Members
<1> QED
  BY <1>1, <1>5, <1>6 DEF Members

LEMMA HandOf ==
  ASSUME TypeInv, ProducerInv, NEW p \in Proc, Producing(p)
  PROVE  InputsOK(p) /\ ProducedOK(p) /\ BuiltOK(p) /\ JudgedOK(p)
BY DEF ProducerInv, HandOK, Producing

LEMMA ResolveProduces ==
  ASSUME TypeInv, TypeInv', ProducerInv, OneProducer, NEW p \in Proc, ResolveInput(p)
  PROVE  ProducerInv'
<1> DEFINE i == Head(job[p].todo)
           c == InputBytes(i, job[p].snap)
<1>1. /\ job[p].at = "resolve" /\ job[p].todo # <<>>
      /\ \/ Refused(p)
         \/ /\ Moved(p) /\ DirStays /\ c # Nil /\ job'[p].at = "resolve"
            /\ job'[p].todo = Tail(job[p].todo)
            /\ job'[p].inputs = With(job[p].inputs, i, c)
            /\ job'[p].fetched = IF Fetches(i) THEN job[p].fetched \cup {i} ELSE job[p].fetched
  BY ResolveMoves
<1>2. CASE Refused(p)
  BY <1>2, ProducerRefused
<1>3. CASE ~Refused(p)
  <2>1. Moved(p) /\ DirStays /\ Producing(p)
    BY <1>1, <1>3 DEF Moved, JobOK, Producing, Producers
  <2>2. InputsOK(p) /\ ProducedOK(p) /\ BuiltOK(p) /\ JudgedOK(p)
    BY <2>1, HandOf
  <2>3. \A x, snap : InputBytes(x, snap)' = InputBytes(x, snap) /\ Fetches(x)' = Fetches(x)
    BY <2>1 DEF InputBytes, Fetches, DirStays
  <2>4. DOMAIN job'[p].inputs = DOMAIN job[p].inputs \cup {i}
    BY <1>1, <1>3 DEF With
  <2>5. Members(job[p].todo) = Members(job'[p].todo) \cup {i}
    <3>1. job[p].todo \in Seq(Node)
      BY <2>1 DEF Moved, Job
    <3>2. \A s \in Seq(Node) : s # <<>> => Members(s) = Members(Tail(s)) \cup {Head(s)}
      BY HeadAndTail
    <3> QED
      BY <1>1, <1>3, <3>1, <3>2
  <2>6. \A x \in DOMAIN job'[p].inputs :
          /\ job'[p].inputs[x] = InputBytes(x, job[p].snap)
          /\ Fetches(x) => x \in job'[p].fetched
    <3> HIDE DEF c
    <3>1. \A x \in DOMAIN job[p].inputs \cup {i} :
            With(job[p].inputs, i, c)[x] = IF x = i THEN c ELSE job[p].inputs[x]
      BY DEF With
    <3> QED
      BY <1>1, <1>3, <2>2, <2>4, <3>1 DEF InputsOK, HoldsInputs, c
  <2>7. InputsOK(p)'
    BY <1>1, <1>3, <2>1, <2>2, <2>3, <2>4, <2>5, <2>6
       DEF InputsOK, HoldsInputs, Moved, Steady, DirStays
  <2>8. (ProducedOK(p) /\ BuiltOK(p) /\ JudgedOK(p))'
    BY <1>1, <1>3, <2>1, <2>2 DEF ProducedOK, BuiltOK, JudgedOK, Moved, Steady, DirStays
  <2> QED
    BY <1>1, <1>3, <2>1, <2>7, <2>8, ProducerGoesOn DEF HandOK
<1> QED
  BY <1>2, <1>3

LEMMA ResolvedProduces ==
  ASSUME TypeInv, TypeInv', ProducerInv, OneProducer, NEW p \in Proc, InputsResolved(p)
  PROVE  ProducerInv'
<1>1. /\ job[p].at = "resolve" /\ job[p].todo = <<>> /\ Moved(p) /\ DirStays
      /\ Kept(job[p], job'[p])
      /\ job'[p].at = IF job[p].verb = "validate" /\ job[p].target \in DeclaresValidator
                      THEN "judge" ELSE "scratch"
  BY ResolvedMoves
<1>2. InputsOK(p) /\ ProducedOK(p) /\ BuiltOK(p) /\ JudgedOK(p)
  BY <1>1, HandOf DEF Moved, JobOK, Producing, Producers
<1>3. \A i, snap : InputBytes(i, snap)' = InputBytes(i, snap) /\ Fetches(i)' = Fetches(i)
  BY <1>1 DEF InputBytes, Fetches, DirStays
<1>4. Members(job[p].todo) = {}
  BY <1>1 DEF Members
<1>5. InputsOK(p)'
  BY <1>1, <1>2, <1>3, <1>4 DEF InputsOK, HoldsInputs, Moved, Steady, DirStays, Kept
<1>6. (ProducedOK(p) /\ BuiltOK(p) /\ JudgedOK(p))'
  BY <1>1, <1>2 DEF ProducedOK, BuiltOK, JudgedOK, Moved, Steady, DirStays
<1> QED
  BY <1>1, <1>5, <1>6, ProducerGoesOn DEF HandOK

LEMMA EmptyScratchProduces ==
  ASSUME TypeInv, TypeInv', ProducerInv, OneProducer, NEW p \in Proc, EmptyScratch(p)
  PROVE  ProducerInv'
<1>1. /\ job[p].at = "scratch" /\ Moved(p) /\ job'[p].at = "run" /\ Kept(job[p], job'[p])
      /\ UNCHANGED <<recipe, file, disk, ledger, temp, waived, touched>>
  BY EmptyScratchMoves
<1>2. Producing(p)
  BY <1>1 DEF Moved, JobOK, Producing, Producers
<1>3. InputsOK(p) /\ JudgedOK(p)
  BY <1>2, HandOf
<1>4. InputsOK(p)'
  BY <1>1, <1>3, InputsStay DEF HoldsInputs, Kept
<1>5. HandOK(p)'
  BY <1>1, <1>3, <1>4 DEF HandOK, ProducedOK, BuiltOK, JudgedOK, Moved, Steady
<1> QED
  BY <1>1, <1>2, <1>5, ProducerMoves DEF ProducerInv, VerdictsAreTrue

\* What the provider reads is what the inputs were resolved to.
LEMMA ReadsResolved ==
  ASSUME TypeInv, NEW p \in Proc, Producing(p), InputsOK(p), job[p].at \in HoldsInputs
  PROVE  BytesRead(p) = job[p].inputs
<1>1. job[p] \in Job
  BY InHandOf DEF Producing
<1>2. PICK S \in SUBSET Node : job[p].inputs \in [S -> Content]
  BY <1>1 DEF Job, InputMap
<1>3. ASSUME NEW i \in S  PROVE BytesAtPath(p, i) = job[p].inputs[i]
  <2>1. job[p].inputs[i] = InputBytes(i, job[p].snap) /\ (Fetches(i) => i \in job[p].fetched)
    BY <1>2, <1>3 DEF InputsOK, HoldsInputs
  <2>2. CASE i \in Derived
    BY <2>1, <2>2 DEF InputBytes, BytesAtPath
  <2>3. CASE i \notin Derived /\ i \in job[p].fetched
    BY <2>3 DEF BytesAtPath
  <2>4. CASE i \notin Derived /\ i \notin job[p].fetched
    <3>1. i \in Authored /\ InputBytes(i, job[p].snap) \in Content
      BY <1>2, <1>3, <2>1, <2>4 DEF Node
    <3>2. Standin[i] = Nil \/ file[i] # Nil
      BY <2>1, <2>4, <3>1 DEF Fetches
    <3>3. InputBytes(i, job[p].snap) = file[i]
      BY <2>4, <3>1, <3>2, ContentAssumption DEF InputBytes
    <3> QED
      BY <2>1, <2>4, <3>3 DEF BytesAtPath
  <2> QED
    BY <2>2, <2>3, <2>4
<1> QED
  BY <1>2, <1>3 DEF BytesRead

LEMMA RunProduces ==
  ASSUME TypeInv, TypeInv', ProducerInv, OneProducer, NEW p \in Proc, RunProvider(p)
  PROVE  ProducerInv'
<1>1. /\ job[p].at = "run" /\ Moved(p) /\ job'[p].at = "collect"
      /\ job'[p].inputs = job[p].inputs
      /\ UNCHANGED <<recipe, file, disk, ledger, temp>>
  BY RunProviderMoves
<1>2. PICK c \in Content :
        /\ Produces(job[p].target, BytesRead(p), c, job'[p].verdict)
        /\ scratch' = [scratch EXCEPT ![ScratchOf(p)] = c]
        /\ job'[p].judged = About(BytesRead(p), job'[p].verdict)
  BY RunProviderMoves
<1>3. Producing(p) /\ job[p] \in Job /\ JobOK(job[p])
  BY <1>1 DEF Moved, JobOK, Producing, Producers
<1>4. InputsOK(p) /\ JudgedOK(p)
  BY <1>3, HandOf
<1>5. BytesRead(p) = job[p].inputs
  BY <1>1, <1>3, <1>4, ReadsResolved DEF HoldsInputs
<1>6. job'[p].fetched = job[p].fetched
  BY RunProviderMoves
<1>7. InputsOK(p)'
  BY <1>1, <1>4, <1>6, InputsStay DEF HoldsInputs
<1>8. ScratchOf(p)' = ScratchOf(p) /\ ScratchOf(p) \in Scratch
  BY <1>1, <1>3, ScratchOfType DEF ScratchOf, Moved, Steady, Producing, Producers, TypeInv, TypeOK
<1>9. scratch'[ScratchOf(p)] = c
  BY <1>2, <1>8 DEF TypeInv, TypeOK
<1>10. ProducedOK(p)'
  BY <1>1, <1>2, <1>5, <1>8, <1>9 DEF ProducedOK, ProducedFor, Moved, Steady
<1>11. (BuiltOK(p) /\ JudgedOK(p))'
  BY <1>1, <1>4 DEF BuiltOK, JudgedOK, Moved, Steady
<1>12. HandOK(p)'
  BY <1>7, <1>10, <1>11 DEF HandOK
<1>13. VerdictsAreTrue'
  BY <1>1 DEF ProducerInv, VerdictsAreTrue
<1> QED
  BY <1>1, <1>3, <1>12, <1>13, ProducerMoves

LEMMA CollectProduces ==
  ASSUME TypeInv, TypeInv', ProducerInv, OneProducer, NEW p \in Proc, CollectOutput(p)
  PROVE  ProducerInv'
<1> DEFINE c == scratch[ScratchOf(p)]
<1>1. CASE Refused(p)
  BY <1>1, ProducerRefused
<1>2. CASE ~Refused(p)
  <2>1. /\ job[p].at = "collect" /\ Moved(p) /\ DirStays /\ Kept(job[p], job'[p])
        /\ c \notin {Nil, Empty} /\ job'[p].hash = c
        /\ \/ job[p].verb = "build" /\ job'[p].at = "stage"
           \/ /\ job[p].verb # "build" /\ job'[p].at = "reread"
              /\ c = job[p].snap.artifacts[job[p].target].hash
              /\ job[p].verdict # Nil
    BY <1>2, CollectOutputMoves
  <2>2. Producing(p)
    BY <2>1 DEF Moved, JobOK, Producing, Producers
  <2>3. InputsOK(p) /\ ProducedOK(p) /\ JudgedOK(p)
    BY <2>2, HandOf
  <2>4. InputsOK(p)'
    BY <2>1, <2>3, InputsStay DEF HoldsInputs, Kept, DirStays
  <2>5. ProducedFor(job[p], c)
    BY <2>1, <2>3 DEF ProducedOK
  <2>6. c' = c
    BY <2>1 DEF ScratchOf, Moved, Steady, DirStays
  <2>7. ProducedOK(p)' /\ BuiltOK(p)'
    BY <2>1, <2>5, <2>6 DEF ProducedOK, BuiltOK, ProducedFor, Moved, Steady, Kept
  <2>8. JudgedOK(p)'
    BY <2>1, <2>3, <2>5 DEF JudgedOK, ProducedFor, Produces, About, Moved, Steady, Kept
  <2> QED
    BY <2>1, <2>4, <2>7, <2>8, ProducerGoesOn DEF HandOK
<1> QED
  BY <1>1, <1>2

LEMMA StageProduces ==
  ASSUME TypeInv, TypeInv', ProducerInv, OneProducer, NEW p \in Proc, StageOutput(p)
  PROVE  ProducerInv'
<1>1. CASE Refused(p)
  BY <1>1, ProducerRefused
<1>2. CASE ~Refused(p)
  <2>1. /\ job[p].at = "stage" /\ Moved(p) /\ job'[p].at = "reread" /\ Kept(job[p], job'[p])
        /\ job'[p].hash = job[p].hash
        /\ temp' = [temp EXCEPT ![p] = scratch[ScratchOf(p)]]
        /\ UNCHANGED <<recipe, file, disk, ledger, scratch>>
    BY <1>2, StageOutputMoves
  <2>2. Producing(p) /\ job[p].verb = "build"
    BY <2>1 DEF Moved, JobOK, Producing, Producers
  <2>3. InputsOK(p) /\ BuiltOK(p)
    BY <2>2, HandOf
  <2>4. InputsOK(p)'
    BY <2>1, <2>3, InputsStay DEF HoldsInputs, Kept
  <2>5. temp'[p] = job[p].hash /\ \A q \in Proc : q # p => temp'[q] = temp[q]
    BY <2>1, <2>2, <2>3 DEF BuiltOK, TypeInv, TypeOK
  <2>6. (ProducedOK(p) /\ BuiltOK(p) /\ JudgedOK(p))'
    BY <2>1, <2>2, <2>3, <2>5 DEF ProducedOK, BuiltOK, ProducedFor, JudgedOK, Moved, Steady, Kept
  <2>7. VerdictsAreTrue'
    BY <2>1 DEF ProducerInv, VerdictsAreTrue
  <2> QED
    BY <2>1, <2>2, <2>4, <2>5, <2>6, <2>7, ProducerMoves DEF HandOK
<1> QED
  BY <1>1, <1>2

LEMMA CheckProduces ==
  ASSUME TypeInv, TypeInv', ProducerInv, OneProducer, NEW p \in Proc, CheckArtifact(p)
  PROVE  ProducerInv'
<1>1. CASE Refused(p)
  BY <1>1, ProducerRefused
<1>2. CASE ~Refused(p)
  <2> DEFINE rec == job[p].snap.artifacts[job[p].target]
  <2>1. /\ job[p].at = "check" /\ Moved(p) /\ DirStays /\ Kept(job[p], job'[p])
        /\ job'[p].at = "resolve" /\ job'[p].todo = job[p].todo /\ disk[rec.path] = rec.hash
    BY <1>2, CheckArtifactMoves
  <2>2. Producing(p) /\ job[p].verb = "validate"
    BY <2>1 DEF Moved, JobOK, Producing, Producers
  <2>3. InputsOK(p)
    BY <2>2, HandOf
  <2>4. \A i, snap : InputBytes(i, snap)' = InputBytes(i, snap) /\ Fetches(i)' = Fetches(i)
    BY <2>1 DEF InputBytes, Fetches, DirStays
  <2>5. InputsOK(p)'
    BY <2>1, <2>3, <2>4 DEF InputsOK, HoldsInputs, Moved, Steady, DirStays, Kept
  <2>6. (ProducedOK(p) /\ BuiltOK(p) /\ JudgedOK(p))'
    BY <2>1, <2>2 DEF ProducedOK, BuiltOK, JudgedOK, Moved, Steady, DirStays
  <2> QED
    BY <2>1, <2>5, <2>6, ProducerGoesOn DEF HandOK
<1> QED
  BY <1>1, <1>2

LEMMA JudgeProduces ==
  ASSUME TypeInv, TypeInv', ProducerInv, OneProducer, NEW p \in Proc, JudgeArtifact(p)
  PROVE  ProducerInv'
<1> DEFINE rec == job[p].snap.artifacts[job[p].target]
<1>1. /\ job[p].at = "judge" /\ Moved(p) /\ DirStays /\ job'[p].at = "reread"
      /\ job'[p].inputs = job[p].inputs /\ job'[p].fetched = job[p].fetched
      /\ job'[p].judged = BytesRead(p) /\ job'[p].verdict # Nil
      /\ Judges(job[p].target, BytesRead(p), disk[rec.path], job'[p].verdict)
  BY JudgeArtifactMoves, VerdictAssumption DEF ArtifactAtPath
<1>2. Producing(p) /\ job[p].verb = "validate" /\ job[p] \in Job
  BY <1>1 DEF Moved, JobOK, Producing, Producers
<1>3. InputsOK(p) /\ JudgedOK(p)
  BY <1>2, HandOf
<1>4. BytesRead(p) = job[p].inputs
  BY <1>1, <1>2, <1>3, ReadsResolved DEF HoldsInputs
<1>5. InputsOK(p)'
  BY <1>1, <1>3, InputsStay DEF HoldsInputs, DirStays
<1>6. disk[rec.path] = rec.hash /\ job[p].target \in DeclaresValidator
  BY <1>1, <1>2, <1>3 DEF JudgedOK
<1>7. (ProducedOK(p) /\ BuiltOK(p) /\ JudgedOK(p))'
  BY <1>1, <1>2, <1>4, <1>6 DEF ProducedOK, BuiltOK, JudgedOK, Moved, Steady, DirStays
<1> QED
  BY <1>1, <1>5, <1>7, ProducerGoesOn DEF HandOK

LEMMA NothingInHand ==
  ASSUME NEW p \in Proc, Moved(p), ~Producing(p)
  PROVE  HandOK(p)'
BY DEF Moved, Steady, Producing, HandOK

LEMMA PinProduces ==
  ASSUME TypeInv, TypeInv', ProducerInv, OneProducer, NEW p \in Proc, PinFollowed(p)
  PROVE  ProducerInv'
<1>1. CASE Refused(p)
  BY <1>1, ProducerRefused
<1>2. CASE ~Refused(p)
  <2>1. job[p].at = "pin" /\ Moved(p) /\ DirStays /\ job'[p].at = "reread"
    BY <1>2, PinFollowedMoves
  <2>2. ~Producing(p)
    BY <2>1 DEF Moved, JobOK, Producing, Producers
  <2> QED
    BY <2>1, <2>2, NothingInHand, ProducerGoesOn
<1> QED
  BY <1>1, <1>2

\* Nothing but the ledger is read or written from here on.
LEMMA TowardsTheWrite ==
  ASSUME TypeInv, ProducerInv, NEW p \in Proc, Moved(p), Kept(job[p], job'[p]),
         job'[p].hash = job[p].hash, UNCHANGED <<recipe, file, disk, scratch, temp>>,
         job[p].at \in {"reread", "write", "writing"},
         job'[p].at \in {"write", "writing", "rename", "clean"}
  PROVE  HandOK(p)'
<1>1. CASE ~Producing(p)
  BY <1>1, NothingInHand
<1>2. CASE Producing(p)
  <2>1. InputsOK(p) /\ BuiltOK(p) /\ JudgedOK(p)
    BY <1>2, HandOf
  <2>2. InputsOK(p)'
    <3>1. CASE job'[p].at = "clean"
      BY <3>1 DEF InputsOK, HoldsInputs
    <3>2. CASE job'[p].at # "clean"
      BY <2>1, <3>2, InputsStay DEF HoldsInputs, Kept
    <3> QED
      BY <3>1, <3>2
  <2>3. ProducedOK(p)'
    BY DEF ProducedOK
  <2>4. BuiltOK(p)'
    BY <2>1 DEF BuiltOK, ProducedFor, Moved, Steady, Kept
  <2>5. JudgedOK(p)'
    BY <2>1 DEF JudgedOK, Moved, Steady, Kept
  <2> QED
    BY <2>2, <2>3, <2>4, <2>5 DEF HandOK
<1> QED
  BY <1>1, <1>2

LEMMA RereadProduces ==
  ASSUME TypeInv, TypeInv', ProducerInv, OneProducer, NEW p \in Proc, RereadLedger(p)
  PROVE  ProducerInv'
<1>1. CASE Refused(p)
  BY <1>1, ProducerRefused
<1>2. CASE ~Refused(p)
  <2>1. /\ job[p].at = "reread" /\ Moved(p) /\ DirStays /\ Kept(job[p], job'[p])
        /\ job'[p].at = "write" /\ ledger # Torn /\ job'[p].base = ledger
        /\ job'[p].hash = job[p].hash
    BY <1>2, RereadLedgerMoves
  <2>2. HandOK(p)'
    BY <2>1, TowardsTheWrite DEF DirStays
  <2>3. VerdictsTrue(ledger) /\ VerdictsAreTrue'
    BY <2>1 DEF ProducerInv, VerdictsAreTrue, VerdictsTrue, DirStays
  <2> QED
    BY <2>1, <2>2, <2>3, ProducerMoves DEF DirStays
<1> QED
  BY <1>1, <1>2

LEMMA CarriedVerdicts ==
  ASSUME ProducerInv, NEW p \in Proc, Moved(p), job[p].at \in {"write", "writing"}
  PROVE  VerdictsTrue(job[p].snap) /\ VerdictsTrue(job[p].base)
BY DEF ProducerInv, VerdictsOK, Moved

LEMMA TruncateProduces ==
  ASSUME TypeInv, TypeInv', ProducerInv, OneProducer, NEW p \in Proc, TruncateLedger(p)
  PROVE  ProducerInv'
<1>1. /\ job[p].at = "write" /\ Moved(p) /\ job'[p].at = "writing" /\ Kept(job[p], job'[p])
      /\ job'[p].base = job[p].base /\ job'[p].hash = job[p].hash /\ ledger' = Torn
      /\ UNCHANGED <<recipe, file, disk, scratch, temp>>
  BY TruncateLedgerMoves
<1>2. HandOK(p)'
  BY <1>1, TowardsTheWrite
<1>3. VerdictsTrue(job'[p].base)
  BY <1>1, CarriedVerdicts
<1>4. VerdictsAreTrue'
  BY <1>1 DEF VerdictsAreTrue
<1> QED
  BY <1>1, <1>2, <1>3, <1>4, ProducerMoves

\* A verdict goes into the ledger only about the bytes it was given on.
LEMMA AmendedVerdicts ==
  ASSUME NEW j \in Job, JobOK(j), j.at = "writing",
         VerdictsTrue(j.snap), VerdictsTrue(j.base),
         j.verb = "build" => ProducedFor(j, j.hash),
         j.verb = "validate" =>
           /\ Judges(j.target, j.judged, j.snap.artifacts[j.target].hash, j.verdict)
           /\ j.target \notin DeclaresValidator =>
                Makes(j.target, j.judged, j.snap.artifacts[j.target].hash)
  PROVE  VerdictsTrue(Amended(j))
<1>1. j.base \in Ledger /\ j.snap \in Ledger
  BY DEF JobOK, Job
<1>2. CASE j.verb = "build"
  <2>1. /\ Amended(j).artifacts = [j.base.artifacts EXCEPT ![j.target] = BuiltRecord(j)]
        /\ j.target \in Derived
    BY <1>1, <1>2 DEF Amended, Ledger, JobOK
  <2>2. BuiltRecord(j).validation # Nil =>
          VerdictIsAbout(j.target, BuiltRecord(j), BuiltRecord(j).hash)
    BY <1>2 DEF BuiltRecord, ProducedFor, Produces, About, VerdictIsAbout
  <2>3. \A t \in Derived :
          Amended(j).artifacts[t] = IF t = j.target THEN BuiltRecord(j) ELSE j.base.artifacts[t]
    BY <1>1, <2>1 DEF Ledger
  <2> QED
    BY <2>2, <2>3 DEF VerdictsTrue
<1>3. CASE j.verb = "validate"
  <2> DEFINE old == j.snap.artifacts[j.target]
             new == JudgedRecord(j)
  <2>1. j.target \in Derived /\ old # Nil /\ old \in Record
    BY <1>1, <1>3 DEF JobOK, Ledger
  <2>2. new.hash = old.hash /\ new.validation = j.verdict /\ new.judged = j.judged
    BY <2>1 DEF JudgedRecord, Record
  <2>5. VerdictIsAbout(j.target, new, new.hash)
    BY <1>3, <2>2 DEF VerdictIsAbout
  <2>3. Amended(j).artifacts = [j.base.artifacts EXCEPT ![j.target] = new]
    BY <1>1, <1>3 DEF Amended, Ledger
  <2> HIDE DEF new, old
  <2>4. \A t \in Derived :
          Amended(j).artifacts[t] = IF t = j.target THEN new ELSE j.base.artifacts[t]
    BY <1>1, <2>3 DEF Ledger
  <2> QED
    BY <2>4, <2>5 DEF VerdictsTrue
<1>4. CASE j.verb = "review"
  <2>1. Amended(j).artifacts = j.base.artifacts
    BY <1>1, <1>4 DEF Amended, Ledger
  <2> QED
    BY <2>1 DEF VerdictsTrue
<1> QED
  BY <1>2, <1>3, <1>4 DEF JobOK, Job, Verb

LEMMA WriteProduces ==
  ASSUME TypeInv, TypeInv', ProducerInv, OneProducer, NEW p \in Proc, WriteLedger(p)
  PROVE  ProducerInv'
<1>1. /\ job[p].at = "writing" /\ Moved(p) /\ Kept(job[p], job'[p])
      /\ job'[p].at = IF job[p].verb = "build" THEN "rename" ELSE "clean"
      /\ job'[p].hash = job[p].hash /\ ledger' = Amended(job[p])
      /\ UNCHANGED <<recipe, file, disk, scratch, temp>>
  BY WriteLedgerMoves
<1>2. HandOK(p)'
  BY <1>1, TowardsTheWrite
<1>3. VerdictsTrue(job[p].snap) /\ VerdictsTrue(job[p].base)
  BY <1>1, CarriedVerdicts
<1>4. job[p] \in Job /\ JobOK(job[p]) /\ job[p] # Idle
  BY <1>1 DEF Moved
<1>5. job[p].verb = "build" => ProducedFor(job[p], job[p].hash)
  BY <1>1, <1>4, HandOf DEF Producing, Producers, BuiltOK
<1>6. job[p].verb = "validate" =>
        LET c == job[p].snap.artifacts[job[p].target].hash
        IN  /\ Judges(job[p].target, job[p].judged, c, job[p].verdict)
            /\ job[p].target \notin DeclaresValidator => Makes(job[p].target, job[p].judged, c)
  BY <1>1, <1>4, HandOf DEF Producing, Producers, JudgedOK
<1>7. VerdictsTrue(Amended(job[p]))
  BY <1>1, <1>3, <1>4, <1>5, <1>6, AmendedVerdicts
<1>8. VerdictsAreTrue'
  BY <1>1, <1>7 DEF VerdictsAreTrue, VerdictsTrue
<1> QED
  BY <1>1, <1>2, <1>8, ProducerMoves

LEMMA RenameProduces ==
  ASSUME TypeInv, TypeInv', ProducerInv, OneProducer, NEW p \in Proc, RenameOutput(p)
  PROVE  ProducerInv'
<1>1. /\ job[p].at = "rename" /\ Moved(p) /\ job'[p].at = "clean"
      /\ UNCHANGED <<recipe, file, ledger, scratch>>
  BY RenameOutputMoves
<1>2. Producing(p)
  BY <1>1 DEF Moved, JobOK, Producing, Producers
<1>3. HandOK(p)'
  BY <1>1 DEF HandOK, InputsOK, ProducedOK, BuiltOK, JudgedOK, HoldsInputs
<1>4. \A q \in Proc : q # p => temp'[q] = temp[q]
  BY DEF RenameOutput, TypeInv, TypeOK
<1>5. VerdictsAreTrue'
  BY <1>1 DEF ProducerInv, VerdictsAreTrue
<1> QED
  BY <1>1, <1>2, <1>3, <1>4, <1>5, ProducerMoves

LEMMA ScanProduces ==
  ASSUME TypeInv, TypeInv', ProducerInv, OneProducer, NEW p \in Proc, Scan(p)
  PROVE  ProducerInv'
<1>1. CASE EndStatus(p)
  BY <1>1, ProducerEnds
<1>2. CASE ~EndStatus(p)
  <2>1. Moved(p) /\ DirStays /\ job[p].at = "scan" /\ job'[p].at = "scan"
    BY <1>2, ReadMoves DEF Scan
  <2>2. ~Producing(p)
    BY <2>1 DEF Moved, JobOK, Producing, Producers
  <2> QED
    BY <2>1, <2>2, NothingInHand, ProducerGoesOn
<1> QED
  BY <1>1, <1>2

LEMMA HumanProduces ==
  ASSUME TypeInv, ProducerInv, ~EditsDuringRuns, Human
  PROVE  ProducerInv'
<1>1. Quiet /\ UNCHANGED <<ledger, job>>
  BY DEF Human, EditFile, EditOutput, EditRecipe, MayEdit
<1>2. \A p \in Proc : HandOK(p)' /\ VerdictsOK(p)'
  BY <1>1 DEF Quiet, HandOK, VerdictsOK
<1> QED
  BY <1>1, <1>2 DEF ProducerInv, VerdictsAreTrue

LEMMA ProducerStep ==
  ASSUME OneProducer, ~EditsDuringRuns
  PROVE  TypeInv /\ TypeInv' /\ ProducerInv /\ [Next]_vars => ProducerInv'
<1> SUFFICES ASSUME TypeInv, TypeInv', ProducerInv, [Next]_vars  PROVE ProducerInv'
  OBVIOUS
<1>1. CASE Human
  BY <1>1, HumanProduces
<1>2. ASSUME NEW p \in Proc, Begin(p)  PROVE ProducerInv'
  BY <1>2, StartProduces
<1>3. ASSUME NEW p \in Proc, Provide(p)  PROVE ProducerInv'
  BY <1>3, ResolveProduces, ResolvedProduces, EmptyScratchProduces, RunProduces,
     ProviderFailsMoves, ProducerRefused, CollectProduces, StageProduces, CheckProduces,
     JudgeProduces, ValidatorFailsMoves, PinProduces DEF Provide
<1>4. ASSUME NEW p \in Proc, Finish(p)  PROVE ProducerInv'
  BY <1>4, RereadProduces, TruncateProduces, WriteProduces, RenameProduces, RenameFailsMoves,
     ProducerRefused, ProducerEnds DEF Finish
<1>5. ASSUME NEW p \in Proc, Scan(p)  PROVE ProducerInv'
  BY <1>5, ScanProduces
<1>6. CASE UNCHANGED vars
  <2>1. \A i, snap : InputBytes(i, snap)' = InputBytes(i, snap) /\ Fetches(i)' = Fetches(i)
    BY <1>6 DEF vars, InputBytes, Fetches
  <2>2. ASSUME NEW p \in Proc, HandOK(p)  PROVE HandOK(p)'
    <3>1. /\ job' = job /\ recipe' = recipe /\ scratch' = scratch /\ temp' = temp /\ disk' = disk
          /\ ScratchOf(p)' = ScratchOf(p)
      BY <1>6 DEF vars, ScratchOf
    <3>2. InputsOK(p) => InputsOK(p)'
      BY ONLY <2>1, <3>1 DEF InputsOK
    <3>3. ProducedOK(p) => ProducedOK(p)'
      BY ONLY <3>1 DEF ProducedOK
    <3>4. BuiltOK(p) => BuiltOK(p)'
      BY ONLY <3>1 DEF BuiltOK
    <3>5. JudgedOK(p) => JudgedOK(p)'
      BY ONLY <3>1 DEF JudgedOK
    <3> QED
      BY <2>2, <3>1, <3>2, <3>3, <3>4, <3>5 DEF HandOK
  <2> QED
    BY <1>6, <2>2 DEF vars, ProducerInv, VerdictsAreTrue, VerdictsOK
<1> QED
  BY <1>1, <1>2, <1>3, <1>4, <1>5, <1>6 DEF Next

LEMMA ProducerInvariant ==
  ASSUME OneProducer, ~EditsDuringRuns
  PROVE  Spec => [](TypeInv /\ ProducerInv)
<1>1. Init => ProducerInv
  BY DEF Init, DirInit, EmptyLedger, ProducerInv, VerdictsAreTrue, HandOK, VerdictsOK
<1>2. TypeInv /\ ProducerInv /\ [Next]_vars => TypeInv' /\ ProducerInv'
  BY TypeStep, ProducerStep
<1> QED
  BY <1>1, <1>2, TypeInit, PTL DEF Spec

\* While one process builds and validates, whatever others waive and report meanwhile and
\* whenever any of them is killed, every recorded verdict is the validator's judgement of the
\* recorded bytes (validate.ts validateTarget, build.ts record).
THEOREM VerdictsCorrect ==
  ASSUME OneProducer, ~EditsDuringRuns
  PROVE  Spec => []VerdictsAreTrue
<1>1. ProducerInv => VerdictsAreTrue
  BY DEF ProducerInv
<1> QED
  BY <1>1, ProducerInvariant, PTL

-----------------------------------------------------------------------------
(* What a release means. *)

\* While one process builds and validates, a yes of release-check between commands is a yes
\* about the bytes that would ship, when every artifact of the graph is a target: the check
\* looks at the states of the targets only (release.ts assessRelease).
THEOREM ReleaseCorrect ==
  ASSUME OneProducer, ~EditsDuringRuns, Targets = Derived
  PROVE  Spec => []ReleasedIsCurrent
<1>1. TypeInv /\ RecInv /\ ProducerInv => ReleasedIsCurrent
  <2> SUFFICES ASSUME TypeInv, RecInv, ProducerInv, ledger # Torn,
                      Releasable(ReportNow, ledger)
               PROVE  /\ \A t \in Derived : Makes(t, InputsNow(t), FoundNow[t])
                      /\ \A t \in Targets :
                           /\ ledger.artifacts[t].validation = "passed"
                           /\ VerdictIsAbout(t, ledger.artifacts[t], FoundNow[t])
    BY DEF ReleasedIsCurrent, ReadableQuiet, ReleaseIsCurrent
  <2>1. ledger \in Ledger /\ recipe \in Recipe
    BY DEF TypeInv, TypeOK, DirTypeOK
  <2>2. RecordsTrue(ledger) /\ VerdictsTrue(ledger)
    BY DEF RecInv, RecordsAreTrue, RecordsTrue, ProducerInv, VerdictsAreTrue, VerdictsTrue
  <2>3. \A t \in Derived : ReportNow[t] = "fresh" /\ Validated(ledger, t) = "passed"
    BY DEF Releasable, Blockers
  <2>4. ASSUME NEW t \in Derived
        PROVE  /\ StateOf(t, recipe, ledger, AuthoredNow, FoundNow) = "fresh"
               /\ ledger.artifacts[t] # Nil /\ FoundNow[t] = ledger.artifacts[t].hash
    <3>1. StateOf(t, recipe, ledger, AuthoredNow, FoundNow) = "fresh"
      BY <2>3 DEF ReportNow, Node
    <3> QED
      BY <3>1, FreshRecord
  <2>5. ASSUME NEW t \in Derived  PROVE Makes(t, InputsNow(t), FoundNow[t])
    <3>1. Makes(t, InputsRecorded(t), FoundNow[t])
      BY <2>1, <2>2, <2>4, FreshIsMade DEF InputsRecorded
    <3>2. ASSUME NEW i \in Members(recipe[t])
          PROVE  (IF i \in Authored THEN AuthoredNow[i] ELSE FoundNow[i])
                   = Resolved(AuthoredNow, ledger.artifacts, i)
      <4>1. i \in Authored \cup Derived
        BY <2>1 DEF Recipe, Members, Node
      <4> QED
        BY <2>4, <4>1 DEF Resolved
    <3>3. InputsNow(t) = InputsRecorded(t)
      BY <3>2 DEF InputsNow, InputsRecorded
    <3> QED
      BY <3>1, <3>3
  <2>6. ASSUME NEW t \in Derived
        PROVE  /\ ledger.artifacts[t].validation = "passed"
               /\ VerdictIsAbout(t, ledger.artifacts[t], FoundNow[t])
    <3>1. ledger.artifacts[t].validation = "passed"
      BY <2>3, <2>4 DEF Validated
    <3> QED
      BY <2>2, <2>4, <3>1, VerdictAssumption DEF VerdictsTrue, Verdict
  <2> QED
    BY <2>5, <2>6
<1>2. OneBuilder
  BY DEF OneProducer, OneBuilder, Producers
<1> QED
  BY <1>1, <1>2, RecInvariant, ProducerInvariant, PTL

-----------------------------------------------------------------------------
(* What lies at a recorded path, whatever a human edits meanwhile.         *)

\* No two providers declare one output file.
DistinctOutputs == \A t, u \in Derived : OutPath[t] = OutPath[u] => t = u

Renaming(t) == \E p \in Proc : Running(p, "rename") /\ job[p].target = t

\* The recorded bytes lie at the declared path, or a human was there last, or a build is about
\* to put them there.
Placed(l) ==
  \A t \in Derived :
    l.artifacts[t] # Nil =>
      /\ l.artifacts[t].path = OutPath[t]
      /\ \/ disk[OutPath[t]] = l.artifacts[t].hash
         \/ OutPath[t] \in touched
         \/ Renaming(t)

\* What a build is about to put in place is what it has collected and recorded.
PlacingOK(p) ==
  LET j == job[p] IN
  (j # Idle /\ j.verb # "status") =>
    /\ j.at = "writing" => Placed(j.snap)
    /\ (j.verb = "build" /\ j.at = "stage") => scratch[ScratchOf(p)] = j.hash
    /\ (j.verb = "build" /\ j.at \in {"reread", "write", "writing", "rename"}) =>
         temp[p] = j.hash
    /\ j.at = "rename" =>
         /\ ledger # Torn
         /\ ledger.artifacts[j.target] # Nil
         /\ ledger.artifacts[j.target].hash = j.hash

PlaceInv == (ledger # Torn => Placed(ledger)) /\ \A p \in Proc : PlacingOK(p)

\* Two verbs that write never run at once.
LEMMA WritesAlone ==
  ASSUME LedgerInv, TypeInv, OneWriter, NEW p \in Proc, NEW q \in Proc, q # p,
         job[p] # Idle, job[p].verb # "status", job[q] # Idle
  PROVE  job[q].verb = "status"
<1>1. job[p].verb \in Verbs[p] /\ job[q].verb \in Verbs[q]
  BY Held DEF HeldOK
<1>2. job[p].verb \in Verb /\ job[q].verb \in Verb
  BY InHandOf DEF Job
<1> QED
  BY <1>1, <1>2 DEF OneWriter, Writers, Verb

\* What lies where it should goes on lying there while no output is touched.
LEMMA PlacedStays ==
  ASSUME UNCHANGED <<disk, touched>>, \A t \in Derived : Renaming(t) => Renaming(t)'
  PROVE  \A l : Placed(l) => Placed(l)'
BY DEF Placed

LEMMA StillRenaming ==
  ASSUME NEW p \in Proc, ~Running(p, "rename"), \A q \in Proc : q # p => job'[q] = job[q]
  PROVE  \A t \in Derived : Renaming(t) => Renaming(t)'
BY DEF Renaming, Running

\* What a step that touches no output and no ledger leaves to show.
LEMMA PlacingMoves ==
  ASSUME TypeInv, LedgerInv, PlaceInv, OneWriter, NEW p \in Proc, ~Running(p, "rename"),
         \A q \in Proc : q # p => job'[q] = job[q] /\ temp'[q] = temp[q],
         (job[p] # Idle /\ job[p].verb # "status") \/ UNCHANGED scratch,
         UNCHANGED <<disk, ledger, touched>>, PlacingOK(p)'
  PROVE  PlaceInv'
<1>1. \A l : Placed(l) => Placed(l)'
  BY PlacedStays, StillRenaming
<1>2. ASSUME NEW q \in Proc, q # p  PROVE PlacingOK(q)'
  <2>1. PlacingOK(q) /\ job'[q] = job[q] /\ temp'[q] = temp[q]
    BY <1>2 DEF PlaceInv
  <2>2. CASE UNCHANGED scratch
    BY <1>1, <2>1, <2>2 DEF PlacingOK, ScratchOf
  <2>3. CASE job[p] # Idle /\ job[p].verb # "status"
    <3>1. job[q] = Idle \/ job[q].verb = "status"
      BY <1>2, <2>3, WritesAlone
    <3> QED
      BY <2>1, <3>1 DEF PlacingOK
  <2> QED
    BY <2>2, <2>3
<1>3. (ledger # Torn => Placed(ledger))'
  BY <1>1 DEF PlaceInv
<1> QED
  BY <1>2, <1>3 DEF PlaceInv

LEMMA PlacingRefused ==
  ASSUME TypeInv, LedgerInv, PlaceInv, OneWriter, NEW p \in Proc, ~Running(p, "rename"),
         Refused(p)
  PROVE  PlaceInv'
<1>1. PlacingOK(p)'
  BY DEF Refused, PlacingOK
<1> QED
  BY <1>1, PlacingMoves DEF Refused, Moved, DirStays

\* Steps that come before anything is collected, and those of other verbs than build.
LEMMA PlacingAhead ==
  ASSUME TypeInv, LedgerInv, PlaceInv, OneWriter, NEW p \in Proc, Moved(p), DirStays,
         job[p].at # "rename", job'[p].at \notin {"writing", "rename"},
         job[p].verb = "build" => job'[p].at \notin {"stage", "reread", "write"}
  PROVE  PlaceInv'
<1>1. PlacingOK(p)'
  BY DEF Moved, Steady, PlacingOK
<1> QED
  BY <1>1, PlacingMoves DEF Moved, DirStays, Running

LEMMA PlacingProvides ==
  ASSUME TypeInv, TypeInv', LedgerInv, PlaceInv, OneWriter, NEW p \in Proc, Provide(p)
  PROVE  PlaceInv'
<1> USE DEF Running, Kept
<1>1. CASE ResolveInput(p)
  BY <1>1, ResolveMoves, PlacingAhead, PlacingRefused
<1>2. CASE InputsResolved(p)
  BY <1>2, ResolvedMoves, PlacingAhead
<1>3. CASE EmptyScratch(p) \/ RunProvider(p)
  <2>1. /\ job[p].at \in {"scratch", "run"} /\ job'[p].at \in {"run", "collect"} /\ Moved(p)
        /\ UNCHANGED <<disk, ledger, temp, touched>>
    BY <1>3, EmptyScratchMoves, RunProviderMoves
  <2>2. job[p] # Idle /\ job[p].verb # "status" /\ PlacingOK(p)'
    BY <2>1 DEF Moved, JobOK, PlacingOK
  <2> QED
    BY <2>1, <2>2, PlacingMoves DEF Moved
<1>4. CASE ProviderFails(p)
  BY <1>4, ProviderFailsMoves, PlacingRefused
<1>5. CASE CollectOutput(p)
  <2>1. CASE Refused(p)
    BY <1>5, <2>1, CollectOutputMoves, PlacingRefused
  <2>2. CASE ~Refused(p)
    <3>1. /\ job[p].at = "collect" /\ Moved(p) /\ DirStays
          /\ job'[p].hash = scratch[ScratchOf(p)]
          /\ \/ job[p].verb = "build" /\ job'[p].at = "stage"
             \/ job[p].verb # "build" /\ job'[p].at = "reread"
      BY <1>5, <2>2, CollectOutputMoves
    <3>2. PlacingOK(p)'
      BY <3>1 DEF Moved, Steady, PlacingOK, ScratchOf, DirStays
    <3> QED
      BY <3>1, <3>2, PlacingMoves DEF Moved, DirStays
  <2> QED
    BY <2>1, <2>2
<1>6. CASE StageOutput(p)
  <2>1. CASE Refused(p)
    BY <1>6, <2>1, StageOutputMoves, PlacingRefused
  <2>2. CASE ~Refused(p)
    <3>1. /\ job[p].at = "stage" /\ Moved(p) /\ job'[p].at = "reread"
          /\ job'[p].hash = job[p].hash
          /\ temp' = [temp EXCEPT ![p] = scratch[ScratchOf(p)]]
          /\ UNCHANGED <<disk, ledger, scratch, touched>>
      BY <1>6, <2>2, StageOutputMoves
    <3>2. temp'[p] = scratch[ScratchOf(p)] /\ \A q \in Proc : q # p => temp'[q] = temp[q]
      BY <3>1 DEF TypeInv, TypeOK
    <3>3. job[p] # Idle /\ job[p].verb = "build" /\ PlacingOK(p)
      BY <3>1 DEF Moved, JobOK, PlaceInv
    <3>4. PlacingOK(p)'
      BY <3>1, <3>2, <3>3 DEF Moved, Steady, PlacingOK
    <3> QED
      BY <3>1, <3>2, <3>4, PlacingMoves DEF Moved
  <2> QED
    BY <2>1, <2>2
<1>7. CASE CheckArtifact(p)
  BY <1>7, CheckArtifactMoves, PlacingAhead, PlacingRefused
<1>8. CASE JudgeArtifact(p) \/ PinFollowed(p) \/ ValidatorFails(p)
  <2>1. CASE Refused(p)
    BY <1>8, <2>1, JudgeArtifactMoves, ValidatorFailsMoves, PinFollowedMoves, PlacingRefused
  <2>2. CASE ~Refused(p)
    <3>1. job[p].at \in {"judge", "pin"} /\ Moved(p) /\ DirStays /\ job'[p].at = "reread"
      BY <1>8, <2>2, JudgeArtifactMoves, ValidatorFailsMoves, PinFollowedMoves
    <3>2. job[p].verb # "build"
      BY <3>1 DEF Moved, JobOK
    <3> QED
      BY <3>1, <3>2, PlacingAhead
  <2> QED
    BY <2>1, <2>2
<1> QED
  BY <1>1, <1>2, <1>3, <1>4, <1>5, <1>6, <1>7, <1>8 DEF Provide

\* What a verb writes says of each output what the ledger it loaded said, but for the one it
\* has built.
LEMMA AmendedRecords ==
  ASSUME NEW j \in Job, JobOK(j), j.at = "writing", j.base = j.snap
  PROVE  /\ j.verb = "build" => /\ j.target \in Derived
                                /\ Amended(j).artifacts[j.target] = BuiltRecord(j)
         /\ \A t \in Derived :
              (j.verb # "build" \/ t # j.target) =>
                LET old == j.snap.artifacts[t]
                    new == Amended(j).artifacts[t]
                IN  /\ new # Nil => old # Nil
                    /\ new # Nil => new.inputs = old.inputs
                    /\ new # Nil => new.path = old.path
                    /\ new # Nil => new.hash = old.hash
<1>1. j.base \in Ledger /\ j.snap \in Ledger
  BY DEF JobOK, Job
<1>2. CASE j.verb = "build"
  <2>1. /\ Amended(j).artifacts = [j.snap.artifacts EXCEPT ![j.target] = BuiltRecord(j)]
        /\ j.target \in Derived
    BY <1>1, <1>2 DEF Amended, Ledger, JobOK
  <2>2. \A t \in Derived :
          Amended(j).artifacts[t] = IF t = j.target THEN BuiltRecord(j) ELSE j.snap.artifacts[t]
    BY <1>1, <2>1 DEF Ledger
  <2> QED
    BY <1>2, <2>1, <2>2
<1>3. CASE j.verb = "validate"
  <2> DEFINE old == j.snap.artifacts[j.target]
             new == JudgedRecord(j)
  <2>1. j.target \in Derived /\ old # Nil /\ old \in Record
    BY <1>1, <1>3 DEF JobOK, Ledger
  <2>2. new.inputs = old.inputs /\ new.path = old.path /\ new.hash = old.hash
    BY <2>1 DEF JudgedRecord, Record
  <2>3. Amended(j).artifacts = [j.snap.artifacts EXCEPT ![j.target] = new]
    BY <1>1, <1>3 DEF Amended, Ledger
  <2> HIDE DEF new
  <2>4. \A t \in Derived :
          Amended(j).artifacts[t] = IF t = j.target THEN new ELSE j.snap.artifacts[t]
    BY <1>1, <2>3 DEF Ledger
  <2> QED
    BY <1>3, <2>1, <2>2, <2>4
<1>4. CASE j.verb = "review"
  <2>1. Amended(j).artifacts = j.snap.artifacts
    BY <1>1, <1>4 DEF Amended, Ledger
  <2> QED
    BY <1>4, <2>1
<1> QED
  BY <1>2, <1>3, <1>4 DEF JobOK, Job, Verb

\* While a process writes, the others only report.
LEMMA OthersReport ==
  ASSUME TypeInv, LedgerInv, PlaceInv, OneWriter, NEW p \in Proc, Moved(p),
         job[p].verb # "status"
  PROVE  \A q \in Proc : q # p => PlacingOK(q)'
<1>1. ASSUME NEW q \in Proc, q # p  PROVE PlacingOK(q)'
  <2>1. job'[q] = job[q] /\ (job[q] = Idle \/ job[q].verb = "status")
    BY <1>1, WritesAlone DEF Moved
  <2> QED
    BY <2>1 DEF PlacingOK
<1> QED
  BY <1>1

LEMMA PlacingWrites ==
  ASSUME TypeInv, TypeInv', LedgerInv, PlaceInv, OneWriter, NEW p \in Proc,
         TruncateLedger(p) \/ WriteLedger(p)
  PROVE  PlaceInv'
<1> DEFINE j == job[p]
<1>1. /\ j.at \in {"write", "writing"} /\ Moved(p) /\ job'[p].hash = j.hash
      /\ UNCHANGED <<disk, scratch, temp, touched>>
  BY TruncateLedgerMoves, WriteLedgerMoves
<1>2. j \in Job /\ j # Idle /\ JobOK(j) /\ j.verb # "status" /\ HeldOK(p) /\ PlacingOK(p)
  BY <1>1, Held DEF Moved, JobOK, PlaceInv
<1>3. \A l : Placed(l) => Placed(l)'
  BY <1>1, PlacedStays, StillRenaming DEF Moved, Running
<1>4. \A q \in Proc : q # p => PlacingOK(q)'
  BY <1>1, <1>2, OthersReport
<1>5. CASE TruncateLedger(p)
  <2>1. j.at = "write" /\ job'[p].at = "writing" /\ ledger' = Torn
    BY <1>5, TruncateLedgerMoves
  <2>2. ledger = j.snap /\ ledger # Torn
    BY <1>2, <2>1, LedgerAssumption DEF HeldOK, BeforeWriting, Job
  <2>3. Placed(j.snap)
    BY <2>2 DEF PlaceInv
  <2>4. Placed(j.snap)'
    BY <1>1, <1>3, <2>3 DEF Moved, Steady
  <2>5. job'[p].snap = j.snap /\ Placed(job[p].snap)'
    BY <1>1, <2>4 DEF Moved, Steady
  <2>6. PlacingOK(p)'
    BY <1>1, <1>2, <2>1, <2>5 DEF PlacingOK, Moved, Steady
  <2> QED
    BY <1>4, <2>1, <2>6 DEF PlaceInv
<1>6. CASE WriteLedger(p)
  <2>1. /\ j.at = "writing" /\ job'[p].at = IF j.verb = "build" THEN "rename" ELSE "clean"
        /\ ledger' = Amended(j) /\ ledger' # Torn /\ job'[p].target = j.target
    BY <1>6, WriteLedgerMoves DEF Moved, Steady
  <2>2. j.base = j.snap /\ Placed(j.snap)
    BY <1>2, <2>1 DEF HeldOK, PlacingOK
  <2> HIDE DEF j
  <2>3. \A t \in Derived :
          j.snap.artifacts[t] # Nil =>
            /\ j.snap.artifacts[t].path = OutPath[t]
            /\ \/ disk'[OutPath[t]] = j.snap.artifacts[t].hash
               \/ OutPath[t] \in touched'
               \/ Renaming(t)'
    BY <1>3, <2>2 DEF Placed
  <2>4. j.verb = "build" =>
          /\ ledger'.artifacts[j.target] = BuiltRecord(j)
          /\ ledger'.artifacts[j.target] # Nil
          /\ ledger'.artifacts[j.target].path = OutPath[j.target]
          /\ ledger'.artifacts[j.target].hash = j.hash
          /\ \A t \in Derived : t = j.target => Renaming(t)'
    <3> SUFFICES ASSUME j.verb = "build"
                 PROVE  /\ ledger'.artifacts[j.target] = BuiltRecord(j)
                        /\ ledger'.artifacts[j.target] # Nil
                        /\ ledger'.artifacts[j.target].path = OutPath[j.target]
                        /\ ledger'.artifacts[j.target].hash = j.hash
                        /\ \A t \in Derived : t = j.target => Renaming(t)'
      OBVIOUS
    <3>1. ledger'.artifacts[j.target] = BuiltRecord(j)
      BY <1>2, <2>1, <2>2, AmendedRecords
    <3>2. BuiltRecord(j) \in Record
      BY <1>2, <2>1, DirAssumption DEF BuiltRecord, Record, JobOK, Job
    <3> QED
      BY <2>1, <3>1, <3>2, RecordAssumption DEF BuiltRecord, Renaming, Running
  <2>5. \A t \in Derived :
          (j.verb # "build" \/ t # j.target) =>
            LET old == j.snap.artifacts[t]
                new == ledger'.artifacts[t]
            IN  new # Nil => old # Nil /\ new.path = old.path /\ new.hash = old.hash
    BY <1>2, <2>1, <2>2, AmendedRecords
  <2>6. Placed(ledger)'
    BY <2>3, <2>4, <2>5 DEF Placed
  <2>7. PlacingOK(p)'
    BY <1>1, <1>2, <2>1, <2>4 DEF PlacingOK, Moved, Steady, JobOK, j
  <2> QED
    BY <1>4, <2>6, <2>7 DEF PlaceInv
<1> QED
  BY <1>5, <1>6

LEMMA PlacingRenames ==
  ASSUME TypeInv, TypeInv', LedgerInv, PlaceInv, OneWriter, DistinctOutputs,
         NEW p \in Proc, RenameOutput(p)
  PROVE  PlaceInv'
<1> DEFINE j == job[p]
<1>1. /\ j.at = "rename" /\ Moved(p) /\ job'[p].at = "clean"
      /\ disk' = [disk EXCEPT ![OutPath[j.target]] = temp[p]]
      /\ touched' = touched \ {OutPath[j.target]} /\ UNCHANGED ledger
  BY RenameOutputMoves
<1>2. j \in Job /\ j # Idle /\ j.verb = "build" /\ j.target \in Derived /\ PlacingOK(p)
  BY <1>1 DEF Moved, JobOK, PlaceInv
<1>3. ledger # Torn /\ ledger.artifacts[j.target].hash = temp[p] /\ Placed(ledger)
  BY <1>1, <1>2 DEF PlacingOK, PlaceInv
<1>4. \A t \in Derived : OutPath[t] \in Path
  BY DirAssumption
<1>5. disk \in [Path -> Content \cup {Nil}]
  BY DEF TypeInv, TypeOK, DirTypeOK
<1>6. \A t \in Derived :
        disk'[OutPath[t]] = IF t = j.target THEN temp[p] ELSE disk[OutPath[t]]
  BY <1>1, <1>2, <1>4, <1>5 DEF DistinctOutputs
<1>7. \A t \in Derived : t # j.target => (OutPath[t] \in touched => OutPath[t] \in touched')
  BY <1>1, <1>2 DEF DistinctOutputs
<1>8. \A t \in Derived : t # j.target => (Renaming(t) => Renaming(t)')
  BY <1>1 DEF Renaming, Running, Moved
<1>9. Placed(ledger)'
  <2> HIDE DEF j
  <2> QED
    BY <1>1, <1>3, <1>6, <1>7, <1>8 DEF Placed
<1>10. PlacingOK(p)'
  BY <1>1 DEF PlacingOK
<1>11. \A q \in Proc : q # p => PlacingOK(q)'
  BY <1>1, <1>2, OthersReport
<1> QED
  BY <1>9, <1>10, <1>11 DEF PlaceInv

LEMMA PlacingFinishes ==
  ASSUME TypeInv, TypeInv', LedgerInv, PlaceInv, OneWriter, DistinctOutputs,
         "rename" \notin Faults, "crash" \notin Faults, NEW p \in Proc, Finish(p)
  PROVE  PlaceInv'
<1>1. CASE RereadLedger(p)
  <2>1. CASE Refused(p)
    BY <1>1, <2>1, RereadLedgerMoves, PlacingRefused DEF Running
  <2>2. CASE ~Refused(p)
    <3>1. /\ job[p].at = "reread" /\ Moved(p) /\ DirStays /\ job'[p].at = "write"
          /\ job'[p].hash = job[p].hash
      BY <1>1, <2>2, RereadLedgerMoves
    <3>2. PlacingOK(p)
      BY DEF PlaceInv
    <3>3. PlacingOK(p)'
      BY <3>1, <3>2 DEF PlacingOK, Moved, Steady, DirStays
    <3> QED
      BY <3>1, <3>3, PlacingMoves DEF Moved, DirStays, Running
  <2> QED
    BY <2>1, <2>2
<1>2. CASE CleanUp(p)
  <2>1. Ended(p) /\ ~Running(p, "rename")
    BY <1>2, EndMoves DEF CleanUp, Running
  <2>2. (job[p] # Idle /\ job[p].verb # "status") \/ UNCHANGED scratch
    BY <1>2, <2>1 DEF CleanUp, Ended
  <2>3. PlacingOK(p)'
    BY <2>1 DEF PlacingOK, Ended
  <2> QED
    BY <2>1, <2>2, <2>3, PlacingMoves DEF Ended
<1>3. ~RenameFails(p) /\ ~Crash(p)
  BY DEF RenameFails, Crash
<1> QED
  BY <1>1, <1>2, <1>3, PlacingWrites, PlacingRenames DEF Finish

LEMMA PlacingEdited ==
  ASSUME TypeInv, PlaceInv, Human
  PROVE  PlaceInv'
<1>1. UNCHANGED <<ledger, scratch, temp, job>> /\ touched \subseteq touched'
  BY DEF Human, EditFile, EditOutput, EditRecipe
<1>2. \A t \in Derived : disk'[OutPath[t]] = disk[OutPath[t]] \/ OutPath[t] \in touched'
  <2>1. CASE disk' = disk
    BY <2>1
  <2>2. ASSUME NEW u \in Derived, EditOutput(u)
        PROVE  \A t \in Derived : disk'[OutPath[t]] = disk[OutPath[t]] \/ OutPath[t] \in touched'
    <3>1. PICK c : disk' = [disk EXCEPT ![OutPath[u]] = c]
      BY <2>2 DEF EditOutput
    <3>2. touched' = touched \cup {OutPath[u]}
      BY <2>2 DEF EditOutput
    <3> QED
      BY <3>1, <3>2, DirAssumption DEF TypeInv, TypeOK, DirTypeOK
  <2> QED
    BY <2>1, <2>2 DEF Human, EditFile, EditRecipe
<1>3. \A t \in Derived : Renaming(t)' = Renaming(t)
  BY <1>1 DEF Renaming, Running
<1>4. \A l : Placed(l) => Placed(l)'
  BY <1>1, <1>2, <1>3 DEF Placed
<1> QED
  BY <1>1, <1>4 DEF PlaceInv, PlacingOK, ScratchOf

LEMMA PlacingStep ==
  ASSUME OneWriter, DistinctOutputs, "rename" \notin Faults, "crash" \notin Faults
  PROVE  TypeInv /\ TypeInv' /\ LedgerInv /\ PlaceInv /\ [Next]_vars => PlaceInv'
<1> SUFFICES ASSUME TypeInv, TypeInv', LedgerInv, PlaceInv, [Next]_vars  PROVE PlaceInv'
  OBVIOUS
<1>1. ASSUME NEW p \in Proc, Begin(p)  PROVE PlaceInv'
  <2>1. Started(p)
    BY <1>1, Starts
  <2>2. PlacingOK(p)' /\ ~Running(p, "rename")
    BY <2>1 DEF Started, PlacingOK, Running, Idle, Job, Verb
  <2> QED
    BY <2>1, <2>2, PlacingMoves DEF Started, DirStays
<1>2. ASSUME NEW p \in Proc, Scan(p)  PROVE PlaceInv'
  <2>1. CASE EndStatus(p)
    <3>1. Ended(p) /\ ~Running(p, "rename") /\ UNCHANGED scratch
      BY <2>1, EndMoves DEF EndStatus, Answered, Running
    <3>2. PlacingOK(p)'
      BY <3>1 DEF PlacingOK, Ended
    <3> QED
      BY <3>1, <3>2, PlacingMoves DEF Ended
  <2>2. CASE ~EndStatus(p)
    <3>1. Moved(p) /\ DirStays /\ job[p].at = "scan" /\ job'[p].at = "scan"
      BY <1>2, <2>2, ReadMoves DEF Scan
    <3> QED
      BY <3>1, PlacingAhead
  <2> QED
    BY <2>1, <2>2
<1>3. CASE UNCHANGED vars
  <2>1. \A t \in Derived : Renaming(t)' = Renaming(t)
    BY <1>3 DEF vars, Renaming, Running
  <2>2. \A l : Placed(l) => Placed(l)'
    BY <1>3, <2>1 DEF vars, Placed
  <2> QED
    BY <1>3, <2>2 DEF vars, PlaceInv, PlacingOK, ScratchOf
<1> QED
  BY <1>1, <1>2, <1>3, PlacingEdited, PlacingProvides, PlacingFinishes DEF Next

LEMMA PlaceInvariant ==
  ASSUME OneWriter, DistinctOutputs, "rename" \notin Faults, "crash" \notin Faults
  PROVE  Spec => [](TypeInv /\ LedgerInv /\ PlaceInv)
<1>1. Init => PlaceInv
  BY DEF Init, DirInit, EmptyLedger, PlaceInv, Placed, PlacingOK
<1>2. TypeInv /\ LedgerInv /\ PlaceInv /\ [Next]_vars => TypeInv' /\ PlaceInv'
  BY TypeStep, PlacingStep
<1> QED
  BY <1>1, <1>2, LedgerInvariant, PTL DEF Spec

LEMMA ModifiedRecord ==
  ASSUME NEW r, NEW l, NEW au, NEW fo, NEW t \in Derived, StateOf(t, r, l, au, fo) = "modified"
  PROVE  l.artifacts[t] # Nil /\ fo[t] # Nil /\ fo[t] # l.artifacts[t].hash
<1> DEFINE cur == [i \in Members(r[t]) |-> Resolved(au, l.artifacts, i)]
           a == Assessment(cur, l.artifacts[t], fo[t])
<1>1. t \notin Authored
  BY NodeAssumption
<1>2. StateOf(t, r, l, au, fo) = DerivedState(a, Validated(l, t))
  BY <1>1 DEF StateOf
<1>3. a \in Facts
  BY DEF Assessment, Facts
<1>4. a = "output-edited"
  <2> HIDE DEF a
  <2>1. \A v : \A f \in Facts : DerivedState(f, v) = "modified" => f = "output-edited"
    BY DEF Facts, DerivedState
  <2> QED
    BY <1>2, <1>3, <2>1
<1> QED
  BY <1>4 DEF Assessment

\* While one process writes and none is killed between the write of the ledger and the rename,
\* modified is reported only where a human changed the bytes, and a human may edit while a verb
\* runs (resolve.ts FR-017a, build.ts buildTarget).
THEOREM ModifiedCorrect ==
  ASSUME OneWriter, DistinctOutputs, "rename" \notin Faults, "crash" \notin Faults
  PROVE  Spec => []ModifiedMeansEdited
<1>1. TypeInv /\ PlaceInv => ModifiedMeansEdited
  <2> SUFFICES ASSUME TypeInv, PlaceInv, ReadableQuiet, NEW t \in Derived,
                      ReportNow[t] = "modified"
               PROVE  OutPath[t] \in touched
    BY DEF ModifiedMeansEdited
  <2>1. StateOf(t, recipe, ledger, AuthoredNow, FoundNow) = "modified"
    BY DEF ReportNow, Node
  <2>2. ledger.artifacts[t] # Nil /\ FoundNow[t] # ledger.artifacts[t].hash
    BY <2>1, ModifiedRecord
  <2>3. FoundNow[t] = disk[ledger.artifacts[t].path]
    BY <2>2 DEF FoundNow, FoundBytes
  <2>4. ~Renaming(t)
    BY DEF Renaming, Running, ReadableQuiet, Quiet, Idle
  <2> QED
    BY <2>2, <2>3, <2>4 DEF PlaceInv, Placed, ReadableQuiet
<1> QED
  BY <1>1, PlaceInvariant, PTL

-----------------------------------------------------------------------------
(* What a finished build leaves behind. *)

\* No target is its own input (validateGraph refuses the cycle).
NoSelfInput == \A r \in Recipes : \A t \in Derived : t \notin Members(r[t])

PathsOK(l) == \A t \in Derived : l.artifacts[t] # Nil => l.artifacts[t].path = OutPath[t]

\* The record of target t is the one that build j has written.
Recorded(j) ==
  /\ ledger # Torn
  /\ BuiltRecord(j) \in Record
  /\ \A t \in Derived :
       ledger.artifacts[t] = IF t = j.target THEN BuiltRecord(j) ELSE j.snap.artifacts[t]

\* The output is in place and the inputs still hold the bytes it was made of.
Settled(j) ==
  /\ Recorded(j)
  /\ disk[OutPath[j.target]] = j.hash
  /\ Members(recipe[j.target]) = DOMAIN j.inputs
  /\ \A i \in DOMAIN j.inputs : i # j.target /\ j.inputs[i] = InputBytes(i, j.snap)

SettledOK(p) ==
  LET j == job[p] IN
  j # Idle =>
    /\ PathsOK(j.snap)
    /\ (j.verb = "build" /\ j.at = "rename") => Recorded(j)
    /\ (j.verb = "build" /\ j.at = "clean" /\ j.failed = FALSE) => Settled(j)

SettleInv ==
  /\ recipe \in Recipes
  /\ ledger # Torn => PathsOK(ledger)
  /\ \A p \in Proc : SettledOK(p)

LEMMA OthersSettled ==
  ASSUME TypeInv, LedgerInv, SettleInv, OneWriter, NEW p \in Proc, NEW q \in Proc, q # p,
         job'[q] = job[q], UNCHANGED <<recipe, file>>,
         (job[p] # Idle /\ job[p].verb # "status") \/ UNCHANGED <<disk, ledger>>
  PROVE  SettledOK(q)'
<1>1. SettledOK(q)
  BY DEF SettleInv
<1>2. CASE UNCHANGED <<disk, ledger>>
  <2>1. \A i, snap : InputBytes(i, snap)' = InputBytes(i, snap)
    BY <1>2 DEF InputBytes
  <2>2. \A j : Recorded(j)' = Recorded(j)
    BY <1>2 DEF Recorded
  <2>3. \A j : Settled(j)' = Settled(j)
    BY <1>2, <2>1, <2>2 DEF Settled
  <2> QED
    BY <1>1, <2>2, <2>3 DEF SettledOK, PathsOK
<1>3. CASE job[p] # Idle /\ job[p].verb # "status"
  <2>1. job[q] = Idle \/ job[q].verb = "status"
    BY <1>3, WritesAlone
  <2> QED
    BY <1>1, <2>1 DEF SettledOK, PathsOK
<1> QED
  BY <1>2, <1>3

\* What is left to show of a step of a process that goes on with its job.
LEMMA SettlingMoves ==
  ASSUME TypeInv, LedgerInv, SettleInv, OneWriter, NEW p \in Proc, Moved(p),
         UNCHANGED <<recipe, file>>,
         job[p].verb # "status" \/ UNCHANGED <<disk, ledger>>,
         (ledger # Torn => PathsOK(ledger))', SettledOK(p)'
  PROVE  SettleInv'
BY OthersSettled DEF SettleInv, Moved

\* A step that neither writes the ledger nor ends a build in success.
LEMMA SettlingAhead ==
  ASSUME TypeInv, LedgerInv, SettleInv, OneWriter, NEW p \in Proc, Moved(p),
         UNCHANGED <<recipe, file, disk>>, ledger' \in {ledger, Torn},
         job[p].verb # "status" \/ UNCHANGED ledger,
         job'[p].at # "rename", job'[p].at # "clean" \/ job'[p].failed = TRUE
  PROVE  SettleInv'
<1>1. SettledOK(p)'
  BY DEF SettleInv, SettledOK, PathsOK, Moved, Steady
<1>2. (ledger # Torn => PathsOK(ledger))'
  BY DEF SettleInv, PathsOK
<1> QED
  BY <1>1, <1>2, SettlingMoves

LEMMA SettlingRefused ==
  ASSUME TypeInv, LedgerInv, SettleInv, OneWriter, NEW p \in Proc, Refused(p)
  PROVE  SettleInv'
BY SettlingAhead DEF Refused, DirStays

LEMMA SettlingProvides ==
  ASSUME TypeInv, TypeInv', LedgerInv, SettleInv, OneWriter, NEW p \in Proc, Provide(p)
  PROVE  SettleInv'
<1> USE DEF DirStays
<1>1. CASE ResolveInput(p)
  BY <1>1, ResolveMoves, SettlingAhead, SettlingRefused
<1>2. CASE InputsResolved(p)
  BY <1>2, ResolvedMoves, SettlingAhead
<1>3. CASE EmptyScratch(p)
  BY <1>3, EmptyScratchMoves, SettlingAhead
<1>4. CASE RunProvider(p)
  BY <1>4, RunProviderMoves, SettlingAhead
<1>5. CASE ProviderFails(p)
  BY <1>5, ProviderFailsMoves, SettlingRefused
<1>6. CASE CollectOutput(p)
  BY <1>6, CollectOutputMoves, SettlingAhead, SettlingRefused
<1>7. CASE StageOutput(p)
  BY <1>7, StageOutputMoves, SettlingAhead, SettlingRefused
<1>8. CASE CheckArtifact(p)
  BY <1>8, CheckArtifactMoves, SettlingAhead, SettlingRefused
<1>9. CASE JudgeArtifact(p)
  BY <1>9, JudgeArtifactMoves, SettlingAhead
<1>10. CASE PinFollowed(p)
  BY <1>10, PinFollowedMoves, SettlingAhead, SettlingRefused
<1>11. CASE ValidatorFails(p)
  BY <1>11, ValidatorFailsMoves, SettlingRefused
<1> QED
  BY <1>1, <1>2, <1>3, <1>4, <1>5, <1>6, <1>7, <1>8, <1>9, <1>10, <1>11 DEF Provide

\* The ledger a build writes is the one it loaded, with its own record in it.
LEMMA BuildRecords ==
  ASSUME NEW j \in Job, JobOK(j), j.at = "writing", j.base = j.snap, j.verb = "build"
  PROVE  /\ Amended(j) = [j.snap EXCEPT !.artifacts =
                            [j.snap.artifacts EXCEPT ![j.target] = BuiltRecord(j)]]
         /\ \A t \in Derived :
              Amended(j).artifacts[t] =
                IF t = j.target THEN BuiltRecord(j) ELSE j.snap.artifacts[t]
<1>1. j.snap \in Ledger /\ j.target \in Derived
  BY DEF JobOK, Job
<1>2. Amended(j) = [j.snap EXCEPT !.artifacts =
                      [j.snap.artifacts EXCEPT ![j.target] = BuiltRecord(j)]]
  BY DEF Amended
<1>3. Amended(j).artifacts = [j.snap.artifacts EXCEPT ![j.target] = BuiltRecord(j)]
  BY <1>1, <1>2 DEF Ledger
<1> QED
  BY <1>1, <1>2, <1>3 DEF Ledger

LEMMA SettlingWrites ==
  ASSUME TypeInv, TypeInv', LedgerInv, SettleInv, OneWriter, NEW p \in Proc, WriteLedger(p)
  PROVE  SettleInv'
<1> DEFINE j == job[p]
<1>1. /\ j.at = "writing" /\ Moved(p) /\ Kept(j, job'[p]) /\ job'[p].hash = j.hash
      /\ job'[p].at = IF j.verb = "build" THEN "rename" ELSE "clean"
      /\ ledger' = Amended(j) /\ ledger' # Torn /\ UNCHANGED <<recipe, file, disk>>
  BY WriteLedgerMoves
<1>2. j \in Job /\ j # Idle /\ JobOK(j) /\ j.verb # "status" /\ j.base = j.snap
      /\ PathsOK(j.snap)
  BY <1>1, Held DEF Moved, JobOK, HeldOK, SettleInv, SettledOK
<1>3. PathsOK(ledger)'
  <2> HIDE DEF j
  <2>1. \A t \in Derived : ledger'.artifacts[t] # Nil => ledger'.artifacts[t].path = OutPath[t]
    <3> SUFFICES ASSUME NEW t \in Derived, ledger'.artifacts[t] # Nil
                 PROVE  ledger'.artifacts[t].path = OutPath[t]
      OBVIOUS
    <3>1. CASE j.verb = "build" /\ t = j.target
      <4>1. ledger'.artifacts[t] = BuiltRecord(j)
        BY <1>1, <1>2, <3>1, AmendedRecords
      <4> QED
        BY <3>1, <4>1 DEF BuiltRecord
    <3>2. CASE j.verb # "build" \/ t # j.target
      <4>1. Amended(j).artifacts[t] # Nil
        BY <1>1
      <4>2. /\ j.snap.artifacts[t] # Nil
            /\ Amended(j).artifacts[t].path = j.snap.artifacts[t].path
        BY <1>1, <1>2, <3>2, <4>1, AmendedRecords
      <4> QED
        BY <1>1, <1>2, <4>2 DEF PathsOK
    <3> QED
      BY <3>1, <3>2
  <2> QED
    BY <2>1 DEF PathsOK
<1>4. j.verb = "build" =>
        \A t \in Derived :
          ledger'.artifacts[t] = IF t = j.target THEN BuiltRecord(j) ELSE j.snap.artifacts[t]
  BY <1>1, <1>2, BuildRecords
<1> DEFINE k == job'[p]
<1>5. /\ k.verb = j.verb /\ k.target = j.target /\ k.snap = j.snap
      /\ BuiltRecord(k) = BuiltRecord(j)
      /\ j.verb = "build" => BuiltRecord(j) \in Record
  BY <1>1, <1>2, DirAssumption DEF Moved, Steady, Kept, BuiltRecord, Record, JobOK, Job
<1>6. k.verb = "build" =>
        /\ ledger' # Torn
        /\ BuiltRecord(k) \in Record
        /\ \A t \in Derived :
             ledger'.artifacts[t] = IF t = k.target THEN BuiltRecord(k) ELSE k.snap.artifacts[t]
  BY <1>1, <1>4, <1>5
<1>7. k.verb = "build" => Recorded(job[p])'
  BY <1>6 DEF Recorded
<1>8. PathsOK(job[p].snap)'
  BY <1>2, <1>5 DEF PathsOK
<1>9. SettledOK(p)'
  BY <1>1, <1>5, <1>7, <1>8 DEF SettledOK
<1> QED
  BY <1>1, <1>2, <1>3, <1>9, SettlingMoves

LEMMA SettlingRenames ==
  ASSUME TypeInv, TypeInv', LedgerInv, ProducerInv, SettleInv, OneWriter, DistinctOutputs,
         NoSelfInput, NEW p \in Proc, RenameOutput(p)
  PROVE  SettleInv'
<1> DEFINE j == job[p]
<1>1. /\ j.at = "rename" /\ Moved(p) /\ Kept(j, job'[p]) /\ job'[p].at = "clean"
      /\ job'[p].hash = j.hash /\ disk' = [disk EXCEPT ![OutPath[j.target]] = temp[p]]
      /\ UNCHANGED <<recipe, file, ledger>>
  BY RenameOutputMoves
<1>2. j \in Job /\ j # Idle /\ j.verb = "build" /\ j.target \in Derived
  BY <1>1 DEF Moved, JobOK
<1>3. InputsOK(p) /\ BuiltOK(p) /\ PathsOK(j.snap) /\ Recorded(j)
  BY <1>1, <1>2, HandOf DEF Producing, Producers, SettleInv, SettledOK
<1>4. /\ Members(recipe[j.target]) = DOMAIN j.inputs
      /\ \A i \in DOMAIN j.inputs : j.inputs[i] = InputBytes(i, j.snap)
      /\ temp[p] = j.hash
  BY <1>1, <1>2, <1>3 DEF InputsOK, BuiltOK, HoldsInputs
<1>5. \A t \in Derived : disk'[OutPath[t]] = IF t = j.target THEN j.hash ELSE disk[OutPath[t]]
  BY <1>1, <1>2, <1>4, DirAssumption DEF DistinctOutputs, TypeInv, TypeOK, DirTypeOK
<1>6. \A i \in DOMAIN j.inputs : i # j.target
  BY <1>2, <1>4 DEF NoSelfInput, SettleInv
<1>7. ASSUME NEW i \in DOMAIN j.inputs  PROVE InputBytes(i, j.snap)' = InputBytes(i, j.snap)
  <2> DEFINE s == job[p].snap
  <2>1. job'[p].snap = s
    BY <1>1 DEF Moved, Steady
  <2>2. CASE i \in Derived
    BY <1>3, <1>5, <1>6, <2>1, <2>2 DEF InputBytes, PathsOK
  <2>3. CASE i \notin Derived
    BY <1>1, <2>3 DEF InputBytes
  <2> QED
    BY <2>2, <2>3
<1> DEFINE k == job'[p]
<1>8. /\ k.verb = j.verb /\ k.target = j.target /\ k.snap = j.snap /\ k.inputs = j.inputs
      /\ k.hash = j.hash /\ BuiltRecord(k) = BuiltRecord(j)
  BY <1>1 DEF Moved, Steady, Kept, BuiltRecord
<1>9. Recorded(job[p])'
  BY <1>1, <1>3, <1>8 DEF Recorded
<1>10. Settled(job[p])'
  BY <1>1, <1>2, <1>4, <1>5, <1>6, <1>7, <1>8, <1>9 DEF Settled
<1>11. PathsOK(job[p].snap)'
  BY <1>3, <1>8 DEF PathsOK
<1>12. SettledOK(p)'
  BY <1>1, <1>8, <1>10, <1>11 DEF SettledOK
<1>13. (ledger # Torn => PathsOK(ledger))'
  BY <1>1 DEF SettleInv, PathsOK
<1> QED
  BY <1>1, <1>2, <1>12, <1>13, SettlingMoves

LEMMA SettlingEnds ==
  ASSUME TypeInv, LedgerInv, SettleInv, OneWriter, NEW p \in Proc,
         CleanUp(p) \/ Crash(p) \/ EndStatus(p)
  PROVE  SettleInv'
<1>1. Ended(p)
  BY EndMoves
<1>2. SettledOK(p)' /\ \A q \in Proc : q # p => SettledOK(q)'
  BY <1>1, OthersSettled DEF Ended, SettledOK
<1> QED
  BY <1>1, <1>2 DEF Ended, SettleInv, PathsOK

LEMMA SettlingStep ==
  ASSUME OneWriter, ~EditsDuringRuns, DistinctOutputs, NoSelfInput
  PROVE  TypeInv /\ TypeInv' /\ LedgerInv /\ ProducerInv /\ SettleInv /\ [Next]_vars
           => SettleInv'
<1> SUFFICES ASSUME TypeInv, TypeInv', LedgerInv, ProducerInv, SettleInv, [Next]_vars
             PROVE  SettleInv'
  OBVIOUS
<1>1. CASE Human
  <2>1. Quiet /\ UNCHANGED <<ledger, job>> /\ recipe' \in Recipes
    BY <1>1 DEF Human, EditFile, EditOutput, EditRecipe, MayEdit, SettleInv
  <2>2. \A p \in Proc : SettledOK(p)'
    BY <2>1 DEF Quiet, SettledOK
  <2> QED
    BY <2>1, <2>2 DEF SettleInv, PathsOK
<1>2. ASSUME NEW p \in Proc, Begin(p)  PROVE SettleInv'
  <2>1. Started(p)
    BY <1>2, Starts
  <2>2. PathsOK(ledger)
    BY <2>1 DEF Started, SettleInv
  <2>3. SettledOK(p)'
    BY <2>1, <2>2 DEF Started, DirStays, SettledOK, PathsOK
  <2>4. \A q \in Proc : q # p => SettledOK(q)'
    BY <2>1, OthersSettled DEF Started, DirStays
  <2> QED
    BY <2>1, <2>3, <2>4 DEF Started, DirStays, SettleInv, PathsOK
<1>3. ASSUME NEW p \in Proc, Provide(p)  PROVE SettleInv'
  BY <1>3, SettlingProvides
<1>4. ASSUME NEW p \in Proc, Finish(p)  PROVE SettleInv'
  <2>1. CASE RereadLedger(p)
    BY <2>1, RereadLedgerMoves, SettlingAhead, SettlingRefused DEF DirStays
  <2>2. CASE TruncateLedger(p)
    <3>1. /\ job[p].at = "write" /\ Moved(p) /\ job'[p].at = "writing" /\ ledger' = Torn
          /\ UNCHANGED <<recipe, file, disk>>
      BY <2>2, TruncateLedgerMoves
    <3> QED
      BY <3>1, SettlingAhead DEF Moved, JobOK
  <2>3. CASE RenameFails(p)
    BY <2>3, RenameFailsMoves, SettlingRefused
  <2> QED
    BY <1>4, <2>1, <2>2, <2>3, SettlingWrites, SettlingRenames, SettlingEnds DEF Finish
<1>5. ASSUME NEW p \in Proc, Scan(p)  PROVE SettleInv'
  <2>1. CASE EndStatus(p)
    BY <2>1, SettlingEnds
  <2>2. CASE ~EndStatus(p)
    <3>1. Moved(p) /\ DirStays /\ job'[p].at = "scan"
      BY <1>5, <2>2, ReadMoves DEF Scan
    <3> QED
      BY <3>1, SettlingAhead DEF DirStays
  <2> QED
    BY <2>1, <2>2
<1>6. CASE UNCHANGED vars
  <2>1. \A i, snap : InputBytes(i, snap)' = InputBytes(i, snap)
    BY <1>6 DEF vars, InputBytes
  <2>2. \A j : Settled(j)' = Settled(j) /\ Recorded(j)' = Recorded(j)
    BY <1>6, <2>1 DEF vars, Settled, Recorded
  <2> QED
    BY <1>6, <2>2 DEF vars, SettleInv, SettledOK, PathsOK
<1> QED
  BY <1>1, <1>2, <1>3, <1>4, <1>5, <1>6 DEF Next

LEMMA SettleInvariant ==
  ASSUME OneWriter, ~EditsDuringRuns, DistinctOutputs, NoSelfInput
  PROVE  Spec => [](TypeInv /\ SettleInv)
<1>1. OneProducer
  BY DEF OneWriter, OneProducer, Writers, Producers
<1>2. Init => SettleInv
  BY DEF Init, DirInit, EmptyLedger, SettleInv, PathsOK, SettledOK
<1>3. TypeInv /\ LedgerInv /\ ProducerInv /\ SettleInv /\ [Next]_vars => TypeInv' /\ SettleInv'
  BY TypeStep, SettlingStep
<1> QED
  BY <1>1, <1>2, <1>3, LedgerInvariant, ProducerInvariant, PTL DEF Spec

\* Authored content resolves for a build to what it is for the oracle, or not at all.
LEMMA SameAuthored ==
  ASSUME NEW a \in Authored, NEW snap, InputBytes(a, snap) # Nil
  PROVE  AuthoredContent(a) = InputBytes(a, snap)
<1>1. a \notin Derived
  BY NodeAssumption
<1> QED
  BY <1>1 DEF InputBytes, AuthoredContent

\* What status says of a target whose build has settled.
LEMMA SettledReport ==
  ASSUME TypeInv, NEW j \in Job, JobOK(j), j.verb = "build", PathsOK(j.snap), Settled(j),
         NoSelfInput, recipe \in Recipes
  PROVE  \/ ReportNow[j.target] \in {"fresh", "invalid"}
         \/ /\ ReportNow[j.target] = "stale"
            /\ \E i \in Members(recipe[j.target]) \cap Derived :
                 FoundNow[i] # ledger.artifacts[i].hash
<1> DEFINE t == j.target
           rec == ledger.artifacts[t]
           cur == [i \in Members(recipe[t]) |-> Resolved(AuthoredNow, ledger.artifacts, i)]
<1>1. t \in Derived /\ t \notin Authored /\ t \in Node
  BY NodeAssumption DEF JobOK, Node
<1>2. ledger \in Ledger
  BY DEF Settled, Recorded, TypeInv, TypeOK, DirTypeOK
<1>3. rec = BuiltRecord(j) /\ rec.inputs = j.inputs /\ rec.hash = j.hash /\ rec.path = OutPath[t]
  BY <1>1 DEF Settled, Recorded, BuiltRecord
<1>4. PICK S \in SUBSET Node : j.inputs \in [S -> Content]
  BY DEF Job, InputMap
<1>5. Members(recipe[t]) = S /\ S \subseteq Authored \cup Derived
  BY <1>4 DEF Settled, Node
<1>6. rec # Nil /\ FoundNow[t] = rec.hash /\ rec.hash # Nil
  BY <1>1, <1>3, RecordAssumption, ContentAssumption
     DEF Settled, Recorded, FoundNow, FoundBytes, BuiltRecord, Record
<1>7. ASSUME NEW i \in S, i \in Authored
      PROVE  cur[i] = j.inputs[i] /\ cur[i] # Nil
  <2>1. InputBytes(i, j.snap) = j.inputs[i] /\ j.inputs[i] # Nil
    BY <1>4, <1>7, ContentAssumption DEF Settled
  <2>2. AuthoredNow[i] = j.inputs[i]
    BY <1>7, <2>1, SameAuthored DEF AuthoredNow
  <2> QED
    BY <1>5, <1>7, <2>1, <2>2 DEF Resolved
<1>8. ASSUME NEW i \in S, i \in Derived
      PROVE  cur[i] = ledger.artifacts[i].hash /\ cur[i] # Nil /\ j.inputs[i] = FoundNow[i]
  <2>1. InputBytes(i, j.snap) = j.inputs[i] /\ j.inputs[i] # Nil /\ i # t
    BY <1>4, <1>8, ContentAssumption DEF Settled
  <2>2. j.snap.artifacts[i] # Nil /\ j.inputs[i] = disk[j.snap.artifacts[i].path]
    BY <1>8, <2>1 DEF InputBytes
  <2>3. ledger.artifacts[i] = j.snap.artifacts[i]
    BY <1>8, <2>1 DEF Settled, Recorded
  <2>4. ledger.artifacts[i] \in Record
    BY <1>2, <1>8, <2>2, <2>3 DEF Ledger
  <2>5. ledger.artifacts[i].hash # Nil
    BY <2>4, ContentAssumption DEF Record
  <2>6. i \notin Authored
    BY <1>8, NodeAssumption
  <2> QED
    BY <1>5, <1>8, <2>2, <2>3, <2>5, <2>6 DEF Resolved, FoundNow, FoundBytes
<1> DEFINE a == Assessment(cur, rec, FoundNow[t])
<1>9. ReportNow[t] = DerivedState(a, Validated(ledger, t))
  BY <1>1 DEF ReportNow, StateOf
<1>10. DOMAIN cur = S /\ \A i \in S : cur[i] # Nil
  BY <1>5, <1>7, <1>8
<1>11. DOMAIN rec.inputs = S
  BY <1>3, <1>4
<1>12. CASE \E i \in S \cap Derived : FoundNow[i] # ledger.artifacts[i].hash
  <2>1. \E i \in S : rec.inputs[i] # cur[i]
    BY ZenonT(60), <1>3, <1>8, <1>12
  <2> HIDE DEF rec, cur
  <2>2. a = "input-changed"
    BY <1>6, <1>10, <1>11, <2>1 DEF Assessment, InputMoved
  <2> QED
    BY <1>5, <1>9, <1>12, <2>2 DEF DerivedState
<1>13. CASE \A i \in S \cap Derived : FoundNow[i] = ledger.artifacts[i].hash
  <2>1. ASSUME NEW i \in S  PROVE rec.inputs[i] = cur[i]
    <3> HIDE DEF cur
    <3>1. CASE i \in Authored
      BY <1>3, <1>7, <3>1
    <3>2. CASE i \in Derived
      BY <1>3, <1>8, <1>13, <3>2
    <3> QED
      BY <1>5, <3>1, <3>2
  <2> HIDE DEF rec, cur
  <2>2. a = "consistent"
    BY <1>6, <1>10, <1>11, <2>1 DEF Assessment, InputMoved
  <2> QED
    BY <1>9, <2>2 DEF DerivedState
<1> QED
  BY <1>12, <1>13

\* While one process writes and nobody edits under it, a build that reports success leaves its
\* target fresh or invalid, or stale because an artifact among its inputs did not hold its
\* recorded bytes (build.ts buildTarget, resolve.ts resolveDerivedNode).
THEOREM BuildCorrect ==
  ASSUME OneWriter, ~EditsDuringRuns, DistinctOutputs, NoSelfInput
  PROVE  Spec => []BuildSettles
<1>1. TypeInv /\ SettleInv => BuildSettles
  <2> SUFFICES ASSUME TypeInv, SettleInv, NEW p \in Proc, Running(p, "clean"),
                      job[p].verb = "build", ~job[p].failed
               PROVE  \/ ReportNow[job[p].target] \in {"fresh", "invalid"}
                      \/ /\ ReportNow[job[p].target] = "stale"
                         /\ \E i \in Members(recipe[job[p].target]) \cap Derived :
                              FoundNow[i] # ledger.artifacts[i].hash
    BY DEF BuildSettles
  <2>1. job[p] \in Job /\ JobOK(job[p]) /\ job[p] # Idle
    BY RunningJob, IdleIsNoJob DEF Stages
  <2>2. job[p].failed = FALSE
    BY <2>1 DEF Job
  <2>3. PathsOK(job[p].snap) /\ Settled(job[p]) /\ recipe \in Recipes
    BY <2>1, <2>2 DEF SettleInv, SettledOK, Running
  <2> QED
    BY <2>1, <2>3, SettledReport
<1> QED
  BY <1>1, SettleInvariant, PTL
=============================================================================
