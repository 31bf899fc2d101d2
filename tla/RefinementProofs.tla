--------------------------- MODULE RefinementProofs ---------------------------
(***************************************************************************)
(* Episode implements Production: every step of a verb is one step of      *)
(* Production or none.                                                     *)
(***************************************************************************)
EXTENDS EpisodeRefines, OutputProofs

-----------------------------------------------------------------------------
(* The waiver in hand is the content of the followed node. *)

PinOK(p) ==
  LET j == job[p] IN
  (j # Idle /\ j.verb = "review" /\ j.at \in {"reread", "write", "writing"}) =>
    /\ j.hash = Resolved(AuthoredNow, j.snap.artifacts, Follows[j.target])
    /\ j.hash # Nil

PinInv == \A p \in Proc : PinOK(p)

LEMMA PinMoves ==
  ASSUME PinInv, NEW p \in Proc, \A q \in Proc : q # p => job'[q] = job[q],
         UNCHANGED file, PinOK(p)'
  PROVE  PinInv'
<1>1. AuthoredNow' = AuthoredNow
  BY DEF AuthoredNow, AuthoredContent
<1>2. ASSUME NEW q \in Proc, q # p  PROVE PinOK(q)'
  BY <1>1, <1>2 DEF PinInv, PinOK
<1> QED
  BY <1>2 DEF PinInv

LEMMA PinRefused ==
  ASSUME PinInv, NEW p \in Proc, Refused(p)
  PROVE  PinInv'
<1>1. PinOK(p)'
  BY DEF Refused, PinOK
<1> QED
  BY <1>1, PinMoves DEF Refused, Moved, DirStays

\* A step of another verb than review.
LEMMA PinOther ==
  ASSUME PinInv, NEW p \in Proc, Moved(p), UNCHANGED file,
         job[p].verb # "review" \/ job'[p].at \notin {"reread", "write", "writing"}
  PROVE  PinInv'
<1>1. PinOK(p)'
  BY DEF Moved, Steady, PinOK
<1> QED
  BY <1>1, PinMoves DEF Moved

\* The waiver stays in hand.
LEMMA PinKept ==
  ASSUME PinInv, NEW p \in Proc, Moved(p), UNCHANGED file, job'[p].hash = job[p].hash,
         job[p].at \in {"reread", "write", "writing"}
  PROVE  PinInv'
<1>1. AuthoredNow' = AuthoredNow
  BY DEF AuthoredNow, AuthoredContent
<1>2. PinOK(p)'
  BY <1>1 DEF Moved, Steady, PinOK, PinInv
<1> QED
  BY <1>2, PinMoves DEF Moved

LEMMA PinStep ==
  ASSUME ~EditsDuringRuns
  PROVE  TypeInv /\ TypeInv' /\ PinInv /\ [Next]_vars => PinInv'
<1> SUFFICES ASSUME TypeInv, TypeInv', PinInv, [Next]_vars  PROVE PinInv'
  OBVIOUS
<1> USE DEF DirStays
<1>1. CASE Human
  <2>1. Quiet /\ UNCHANGED job
    BY <1>1 DEF Human, EditFile, EditOutput, EditRecipe, MayEdit
  <2> QED
    BY <2>1 DEF Quiet, PinInv, PinOK
<1>2. ASSUME NEW p \in Proc, Begin(p)  PROVE PinInv'
  <2>1. Started(p)
    BY <1>2, Starts
  <2>2. PinOK(p)'
    BY <2>1 DEF Started, PinOK
  <2> QED
    BY <2>1, <2>2, PinMoves DEF Started
<1>3. ASSUME NEW p \in Proc, Provide(p)  PROVE PinInv'
  <2>1. CASE ResolveInput(p)
    BY <2>1, ResolveMoves, PinOther, PinRefused
  <2>2. CASE InputsResolved(p)
    BY <2>2, ResolvedMoves, PinOther
  <2>3. CASE EmptyScratch(p)
    BY <2>3, EmptyScratchMoves, PinOther
  <2>4. CASE RunProvider(p)
    BY <2>4, RunProviderMoves, PinOther
  <2>5. CASE ProviderFails(p)
    BY <2>5, ProviderFailsMoves, PinRefused
  <2>6. CASE CollectOutput(p)
    BY <2>6, CollectOutputMoves, PinOther, PinRefused DEF Moved, JobOK
  <2>7. CASE StageOutput(p)
    BY <2>7, StageOutputMoves, PinOther, PinRefused DEF Moved, JobOK
  <2>8. CASE CheckArtifact(p)
    BY <2>8, CheckArtifactMoves, PinOther, PinRefused
  <2>9. CASE JudgeArtifact(p)
    BY <2>9, JudgeArtifactMoves, PinOther DEF Moved, JobOK
  <2>10. CASE ValidatorFails(p)
    BY <2>10, ValidatorFailsMoves, PinRefused
  <2>11. CASE PinFollowed(p)
    <3>1. CASE Refused(p)
      BY <3>1, PinRefused
    <3>2. CASE ~Refused(p)
      <4> DEFINE c == Resolved(AuthoredNow, job[p].snap.artifacts, Follows[job[p].target])
      <4>1. Moved(p) /\ DirStays /\ c # Nil /\ job'[p].hash = c
        BY <2>11, <3>2, PinFollowedMoves
      <4>2. c' = c
        BY <4>1 DEF Moved, Steady, AuthoredNow, AuthoredContent, Resolved
      <4>3. PinOK(p)'
        BY <4>1, <4>2 DEF PinOK
      <4> QED
        BY <4>1, <4>3, PinMoves DEF Moved
    <3> QED
      BY <3>1, <3>2
  <2> QED
    BY <1>3, <2>1, <2>2, <2>3, <2>4, <2>5, <2>6, <2>7, <2>8, <2>9, <2>10, <2>11 DEF Provide
<1>4. ASSUME NEW p \in Proc, Finish(p)  PROVE PinInv'
  <2>1. CASE RereadLedger(p)
    BY <2>1, RereadLedgerMoves, PinKept, PinRefused
  <2>2. CASE TruncateLedger(p)
    BY <2>2, TruncateLedgerMoves, PinKept
  <2>3. CASE WriteLedger(p)
    BY <2>3, WriteLedgerMoves, PinKept
  <2>4. CASE RenameOutput(p)
    BY <2>4, RenameOutputMoves, PinOther
  <2>5. CASE RenameFails(p)
    BY <2>5, RenameFailsMoves, PinRefused
  <2>6. CASE CleanUp(p) \/ Crash(p)
    <3>1. Ended(p)
      BY <2>6, EndMoves
    <3> QED
      BY <3>1, PinMoves DEF Ended, PinOK
  <2> QED
    BY <1>4, <2>1, <2>2, <2>3, <2>4, <2>5, <2>6 DEF Finish
<1>5. ASSUME NEW p \in Proc, Scan(p)  PROVE PinInv'
  <2>1. CASE EndStatus(p)
    <3>1. Ended(p)
      BY <2>1, EndMoves
    <3> QED
      BY <3>1, PinMoves DEF Ended, PinOK
  <2>2. CASE ~EndStatus(p)
    BY <1>5, <2>2, ReadMoves, PinOther DEF Scan
  <2> QED
    BY <2>1, <2>2
<1>6. CASE UNCHANGED vars
  BY <1>6 DEF vars, PinInv, PinOK, AuthoredNow, AuthoredContent
<1> QED
  BY <1>1, <1>2, <1>3, <1>4, <1>5, <1>6 DEF Next

LEMMA PinInvariant ==
  ASSUME ~EditsDuringRuns
  PROVE  Spec => []PinInv
<1>1. Init => PinInv
  BY DEF Init, PinInv, PinOK
<1>2. Init => TypeInv
  BY TypeInit
<1>3. TypeInv /\ [Next]_vars => TypeInv'
  BY TypeStep
<1> QED
  BY <1>1, <1>2, <1>3, PinStep, PTL DEF Spec

-----------------------------------------------------------------------------
(* The abstract ledger and disk, by what is being written.                 *)

Handing == {"writing", "rename"}

LEMMA BarsAtRest ==
  ASSUME \A p \in Proc : job[p].at \notin Handing
  PROVE  ledgerBar = ledger /\ diskBar = disk
BY DEF Handing, ledgerBar, diskBar, Running

LEMMA BarsAtRestNext ==
  ASSUME \A p \in Proc : job'[p].at \notin Handing
  PROVE  ledgerBar' = ledger' /\ diskBar' = disk'
BY DEF Handing, ledgerBar, diskBar, Running

LEMMA BarsAtWriting ==
  ASSUME NEW p \in Proc, job[p].at = "writing",
         \A q \in Proc : q # p => job[q].at \notin Handing
  PROVE  ledgerBar = job[p].base /\ diskBar = disk
<1> DEFINE c == CHOOSE q \in Proc : Running(q, "writing")
<1>1. c \in Proc /\ Running(c, "writing")
  BY DEF Running
<1>2. c = p
  BY <1>1 DEF Running, Handing
<1>3. ~\E q \in Proc : Running(q, "rename")
  BY DEF Running, Handing
<1> QED
  BY <1>2, <1>3 DEF ledgerBar, diskBar, Running

LEMMA BarsAtWritingNext ==
  ASSUME NEW p \in Proc, job'[p].at = "writing",
         \A q \in Proc : q # p => job'[q].at \notin Handing
  PROVE  ledgerBar' = job'[p].base /\ diskBar' = disk'
<1> DEFINE c == CHOOSE q \in Proc : job'[q].at = "writing"
<1>1. c \in Proc /\ job'[c].at = "writing"
  OBVIOUS
<1>2. c = p
  BY <1>1 DEF Handing
<1>3. ~\E q \in Proc : Running(q, "rename")'
  BY DEF Running, Handing
<1> QED
  BY <1>2, <1>3 DEF ledgerBar, diskBar, Running

LEMMA BarsAtRename ==
  ASSUME NEW p \in Proc, job[p].at = "rename",
         \A q \in Proc : q # p => job[q].at \notin Handing
  PROVE  ledgerBar = ledger /\ diskBar = [disk EXCEPT ![OutPath[job[p].target]] = temp[p]]
<1> DEFINE c == CHOOSE q \in Proc : Running(q, "rename")
<1>1. c \in Proc /\ Running(c, "rename")
  BY DEF Running
<1>2. c = p
  BY <1>1 DEF Running, Handing
<1>3. ~\E q \in Proc : Running(q, "writing")
  BY DEF Running, Handing
<1> QED
  BY <1>2, <1>3 DEF ledgerBar, diskBar, Running

LEMMA BarsAtRenameNext ==
  ASSUME NEW p \in Proc, job'[p].at = "rename",
         \A q \in Proc : q # p => job'[q].at \notin Handing
  PROVE  ledgerBar' = ledger' /\ diskBar' = [disk' EXCEPT ![OutPath[job'[p].target]] = temp'[p]]
<1> DEFINE c == CHOOSE q \in Proc : job'[q].at = "rename"
<1>1. c \in Proc /\ job'[c].at = "rename"
  OBVIOUS
<1>2. c = p
  BY <1>1 DEF Handing
<1>3. ~\E q \in Proc : Running(q, "writing")'
  BY DEF Running, Handing
<1> QED
  BY <1>2, <1>3 DEF ledgerBar, diskBar, Running

\* While one process writes, no other is at its write.
LEMMA OthersWait ==
  ASSUME TypeInv, LedgerInv, OneWriter, NEW p \in Proc, job[p] # Idle, job[p].verb # "status"
  PROVE  \A q \in Proc : q # p => job[q].at \notin Handing
<1> SUFFICES ASSUME NEW q \in Proc, q # p  PROVE job[q].at \notin Handing
  OBVIOUS
<1>1. job[q] = Idle \/ job[q].verb = "status"
  BY WritesAlone
<1>2. job[q] # Idle => JobOK(job[q])
  BY InHandOf
<1> QED
  BY <1>1, <1>2 DEF JobOK, Idle, Handing

Stutters == UNCHANGED <<recipe, file, ledgerBar, diskBar>>

\* A step before the write or after the rename changes nothing that matters to Production.
LEMMA BarsStay ==
  ASSUME TypeInv, LedgerInv, OneWriter, NEW p \in Proc,
         \A q \in Proc : q # p => job'[q] = job[q] /\ temp'[q] = temp[q],
         UNCHANGED <<recipe, file, disk, ledger>>,
         job[p].at \notin Handing, job'[p].at \notin Handing
  PROVE  Stutters
<1>1. CASE \A q \in Proc : job[q].at \notin Handing
  <2>1. \A q \in Proc : job'[q].at \notin Handing
    BY <1>1
  <2> QED
    BY <1>1, <2>1, BarsAtRest, BarsAtRestNext DEF Stutters
<1>2. CASE \E q \in Proc : job[q].at \in Handing
  <2>1. PICK q \in Proc : job[q].at \in Handing
    BY <1>2
  <2>2. q # p /\ job'[q] = job[q] /\ temp'[q] = temp[q]
    BY <2>1
  <2>3. job[q] # Idle /\ job[q].verb # "status"
    <3>1. job[q] # Idle
      BY <2>1 DEF Idle, Handing
    <3> QED
      BY <2>1, <3>1, InHandOf DEF JobOK, Handing
  <2>4. \A r \in Proc : r # q => job[r].at \notin Handing
    BY <2>3, OthersWait
  <2>5. \A r \in Proc : r # q => job'[r].at \notin Handing
    BY <2>4
  <2>6. CASE job[q].at = "writing"
    BY <2>2, <2>4, <2>5, <2>6, BarsAtWriting, BarsAtWritingNext DEF Stutters
  <2>7. CASE job[q].at = "rename"
    BY <2>2, <2>4, <2>5, <2>7, BarsAtRename, BarsAtRenameNext DEF Stutters
  <2> QED
    BY <2>1, <2>6, <2>7 DEF Handing
<1> QED
  BY <1>1, <1>2

LEMMA MovesStay ==
  ASSUME TypeInv, LedgerInv, OneWriter, NEW p \in Proc, Moved(p),
         \A q \in Proc : q # p => temp'[q] = temp[q],
         UNCHANGED <<recipe, file, disk, ledger>>,
         job[p].at \notin Handing, job'[p].at \notin Handing
  PROVE  Stutters
BY BarsStay DEF Moved

-----------------------------------------------------------------------------
(* Each step, as Production sees it.                                       *)

\* The ledger is truncated: who waits for the verb still has the old one.
LEMMA TruncateStays ==
  ASSUME TypeInv, TypeInv', LedgerInv, OneWriter, NEW p \in Proc, TruncateLedger(p)
  PROVE  Stutters
<1>1. /\ job[p].at = "write" /\ Moved(p) /\ job'[p].at = "writing"
      /\ job'[p].base = job[p].base /\ UNCHANGED <<recipe, file, disk>>
  BY TruncateLedgerMoves
<1>2. job[p] # Idle /\ job[p].verb # "status"
  BY <1>1 DEF Moved, JobOK
<1>3. \A q \in Proc : q # p => job[q].at \notin Handing
  BY <1>2, OthersWait
<1>4. \A q \in Proc : q # p => job'[q].at \notin Handing
  BY <1>1, <1>3 DEF Moved
<1>5. ledgerBar = ledger /\ diskBar = disk
  BY <1>1, <1>3, BarsAtRest DEF Handing
<1>6. ledgerBar' = job'[p].base /\ diskBar' = disk'
  BY <1>1, <1>4, BarsAtWritingNext
<1>7. job[p].base = ledger
  BY <1>1, <1>2, Held DEF HeldOK, BeforeWriting
<1> QED
  BY <1>1, <1>5, <1>6, <1>7 DEF Stutters

\* The output is put where its record already says it is.
LEMMA RenameStays ==
  ASSUME TypeInv, TypeInv', LedgerInv, OneWriter, NEW p \in Proc, RenameOutput(p)
  PROVE  Stutters
<1>1. /\ job[p].at = "rename" /\ Moved(p) /\ job'[p].at = "clean"
      /\ disk' = [disk EXCEPT ![OutPath[job[p].target]] = temp[p]]
      /\ UNCHANGED <<recipe, file, ledger>>
  BY RenameOutputMoves
<1>2. job[p] # Idle /\ job[p].verb # "status"
  BY <1>1 DEF Moved, JobOK
<1>3. \A q \in Proc : q # p => job[q].at \notin Handing
  BY <1>2, OthersWait
<1>4. ledgerBar = ledger /\ diskBar = disk'
  BY <1>1, <1>3, BarsAtRename
<1>5. \A q \in Proc : job'[q].at \notin Handing
  BY <1>1, <1>3 DEF Moved, Handing
<1>6. ledgerBar' = ledger' /\ diskBar' = disk'
  BY <1>5, BarsAtRestNext
<1> QED
  BY <1>1, <1>4, <1>6 DEF Stutters

LEMMA WriteBars ==
  ASSUME TypeInv, TypeInv', LedgerInv, OneWriter, NEW p \in Proc, WriteLedger(p)
  PROVE  /\ job[p].at = "writing" /\ job[p] \in Job /\ JobOK(job[p]) /\ job[p] # Idle
         /\ job[p].verb \in {"build", "validate", "review"}
         /\ job[p].base = job[p].snap
         /\ ledgerBar = job[p].snap /\ diskBar = disk
         /\ ledgerBar' = Amended(job[p])
         /\ diskBar' = IF job[p].verb = "build"
                       THEN [disk EXCEPT ![OutPath[job[p].target]] = temp[p]] ELSE disk
         /\ UNCHANGED <<recipe, file>>
<1>1. /\ job[p].at = "writing" /\ Moved(p)
      /\ job'[p].at = IF job[p].verb = "build" THEN "rename" ELSE "clean"
      /\ ledger' = Amended(job[p]) /\ UNCHANGED <<recipe, file, disk, temp>>
  BY WriteLedgerMoves
<1>2. /\ job[p] \in Job /\ JobOK(job[p]) /\ job[p] # Idle
      /\ job[p].verb \in {"build", "validate", "review"}
  BY <1>1 DEF Moved, JobOK, Job, Verb
<1>3. \A q \in Proc : q # p => job[q].at \notin Handing
  BY <1>2, OthersWait
<1>4. \A q \in Proc : q # p => job'[q].at \notin Handing
  BY <1>1, <1>3 DEF Moved
<1>5. ledgerBar = job[p].base /\ diskBar = disk
  BY <1>1, <1>3, BarsAtWriting
<1>6. job[p].base = job[p].snap
  BY <1>1, <1>2, Held DEF HeldOK
<1>7. CASE job[p].verb = "build"
  <2>1. job'[p].target = job[p].target
    BY <1>1 DEF Moved, Steady
  <2>2. job'[p].at = "rename"
    BY <1>1, <1>7
  <2>3. ledgerBar' = ledger' /\ diskBar' = [disk' EXCEPT ![OutPath[job'[p].target]] = temp'[p]]
    BY <1>4, <2>2, BarsAtRenameNext
  <2> QED
    BY <1>1, <1>2, <1>5, <1>6, <1>7, <2>1, <2>3
<1>8. CASE job[p].verb # "build"
  <2>1. \A q \in Proc : job'[q].at \notin Handing
    BY <1>1, <1>4, <1>8 DEF Handing
  <2>2. ledgerBar' = ledger' /\ diskBar' = disk'
    BY <2>1, BarsAtRestNext
  <2> QED
    BY <1>1, <1>2, <1>5, <1>6, <1>8, <2>2
<1> QED
  BY <1>7, <1>8

LEMMA WriterProduces ==
  ASSUME OneWriter
  PROVE  OneProducer
BY DEF OneWriter, OneProducer, Writers, Producers

\* The inputs in hand are the bytes of the declared inputs.
LEMMA InputsInHand ==
  ASSUME TypeInv, TypeInv', LedgerInv, ProducerInv, OneWriter, NEW p \in Proc, WriteLedger(p),
         job[p].verb \in Producers
  PROVE  /\ job[p].inputs = Atomic!BytesIn(job[p].target)
         /\ Atomic!InputsAvailable(job[p].target)
<1> DEFINE j == job[p]
           M == Members(recipe[j.target])
<1>1. /\ j.at = "writing" /\ j \in Job /\ j # Idle /\ ledgerBar = j.snap /\ diskBar = disk
  BY WriteBars
<1>2. InputsOK(p)
  BY <1>1, HandOf DEF Producing
<1>3. /\ DOMAIN j.inputs = M
      /\ \A i \in M : j.inputs[i] = InputBytes(i, j.snap)
  BY <1>1, <1>2 DEF InputsOK, HoldsInputs
<1>4. \E S \in SUBSET Node : j.inputs \in [S -> Content]
  BY <1>1 DEF Job, InputMap
<1>5. \A i : Atomic!InputBytes(i, ledgerBar) = InputBytes(i, j.snap)
  BY <1>1 DEF InputBytes, Atomic!InputBytes
<1>6. Atomic!Members(recipe[j.target]) = M
  BY DEF Members, Atomic!Members
<1> HIDE DEF j, M
<1>7. j.inputs = [i \in M |-> InputBytes(i, j.snap)]
  BY <1>3, <1>4
<1>8. Atomic!BytesIn(j.target) = [i \in M |-> InputBytes(i, j.snap)]
  BY <1>5, <1>6 DEF Atomic!BytesIn
<1>9. \A i \in M : InputBytes(i, j.snap) # Nil
  BY <1>3, <1>4, ContentAssumption
<1>10. Atomic!InputsAvailable(j.target)
  BY <1>5, <1>6, <1>9 DEF Atomic!InputsAvailable
<1> QED
  BY <1>7, <1>8, <1>10 DEF j

LEMMA BuildIsAtomic ==
  ASSUME TypeInv, TypeInv', LedgerInv, ProducerInv, OneWriter, NEW p \in Proc, WriteLedger(p),
         job[p].verb = "build"
  PROVE  Atomic!Build(job[p].target)
<1> DEFINE j == job[p]
<1>1. /\ j.at = "writing" /\ j \in Job /\ JobOK(j) /\ j # Idle /\ j.base = j.snap
      /\ ledgerBar = j.snap /\ diskBar = disk
      /\ ledgerBar' = Amended(j) /\ diskBar' = [disk EXCEPT ![OutPath[j.target]] = temp[p]]
      /\ UNCHANGED <<recipe, file>>
  BY WriteBars
<1>2. j.inputs = Atomic!BytesIn(j.target) /\ Atomic!InputsAvailable(j.target)
  BY InputsInHand DEF Producers
<1>3. ProducedFor(j, j.hash) /\ temp[p] = j.hash
  BY <1>1, HandOf DEF Producing, Producers, BuiltOK
<1>4. j.hash \in Content /\ j.verdict \in Atomic!Verdict \cup {Nil} /\ ledgerBar # Torn
  BY <1>1, LedgerAssumption DEF JobOK, Job, Verdict, Atomic!Verdict
<1>5. Amended(j) = [j.snap EXCEPT !.artifacts =
                      [j.snap.artifacts EXCEPT ![j.target] = BuiltRecord(j)]]
  BY <1>1, BuildRecords
<1>6. BuiltRecord(j) =
        [inputs |-> Atomic!BytesIn(j.target), path |-> OutPath[j.target], hash |-> j.hash,
         validation |-> j.verdict,
         judged |-> Atomic!About(Atomic!BytesIn(j.target), j.verdict)]
  BY <1>2, <1>3 DEF BuiltRecord, ProducedFor, About, Atomic!About
<1>7. Atomic!Produces(j.target, Atomic!BytesIn(j.target), j.hash, j.verdict)
  BY <1>2, <1>3 DEF ProducedFor, Produces, Atomic!Produces, Verdict, Atomic!Verdict
<1> HIDE DEF j
<1> QED
  BY <1>1, <1>2, <1>3, <1>4, <1>5, <1>6, <1>7 DEF Atomic!Build, j

LEMMA ValidateIsAtomic ==
  ASSUME TypeInv, TypeInv', LedgerInv, ProducerInv, OneWriter, NEW p \in Proc, WriteLedger(p),
         job[p].verb = "validate"
  PROVE  Atomic!Validate(job[p].target)
<1> DEFINE j == job[p]
           rec == j.snap.artifacts[j.target]
<1>1. /\ j.at = "writing" /\ j \in Job /\ JobOK(j) /\ j # Idle /\ j.base = j.snap
      /\ ledgerBar = j.snap /\ diskBar = disk /\ ledgerBar' = Amended(j) /\ diskBar' = disk
      /\ UNCHANGED <<recipe, file>>
  BY WriteBars
<1>2. j.inputs = Atomic!BytesIn(j.target) /\ Atomic!InputsAvailable(j.target)
  BY InputsInHand DEF Producers
<1>3. JudgedOK(p)
  BY <1>1, HandOf DEF Producing, Producers
<1>4. ledgerBar # Torn /\ rec # Nil
  BY <1>1, LedgerAssumption DEF JobOK, Job
<1>5. /\ j.verdict \in Atomic!Verdict
      /\ Judges(j.target, Atomic!BytesIn(j.target), rec.hash, j.verdict)
      /\ j.judged = Atomic!BytesIn(j.target)
  BY <1>1, <1>2, <1>3 DEF JudgedOK, Job, Verdict, Atomic!Verdict
<1>6. Atomic!Judgeable(j.target)
  <2>1. CASE j.target \in DeclaresValidator
    <3>1. disk[rec.path] = rec.hash
      BY <1>1, <1>3, <2>1 DEF JudgedOK
    <3> QED
      BY <1>1, <1>4, <2>1, <3>1 DEF Atomic!Judgeable, Atomic!FoundBytes
  <2>2. CASE j.target \notin DeclaresValidator
    <3>1. j.target \in SelfReporting /\ Makes(j.target, j.inputs, rec.hash)
      BY <1>1, <1>3, <2>2 DEF JudgedOK
    <3> QED
      BY <1>1, <1>2, <2>2, <3>1 DEF Atomic!Judgeable
  <2> QED
    BY <2>1, <2>2
<1>7. Amended(j) = [j.snap EXCEPT !.artifacts =
        [j.snap.artifacts EXCEPT ![j.target] =
           [rec EXCEPT !.validation = j.verdict, !.judged = Atomic!BytesIn(j.target)]]]
  BY <1>1, <1>5 DEF Amended, JudgedRecord
<1> HIDE DEF j
<1> QED
  BY <1>1, <1>2, <1>4, <1>5, <1>6, <1>7 DEF Atomic!Validate, Atomic!Validatable, j

LEMMA ReviewIsAtomic ==
  ASSUME TypeInv, TypeInv', LedgerInv, PinInv, OneWriter, NEW p \in Proc, WriteLedger(p),
         job[p].verb = "review"
  PROVE  Atomic!Review(job[p].target)
<1> DEFINE j == job[p]
<1>1. /\ j.at = "writing" /\ j \in Job /\ JobOK(j) /\ j # Idle /\ j.base = j.snap
      /\ ledgerBar = j.snap /\ diskBar = disk /\ ledgerBar' = Amended(j) /\ diskBar' = disk
      /\ UNCHANGED <<recipe, file>>
  BY WriteBars
<1>2. /\ j.hash = Resolved(AuthoredNow, j.snap.artifacts, Follows[j.target])
      /\ j.hash # Nil
  BY <1>1 DEF PinInv, PinOK
<1>3. ledgerBar # Torn /\ Follows[j.target] # Nil
  BY <1>1, LedgerAssumption DEF JobOK, Job
<1>4. Atomic!Resolved(Atomic!AuthoredNow, ledgerBar.artifacts, Follows[j.target]) = j.hash
  BY <1>1, <1>2 DEF Resolved, Atomic!Resolved, AuthoredNow, Atomic!AuthoredNow,
                    AuthoredContent, Atomic!AuthoredContent
<1>5. Amended(j) = [j.snap EXCEPT !.reviews = [j.snap.reviews EXCEPT ![j.target] = j.hash]]
  BY <1>1 DEF Amended
<1> HIDE DEF j
<1> QED
  BY <1>1, <1>2, <1>3, <1>4, <1>5 DEF Atomic!Review, Atomic!Reviewable, j

\* A human edits the directory while nothing runs, in both modules alike.
LEMMA HumanIsAtomic ==
  ASSUME TypeInv, ~EditsDuringRuns, Human
  PROVE  Atomic!Human
<1>1. Quiet /\ UNCHANGED job
  BY DEF Human, EditFile, EditOutput, EditRecipe, MayEdit
<1>2. ledgerBar = ledger /\ diskBar = disk
  BY <1>1, BarsAtRest DEF Quiet, Idle, Handing
<1>3. ledgerBar' = ledger' /\ diskBar' = disk'
  BY <1>1, BarsAtRestNext DEF Quiet, Idle, Handing
<1>4. ASSUME NEW a \in Authored, EditFile(a)  PROVE Atomic!EditFile(a)
  BY <1>2, <1>3, <1>4 DEF EditFile, Atomic!EditFile
<1>5. ASSUME NEW t \in Derived, EditOutput(t)  PROVE Atomic!EditOutput(t)
  BY <1>2, <1>3, <1>5 DEF EditOutput, Atomic!EditOutput
<1>6. ASSUME EditRecipe  PROVE Atomic!EditRecipe
  BY <1>2, <1>3, <1>6 DEF EditRecipe, Atomic!EditRecipe
<1> QED
  BY <1>4, <1>5, <1>6 DEF Human, Atomic!Human

\* The steps up to the write.
LEMMA ProvideStays ==
  ASSUME TypeInv, TypeInv', LedgerInv, OneWriter, NEW p \in Proc, Provide(p)
  PROVE  Stutters
<1> USE DEF DirStays, Refused, Handing
<1>1. CASE ResolveInput(p)
  BY <1>1, ResolveMoves, MovesStay
<1>2. CASE InputsResolved(p)
  BY <1>2, ResolvedMoves, MovesStay
<1>3. CASE EmptyScratch(p)
  BY <1>3, EmptyScratchMoves, MovesStay
<1>4. CASE RunProvider(p)
  BY <1>4, RunProviderMoves, MovesStay
<1>5. CASE ProviderFails(p)
  BY <1>5, ProviderFailsMoves, MovesStay
<1>6. CASE CollectOutput(p)
  BY <1>6, CollectOutputMoves, MovesStay
<1>7. CASE StageOutput(p)
  <2>1. \A q \in Proc : q # p => temp'[q] = temp[q]
    BY <1>7, StageOutputMoves DEF TypeInv, TypeOK
  <2> QED
    BY <1>7, <2>1, StageOutputMoves, MovesStay
<1>8. CASE CheckArtifact(p)
  BY <1>8, CheckArtifactMoves, MovesStay
<1>9. CASE JudgeArtifact(p)
  BY <1>9, JudgeArtifactMoves, MovesStay
<1>10. CASE PinFollowed(p)
  BY <1>10, PinFollowedMoves, MovesStay
<1>11. CASE ValidatorFails(p)
  BY <1>11, ValidatorFailsMoves, MovesStay
<1> QED
  BY <1>1, <1>2, <1>3, <1>4, <1>5, <1>6, <1>7, <1>8, <1>9, <1>10, <1>11 DEF Provide

\* The process ends; without a crash it is at its clean-up.
LEMMA EndStays ==
  ASSUME TypeInv, LedgerInv, OneWriter, "crash" \notin Faults, NEW p \in Proc,
         CleanUp(p) \/ Crash(p) \/ EndStatus(p)
  PROVE  Stutters
<1>1. Ended(p)
  BY EndMoves
<1>2. job[p].at \notin Handing
  BY DEF CleanUp, Crash, EndStatus, Answered, Running, Handing
<1> QED
  BY <1>1, <1>2, BarsStay DEF Ended, Idle, Handing

LEMMA WriteIsAtomic ==
  ASSUME TypeInv, TypeInv', LedgerInv, ProducerInv, PinInv, OneWriter,
         NEW p \in Proc, WriteLedger(p)
  PROVE  Atomic!Commands
<1>1. /\ job[p] \in Job /\ JobOK(job[p]) /\ job[p].verb \in {"build", "validate", "review"}
  BY WriteBars
<1>2. CASE job[p].verb = "build"
  BY <1>1, <1>2, BuildIsAtomic DEF Atomic!Commands, JobOK
<1>3. CASE job[p].verb = "validate"
  BY <1>1, <1>3, ValidateIsAtomic DEF Atomic!Commands, JobOK
<1>4. CASE job[p].verb = "review"
  BY <1>1, <1>4, ReviewIsAtomic DEF Atomic!Commands, JobOK
<1> QED
  BY <1>1, <1>2, <1>3, <1>4

\* Every step of Episode is a step of Production, or none.
LEMMA AtomicStep ==
  ASSUME OneWriter, ~EditsDuringRuns, "rename" \notin Faults, "crash" \notin Faults
  PROVE  TypeInv /\ TypeInv' /\ LedgerInv /\ ProducerInv /\ PinInv /\ [Next]_vars
           => [Atomic!Next]_Atomic!dirVars
<1> SUFFICES ASSUME TypeInv, TypeInv', LedgerInv, ProducerInv, PinInv, [Next]_vars
             PROVE  Stutters \/ Atomic!Next
  BY DEF Stutters, Atomic!dirVars
<1>1. CASE Human
  BY <1>1, HumanIsAtomic DEF Atomic!Next
<1>2. ASSUME NEW p \in Proc, Begin(p)  PROVE Stutters
  <2>1. Started(p)
    BY <1>2, Starts
  <2>2. job[p].at \notin Handing /\ job'[p].at \notin Handing
    BY <2>1 DEF Started, Idle, Handing, Job, Verb
  <2> QED
    BY <2>1, <2>2, BarsStay DEF Started, DirStays
<1>3. ASSUME NEW p \in Proc, Provide(p)  PROVE Stutters
  BY <1>3, ProvideStays
<1>4. ASSUME NEW p \in Proc, Finish(p)  PROVE Stutters \/ Atomic!Next
  <2>1. CASE RereadLedger(p)
    BY <2>1, RereadLedgerMoves, MovesStay DEF Refused, DirStays, Handing
  <2>2. CASE TruncateLedger(p)
    BY <2>2, TruncateStays
  <2>3. CASE WriteLedger(p)
    BY <2>3, WriteIsAtomic DEF Atomic!Next
  <2>4. CASE RenameOutput(p)
    BY <2>4, RenameStays
  <2>5. CASE RenameFails(p)
    BY <2>5 DEF RenameFails
  <2>6. CASE CleanUp(p) \/ Crash(p)
    BY <2>6, EndStays
  <2> QED
    BY <1>4, <2>1, <2>2, <2>3, <2>4, <2>5, <2>6 DEF Finish
<1>5. ASSUME NEW p \in Proc, Scan(p)  PROVE Stutters
  <2>1. CASE EndStatus(p)
    BY <2>1, EndStays
  <2>2. CASE ~EndStatus(p)
    BY <1>5, <2>2, ReadMoves, MovesStay DEF Scan, DirStays, Handing
  <2> QED
    BY <2>1, <2>2
<1>6. CASE UNCHANGED vars
  BY <1>6 DEF vars, Stutters, ledgerBar, diskBar, Running
<1> QED
  BY <1>1, <1>2, <1>3, <1>4, <1>5, <1>6 DEF Next

LEMMA AtomicInit == Init => Atomic!DirInit
<1> SUFFICES ASSUME Init  PROVE Atomic!DirInit
  OBVIOUS
<1>1. ledgerBar = ledger /\ diskBar = disk
  BY BarsAtRest DEF Init, Idle, Handing
<1> QED
  BY <1>1 DEF Init, DirInit, Atomic!DirInit, EmptyLedger, Atomic!EmptyLedger

\* With one process that writes, no edit while it runs and no failure after its ledger is
\* written, every verb is one indivisible step of Production: a build puts an output and its
\* record in place together, a verdict and a waiver change one entry, and a refusal changes
\* nothing (build.ts buildTarget, validate.ts validateTarget, cli/review.ts reviewCommand).
THEOREM VerbsCorrect ==
  ASSUME OneWriter, ~EditsDuringRuns, "rename" \notin Faults, "crash" \notin Faults
  PROVE  Spec => VerbsAreAtomic
<1>1. OneProducer
  BY WriterProduces
<1>2. Spec => []ProducerInv
  BY <1>1, ProducerInvariant
<1>3. Spec => []LedgerInv
  BY LedgerInvariant
<1>4. Spec => []PinInv
  BY PinInvariant
<1>5. Init => TypeInv
  BY TypeInit
<1>6. TypeInv /\ [Next]_vars => TypeInv'
  BY TypeStep
<1> QED
  BY <1>2, <1>3, <1>4, <1>5, <1>6, AtomicInit, AtomicStep, PTL
     DEF Spec, VerbsAreAtomic, Atomic!Spec
=============================================================================
