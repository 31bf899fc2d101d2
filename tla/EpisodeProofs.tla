---------------------------- MODULE EpisodeProofs ----------------------------
(***************************************************************************)
(* Theorems about Episode, for every episode, every provider and any       *)
(* number of processes.                                                    *)
(***************************************************************************)
EXTENDS Episode, TLAPS

\* What a verb has in hand at each of its steps.
JobOK(j) ==
  /\ j.at = "scan" <=> j.verb = "status"
  /\ j.verb \in {"build", "validate"} => j.target \in Derived
  /\ j.verb = "review" => j.target \in Authored /\ Follows[j.target] # Nil
  /\ j.verb = "validate" => j.snap.artifacts[j.target] # Nil
  /\ j.at = "pin" => j.verb = "review"
  /\ j.at \in {"resolve", "scratch", "run", "collect"} => j.verb \in {"build", "validate"}
  /\ j.at \in {"stage", "rename"} => j.verb = "build"
  /\ j.at \in {"check", "judge"} => j.verb = "validate"
  /\ j.at \in {"stage", "reread", "write", "writing"} =>
       IF j.verb = "validate" THEN j.verdict \in Verdict ELSE j.hash \in Content
  /\ j.at \in {"write", "writing"} => j.base \in Ledger

JobsOK == \A p \in Proc : job[p] # Idle => JobOK(job[p])

TypeInv == TypeOK /\ JobsOK

-----------------------------------------------------------------------------
(* The data a step computes has the type it should have. *)

LEMMA IdleIsNoJob == Idle \notin Job
  BY DEF Idle, Job, Stages

\* A process that is at a stage is working on a job.
LEMMA RunningJob ==
  ASSUME TypeInv, NEW p \in Proc, NEW s \in Stages, Running(p, s)
  PROVE  job[p] \in Job /\ JobOK(job[p]) /\ job[p].at = s
<1>1. job[p] \in Job \cup {Idle} BY DEF TypeInv, TypeOK
<1>2. job[p] # Idle BY DEF Running, Idle, Stages
<1> QED BY <1>1, <1>2 DEF TypeInv, JobsOK, Running

\* Replacing one job by a well-formed one keeps all jobs well formed.
LEMMA JobReplaced ==
  ASSUME TypeInv, NEW p \in Proc, NEW j, (j \in Job /\ JobOK(j)) \/ j = Idle,
         job' = [job EXCEPT ![p] = j]
  PROVE  job' \in [Proc -> Job \cup {Idle}] /\ JobsOK'
<1>1. job \in [Proc -> Job \cup {Idle}] BY DEF TypeInv, TypeOK
<1>2. job' \in [Proc -> Job \cup {Idle}] BY <1>1
<1>3. \A q \in Proc : job'[q] = IF q = p THEN j ELSE job[q] BY <1>1
<1> QED BY <1>2, <1>3 DEF TypeInv, JobsOK

LEMMA WithInput ==
  ASSUME NEW f \in InputMap, NEW i \in Node, NEW c \in Content
  PROVE  With(f, i, c) \in InputMap
<1>1. PICK S \in SUBSET Node : f \in [S -> Content] BY DEF InputMap
<1>2. With(f, i, c) \in [S \cup {i} -> Content] BY <1>1 DEF With
<1> QED BY <1>2 DEF InputMap

LEMMA InputBytesType ==
  ASSUME DirTypeOK, NEW i \in Node, NEW snap \in Ledger
  PROVE  InputBytes(i, snap) \in Content \cup {Nil}
  BY DirAssumption DEF InputBytes, DirTypeOK, Ledger, Record, Node

LEMMA ResolvedType ==
  ASSUME DirTypeOK, NEW i \in Node, NEW snap \in Ledger
  PROVE  Resolved(AuthoredNow, snap.artifacts, i) \in Content \cup {Nil}
  BY DirAssumption DEF Resolved, AuthoredNow, AuthoredContent, DirTypeOK, Ledger, Record, Node

LEMMA FoundBytesType ==
  ASSUME DirTypeOK, NEW t \in Derived, NEW snap \in Ledger
  PROVE  FoundBytes(snap, t) \in Content \cup {Nil}
  BY DEF FoundBytes, DirTypeOK, Ledger, Record

\* What a provider or a validator reads of the inputs is a map of contents.
LEMMA BytesReadType ==
  ASSUME TypeInv, NEW p \in Proc, job[p] \in Job, Readable(p)
  PROVE  BytesRead(p) \in InputMap
<1>1. PICK S \in SUBSET Node : job[p].inputs \in [S -> Content] BY DEF Job, InputMap
<1>2. ASSUME NEW i \in S PROVE BytesAtPath(p, i) \in Content
  <2>1. BytesAtPath(p, i) # Nil BY <1>1 DEF Readable
  <2>2. CASE i \in Derived
    <3>1. job[p].snap.artifacts[i] \in Record \cup {Nil} BY <2>2 DEF Job, Ledger
    <3>2. job[p].snap.artifacts[i] # Nil BY <2>1, <2>2 DEF BytesAtPath
    <3>3. disk[job[p].snap.artifacts[i].path] \in Content \cup {Nil}
      BY <3>1, <3>2 DEF TypeInv, TypeOK, DirTypeOK, Record
    <3> QED BY <2>1, <2>2, <3>2, <3>3 DEF BytesAtPath
  <2>3. CASE i \notin Derived
    <3>1. file[i] \in Content \cup {Nil} BY <2>3 DEF TypeInv, TypeOK, DirTypeOK, Node
    <3> QED BY <1>1, <2>1, <2>3, <3>1 DEF BytesAtPath
  <2> QED BY <2>2, <2>3
<1>3. BytesRead(p) \in [S -> Content] BY <1>1, <1>2 DEF BytesRead
<1> QED BY <1>3 DEF InputMap

\* What a verb writes is a ledger.
LEMMA AmendedType ==
  ASSUME NEW j \in Job, JobOK(j), j.at = "writing"
  PROVE  Amended(j) \in Ledger
<1>1. j.base \in Ledger BY DEF JobOK, Job
<1>2. CASE j.verb = "build"
  <2>1. BuiltRecord(j) \in Record BY <1>2, DirAssumption DEF BuiltRecord, Record, JobOK, Job
  <2> QED BY <1>1, <1>2, <2>1 DEF Amended, Ledger, JobOK
<1>3. CASE j.verb = "validate"
  <2>1. j.snap \in Ledger /\ j.target \in Derived /\ j.snap.artifacts[j.target] # Nil
    BY <1>3 DEF JobOK, Job
  <2>2. j.snap.artifacts[j.target] \in Record BY <2>1 DEF Ledger
  <2>3. j.verdict \in Verdict BY <1>3 DEF JobOK, Job
  <2>4. JudgedRecord(j) \in Record
    BY <2>2, <2>3 DEF JudgedRecord, Record, Job
  <2> QED BY <1>1, <1>3, <2>1, <2>4 DEF Amended, Ledger
<1>4. CASE j.verb = "review"
  <2>1. j.hash \in Content /\ j.target \in Authored BY <1>4 DEF JobOK, Job
  <2> QED BY <1>1, <1>4, <2>1 DEF Amended, Ledger
<1> QED BY <1>2, <1>3, <1>4 DEF JobOK, Job, Verb

LEMMA NewJobType ==
  ASSUME TypeInv, ledger # Torn, NEW verb \in Verb, NEW n \in Node \cup {Nil}, NEW at \in Stages
  PROVE  NewJob(verb, n, at) \in Job
<1>1. recipe \in Recipe /\ ledger \in Ledger BY DEF TypeInv, TypeOK, DirTypeOK
<1>2. [i \in {} |-> Nil] \in InputMap
  <2>1. [i \in {} |-> Nil] \in [{} -> Content] OBVIOUS
  <2> QED BY <2>1 DEF InputMap
<1> QED BY <1>1, <1>2 DEF NewJob, Job

-----------------------------------------------------------------------------
(* Every step keeps TypeInv. *)

LEMMA TypeInit == Init => TypeInv
  BY DirAssumption DEF Init, DirInit, TypeInv, TypeOK, DirTypeOK, JobsOK, EmptyLedger, Ledger

\* A step that changes nothing but the job of one process.
LEMMA JobStep ==
  ASSUME TypeInv, NEW p \in Proc, NEW j, (j \in Job /\ JobOK(j)) \/ j = Idle,
         job' = [job EXCEPT ![p] = j],
         UNCHANGED <<recipe, file, disk, ledger, scratch, temp, waived, touched>>
  PROVE  TypeInv'
<1>1. job' \in [Proc -> Job \cup {Idle}] /\ JobsOK' BY JobReplaced
<1> QED BY <1>1 DEF TypeInv, TypeOK, DirTypeOK

LEMMA RefuseStep ==
  ASSUME TypeInv, NEW p \in Proc, NEW s \in Stages \ {"scan"}, Running(p, s), Refuse(p),
         UNCHANGED <<recipe, file, disk, ledger, scratch, temp, waived, touched>>
  PROVE  TypeInv'
<1> DEFINE j == [job[p] EXCEPT !.at = "clean", !.failed = TRUE]
<1>1. job[p] \in Job /\ JobOK(job[p]) /\ job[p].at = s BY RunningJob
<1>2. j \in Job BY <1>1 DEF Job, Stages
<1>3. JobOK(j) BY <1>1 DEF Job, JobOK
<1>4. job' = [job EXCEPT ![p] = j] BY DEF Refuse
<1> QED BY <1>2, <1>3, <1>4, JobStep

LEMMA StartType ==
  ASSUME TypeInv, NEW p \in Proc, Begin(p)
  PROVE  TypeInv'
<1>1. ASSUME NEW t \in Derived, StartBuild(p, t) PROVE TypeInv'
  <2> DEFINE j == [NewJob("build", t, "resolve") EXCEPT !.todo = recipe[t]]
  <2>1. ledger # Torn /\ job' = [job EXCEPT ![p] = j] BY <1>1 DEF StartBuild, Start
  <2>2. NewJob("build", t, "resolve") \in Job BY <2>1, NewJobType DEF Verb, Stages, Node
  <2>3. recipe[t] \in Seq(Node) BY DEF TypeInv, TypeOK, DirTypeOK, Recipe
  <2>4. j \in Job BY <2>2, <2>3 DEF Job
  <2>5. JobOK(j) BY DEF NewJob, JobOK
  <2> HIDE DEF j
  <2> QED BY <1>1, <2>1, <2>4, <2>5, JobStep DEF StartBuild, Start
<1>2. ASSUME NEW t \in Derived, StartValidate(p, t) PROVE TypeInv'
  <2> DEFINE at == IF t \in DeclaresValidator THEN "check" ELSE "resolve"
             j == [NewJob("validate", t, at) EXCEPT !.todo = recipe[t]]
  <2>1. ledger # Torn /\ job' = [job EXCEPT ![p] = j] BY <1>2 DEF StartValidate, Start
  <2>2. NewJob("validate", t, at) \in Job BY <2>1, NewJobType DEF Verb, Stages, Node
  <2>3. recipe[t] \in Seq(Node) BY DEF TypeInv, TypeOK, DirTypeOK, Recipe
  <2>4. j \in Job BY <2>2, <2>3 DEF Job
  <2>5. ledger.artifacts[t] # Nil BY <1>2 DEF StartValidate
  <2>6. JobOK(j) BY <2>5 DEF NewJob, JobOK
  <2> HIDE DEF j
  <2> QED BY <1>2, <2>1, <2>4, <2>6, JobStep DEF StartValidate, Start
<1>3. ASSUME NEW a \in Authored, StartReview(p, a) PROVE TypeInv'
  <2> DEFINE j == NewJob("review", a, "pin")
  <2>1. ledger # Torn /\ job' = [job EXCEPT ![p] = j] BY <1>3 DEF StartReview, Start
  <2>2. j \in Job BY <2>1, NewJobType DEF Verb, Stages, Node
  <2>3. JobOK(j) BY <1>3 DEF StartReview, NewJob, JobOK
  <2> HIDE DEF j
  <2> QED BY <1>3, <2>1, <2>2, <2>3, JobStep DEF StartReview, Start
<1>4. ASSUME StartStatus(p) PROVE TypeInv'
  <2> DEFINE j == NewJob("status", Nil, "scan")
  <2>1. ledger # Torn /\ job' = [job EXCEPT ![p] = j] BY <1>4 DEF StartStatus, Start
  <2>2. j \in Job BY <2>1, NewJobType DEF Verb, Stages
  <2>3. JobOK(j) BY DEF NewJob, JobOK
  <2> HIDE DEF j
  <2> QED BY <1>4, <2>1, <2>2, <2>3, JobStep DEF StartStatus, Start
<1> QED BY <1>1, <1>2, <1>3, <1>4 DEF Begin

LEMMA ResolveInputType ==
  ASSUME TypeInv, NEW p \in Proc, ResolveInput(p)
  PROVE  TypeInv'
<1> DEFINE i == Head(job[p].todo)
           c == InputBytes(i, job[p].snap)
           j == [job[p] EXCEPT !.todo = Tail(job[p].todo),
                               !.inputs = With(job[p].inputs, i, c),
                               !.fetched = IF Fetches(i) THEN @ \cup {i} ELSE @]
<1>1. Running(p, "resolve") /\ "resolve" \in Stages BY DEF ResolveInput, Stages
<1>2. job[p] \in Job /\ JobOK(job[p]) /\ job[p].at = "resolve" BY <1>1, RunningJob
<1>3. job[p].todo \in Seq(Node) /\ job[p].todo # <<>> BY <1>2 DEF ResolveInput, Job
<1>4. i \in Node /\ Tail(job[p].todo) \in Seq(Node) BY <1>3
<1>5. CASE c = Nil
  <2>1. Refuse(p) BY <1>5 DEF ResolveInput
  <2> QED BY <1>1, <2>1, RefuseStep DEF ResolveInput
<1>6. CASE c # Nil
  <2>1. job[p].snap \in Ledger BY <1>2 DEF Job
  <2>2. c \in Content BY <1>4, <1>6, <2>1, InputBytesType DEF TypeInv, TypeOK
  <2>3. With(job[p].inputs, i, c) \in InputMap BY <1>2, <1>4, <2>2, WithInput DEF Job
  <2>4. (IF Fetches(i) THEN job[p].fetched \cup {i} ELSE job[p].fetched) \in SUBSET Authored
    BY <1>2 DEF Fetches, Job
  <2>5. j \in Job
    <3> HIDE DEF i, c
    <3> QED BY ZenonT(60), <1>2, <1>4, <2>3, <2>4 DEF Job
  <2>6. JobOK(j)
    <3> HIDE DEF i, c
    <3> QED BY <1>2 DEF Job, JobOK
  <2>7. job' = [job EXCEPT ![p] = j] BY <1>6 DEF ResolveInput
  <2> HIDE DEF j
  <2> QED BY <2>5, <2>6, <2>7, JobStep DEF ResolveInput
<1> QED BY <1>5, <1>6

LEMMA InputsResolvedType ==
  ASSUME TypeInv, NEW p \in Proc, InputsResolved(p)
  PROVE  TypeInv'
<1> DEFINE at == IF job[p].verb = "validate" /\ job[p].target \in DeclaresValidator
                 THEN "judge" ELSE "scratch"
           j == [job[p] EXCEPT !.at = at]
<1>1. Running(p, "resolve") /\ "resolve" \in Stages BY DEF InputsResolved, Stages
<1>2. job[p] \in Job /\ JobOK(job[p]) /\ job[p].at = "resolve" BY <1>1, RunningJob
<1>3. j \in Job BY <1>2 DEF Job, Stages
<1>4. JobOK(j) BY <1>2 DEF Job, JobOK
<1>5. job' = [job EXCEPT ![p] = j] BY DEF InputsResolved
<1> HIDE DEF j
<1> QED BY <1>3, <1>4, <1>5, JobStep DEF InputsResolved

LEMMA ScratchOfType ==
  ASSUME NEW p \in Proc, job[p] \in Job, JobOK(job[p]), job[p].verb \in {"build", "validate"}
  PROVE  ScratchOf(p) \in Scratch
  BY DEF ScratchOf, Scratch, JobOK, Job

LEMMA EmptyScratchType ==
  ASSUME TypeInv, NEW p \in Proc, EmptyScratch(p)
  PROVE  TypeInv'
<1> DEFINE j == [job[p] EXCEPT !.at = "run"]
<1>1. Running(p, "scratch") /\ "scratch" \in Stages BY DEF EmptyScratch, Stages
<1>2. job[p] \in Job /\ JobOK(job[p]) /\ job[p].at = "scratch" BY <1>1, RunningJob
<1>3. j \in Job BY <1>2 DEF Job, Stages
<1>4. JobOK(j) BY <1>2 DEF Job, JobOK
<1>5. job' = [job EXCEPT ![p] = j] BY DEF EmptyScratch
<1> HIDE DEF j
<1>6. job' \in [Proc -> Job \cup {Idle}] /\ JobsOK' BY <1>3, <1>4, <1>5, JobReplaced
<1>7. scratch' \in [Scratch -> Content \cup {Nil, Empty}]
  BY DEF EmptyScratch, TypeInv, TypeOK
<1> QED BY <1>6, <1>7 DEF EmptyScratch, TypeInv, TypeOK, DirTypeOK

LEMMA RunProviderType ==
  ASSUME TypeInv, NEW p \in Proc, RunProvider(p)
  PROVE  TypeInv'
<1>1. Running(p, "run") /\ "run" \in Stages BY DEF RunProvider, Stages
<1>2. job[p] \in Job /\ JobOK(job[p]) /\ job[p].at = "run" BY <1>1, RunningJob
<1>3. PICK c \in Content, v \in Verdict \cup {Nil} :
        /\ scratch' = [scratch EXCEPT ![ScratchOf(p)] = c]
        /\ job' = [job EXCEPT ![p].at = "collect", ![p].verdict = v,
                              ![p].judged = About(BytesRead(p), v)]
  BY DEF RunProvider
<1> DEFINE a == About(BytesRead(p), v)
           j == [job[p] EXCEPT !.at = "collect", !.verdict = v, !.judged = a]
<1>4. a \in InputMap \cup {Nil} BY <1>2, BytesReadType DEF About, RunProvider
<1>5. j \in Job
  <2> HIDE DEF a
  <2> QED BY <1>2, <1>4 DEF Job, Stages
<1>6. JobOK(j)
  <2> HIDE DEF a
  <2> QED BY <1>2 DEF Job, JobOK
<1>7. job' = [job EXCEPT ![p] = j] BY <1>3
<1> HIDE DEF j
<1>8. job' \in [Proc -> Job \cup {Idle}] /\ JobsOK' BY <1>5, <1>6, <1>7, JobReplaced
<1>9. scratch' \in [Scratch -> Content \cup {Nil, Empty}] BY <1>3 DEF TypeInv, TypeOK
<1> QED BY <1>8, <1>9 DEF RunProvider, TypeInv, TypeOK, DirTypeOK

LEMMA ProviderFailsType ==
  ASSUME TypeInv, NEW p \in Proc, ProviderFails(p)
  PROVE  TypeInv'
<1>1. Running(p, "run") /\ "run" \in Stages \ {"scan"} BY DEF ProviderFails, Stages
<1>2. Refuse(p) BY DEF ProviderFails
<1> QED BY <1>1, <1>2, RefuseStep DEF ProviderFails

LEMMA CollectOutputType ==
  ASSUME TypeInv, NEW p \in Proc, CollectOutput(p)
  PROVE  TypeInv'
<1> DEFINE c == scratch[ScratchOf(p)]
           at == IF job[p].verb = "build" THEN "stage" ELSE "reread"
           j == [job[p] EXCEPT !.at = at, !.hash = c]
<1>1. Running(p, "collect") /\ "collect" \in Stages \ {"scan"} BY DEF CollectOutput, Stages
<1>2. job[p] \in Job /\ JobOK(job[p]) /\ job[p].at = "collect" BY <1>1, RunningJob
<1>3. CASE Refuse(p)
  BY <1>1, <1>3, RefuseStep DEF CollectOutput
<1>4. CASE /\ c \notin {Nil, Empty}
           /\ job[p].verb # "build" => job[p].verdict # Nil
           /\ job' = [job EXCEPT ![p].at = at, ![p].hash = c]
  <2>1. ScratchOf(p) \in Scratch BY <1>2, ScratchOfType DEF JobOK
  <2>2. c \in Content BY <1>4, <2>1 DEF TypeInv, TypeOK
  <2>3. j \in Job
    <3> HIDE DEF c
    <3> QED BY ZenonT(60), <1>2, <2>2 DEF Job, Stages
  <2>4. job[p].verb = "validate" => job[p].verdict \in Verdict BY <1>2, <1>4 DEF Job, JobOK
  <2>5. JobOK(j)
    <3> HIDE DEF c
    <3> QED BY <1>2, <2>2, <2>4 DEF Job, JobOK
  <2>6. job' = [job EXCEPT ![p] = j] BY <1>4
  <2> HIDE DEF j
  <2> QED BY <2>3, <2>5, <2>6, JobStep DEF CollectOutput
<1> QED BY <1>3, <1>4 DEF CollectOutput

LEMMA StageOutputType ==
  ASSUME TypeInv, NEW p \in Proc, StageOutput(p)
  PROVE  TypeInv'
<1> DEFINE c == scratch[ScratchOf(p)]
           j == [job[p] EXCEPT !.at = "reread"]
<1>1. Running(p, "stage") /\ "stage" \in Stages \ {"scan"} BY DEF StageOutput, Stages
<1>2. job[p] \in Job /\ JobOK(job[p]) /\ job[p].at = "stage" BY <1>1, RunningJob
<1>3. CASE Refuse(p) /\ UNCHANGED temp
  BY <1>1, <1>3, RefuseStep DEF StageOutput
<1>4. CASE /\ c \notin {Nil, Empty}
           /\ temp' = [temp EXCEPT ![p] = c]
           /\ job' = [job EXCEPT ![p].at = "reread"]
  <2>1. ScratchOf(p) \in Scratch BY <1>2, ScratchOfType DEF JobOK
  <2>2. c \in Content BY <1>4, <2>1 DEF TypeInv, TypeOK
  <2>3. j \in Job BY <1>2 DEF Job, Stages
  <2>4. JobOK(j) BY <1>2 DEF Job, JobOK
  <2>5. job' = [job EXCEPT ![p] = j] BY <1>4
  <2> HIDE DEF j
  <2>6. job' \in [Proc -> Job \cup {Idle}] /\ JobsOK' BY <2>3, <2>4, <2>5, JobReplaced
  <2>7. temp' \in [Proc -> Content \cup {Nil}] BY <1>4, <2>2 DEF TypeInv, TypeOK
  <2> QED BY <2>6, <2>7 DEF StageOutput, TypeInv, TypeOK, DirTypeOK
<1> QED BY <1>3, <1>4 DEF StageOutput

LEMMA CheckArtifactType ==
  ASSUME TypeInv, NEW p \in Proc, CheckArtifact(p)
  PROVE  TypeInv'
<1> DEFINE j == [job[p] EXCEPT !.at = "resolve"]
<1>1. Running(p, "check") /\ "check" \in Stages \ {"scan"} BY DEF CheckArtifact, Stages
<1>2. job[p] \in Job /\ JobOK(job[p]) /\ job[p].at = "check" BY <1>1, RunningJob
<1>3. CASE Refuse(p) BY <1>1, <1>3, RefuseStep DEF CheckArtifact
<1>4. CASE job' = [job EXCEPT ![p].at = "resolve"]
  <2>1. j \in Job BY <1>2 DEF Job, Stages
  <2>2. JobOK(j) BY <1>2 DEF Job, JobOK
  <2>3. job' = [job EXCEPT ![p] = j] BY <1>4
  <2> HIDE DEF j
  <2> QED BY <2>1, <2>2, <2>3, JobStep DEF CheckArtifact
<1> QED BY <1>3, <1>4 DEF CheckArtifact

LEMMA JudgeArtifactType ==
  ASSUME TypeInv, NEW p \in Proc, JudgeArtifact(p)
  PROVE  TypeInv'
<1>1. Running(p, "judge") /\ "judge" \in Stages BY DEF JudgeArtifact, Stages
<1>2. job[p] \in Job /\ JobOK(job[p]) /\ job[p].at = "judge" BY <1>1, RunningJob
<1>3. PICK v \in Verdict :
        job' = [job EXCEPT ![p].at = "reread", ![p].verdict = v, ![p].judged = BytesRead(p)]
  BY DEF JudgeArtifact
<1> DEFINE a == BytesRead(p)
           j == [job[p] EXCEPT !.at = "reread", !.verdict = v, !.judged = a]
<1>4. a \in InputMap BY <1>2, BytesReadType DEF JudgeArtifact
<1>5. job' = [job EXCEPT ![p] = j] BY <1>3
<1> HIDE DEF a
<1>6. j \in Job BY <1>2, <1>4 DEF Job, Stages
<1>7. JobOK(j) BY <1>2 DEF Job, JobOK
<1> HIDE DEF j
<1> QED BY <1>5, <1>6, <1>7, JobStep DEF JudgeArtifact

LEMMA ValidatorFailsType ==
  ASSUME TypeInv, NEW p \in Proc, ValidatorFails(p)
  PROVE  TypeInv'
<1>1. Running(p, "judge") /\ "judge" \in Stages \ {"scan"} BY DEF ValidatorFails, Stages
<1>2. Refuse(p) BY DEF ValidatorFails
<1> QED BY <1>1, <1>2, RefuseStep DEF ValidatorFails

LEMMA PinFollowedType ==
  ASSUME TypeInv, NEW p \in Proc, PinFollowed(p)
  PROVE  TypeInv'
<1> DEFINE f == Follows[job[p].target]
           c == Resolved(AuthoredNow, job[p].snap.artifacts, f)
           j == [job[p] EXCEPT !.at = "reread", !.hash = c]
<1>1. Running(p, "pin") /\ "pin" \in Stages \ {"scan"} BY DEF PinFollowed, Stages
<1>2. job[p] \in Job /\ JobOK(job[p]) /\ job[p].at = "pin" BY <1>1, RunningJob
<1>3. CASE Refuse(p) BY <1>1, <1>3, RefuseStep DEF PinFollowed
<1>4. CASE c # Nil /\ job' = [job EXCEPT ![p].at = "reread", ![p].hash = c]
  <2>1. f \in Node BY <1>2, NodeAssumption DEF JobOK
  <2>2. job[p].snap \in Ledger BY <1>2 DEF Job
  <2>3. c \in Content
    BY <1>4, <2>1, <2>2, ResolvedType DEF TypeInv, TypeOK
  <2>4. j \in Job
    <3> HIDE DEF c
    <3> QED BY <1>2, <2>3 DEF Job, Stages
  <2>5. JobOK(j)
    <3> HIDE DEF c
    <3> QED BY <1>2, <2>3 DEF Job, JobOK
  <2>6. job' = [job EXCEPT ![p] = j] BY <1>4
  <2> HIDE DEF j
  <2> QED BY <2>4, <2>5, <2>6, JobStep DEF PinFollowed
<1> QED BY <1>3, <1>4 DEF PinFollowed

LEMMA RereadLedgerType ==
  ASSUME TypeInv, NEW p \in Proc, RereadLedger(p)
  PROVE  TypeInv'
<1> DEFINE j == [job[p] EXCEPT !.at = "write", !.base = ledger]
<1>1. Running(p, "reread") /\ "reread" \in Stages \ {"scan"} BY DEF RereadLedger, Stages
<1>2. job[p] \in Job /\ JobOK(job[p]) /\ job[p].at = "reread" BY <1>1, RunningJob
<1>3. CASE ledger = Torn BY <1>1, <1>3, RefuseStep DEF RereadLedger
<1>4. CASE ledger # Torn
  <2>1. ledger \in Ledger BY <1>4 DEF TypeInv, TypeOK, DirTypeOK
  <2>2. j \in Job BY <1>2, <2>1 DEF Job, Stages
  <2>3. JobOK(j) BY <1>2, <2>1 DEF Job, JobOK
  <2>4. job' = [job EXCEPT ![p] = j] BY <1>4 DEF RereadLedger
  <2> HIDE DEF j
  <2> QED BY <2>2, <2>3, <2>4, JobStep DEF RereadLedger
<1> QED BY <1>3, <1>4

LEMMA TruncateLedgerType ==
  ASSUME TypeInv, NEW p \in Proc, TruncateLedger(p)
  PROVE  TypeInv'
<1> DEFINE j == [job[p] EXCEPT !.at = "writing"]
<1>1. Running(p, "write") /\ "write" \in Stages BY DEF TruncateLedger, Stages
<1>2. job[p] \in Job /\ JobOK(job[p]) /\ job[p].at = "write" BY <1>1, RunningJob
<1>3. j \in Job BY <1>2 DEF Job, Stages
<1>4. JobOK(j) BY <1>2 DEF Job, JobOK
<1>5. job' = [job EXCEPT ![p] = j] BY DEF TruncateLedger
<1> HIDE DEF j
<1>6. job' \in [Proc -> Job \cup {Idle}] /\ JobsOK' BY <1>3, <1>4, <1>5, JobReplaced
<1> QED BY <1>6 DEF TruncateLedger, TypeInv, TypeOK, DirTypeOK

LEMMA WriteLedgerType ==
  ASSUME TypeInv, NEW p \in Proc, WriteLedger(p)
  PROVE  TypeInv'
<1> DEFINE at == IF job[p].verb = "build" THEN "rename" ELSE "clean"
           j == [job[p] EXCEPT !.at = at]
<1>1. Running(p, "writing") /\ "writing" \in Stages BY DEF WriteLedger, Stages
<1>2. job[p] \in Job /\ JobOK(job[p]) /\ job[p].at = "writing" BY <1>1, RunningJob
<1>3. j \in Job BY <1>2 DEF Job, Stages
<1>4. JobOK(j) BY <1>2 DEF Job, JobOK
<1>5. job' = [job EXCEPT ![p] = j] BY DEF WriteLedger
<1>6. ledger' \in Ledger BY <1>2, AmendedType DEF WriteLedger
<1>7. waived' \in [Authored -> Content \cup {Nil}]
  BY <1>2 DEF WriteLedger, TypeInv, TypeOK, Job
<1> HIDE DEF j
<1>8. job' \in [Proc -> Job \cup {Idle}] /\ JobsOK' BY <1>3, <1>4, <1>5, JobReplaced
<1> QED BY <1>6, <1>7, <1>8 DEF WriteLedger, TypeInv, TypeOK, DirTypeOK

LEMMA RenameOutputType ==
  ASSUME TypeInv, NEW p \in Proc, RenameOutput(p)
  PROVE  TypeInv'
<1> DEFINE j == [job[p] EXCEPT !.at = "clean"]
<1>1. Running(p, "rename") /\ "rename" \in Stages BY DEF RenameOutput, Stages
<1>2. job[p] \in Job /\ JobOK(job[p]) /\ job[p].at = "rename" BY <1>1, RunningJob
<1>3. j \in Job BY <1>2 DEF Job, Stages
<1>4. JobOK(j) BY <1>2 DEF Job, JobOK
<1>5. job' = [job EXCEPT ![p] = j] BY DEF RenameOutput
<1> HIDE DEF j
<1>6. job' \in [Proc -> Job \cup {Idle}] /\ JobsOK' BY <1>3, <1>4, <1>5, JobReplaced
<1>7. disk' \in [Path -> Content \cup {Nil}]
  BY DEF RenameOutput, TypeInv, TypeOK, DirTypeOK
<1>8. temp' \in [Proc -> Content \cup {Nil}] BY DEF RenameOutput, TypeInv, TypeOK
<1>9. touched' \in SUBSET Path BY DEF RenameOutput, TypeInv, TypeOK
<1> QED BY <1>6, <1>7, <1>8, <1>9 DEF RenameOutput, TypeInv, TypeOK, DirTypeOK

LEMMA RenameFailsType ==
  ASSUME TypeInv, NEW p \in Proc, RenameFails(p)
  PROVE  TypeInv'
<1>1. Running(p, "rename") /\ "rename" \in Stages \ {"scan"} BY DEF RenameFails, Stages
<1> QED BY <1>1, RefuseStep DEF RenameFails

LEMMA CleanUpType ==
  ASSUME TypeInv, NEW p \in Proc, CleanUp(p)
  PROVE  TypeInv'
<1>1. job' \in [Proc -> Job \cup {Idle}] /\ JobsOK' BY JobReplaced DEF CleanUp
<1>2. temp' \in [Proc -> Content \cup {Nil}] BY DEF CleanUp, TypeInv, TypeOK
<1>3. scratch' \in [Scratch -> Content \cup {Nil, Empty}] BY DEF CleanUp, TypeInv, TypeOK
<1> QED BY <1>1, <1>2, <1>3 DEF CleanUp, TypeInv, TypeOK, DirTypeOK

LEMMA CrashType ==
  ASSUME TypeInv, NEW p \in Proc, Crash(p)
  PROVE  TypeInv'
<1>1. job' \in [Proc -> Job \cup {Idle}] /\ JobsOK' BY JobReplaced DEF Crash
<1>2. temp' \in [Proc -> Content \cup {Nil}] BY DEF Crash, TypeInv, TypeOK
<1> QED BY <1>1, <1>2 DEF Crash, TypeInv, TypeOK, DirTypeOK

LEMMA ScanType ==
  ASSUME TypeInv, NEW p \in Proc, Scan(p)
  PROVE  TypeInv'
<1>1. ASSUME NEW a \in Authored, ReadAuthored(p, a) PROVE TypeInv'
  <2> DEFINE m == [job[p].memo EXCEPT ![a] = AuthoredContent(a)]
             j == [job[p] EXCEPT !.memo = m, !.read = job[p].read \cup {a}]
  <2>1. Running(p, "scan") /\ "scan" \in Stages BY <1>1 DEF ReadAuthored, Stages
  <2>2. job[p] \in Job /\ JobOK(job[p]) /\ job[p].at = "scan" BY <2>1, RunningJob
  <2>3. AuthoredContent(a) \in Content \cup {Nil}
    BY DirAssumption DEF AuthoredContent, TypeInv, TypeOK, DirTypeOK
  <2>4. m \in [Authored -> Content \cup {Nil}] BY <2>2, <2>3 DEF Job
  <2>5. j \in Job
    <3> HIDE DEF m
    <3> QED BY <2>2, <2>4 DEF Job
  <2>6. JobOK(j)
    <3> HIDE DEF m
    <3> QED BY <2>2 DEF Job, JobOK
  <2>7. job' = [job EXCEPT ![p] = j] BY <1>1 DEF ReadAuthored
  <2> HIDE DEF j
  <2> QED BY <1>1, <2>5, <2>6, <2>7, JobStep DEF ReadAuthored
<1>2. ASSUME NEW t \in Derived, ReadOutput(p, t) PROVE TypeInv'
  <2> DEFINE m == [job[p].seen EXCEPT ![t] = FoundBytes(job[p].snap, t)]
             j == [job[p] EXCEPT !.seen = m, !.scanned = job[p].scanned \cup {t}]
  <2>1. Running(p, "scan") /\ "scan" \in Stages BY <1>2 DEF ReadOutput, Stages
  <2>2. job[p] \in Job /\ JobOK(job[p]) /\ job[p].at = "scan" BY <2>1, RunningJob
  <2>3. FoundBytes(job[p].snap, t) \in Content \cup {Nil}
    BY <2>2, FoundBytesType DEF Job, TypeInv, TypeOK
  <2>4. m \in [Derived -> Content \cup {Nil}] BY <2>2, <2>3 DEF Job
  <2>5. j \in Job
    <3> HIDE DEF m
    <3> QED BY <2>2, <2>4 DEF Job
  <2>6. JobOK(j)
    <3> HIDE DEF m
    <3> QED BY <2>2 DEF Job, JobOK
  <2>7. job' = [job EXCEPT ![p] = j] BY <1>2 DEF ReadOutput
  <2> HIDE DEF j
  <2> QED BY <1>2, <2>5, <2>6, <2>7, JobStep DEF ReadOutput
<1>3. ASSUME EndStatus(p) PROVE TypeInv'
  BY <1>3, JobStep DEF EndStatus
<1> QED BY <1>1, <1>2, <1>3 DEF Scan

LEMMA HumanType ==
  ASSUME TypeInv, Human
  PROVE  TypeInv'
<1>1. UNCHANGED <<ledger, scratch, temp, job, waived>>
  BY DEF Human, EditFile, EditOutput, EditRecipe
<1>2. recipe' \in Recipe
  BY DirAssumption DEF Human, EditFile, EditOutput, EditRecipe, TypeInv, TypeOK, DirTypeOK
<1>3. file' \in [Authored -> Content \cup {Nil}]
  BY DirAssumption DEF Human, EditFile, EditOutput, EditRecipe, TypeInv, TypeOK, DirTypeOK, Node
<1>4. disk' \in [Path -> Content \cup {Nil}]
  BY DirAssumption DEF Human, EditFile, EditOutput, EditRecipe, TypeInv, TypeOK, DirTypeOK, Node
<1>5. touched' \in SUBSET Path
  BY DirAssumption DEF Human, EditFile, EditOutput, EditRecipe, TypeInv, TypeOK
<1> QED BY <1>1, <1>2, <1>3, <1>4, <1>5 DEF TypeInv, TypeOK, DirTypeOK, JobsOK

LEMMA TypeStep == TypeInv /\ [Next]_vars => TypeInv'
<1> SUFFICES ASSUME TypeInv, [Next]_vars PROVE TypeInv'
  OBVIOUS
<1>1. CASE Human BY <1>1, HumanType
<1>2. ASSUME NEW p \in Proc, Begin(p) PROVE TypeInv' BY <1>2, StartType
<1>3. ASSUME NEW p \in Proc, Provide(p) PROVE TypeInv'
  BY <1>3, ResolveInputType, InputsResolvedType, EmptyScratchType, RunProviderType,
     ProviderFailsType, CollectOutputType, StageOutputType, CheckArtifactType,
     JudgeArtifactType, ValidatorFailsType, PinFollowedType DEF Provide
<1>4. ASSUME NEW p \in Proc, Finish(p) PROVE TypeInv'
  BY <1>4, RereadLedgerType, TruncateLedgerType, WriteLedgerType, RenameOutputType,
     RenameFailsType, CleanUpType, CrashType DEF Finish
<1>5. ASSUME NEW p \in Proc, Scan(p) PROVE TypeInv' BY <1>5, ScanType
<1>6. CASE UNCHANGED vars
  BY <1>6 DEF vars, TypeInv, TypeOK, DirTypeOK, JobsOK
<1> QED BY <1>1, <1>2, <1>3, <1>4, <1>5, <1>6 DEF Next

\* Every verb, interleaved with every other, with crashes and with edits, keeps every file
\* and every job of its type; in particular no verb ever works on a ledger that did not parse.
THEOREM TypeCorrect == Spec => []TypeOK
<1>1. Spec => []TypeInv BY TypeInit, TypeStep, PTL DEF Spec
<1>2. TypeInv => TypeOK BY DEF TypeInv
<1> QED BY <1>1, <1>2, PTL

-----------------------------------------------------------------------------
(* The ledger tells the truth while one process builds and nobody edits    *)
(* meanwhile, whatever the other processes validate, review and report.    *)

OneBuilder == \A p, q \in Proc : "build" \in Verbs[p] /\ "build" \in Verbs[q] => p = q

RecordsTrue(l) ==
  \A t \in Derived :
    l.artifacts[t] # Nil => Makes(t, l.artifacts[t].inputs, l.artifacts[t].hash)

\* Until the provider has run, the inputs a build resolved are still what it will read; then
\* its output is what the provider makes of them.
BuildOK(p) ==
  (job[p] # Idle /\ job[p].verb = "build") =>
    /\ job[p].at \in {"resolve", "scratch", "run"} =>
         \A i \in DOMAIN job[p].inputs : BytesAtPath(p, i) = job[p].inputs[i]
    /\ job[p].at = "collect" =>
         Makes(job[p].target, job[p].inputs, scratch[ScratchOf(p)])
    /\ job[p].at \in {"stage", "reread", "write", "writing"} =>
         Makes(job[p].target, job[p].inputs, job[p].hash)

\* The ledgers a process carries are as true as the one on disk.
CarriedOK(p) ==
  job[p] # Idle =>
    /\ job[p].verb \in Verbs[p]
    /\ RecordsTrue(job[p].snap)
    /\ job[p].at \in {"write", "writing"} => RecordsTrue(job[p].base)

RecInv == RecordsAreTrue /\ \A p \in Proc : BuildOK(p) /\ CarriedOK(p)

\* A step of one process leaves the facts about every other as they were.
LEMMA OthersKept ==
  ASSUME TypeInv, RecInv, OneBuilder, NEW p \in Proc, NEW q \in Proc, q # p,
         job'[q] = job[q], file' = file,
         disk' = disk \/ (job[p] # Idle /\ job[p].verb = "build"),
         scratch' = scratch \/ (job[p] # Idle /\ \E c : scratch' = [scratch EXCEPT ![ScratchOf(p)] = c])
  PROVE  BuildOK(q)' /\ CarriedOK(q)'
<1>1. CarriedOK(q)' BY DEF RecInv, CarriedOK, RecordsTrue
<1>2. CASE job[q] # Idle /\ job[q].verb = "build"
  <2>1. job[p] # Idle => job[p].verb # "build" BY <1>2 DEF RecInv, CarriedOK, OneBuilder
  <2>2. disk' = disk BY <2>1
  <2>3. ScratchOf(p) # ScratchOf(q) \/ job[p] = Idle BY <1>2, <2>1 DEF ScratchOf
  <2>4. ScratchOf(q)' = ScratchOf(q) BY DEF ScratchOf
  <2>5. ScratchOf(q) \in Scratch
    BY <1>2, ScratchOfType DEF TypeInv, TypeOK, JobsOK
  <2>6. scratch'[ScratchOf(q)] = scratch[ScratchOf(q)]
    BY <2>3, <2>5 DEF TypeInv, TypeOK
  <2>7. \A i : BytesAtPath(q, i)' = BytesAtPath(q, i) BY <2>2 DEF BytesAtPath
  <2>8. BuildOK(q) BY DEF RecInv
  <2> QED BY <1>1, <1>2, <2>4, <2>6, <2>7, <2>8 DEF BuildOK
<1>3. CASE ~(job[q] # Idle /\ job[q].verb = "build")
  BY <1>1, <1>3 DEF BuildOK
<1> QED BY <1>2, <1>3

\* What is left to show of a step of a process that goes on with its job.
LEMMA RecMove ==
  ASSUME TypeInv, RecInv, OneBuilder, NEW p \in Proc, job[p] \in Job,
         NEW j \in Job, j.verb = job[p].verb, j.snap = job[p].snap,
         j.at \in {"write", "writing"} => RecordsTrue(j.base),
         job' = [job EXCEPT ![p] = j],
         file' = file,
         disk' = disk \/ job[p].verb = "build",
         scratch' = scratch \/ (\E c : scratch' = [scratch EXCEPT ![ScratchOf(p)] = c]),
         RecordsAreTrue', BuildOK(p)'
  PROVE  RecInv'
<1>1. job[p] # Idle BY IdleIsNoJob
<1>2. job'[p] = j /\ \A q \in Proc : q # p => job'[q] = job[q] BY DEF TypeInv, TypeOK
<1>3. CarriedOK(p) BY DEF RecInv
<1>4. CarriedOK(p)' BY <1>1, <1>2, <1>3 DEF CarriedOK, RecordsTrue
<1>5. \A q \in Proc : q # p => BuildOK(q)' /\ CarriedOK(q)' BY <1>1, <1>2, OthersKept
<1> QED BY <1>4, <1>5 DEF RecInv

LEMMA RecIdle ==
  ASSUME TypeInv, RecInv, OneBuilder, NEW p \in Proc, job[p] # Idle,
         job' = [job EXCEPT ![p] = Idle],
         UNCHANGED <<file, disk, ledger>>,
         scratch' = scratch \/ (\E c : scratch' = [scratch EXCEPT ![ScratchOf(p)] = c])
  PROVE  RecInv'
<1>1. job'[p] = Idle /\ \A q \in Proc : q # p => job'[q] = job[q] BY DEF TypeInv, TypeOK
<1>2. BuildOK(p)' /\ CarriedOK(p)' BY <1>1 DEF BuildOK, CarriedOK
<1>3. \A q \in Proc : q # p => BuildOK(q)' /\ CarriedOK(q)' BY <1>1, OthersKept
<1>4. RecordsAreTrue' BY DEF RecInv, RecordsAreTrue
<1> QED BY <1>2, <1>3, <1>4 DEF RecInv

LEMMA RefuseRec ==
  ASSUME TypeInv, RecInv, OneBuilder, NEW p \in Proc, NEW s \in Stages \ {"scan"},
         Running(p, s), Refuse(p), UNCHANGED <<file, disk, ledger, scratch>>
  PROVE  RecInv'
<1> DEFINE j == [job[p] EXCEPT !.at = "clean", !.failed = TRUE]
<1>1. job[p] \in Job BY RunningJob
<1>2. j \in Job BY <1>1 DEF Job, Stages
<1>3. job' = [job EXCEPT ![p] = j] BY DEF Refuse
<1>4. j.verb = job[p].verb /\ j.snap = job[p].snap /\ j.at = "clean" BY <1>1 DEF Job
<1> HIDE DEF j
<1>5. job'[p] = j BY <1>3 DEF TypeInv, TypeOK
<1>6. BuildOK(p)' BY <1>4, <1>5 DEF BuildOK
<1>7. RecordsAreTrue' BY DEF RecInv, RecordsAreTrue
<1> QED BY <1>1, <1>2, <1>3, <1>4, <1>6, <1>7, RecMove

LEMMA StartRec ==
  ASSUME TypeInv, RecInv, OneBuilder, NEW p \in Proc, Begin(p)
  PROVE  RecInv'
<1>1. ASSUME NEW new, Start(p, new), new.snap = ledger, new.at \notin {"write", "writing"},
             new.verb = "build" => (new.at = "resolve" /\ new.inputs = [i \in {} |-> Nil])
      PROVE  RecInv'
  <2>1. /\ job[p] = Idle /\ ledger # Torn /\ new.verb \in Verbs[p]
        /\ job' = [job EXCEPT ![p] = new]
        /\ UNCHANGED <<file, disk, ledger, scratch>>
    BY <1>1 DEF Start
  <2>2. job'[p] = new /\ \A q \in Proc : q # p => job'[q] = job[q]
    BY <2>1 DEF TypeInv, TypeOK
  <2>3. RecordsTrue(ledger) BY <2>1 DEF RecInv, RecordsAreTrue, RecordsTrue
  <2>4. CarriedOK(p)' BY <1>1, <2>1, <2>2, <2>3 DEF CarriedOK
  <2>5. BuildOK(p)' BY <1>1, <2>2 DEF BuildOK
  <2>6. \A q \in Proc : q # p => BuildOK(q)' /\ CarriedOK(q)' BY <2>1, <2>2, OthersKept
  <2>7. RecordsAreTrue' BY <2>1 DEF RecInv, RecordsAreTrue
  <2> QED BY <2>4, <2>5, <2>6, <2>7 DEF RecInv
<1>2. ASSUME NEW t \in Derived, StartBuild(p, t) PROVE RecInv'
  <2> DEFINE new == [NewJob("build", t, "resolve") EXCEPT !.todo = recipe[t]]
  <2>1. Start(p, new) BY <1>2 DEF StartBuild
  <2>2. new.snap = ledger /\ new.at = "resolve" /\ new.inputs = [i \in {} |-> Nil]
    BY DEF NewJob
  <2> HIDE DEF new
  <2> QED BY <1>1, <2>1, <2>2
<1>3. ASSUME NEW t \in Derived, StartValidate(p, t) PROVE RecInv'
  <2> DEFINE at == IF t \in DeclaresValidator THEN "check" ELSE "resolve"
             new == [NewJob("validate", t, at) EXCEPT !.todo = recipe[t]]
  <2>1. Start(p, new) BY <1>3 DEF StartValidate
  <2>2. new.snap = ledger /\ new.at \notin {"write", "writing"} /\ new.verb = "validate"
    BY DEF NewJob
  <2> HIDE DEF new
  <2> QED BY <1>1, <2>1, <2>2
<1>4. ASSUME NEW a \in Authored, StartReview(p, a) PROVE RecInv'
  <2> DEFINE new == NewJob("review", a, "pin")
  <2>1. Start(p, new) BY <1>4 DEF StartReview
  <2>2. new.snap = ledger /\ new.at = "pin" /\ new.verb = "review" BY DEF NewJob
  <2> HIDE DEF new
  <2> QED BY <1>1, <2>1, <2>2
<1>5. ASSUME StartStatus(p) PROVE RecInv'
  <2> DEFINE new == NewJob("status", Nil, "scan")
  <2>1. Start(p, new) BY <1>5 DEF StartStatus
  <2>2. new.snap = ledger /\ new.at = "scan" /\ new.verb = "status" BY DEF NewJob
  <2> HIDE DEF new
  <2> QED BY <1>1, <2>1, <2>2
<1> QED BY <1>2, <1>3, <1>4, <1>5 DEF Begin

LEMMA ResolveInputRec ==
  ASSUME TypeInv, RecInv, OneBuilder, NEW p \in Proc, ResolveInput(p)
  PROVE  RecInv'
<1> DEFINE i == Head(job[p].todo)
           c == InputBytes(i, job[p].snap)
           j == [job[p] EXCEPT !.todo = Tail(job[p].todo),
                               !.inputs = With(job[p].inputs, i, c),
                               !.fetched = IF Fetches(i) THEN @ \cup {i} ELSE @]
<1>1. Running(p, "resolve") /\ "resolve" \in Stages \ {"scan"} BY DEF ResolveInput, Stages
<1>2. job[p] \in Job /\ job[p].at = "resolve" BY <1>1, RunningJob
<1>3. CASE c = Nil
  <2>1. Refuse(p) BY <1>3 DEF ResolveInput
  <2> QED BY <1>1, <2>1, RefuseRec DEF ResolveInput
<1>4. CASE c # Nil
  <2>1. job' = [job EXCEPT ![p] = j] BY <1>4 DEF ResolveInput
  <2>2. job'[p] = j BY <2>1 DEF TypeInv, TypeOK
  <2>3. /\ j.at = "resolve" /\ j.verb = job[p].verb /\ j.snap = job[p].snap
        /\ j.inputs = With(job[p].inputs, i, c)
        /\ j.fetched = IF Fetches(i) THEN job[p].fetched \cup {i} ELSE job[p].fetched
    <3> HIDE DEF i, c
    <3> QED BY <1>2 DEF Job
  <2>4. j \in Job
    <3>1. TypeInv' BY ResolveInputType
    <3>2. job'[p] \in Job \cup {Idle} BY <3>1 DEF TypeInv, TypeOK
    <3> HIDE DEF j
    <3> QED BY <2>2, <2>3, <3>2 DEF Idle
  <2>5. UNCHANGED <<file, disk, ledger, scratch>> BY DEF ResolveInput
  <2>6. RecordsAreTrue' BY <2>5 DEF RecInv, RecordsAreTrue
  <2>7. BuildOK(p)'
    <3> HIDE DEF j
    <3>1. SUFFICES ASSUME job[p].verb = "build", NEW x \in DOMAIN j.inputs
                   PROVE  BytesAtPath(p, x)' = j.inputs[x]
      BY <2>2, <2>3 DEF BuildOK
    <3>2. CASE x = i
      <4>1. j.inputs[x] = InputBytes(i, job[p].snap) BY <2>3, <3>2 DEF With
      <4>2. Fetches(i) => i \in j.fetched BY <2>3
      <4>3. i \in Authored \/ i \in Derived
        BY <1>2 DEF Job, Node, ResolveInput
      <4>4. CASE i \in Derived
        <5>1. x \in Derived BY <3>2, <4>4
        <5>2. InputBytes(x, job[p].snap) = BytesAtPath(p, x)'
          BY <2>2, <2>3, <2>5, <5>1 DEF BytesAtPath, InputBytes
        <5> QED BY <3>2, <4>1, <5>2
      <4>5. CASE i \notin Derived /\ i \in j.fetched
        BY <2>2, <3>2, <4>5 DEF BytesAtPath
      <4>6. CASE i \notin Derived /\ i \notin j.fetched
        <5>1. ~Fetches(i) /\ i \in Authored BY <4>2, <4>3, <4>6
        <5>2. InputBytes(i, job[p].snap) = file[i]
          BY <1>4, <4>6, <5>1 DEF InputBytes, Fetches
        <5>3. BytesAtPath(p, x)' = file'[x] BY <2>2, <3>2, <4>6 DEF BytesAtPath
        <5> QED BY <2>5, <3>2, <4>1, <5>2, <5>3
      <4> QED BY <4>4, <4>5, <4>6
    <3>3. CASE x # i
      <4>1. x \in DOMAIN job[p].inputs /\ j.inputs[x] = job[p].inputs[x]
        BY <2>3, <3>3 DEF With
      <4>2. BytesAtPath(p, x) = job[p].inputs[x]
        BY <1>2, <3>1, <4>1, IdleIsNoJob DEF RecInv, BuildOK
      <4>3. x \in j.fetched <=> x \in job[p].fetched BY <2>3, <3>3
      <4> QED BY <2>2, <2>3, <2>5, <4>1, <4>2, <4>3 DEF BytesAtPath
    <3> QED BY <3>2, <3>3
  <2> HIDE DEF j
  <2> QED BY <1>2, <2>1, <2>3, <2>4, <2>5, <2>6, <2>7, RecMove
<1> QED BY <1>3, <1>4

\* A step of process p that moves its job on to stage at and keeps what BuildOK speaks of.
LEMMA StageRec ==
  ASSUME TypeInv, RecInv, OneBuilder, NEW p \in Proc, NEW at \in Stages \ {"write", "writing"},
         NEW s \in Stages, Running(p, s),
         job' = [job EXCEPT ![p].at = at],
         UNCHANGED <<file, ledger>>,
         disk' = disk \/ job[p].verb = "build",
         scratch' = scratch \/ (\E c : scratch' = [scratch EXCEPT ![ScratchOf(p)] = c]),
         BuildOK(p)'
  PROVE  RecInv'
<1> DEFINE j == [job[p] EXCEPT !.at = at]
<1>1. job[p] \in Job BY RunningJob
<1>2. j \in Job BY <1>1 DEF Job
<1>3. j.verb = job[p].verb /\ j.snap = job[p].snap /\ j.at = at BY <1>1 DEF Job
<1>4. job' = [job EXCEPT ![p] = j] OBVIOUS
<1> HIDE DEF j
<1>5. RecordsAreTrue' BY DEF RecInv, RecordsAreTrue
<1> QED BY <1>1, <1>2, <1>3, <1>4, <1>5, RecMove

LEMMA InputsResolvedRec ==
  ASSUME TypeInv, RecInv, OneBuilder, NEW p \in Proc, InputsResolved(p)
  PROVE  RecInv'
<1> DEFINE at == IF job[p].verb = "validate" /\ job[p].target \in DeclaresValidator
                 THEN "judge" ELSE "scratch"
<1>1. Running(p, "resolve") /\ "resolve" \in Stages BY DEF InputsResolved, Stages
<1>2. job[p] \in Job /\ job[p].at = "resolve" BY <1>1, RunningJob
<1>3. job' = [job EXCEPT ![p].at = at] BY DEF InputsResolved
<1>4. job'[p] = [job[p] EXCEPT !.at = at] BY <1>3 DEF TypeInv, TypeOK
<1>5. /\ job'[p].verb = job[p].verb /\ job'[p].inputs = job[p].inputs
      /\ job'[p].snap = job[p].snap /\ job'[p].fetched = job[p].fetched
      /\ job'[p].at \in {"judge", "scratch"}
  BY <1>2, <1>4 DEF Job
<1>6. BuildOK(p) BY DEF RecInv
<1>7. \A x : BytesAtPath(p, x)' = BytesAtPath(p, x)
  BY <1>5 DEF BytesAtPath, InputsResolved
<1>8. BuildOK(p)' BY <1>2, <1>5, <1>6, <1>7, IdleIsNoJob DEF BuildOK
<1>9. at \in Stages \ {"write", "writing"} BY DEF Stages
<1> QED BY <1>1, <1>3, <1>8, <1>9, StageRec DEF InputsResolved

LEMMA EmptyScratchRec ==
  ASSUME TypeInv, RecInv, OneBuilder, NEW p \in Proc, EmptyScratch(p)
  PROVE  RecInv'
<1>1. Running(p, "scratch") /\ "scratch" \in Stages BY DEF EmptyScratch, Stages
<1>2. job[p] \in Job /\ job[p].at = "scratch" BY <1>1, RunningJob
<1>3. job'[p] = [job[p] EXCEPT !.at = "run"] BY DEF EmptyScratch, TypeInv, TypeOK
<1>4. /\ job'[p].verb = job[p].verb /\ job'[p].inputs = job[p].inputs
      /\ job'[p].snap = job[p].snap /\ job'[p].fetched = job[p].fetched
      /\ job'[p].at = "run"
  BY <1>2, <1>3 DEF Job
<1>5. BuildOK(p) BY DEF RecInv
<1>6. \A x : BytesAtPath(p, x)' = BytesAtPath(p, x)
  BY <1>4 DEF BytesAtPath, EmptyScratch
<1>7. BuildOK(p)' BY <1>2, <1>4, <1>5, <1>6, IdleIsNoJob DEF BuildOK
<1>8. "run" \in Stages \ {"write", "writing"} BY DEF Stages
<1> QED BY <1>1, <1>7, <1>8, StageRec DEF EmptyScratch

LEMMA RunProviderRec ==
  ASSUME TypeInv, RecInv, OneBuilder, NEW p \in Proc, RunProvider(p)
  PROVE  RecInv'
<1>1. Running(p, "run") /\ "run" \in Stages BY DEF RunProvider, Stages
<1>2. job[p] \in Job /\ JobOK(job[p]) /\ job[p].at = "run" BY <1>1, RunningJob
<1>3. PICK c \in Content, v \in Verdict \cup {Nil} :
        /\ Makes(job[p].target, BytesRead(p), c)
        /\ scratch' = [scratch EXCEPT ![ScratchOf(p)] = c]
        /\ job' = [job EXCEPT ![p].at = "collect", ![p].verdict = v,
                              ![p].judged = About(BytesRead(p), v)]
  BY DEF RunProvider, Produces
<1> DEFINE a == About(BytesRead(p), v)
           j == [job[p] EXCEPT !.at = "collect", !.verdict = v, !.judged = a]
<1>4. a \in InputMap \cup {Nil} BY <1>2, BytesReadType DEF About, RunProvider
<1>5. job' = [job EXCEPT ![p] = j] BY <1>3
<1>6. /\ j \in Job /\ j.at = "collect" /\ j.verb = job[p].verb /\ j.snap = job[p].snap
      /\ j.inputs = job[p].inputs /\ j.target = job[p].target
  <2> HIDE DEF a
  <2> QED BY ZenonT(60), <1>2, <1>4 DEF Job, Stages
<1> HIDE DEF j
<1>7. job'[p] = j BY <1>5 DEF TypeInv, TypeOK
<1>8. scratch'[ScratchOf(p)'] = c
  <2>1. ScratchOf(p)' = ScratchOf(p) BY <1>6, <1>7 DEF ScratchOf
  <2>2. ScratchOf(p) \in Scratch BY <1>2, ScratchOfType DEF JobOK
  <2> QED BY <1>3, <2>1, <2>2 DEF TypeInv, TypeOK
<1>9. BuildOK(p)'
  <2>1. SUFFICES ASSUME job[p].verb = "build"
                 PROVE  Makes(job[p].target, job[p].inputs, c)
    BY <1>6, <1>7, <1>8 DEF BuildOK
  <2>2. \A x \in DOMAIN job[p].inputs : BytesAtPath(p, x) = job[p].inputs[x]
    BY <1>2, <2>1, IdleIsNoJob DEF RecInv, BuildOK
  <2>3. PICK S \in SUBSET Node : job[p].inputs \in [S -> Content] BY <1>2 DEF Job, InputMap
  <2>4. BytesRead(p) = job[p].inputs BY <2>2, <2>3 DEF BytesRead
  <2> QED BY <1>3, <2>4
<1>10. UNCHANGED <<file, disk, ledger>> BY DEF RunProvider
<1>11. RecordsAreTrue' BY <1>10 DEF RecInv, RecordsAreTrue
<1> QED BY <1>2, <1>3, <1>5, <1>6, <1>9, <1>10, <1>11, RecMove

LEMMA ProviderFailsRec ==
  ASSUME TypeInv, RecInv, OneBuilder, NEW p \in Proc, ProviderFails(p)
  PROVE  RecInv'
<1>1. Running(p, "run") /\ "run" \in Stages \ {"scan"} BY DEF ProviderFails, Stages
<1> QED BY <1>1, RefuseRec DEF ProviderFails

LEMMA CollectOutputRec ==
  ASSUME TypeInv, RecInv, OneBuilder, NEW p \in Proc, CollectOutput(p)
  PROVE  RecInv'
<1> DEFINE c == scratch[ScratchOf(p)]
           at == IF job[p].verb = "build" THEN "stage" ELSE "reread"
           j == [job[p] EXCEPT !.at = at, !.hash = c]
<1>1. Running(p, "collect") /\ "collect" \in Stages \ {"scan"} BY DEF CollectOutput, Stages
<1>2. job[p] \in Job /\ JobOK(job[p]) /\ job[p].at = "collect" BY <1>1, RunningJob
<1>3. CASE Refuse(p)
  BY <1>1, <1>3, RefuseRec DEF CollectOutput
<1>4. CASE c \notin {Nil, Empty} /\ job' = [job EXCEPT ![p].at = at, ![p].hash = c]
  <2>1. ScratchOf(p) \in Scratch BY <1>2, ScratchOfType DEF JobOK
  <2>2. c \in Content BY <1>4, <2>1 DEF TypeInv, TypeOK
  <2>3. /\ j \in Job /\ j.at = at /\ j.verb = job[p].verb /\ j.snap = job[p].snap
        /\ j.inputs = job[p].inputs /\ j.target = job[p].target /\ j.hash = c
    <3> HIDE DEF c
    <3> QED BY ZenonT(60), <1>2, <2>2 DEF Job, Stages
  <2>4. job' = [job EXCEPT ![p] = j] BY <1>4
  <2> HIDE DEF j
  <2>5. job'[p] = j BY <2>4 DEF TypeInv, TypeOK
  <2>6. job[p].verb = "build" => Makes(job[p].target, job[p].inputs, c)
    BY <1>2, IdleIsNoJob DEF RecInv, BuildOK
  <2>7. BuildOK(p)' BY <2>3, <2>5, <2>6 DEF BuildOK
  <2>8. UNCHANGED <<file, disk, ledger, scratch>> BY DEF CollectOutput
  <2>9. RecordsAreTrue' BY <2>8 DEF RecInv, RecordsAreTrue
  <2> QED BY <1>2, <2>3, <2>4, <2>7, <2>8, <2>9, RecMove
<1> QED BY <1>3, <1>4 DEF CollectOutput

LEMMA StageOutputRec ==
  ASSUME TypeInv, RecInv, OneBuilder, NEW p \in Proc, StageOutput(p)
  PROVE  RecInv'
<1>1. Running(p, "stage") /\ "stage" \in Stages \ {"scan"} BY DEF StageOutput, Stages
<1>2. job[p] \in Job /\ job[p].at = "stage" BY <1>1, RunningJob
<1>3. CASE Refuse(p) BY <1>1, <1>3, RefuseRec DEF StageOutput
<1>4. CASE job' = [job EXCEPT ![p].at = "reread"]
  <2>1. job'[p] = [job[p] EXCEPT !.at = "reread"] BY <1>4 DEF TypeInv, TypeOK
  <2>2. /\ job'[p].verb = job[p].verb /\ job'[p].inputs = job[p].inputs
        /\ job'[p].target = job[p].target /\ job'[p].hash = job[p].hash
        /\ job'[p].at = "reread"
    BY <1>2, <2>1 DEF Job
  <2>3. BuildOK(p)' BY <1>2, <2>2, IdleIsNoJob DEF RecInv, BuildOK
  <2>4. "reread" \in Stages \ {"write", "writing"} BY DEF Stages
  <2> QED BY <1>1, <1>4, <2>3, <2>4, StageRec DEF StageOutput
<1> QED BY <1>3, <1>4 DEF StageOutput

\* A step of a process that is not building, away from the ledger.
LEMMA OtherVerbRec ==
  ASSUME TypeInv, RecInv, OneBuilder, NEW p \in Proc, job[p] \in Job, job[p].verb # "build",
         NEW j \in Job, j.verb = job[p].verb, j.snap = job[p].snap,
         j.at \notin {"write", "writing"}, job' = [job EXCEPT ![p] = j],
         UNCHANGED <<file, disk, ledger, scratch>>
  PROVE  RecInv'
<1>1. job'[p] = j BY DEF TypeInv, TypeOK
<1>2. BuildOK(p)' BY <1>1 DEF BuildOK
<1>3. RecordsAreTrue' BY DEF RecInv, RecordsAreTrue
<1> QED BY <1>2, <1>3, RecMove

LEMMA CheckArtifactRec ==
  ASSUME TypeInv, RecInv, OneBuilder, NEW p \in Proc, CheckArtifact(p)
  PROVE  RecInv'
<1> DEFINE j == [job[p] EXCEPT !.at = "resolve"]
<1>1. Running(p, "check") /\ "check" \in Stages \ {"scan"} BY DEF CheckArtifact, Stages
<1>2. job[p] \in Job /\ JobOK(job[p]) /\ job[p].at = "check" BY <1>1, RunningJob
<1>3. CASE Refuse(p) BY <1>1, <1>3, RefuseRec DEF CheckArtifact
<1>4. CASE job' = [job EXCEPT ![p].at = "resolve"]
  <2>1. j \in Job /\ j.verb = job[p].verb /\ j.snap = job[p].snap /\ j.at = "resolve"
    BY <1>2 DEF Job, Stages
  <2>2. job' = [job EXCEPT ![p] = j] BY <1>4
  <2>3. job[p].verb # "build" BY <1>2 DEF JobOK
  <2> HIDE DEF j
  <2> QED BY <1>2, <2>1, <2>2, <2>3, OtherVerbRec DEF CheckArtifact
<1> QED BY <1>3, <1>4 DEF CheckArtifact

LEMMA JudgeArtifactRec ==
  ASSUME TypeInv, RecInv, OneBuilder, NEW p \in Proc, JudgeArtifact(p)
  PROVE  RecInv'
<1>1. Running(p, "judge") /\ "judge" \in Stages BY DEF JudgeArtifact, Stages
<1>2. job[p] \in Job /\ JobOK(job[p]) /\ job[p].at = "judge" BY <1>1, RunningJob
<1>3. PICK v \in Verdict :
        job' = [job EXCEPT ![p].at = "reread", ![p].verdict = v, ![p].judged = BytesRead(p)]
  BY DEF JudgeArtifact
<1> DEFINE a == BytesRead(p)
           j == [job[p] EXCEPT !.at = "reread", !.verdict = v, !.judged = a]
<1>4. a \in InputMap BY <1>2, BytesReadType DEF JudgeArtifact
<1>5. job' = [job EXCEPT ![p] = j] BY <1>3
<1> HIDE DEF a
<1>6. j \in Job /\ j.verb = job[p].verb /\ j.snap = job[p].snap /\ j.at = "reread"
  BY <1>2, <1>4 DEF Job, Stages
<1>7. job[p].verb # "build" BY <1>2 DEF JobOK
<1> HIDE DEF j
<1> QED BY <1>2, <1>5, <1>6, <1>7, OtherVerbRec DEF JudgeArtifact

LEMMA ValidatorFailsRec ==
  ASSUME TypeInv, RecInv, OneBuilder, NEW p \in Proc, ValidatorFails(p)
  PROVE  RecInv'
<1>1. Running(p, "judge") /\ "judge" \in Stages \ {"scan"} BY DEF ValidatorFails, Stages
<1>2. Refuse(p) BY DEF ValidatorFails
<1> QED BY <1>1, <1>2, RefuseRec DEF ValidatorFails

LEMMA PinFollowedRec ==
  ASSUME TypeInv, RecInv, OneBuilder, NEW p \in Proc, PinFollowed(p)
  PROVE  RecInv'
<1> DEFINE c == Resolved(AuthoredNow, job[p].snap.artifacts, Follows[job[p].target])
           j == [job[p] EXCEPT !.at = "reread", !.hash = c]
<1>1. Running(p, "pin") /\ "pin" \in Stages \ {"scan"} BY DEF PinFollowed, Stages
<1>2. job[p] \in Job /\ JobOK(job[p]) /\ job[p].at = "pin" BY <1>1, RunningJob
<1>3. CASE Refuse(p) BY <1>1, <1>3, RefuseRec DEF PinFollowed
<1>4. CASE c # Nil /\ job' = [job EXCEPT ![p].at = "reread", ![p].hash = c]
  <2>1. c \in Content \cup {Nil}
    <3>1. Follows[job[p].target] \in Node BY <1>2, NodeAssumption DEF JobOK
    <3>2. job[p].snap \in Ledger BY <1>2 DEF Job
    <3> QED BY <3>1, <3>2, ResolvedType DEF TypeInv, TypeOK
  <2>2. j \in Job /\ j.verb = job[p].verb /\ j.snap = job[p].snap /\ j.at = "reread"
    <3> HIDE DEF c
    <3> QED BY ZenonT(60), <1>2, <2>1 DEF Job, Stages
  <2>3. job' = [job EXCEPT ![p] = j] BY <1>4
  <2>4. job[p].verb # "build" BY <1>2 DEF JobOK
  <2> HIDE DEF j
  <2> QED BY <1>2, <2>2, <2>3, <2>4, OtherVerbRec DEF PinFollowed
<1> QED BY <1>3, <1>4 DEF PinFollowed

LEMMA RereadLedgerRec ==
  ASSUME TypeInv, RecInv, OneBuilder, NEW p \in Proc, RereadLedger(p)
  PROVE  RecInv'
<1> DEFINE j == [job[p] EXCEPT !.at = "write", !.base = ledger]
<1>1. Running(p, "reread") /\ "reread" \in Stages \ {"scan"} BY DEF RereadLedger, Stages
<1>2. job[p] \in Job /\ job[p].at = "reread" BY <1>1, RunningJob
<1>3. CASE ledger = Torn BY <1>1, <1>3, RefuseRec DEF RereadLedger
<1>4. CASE ledger # Torn
  <2>1. ledger \in Ledger BY <1>4 DEF TypeInv, TypeOK, DirTypeOK
  <2>2. /\ j \in Job /\ j.at = "write" /\ j.verb = job[p].verb /\ j.snap = job[p].snap
        /\ j.inputs = job[p].inputs /\ j.target = job[p].target /\ j.hash = job[p].hash
        /\ j.base = ledger
    BY <1>2, <2>1 DEF Job, Stages
  <2>3. job' = [job EXCEPT ![p] = j] BY <1>4 DEF RereadLedger
  <2> HIDE DEF j
  <2>4. job'[p] = j BY <2>3 DEF TypeInv, TypeOK
  <2>5. BuildOK(p)' BY <1>2, <2>2, <2>4, IdleIsNoJob DEF RecInv, BuildOK
  <2>6. RecordsTrue(ledger) BY <1>4 DEF RecInv, RecordsAreTrue, RecordsTrue
  <2>7. UNCHANGED <<file, disk, ledger, scratch>> BY DEF RereadLedger
  <2>8. RecordsAreTrue' BY <2>7 DEF RecInv, RecordsAreTrue
  <2> QED BY <1>2, <2>2, <2>3, <2>5, <2>6, <2>7, <2>8, RecMove
<1> QED BY <1>3, <1>4

LEMMA TruncateLedgerRec ==
  ASSUME TypeInv, RecInv, OneBuilder, NEW p \in Proc, TruncateLedger(p)
  PROVE  RecInv'
<1> DEFINE j == [job[p] EXCEPT !.at = "writing"]
<1>1. Running(p, "write") /\ "write" \in Stages \ {"scan"} BY DEF TruncateLedger, Stages
<1>2. job[p] \in Job /\ job[p].at = "write" BY <1>1, RunningJob
<1>3. /\ j \in Job /\ j.at = "writing" /\ j.verb = job[p].verb /\ j.snap = job[p].snap
      /\ j.inputs = job[p].inputs /\ j.target = job[p].target /\ j.hash = job[p].hash
      /\ j.base = job[p].base
  BY <1>2 DEF Job, Stages
<1>4. job' = [job EXCEPT ![p] = j] BY DEF TruncateLedger
<1> HIDE DEF j
<1>5. job'[p] = j BY <1>4 DEF TypeInv, TypeOK
<1>6. BuildOK(p)' BY <1>2, <1>3, <1>5, IdleIsNoJob DEF RecInv, BuildOK
<1>7. RecordsTrue(j.base) BY <1>2, <1>3, IdleIsNoJob DEF RecInv, CarriedOK
<1>8. UNCHANGED <<file, disk, scratch>> /\ RecordsAreTrue'
  BY DEF TruncateLedger, RecordsAreTrue
<1> QED BY <1>2, <1>3, <1>4, <1>6, <1>7, <1>8, RecMove

\* What a verb writes is as true as the ledgers it started from and what it built.
LEMMA AmendedTrue ==
  ASSUME NEW j \in Job, JobOK(j), j.at = "writing",
         RecordsTrue(j.snap), RecordsTrue(j.base),
         j.verb = "build" => Makes(j.target, j.inputs, j.hash)
  PROVE  RecordsTrue(Amended(j))
<1>1. j.base \in Ledger /\ j.snap \in Ledger BY DEF JobOK, Job
<1>2. CASE j.verb = "build"
  <2>1. /\ Amended(j).artifacts = [j.base.artifacts EXCEPT ![j.target] = BuiltRecord(j)]
        /\ j.target \in Derived
    BY <1>1, <1>2 DEF Amended, Ledger, JobOK
  <2>2. BuiltRecord(j).inputs = j.inputs /\ BuiltRecord(j).hash = j.hash BY DEF BuiltRecord
  <2>3. \A t \in Derived :
          Amended(j).artifacts[t] = IF t = j.target THEN BuiltRecord(j) ELSE j.base.artifacts[t]
    BY <1>1, <2>1 DEF Ledger
  <2> QED BY <1>2, <2>2, <2>3 DEF RecordsTrue
<1>3. CASE j.verb = "validate"
  <2> DEFINE old == j.snap.artifacts[j.target]
             new == JudgedRecord(j)
  <2>1. j.target \in Derived /\ old # Nil /\ old \in Record
    BY <1>1, <1>3 DEF JobOK, Ledger
  <2>2. new.inputs = old.inputs /\ new.hash = old.hash BY <2>1 DEF JudgedRecord, Record
  <2>3. Amended(j).artifacts = [j.base.artifacts EXCEPT ![j.target] = new]
    BY <1>1, <1>3 DEF Amended, Ledger
  <2>4. Makes(j.target, old.inputs, old.hash) BY <2>1 DEF RecordsTrue
  <2> HIDE DEF new, old
  <2>5. \A t \in Derived :
          Amended(j).artifacts[t] = IF t = j.target THEN new ELSE j.base.artifacts[t]
    BY <1>1, <2>3 DEF Ledger
  <2> QED BY <2>2, <2>4, <2>5 DEF RecordsTrue
<1>4. CASE j.verb = "review"
  <2>1. Amended(j).artifacts = j.base.artifacts BY <1>1, <1>4 DEF Amended, Ledger
  <2> QED BY <2>1 DEF RecordsTrue
<1> QED BY <1>2, <1>3, <1>4 DEF JobOK, Job, Verb

LEMMA WriteLedgerRec ==
  ASSUME TypeInv, RecInv, OneBuilder, NEW p \in Proc, WriteLedger(p)
  PROVE  RecInv'
<1> DEFINE at == IF job[p].verb = "build" THEN "rename" ELSE "clean"
           j == [job[p] EXCEPT !.at = at]
<1>1. Running(p, "writing") /\ "writing" \in Stages BY DEF WriteLedger, Stages
<1>2. job[p] \in Job /\ JobOK(job[p]) /\ job[p].at = "writing" BY <1>1, RunningJob
<1>3. j \in Job /\ j.at \in {"rename", "clean"} /\ j.verb = job[p].verb /\ j.snap = job[p].snap
  BY ZenonT(60), <1>2 DEF Job, Stages
<1>4. job' = [job EXCEPT ![p] = j] BY DEF WriteLedger
<1> HIDE DEF j
<1>5. job'[p] = j BY <1>4 DEF TypeInv, TypeOK
<1>6. BuildOK(p)' BY <1>3, <1>5 DEF BuildOK
<1>7. /\ RecordsTrue(job[p].snap) /\ RecordsTrue(job[p].base)
      /\ job[p].verb = "build" => Makes(job[p].target, job[p].inputs, job[p].hash)
  BY <1>2, IdleIsNoJob DEF RecInv, BuildOK, CarriedOK
<1>8. RecordsTrue(Amended(job[p])) BY <1>2, <1>7, AmendedTrue
<1>9. RecordsAreTrue' BY <1>8 DEF WriteLedger, RecordsAreTrue, RecordsTrue
<1>10. UNCHANGED <<file, disk, scratch>> BY DEF WriteLedger
<1> QED BY <1>2, <1>3, <1>4, <1>6, <1>9, <1>10, RecMove

LEMMA RenameRec ==
  ASSUME TypeInv, RecInv, OneBuilder, NEW p \in Proc, RenameOutput(p) \/ RenameFails(p)
  PROVE  RecInv'
<1>1. Running(p, "rename") /\ "rename" \in Stages \ {"scan"}
  BY DEF RenameOutput, RenameFails, Stages
<1>2. job[p] \in Job /\ JobOK(job[p]) /\ job[p].at = "rename" BY <1>1, RunningJob
<1>3. CASE RenameFails(p) BY <1>1, <1>3, RefuseRec DEF RenameFails
<1>4. CASE RenameOutput(p)
  <2>1. job[p].verb = "build" BY <1>2 DEF JobOK
  <2>2. job' = [job EXCEPT ![p].at = "clean"] BY <1>4 DEF RenameOutput
  <2>3. job'[p] = [job[p] EXCEPT !.at = "clean"] BY <2>2 DEF TypeInv, TypeOK
  <2>4. job'[p].at = "clean" BY <1>2, <2>3 DEF Job
  <2>5. BuildOK(p)' BY <2>4 DEF BuildOK
  <2>6. "clean" \in Stages \ {"write", "writing"} BY DEF Stages
  <2> QED BY <1>1, <1>4, <2>1, <2>2, <2>5, <2>6, StageRec DEF RenameOutput
<1> QED BY <1>3, <1>4

LEMMA EndRec ==
  ASSUME TypeInv, RecInv, OneBuilder, NEW p \in Proc,
         CleanUp(p) \/ Crash(p) \/ EndStatus(p)
  PROVE  RecInv'
<1>1. CASE CleanUp(p)
  <2>1. job[p] # Idle BY <1>1 DEF CleanUp, Running, Idle
  <2> QED BY <1>1, <2>1, RecIdle DEF CleanUp
<1>2. CASE Crash(p) BY <1>2, RecIdle DEF Crash
<1>3. CASE EndStatus(p)
  <2>1. job[p] # Idle BY <1>3 DEF EndStatus, Answered, Running, Idle
  <2> QED BY <1>3, <2>1, RecIdle DEF EndStatus
<1> QED BY <1>1, <1>2, <1>3

LEMMA ReadRec ==
  ASSUME TypeInv, RecInv, OneBuilder, NEW p \in Proc,
         (\E a \in Authored : ReadAuthored(p, a)) \/ (\E t \in Derived : ReadOutput(p, t))
  PROVE  RecInv'
<1>1. Running(p, "scan") /\ "scan" \in Stages BY DEF ReadAuthored, ReadOutput, Stages
<1>2. job[p] \in Job /\ JobOK(job[p]) /\ job[p].at = "scan" BY <1>1, RunningJob
<1>3. job[p].verb # "build" BY <1>2 DEF JobOK
<1>4. TypeInv' BY ScanType DEF Scan
<1>5. UNCHANGED <<file, disk, ledger, scratch>> BY DEF ReadAuthored, ReadOutput
<1>6. ASSUME NEW a \in Authored, ReadAuthored(p, a) PROVE RecInv'
  <2> DEFINE m == [job[p].memo EXCEPT ![a] = AuthoredContent(a)]
             j == [job[p] EXCEPT !.memo = m, !.read = job[p].read \cup {a}]
  <2>1. job' = [job EXCEPT ![p] = j] BY <1>6 DEF ReadAuthored
  <2>2. j.verb = job[p].verb /\ j.snap = job[p].snap /\ j.at = "scan" BY <1>2 DEF Job
  <2> HIDE DEF j
  <2>3. j \in Job BY <1>4, <2>1, <2>2 DEF TypeInv, TypeOK, Idle
  <2> QED BY <1>2, <1>3, <1>5, <2>1, <2>2, <2>3, OtherVerbRec
<1>7. ASSUME NEW t \in Derived, ReadOutput(p, t) PROVE RecInv'
  <2> DEFINE m == [job[p].seen EXCEPT ![t] = FoundBytes(job[p].snap, t)]
             j == [job[p] EXCEPT !.seen = m, !.scanned = job[p].scanned \cup {t}]
  <2>1. job' = [job EXCEPT ![p] = j] BY <1>7 DEF ReadOutput
  <2>2. j.verb = job[p].verb /\ j.snap = job[p].snap /\ j.at = "scan" BY <1>2 DEF Job
  <2> HIDE DEF j
  <2>3. j \in Job BY <1>4, <2>1, <2>2 DEF TypeInv, TypeOK, Idle
  <2> QED BY <1>2, <1>3, <1>5, <2>1, <2>2, <2>3, OtherVerbRec
<1> QED BY <1>6, <1>7

LEMMA HumanRec ==
  ASSUME TypeInv, RecInv, ~EditsDuringRuns, Human
  PROVE  RecInv'
<1>1. Quiet /\ UNCHANGED <<ledger, job>>
  BY DEF Human, EditFile, EditOutput, EditRecipe, MayEdit
<1>2. \A p \in Proc : BuildOK(p)' /\ CarriedOK(p)' BY <1>1 DEF Quiet, BuildOK, CarriedOK
<1> QED BY <1>1, <1>2 DEF RecInv, RecordsAreTrue

LEMMA RecStep ==
  ASSUME OneBuilder, ~EditsDuringRuns
  PROVE  TypeInv /\ RecInv /\ [Next]_vars => RecInv'
<1> SUFFICES ASSUME TypeInv, RecInv, [Next]_vars PROVE RecInv'
  OBVIOUS
<1>1. CASE Human BY <1>1, HumanRec
<1>2. ASSUME NEW p \in Proc, Begin(p) PROVE RecInv' BY <1>2, StartRec
<1>3. ASSUME NEW p \in Proc, Provide(p) PROVE RecInv'
  BY <1>3, ResolveInputRec, InputsResolvedRec, EmptyScratchRec, RunProviderRec,
     ProviderFailsRec, CollectOutputRec, StageOutputRec, CheckArtifactRec,
     JudgeArtifactRec, ValidatorFailsRec, PinFollowedRec DEF Provide
<1>4. ASSUME NEW p \in Proc, Finish(p) PROVE RecInv'
  BY <1>4, RereadLedgerRec, TruncateLedgerRec, WriteLedgerRec, RenameRec, EndRec DEF Finish
<1>5. ASSUME NEW p \in Proc, Scan(p) PROVE RecInv' BY <1>5, ReadRec, EndRec DEF Scan
<1>6. CASE UNCHANGED vars
  BY <1>6 DEF vars, RecInv, RecordsAreTrue, RecordsTrue, BuildOK, CarriedOK, BytesAtPath, ScratchOf
<1> QED BY <1>1, <1>2, <1>3, <1>4, <1>5, <1>6 DEF Next

LEMMA RecInvariant ==
  ASSUME OneBuilder, ~EditsDuringRuns
  PROVE  Spec => [](TypeInv /\ RecInv)
<1>1. Init => RecInv
  BY DEF Init, DirInit, EmptyLedger, RecInv, RecordsAreTrue, BuildOK, CarriedOK
<1> QED BY <1>1, TypeInit, TypeStep, RecStep, PTL DEF Spec

\* While one process builds and nobody edits under a running verb, every record is the record
\* of something that happened, whatever the other processes do and whenever any of them is
\* killed (build.ts record, inputs.ts resolveInputs, validate.ts recordVerdict).
THEOREM RecordsCorrect ==
  ASSUME OneBuilder, ~EditsDuringRuns
  PROVE  Spec => []RecordsAreTrue
<1>1. RecInv => RecordsAreTrue BY DEF RecInv
<1> QED BY <1>1, RecInvariant, PTL

-----------------------------------------------------------------------------
(* What fresh means. *)

Facts == {"input-absent", "never-built", "input-changed", "input-removed", "output-absent",
          "output-edited", "consistent"}

LEMMA OnlyConsistentIsFresh ==
  ASSUME NEW a \in Facts, NEW v, DerivedState(a, v) = "fresh"
  PROVE  a = "consistent"
<1>1. CASE a = "input-absent" BY <1>1 DEF DerivedState
<1>2. CASE a \in {"never-built", "output-absent"} BY <1>2 DEF DerivedState
<1>3. CASE a \in {"input-changed", "input-removed"} BY <1>3 DEF DerivedState
<1>4. CASE a = "output-edited" BY <1>4 DEF DerivedState
<1>5. CASE a = "consistent" BY <1>5
<1> QED BY <1>1, <1>2, <1>3, <1>4, <1>5 DEF Facts

\* A node that is fresh by a ledger l, authored content au and bytes fo found on disk has a
\* record whose inputs are the declared ones, at the content they resolve to.
LEMMA FreshRecord ==
  ASSUME NEW r, NEW l, NEW au, NEW fo, NEW t \in Derived, StateOf(t, r, l, au, fo) = "fresh"
  PROVE  /\ l.artifacts[t] # Nil
         /\ DOMAIN l.artifacts[t].inputs = Members(r[t])
         /\ \A i \in Members(r[t]) :
              l.artifacts[t].inputs[i] = Resolved(au, l.artifacts, i)
         /\ fo[t] = l.artifacts[t].hash
<1> DEFINE cur == [i \in Members(r[t]) |-> Resolved(au, l.artifacts, i)]
           a == Assessment(cur, l.artifacts[t], fo[t])
<1>1. t \notin Authored BY NodeAssumption
<1>2. StateOf(t, r, l, au, fo) = DerivedState(a, Validated(l, t)) BY <1>1 DEF StateOf
<1>3. a \in Facts BY DEF Assessment, Facts
<1>4. a = "consistent"
  <2> HIDE DEF a
  <2> QED BY <1>2, <1>3, OnlyConsistentIsFresh
<1> QED BY <1>4 DEF Assessment, InputMoved

LEMMA FreshIsMade ==
  ASSUME NEW r, NEW l \in Ledger, NEW au, NEW fo, NEW t \in Derived,
         RecordsTrue(l), StateOf(t, r, l, au, fo) = "fresh"
  PROVE  Makes(t, [i \in Members(r[t]) |-> Resolved(au, l.artifacts, i)], fo[t])
<1> DEFINE rec == l.artifacts[t]
<1>1. Makes(t, rec.inputs, rec.hash) BY FreshRecord DEF RecordsTrue
<1>2. rec.inputs \in InputMap BY FreshRecord DEF Ledger, Record
<1>3. PICK S \in SUBSET Node : rec.inputs \in [S -> Content] BY <1>2 DEF InputMap
<1>4. [i \in Members(r[t]) |-> Resolved(au, l.artifacts, i)] = rec.inputs
  BY <1>3, FreshRecord
<1> QED BY <1>1, <1>4, FreshRecord

\* Under the same conditions a fresh artifact always is what its provider makes of what its
\* declared inputs resolve to (freshness.ts assessFreshness).
THEOREM FreshCorrect ==
  ASSUME OneBuilder, ~EditsDuringRuns
  PROVE  Spec => []FreshIsBuilt
<1>1. TypeInv /\ RecInv => FreshIsBuilt
  <2> SUFFICES ASSUME TypeInv, RecInv, ledger # Torn, NEW t \in Derived, ReportNow[t] = "fresh"
               PROVE  Makes(t, InputsRecorded(t), FoundNow[t])
    BY DEF FreshIsBuilt, ReadableQuiet, FreshArtifactsAreBuilt
  <2>1. ledger \in Ledger BY DEF TypeInv, TypeOK, DirTypeOK
  <2>2. RecordsTrue(ledger) BY DEF RecInv, RecordsAreTrue, RecordsTrue
  <2>3. StateOf(t, recipe, ledger, AuthoredNow, FoundNow) = "fresh" BY DEF ReportNow, Node
  <2> QED BY <2>1, <2>2, <2>3, FreshIsMade DEF InputsRecorded
<1> QED BY <1>1, RecInvariant, PTL

\* A status that scans while a build runs reports fresh only where the bytes it saw are what
\* the provider makes of the content it saw (identity.ts createContentResolver).
THEOREM StatusCorrect ==
  ASSUME OneBuilder, ~EditsDuringRuns
  PROVE  Spec => []StatusFreshIsTrue
<1>1. TypeInv /\ RecInv => StatusFreshIsTrue
  <2> SUFFICES ASSUME TypeInv, RecInv, NEW p \in Proc, Answered(p),
                      NEW t \in Derived, Report(p)[t] = "fresh"
               PROVE  Makes(t, [i \in Members(job[p].recipe[t]) |->
                                  Resolved(job[p].memo, job[p].snap.artifacts, i)],
                            job[p].seen[t])
    BY DEF StatusFreshIsTrue
  <2>1. job[p] \in Job /\ job[p] # Idle
    BY RunningJob, IdleIsNoJob DEF Answered, Stages
  <2>2. job[p].snap \in Ledger BY <2>1 DEF Job
  <2>3. RecordsTrue(job[p].snap) BY <2>1 DEF RecInv, CarriedOK
  <2>4. StateOf(t, job[p].recipe, job[p].snap, job[p].memo, job[p].seen) = "fresh"
    BY DEF Report, Node
  <2> QED BY <2>2, <2>3, <2>4, FreshIsMade
<1> QED BY <1>1, RecInvariant, PTL
-----------------------------------------------------------------------------
(* The ledger from step to step of a verb: theorems about the decisions,   *)
(* the verdicts and the refusals, for any number of processes that report  *)
(* and at most one that writes.                                            *)

Writers == {"build", "validate", "review"}

\* At most one process changes the ledger; any number of them report.
OneWriter ==
  \A p, q \in Proc : Verbs[p] \cap Writers # {} /\ Verbs[q] \cap Writers # {} => p = q

DirStays == UNCHANGED <<recipe, file, disk, ledger, scratch, temp, waived, touched>>

-----------------------------------------------------------------------------
(* What each step does to the job of the process that takes it. *)

\* What a verb loaded when it started stays what it is.
Steady(j, k) ==
  k.verb = j.verb /\ k.target = j.target /\ k.snap = j.snap /\ k.recipe = j.recipe

\* Process p goes on with its job.
Moved(p) ==
  /\ job[p] \in Job /\ job[p] # Idle /\ JobOK(job[p])
  /\ job'[p] \in Job /\ job'[p] # Idle /\ JobOK(job'[p])
  /\ Steady(job[p], job'[p])
  /\ \A q \in Proc : q # p => job'[q] = job[q]

\* What was read, made and judged so far is kept.
Kept(j, k) ==
  /\ k.inputs = j.inputs /\ k.fetched = j.fetched /\ k.failed = j.failed
  /\ k.verdict = j.verdict /\ k.judged = j.judged

Refused(p) ==
  Moved(p) /\ job'[p].at = "clean" /\ job'[p].failed = TRUE /\ DirStays

\* What a step makes of the job of its process, read off the action.
LEMMA Moves ==
  ASSUME TypeInv, TypeInv', NEW p \in Proc, NEW s \in Stages, Running(p, s),
         NEW k, k.at \in Stages, Steady(job[p], k), job' = [job EXCEPT ![p] = k]
  PROVE  Moved(p) /\ job'[p] = k
<1>1. job[p] \in Job /\ JobOK(job[p])
  BY RunningJob
<1>2. job'[p] = k /\ \A q \in Proc : q # p => job'[q] = job[q]
  BY DEF TypeInv, TypeOK
<1>3. job'[p] \in Job \cup {Idle} /\ job'[p] # Idle
  BY <1>2 DEF TypeInv, TypeOK, Idle, Stages
<1>4. JobOK(job'[p])
  BY <1>3 DEF TypeInv, JobsOK
<1> QED
  BY <1>1, <1>2, <1>3, <1>4, IdleIsNoJob DEF Moved

LEMMA Refuses ==
  ASSUME TypeInv, TypeInv', NEW p \in Proc, NEW s \in Stages, Running(p, s), Refuse(p), DirStays
  PROVE  Refused(p)
<1> DEFINE k == [job[p] EXCEPT !.at = "clean", !.failed = TRUE]
<1>1. job[p] \in Job
  BY RunningJob
<1>2. k.at = "clean" /\ k.failed = TRUE /\ Steady(job[p], k)
  BY <1>1 DEF Job, Steady
<1>3. job' = [job EXCEPT ![p] = k]
  BY DEF Refuse
<1> HIDE DEF k
<1>4. k.at \in Stages
  BY <1>2 DEF Stages
<1>5. Moved(p) /\ job'[p] = k
  BY <1>2, <1>3, <1>4, Moves
<1> QED
  BY <1>2, <1>5 DEF Refused

\* Each verb starts at its first stage, with the ledger and the recipe it has just read.
Started(p) ==
  /\ job[p] = Idle /\ job'[p] \in Job /\ job'[p] # Idle /\ JobOK(job'[p])
  /\ \A q \in Proc : q # p => job'[q] = job[q]
  /\ DirStays
  /\ ledger \in Ledger /\ ledger # Torn
  /\ job'[p].snap = ledger /\ job'[p].recipe = recipe /\ job'[p].verb \in Verbs[p]
  /\ job'[p].inputs = [i \in {} |-> Nil] /\ job'[p].fetched = {} /\ job'[p].verdict = Nil
  /\ job'[p].failed = FALSE
  /\ job'[p].verb \in {"build", "validate"} => job'[p].todo = recipe[job'[p].target]
  /\ job'[p].at = CASE job'[p].verb = "build" -> "resolve"
                    [] job'[p].verb = "validate" ->
                         IF job'[p].target \in DeclaresValidator THEN "check" ELSE "resolve"
                    [] job'[p].verb = "review" -> "pin"
                    [] job'[p].verb = "status" -> "scan"

LEMMA Starts ==
  ASSUME TypeInv, TypeInv', NEW p \in Proc, Begin(p)
  PROVE  Started(p)
<1>1. ASSUME NEW k, Start(p, k), k.at \in Stages
      PROVE  /\ job[p] = Idle /\ job'[p] = k /\ job'[p] \in Job /\ job'[p] # Idle
             /\ JobOK(job'[p]) /\ k.verb \in Verbs[p] /\ ledger \in Ledger /\ ledger # Torn
             /\ \A q \in Proc : q # p => job'[q] = job[q]
             /\ DirStays
  <2>1. /\ job[p] = Idle /\ ledger # Torn /\ k.verb \in Verbs[p] /\ DirStays
        /\ job' = [job EXCEPT ![p] = k]
    BY <1>1 DEF Start, DirStays
  <2>2. job'[p] = k /\ \A q \in Proc : q # p => job'[q] = job[q]
    BY <2>1 DEF TypeInv, TypeOK
  <2>3. job'[p] \in Job /\ job'[p] # Idle
    BY <1>1, <2>2 DEF TypeInv, TypeOK, Idle, Stages
  <2>4. JobOK(job'[p])
    BY <2>3 DEF TypeInv, JobsOK
  <2>5. ledger \in Ledger
    BY <2>1 DEF TypeInv, TypeOK, DirTypeOK
  <2> QED
    BY <2>1, <2>2, <2>3, <2>4, <2>5
<1>2. ASSUME NEW t \in Derived, StartBuild(p, t)  PROVE Started(p)
  <2> DEFINE k == [NewJob("build", t, "resolve") EXCEPT !.todo = recipe[t]]
  <2>1. Start(p, k)
    BY <1>2 DEF StartBuild
  <2>2. /\ k.at = "resolve" /\ k.verb = "build" /\ k.target = t /\ k.snap = ledger
        /\ k.recipe = recipe /\ k.inputs = [i \in {} |-> Nil] /\ k.fetched = {}
        /\ k.verdict = Nil /\ k.failed = FALSE /\ k.todo = recipe[t]
    BY DEF NewJob
  <2> HIDE DEF k
  <2> QED
    BY <1>1, <2>1, <2>2 DEF Started, Stages
<1>3. ASSUME NEW t \in Derived, StartValidate(p, t)  PROVE Started(p)
  <2> DEFINE at == IF t \in DeclaresValidator THEN "check" ELSE "resolve"
             k == [NewJob("validate", t, at) EXCEPT !.todo = recipe[t]]
  <2>1. Start(p, k)
    BY <1>3 DEF StartValidate
  <2>2. /\ k.at = at /\ k.verb = "validate" /\ k.target = t /\ k.snap = ledger
        /\ k.recipe = recipe /\ k.inputs = [i \in {} |-> Nil] /\ k.fetched = {}
        /\ k.verdict = Nil /\ k.failed = FALSE /\ k.todo = recipe[t]
    BY DEF NewJob
  <2> HIDE DEF k
  <2> QED
    BY <1>1, <2>1, <2>2 DEF Started, Stages
<1>4. ASSUME NEW a \in Authored, StartReview(p, a)  PROVE Started(p)
  <2> DEFINE k == NewJob("review", a, "pin")
  <2>1. Start(p, k)
    BY <1>4 DEF StartReview
  <2>2. /\ k.at = "pin" /\ k.verb = "review" /\ k.snap = ledger
        /\ k.recipe = recipe /\ k.inputs = [i \in {} |-> Nil] /\ k.fetched = {}
        /\ k.verdict = Nil /\ k.failed = FALSE
    BY DEF NewJob
  <2> HIDE DEF k
  <2> QED
    BY <1>1, <2>1, <2>2 DEF Started, Stages
<1>5. ASSUME StartStatus(p)  PROVE Started(p)
  <2> DEFINE k == NewJob("status", Nil, "scan")
  <2>1. Start(p, k)
    BY <1>5 DEF StartStatus
  <2>2. /\ k.at = "scan" /\ k.verb = "status" /\ k.snap = ledger
        /\ k.recipe = recipe /\ k.inputs = [i \in {} |-> Nil] /\ k.fetched = {}
        /\ k.verdict = Nil /\ k.failed = FALSE
    BY DEF NewJob
  <2> HIDE DEF k
  <2> QED
    BY <1>1, <2>1, <2>2 DEF Started, Stages
<1> QED
  BY <1>2, <1>3, <1>4, <1>5 DEF Begin

\* An input is resolved, or the verb refuses.
LEMMA ResolveMoves ==
  ASSUME TypeInv, TypeInv', NEW p \in Proc, ResolveInput(p)
  PROVE  LET i == Head(job[p].todo)
             c == InputBytes(i, job[p].snap)
         IN  /\ job[p].at = "resolve" /\ job[p].todo # <<>>
             /\ \/ Refused(p)
                \/ /\ Moved(p) /\ DirStays /\ c # Nil /\ job'[p].at = "resolve"
                   /\ job'[p].todo = Tail(job[p].todo)
                   /\ job'[p].inputs = With(job[p].inputs, i, c)
                   /\ job'[p].fetched = IF Fetches(i) THEN job[p].fetched \cup {i}
                                        ELSE job[p].fetched
                   /\ job'[p].verdict = job[p].verdict /\ job'[p].failed = job[p].failed
<1> DEFINE i == Head(job[p].todo)
           c == InputBytes(i, job[p].snap)
           todo == Tail(job[p].todo)
           inputs == With(job[p].inputs, i, c)
           fetched == IF Fetches(i) THEN job[p].fetched \cup {i} ELSE job[p].fetched
           k == [job[p] EXCEPT !.todo = todo, !.inputs = inputs, !.fetched = fetched]
<1>1. Running(p, "resolve") /\ "resolve" \in Stages /\ job[p].todo # <<>> /\ DirStays
  BY DEF ResolveInput, Stages, DirStays
<1>2. job[p] \in Job /\ job[p].at = "resolve"
  BY <1>1, RunningJob
<1>3. CASE c = Nil
  <2>1. Refuse(p)
    BY <1>3 DEF ResolveInput
  <2> QED
    BY <1>1, <1>2, <2>1, Refuses
<1>4. CASE c # Nil
  <2>1. job' = [job EXCEPT ![p] = k]
    BY <1>4 DEF ResolveInput
  <2>2. /\ k.at = "resolve" /\ k.todo = todo /\ k.inputs = inputs /\ k.fetched = fetched
        /\ k.verdict = job[p].verdict /\ k.failed = job[p].failed /\ Steady(job[p], k)
    <3> HIDE DEF todo, inputs, fetched
    <3> QED
      BY <1>2 DEF Job, Steady
  <2> HIDE DEF k
  <2>3. Moved(p) /\ job'[p] = k
    BY <1>1, <2>1, <2>2, Moves
  <2> QED
    BY <1>1, <1>2, <1>4, <2>2, <2>3
<1> QED
  BY <1>3, <1>4

\* The inputs are complete; a declared validator judges the artifact where it lies.
LEMMA ResolvedMoves ==
  ASSUME TypeInv, TypeInv', NEW p \in Proc, InputsResolved(p)
  PROVE  /\ job[p].at = "resolve" /\ job[p].todo = <<>>
         /\ Moved(p) /\ DirStays /\ Kept(job[p], job'[p])
         /\ job'[p].at = IF job[p].verb = "validate" /\ job[p].target \in DeclaresValidator
                         THEN "judge" ELSE "scratch"
<1> DEFINE at == IF job[p].verb = "validate" /\ job[p].target \in DeclaresValidator
                 THEN "judge" ELSE "scratch"
           k == [job[p] EXCEPT !.at = at]
<1>1. /\ Running(p, "resolve") /\ "resolve" \in Stages /\ job[p].todo = <<>> /\ DirStays
      /\ job' = [job EXCEPT ![p] = k]
  BY DEF InputsResolved, Stages, DirStays
<1>2. job[p] \in Job /\ job[p].at = "resolve"
  BY <1>1, RunningJob
<1>3. k.at = at /\ at \in Stages /\ Kept(job[p], k) /\ Steady(job[p], k)
  BY <1>2 DEF Job, Steady, Kept, Stages
<1> HIDE DEF k
<1>4. Moved(p) /\ job'[p] = k
  BY <1>1, <1>3, Moves
<1> QED
  BY <1>1, <1>2, <1>3, <1>4

LEMMA EmptyScratchMoves ==
  ASSUME TypeInv, TypeInv', NEW p \in Proc, EmptyScratch(p)
  PROVE  /\ job[p].at = "scratch" /\ Moved(p) /\ job'[p].at = "run" /\ Kept(job[p], job'[p])
         /\ UNCHANGED <<recipe, file, disk, ledger, temp, waived, touched>>
         /\ scratch' = [scratch EXCEPT ![ScratchOf(p)] = Empty]
<1> DEFINE k == [job[p] EXCEPT !.at = "run"]
<1>1. Running(p, "scratch") /\ "scratch" \in Stages /\ job' = [job EXCEPT ![p] = k]
  BY DEF EmptyScratch, Stages
<1>2. job[p] \in Job /\ job[p].at = "scratch"
  BY <1>1, RunningJob
<1>3. k.at = "run" /\ k.at \in Stages /\ Kept(job[p], k) /\ Steady(job[p], k)
  BY <1>2 DEF Job, Steady, Kept, Stages
<1> HIDE DEF k
<1>4. Moved(p) /\ job'[p] = k
  BY <1>1, <1>3, Moves
<1> QED
  BY <1>2, <1>3, <1>4 DEF EmptyScratch

LEMMA RunProviderMoves ==
  ASSUME TypeInv, TypeInv', NEW p \in Proc, RunProvider(p)
  PROVE  /\ job[p].at = "run" /\ Moved(p) /\ job'[p].at = "collect"
         /\ job'[p].inputs = job[p].inputs /\ job'[p].failed = job[p].failed
         /\ job'[p].fetched = job[p].fetched
         /\ UNCHANGED <<recipe, file, disk, ledger, temp, waived, touched>>
         /\ \E c \in Content :
              /\ Produces(job[p].target, BytesRead(p), c, job'[p].verdict)
              /\ job'[p].judged = About(BytesRead(p), job'[p].verdict)
              /\ scratch' = [scratch EXCEPT ![ScratchOf(p)] = c]
<1>1. PICK c \in Content, v \in Verdict \cup {Nil} :
        /\ Produces(job[p].target, BytesRead(p), c, v)
        /\ scratch' = [scratch EXCEPT ![ScratchOf(p)] = c]
        /\ job' = [job EXCEPT ![p].at = "collect", ![p].verdict = v,
                              ![p].judged = About(BytesRead(p), v)]
  BY DEF RunProvider
<1> DEFINE a == About(BytesRead(p), v)
           k == [job[p] EXCEPT !.at = "collect", !.verdict = v, !.judged = a]
<1>2. Running(p, "run") /\ "run" \in Stages /\ job' = [job EXCEPT ![p] = k]
  BY <1>1 DEF RunProvider, Stages
<1>3. job[p] \in Job /\ job[p].at = "run"
  BY <1>2, RunningJob
<1>4. /\ k.at = "collect" /\ k.at \in Stages /\ k.verdict = v /\ k.inputs = job[p].inputs
      /\ k.fetched = job[p].fetched /\ k.failed = job[p].failed /\ Steady(job[p], k)
      /\ k.judged = a
  <2> HIDE DEF a
  <2> QED
    BY <1>3 DEF Job, Steady, Stages
<1> HIDE DEF k
<1>5. Moved(p) /\ job'[p] = k
  BY <1>2, <1>4, Moves
<1> QED
  BY <1>1, <1>3, <1>4, <1>5 DEF RunProvider

LEMMA ProviderFailsMoves ==
  ASSUME TypeInv, TypeInv', NEW p \in Proc, ProviderFails(p)
  PROVE  job[p].at = "run" /\ Refused(p)
<1>1. Running(p, "run") /\ "run" \in Stages /\ Refuse(p) /\ DirStays
  BY DEF ProviderFails, Stages, DirStays
<1> QED
  BY <1>1, Refuses DEF Running

LEMMA CollectOutputMoves ==
  ASSUME TypeInv, TypeInv', NEW p \in Proc, CollectOutput(p)
  PROVE  LET c == scratch[ScratchOf(p)]
         IN  /\ job[p].at = "collect"
             /\ \/ Refused(p)
                \/ /\ Moved(p) /\ DirStays /\ Kept(job[p], job'[p])
                   /\ c \notin {Nil, Empty} /\ job'[p].hash = c
                   /\ \/ job[p].verb = "build" /\ job'[p].at = "stage"
                      \/ /\ job[p].verb # "build" /\ job'[p].at = "reread"
                         /\ c = job[p].snap.artifacts[job[p].target].hash
                         /\ job[p].verdict # Nil
<1> DEFINE c == scratch[ScratchOf(p)]
           at == IF job[p].verb = "build" THEN "stage" ELSE "reread"
           k == [job[p] EXCEPT !.at = at, !.hash = c]
<1>1. Running(p, "collect") /\ "collect" \in Stages /\ DirStays
  BY DEF CollectOutput, Stages, DirStays
<1>2. job[p] \in Job /\ job[p].at = "collect"
  BY <1>1, RunningJob
<1>3. CASE Refuse(p)
  BY <1>1, <1>2, <1>3, Refuses
<1>4. CASE /\ c \notin {Nil, Empty} /\ job' = [job EXCEPT ![p] = k]
           /\ job[p].verb # "build" =>
                c = job[p].snap.artifacts[job[p].target].hash /\ job[p].verdict # Nil
  <2>1. k.at = at /\ at \in Stages /\ k.hash = c /\ Kept(job[p], k) /\ Steady(job[p], k)
    <3> HIDE DEF c
    <3> QED
      BY <1>2 DEF Job, Steady, Kept, Stages
  <2> HIDE DEF k
  <2>2. Moved(p) /\ job'[p] = k
    BY <1>1, <1>4, <2>1, Moves
  <2> QED
    BY <1>1, <1>2, <1>4, <2>1, <2>2
<1> QED
  BY <1>3, <1>4 DEF CollectOutput

LEMMA StageOutputMoves ==
  ASSUME TypeInv, TypeInv', NEW p \in Proc, StageOutput(p)
  PROVE  /\ job[p].at = "stage"
         /\ \/ Refused(p)
            \/ /\ Moved(p) /\ job'[p].at = "reread" /\ Kept(job[p], job'[p])
               /\ job'[p].hash = job[p].hash
               /\ temp' = [temp EXCEPT ![p] = scratch[ScratchOf(p)]]
               /\ UNCHANGED <<recipe, file, disk, ledger, scratch, waived, touched>>
<1> DEFINE k == [job[p] EXCEPT !.at = "reread"]
<1>1. Running(p, "stage") /\ "stage" \in Stages
  BY DEF StageOutput, Stages
<1>2. job[p] \in Job /\ job[p].at = "stage"
  BY <1>1, RunningJob
<1>3. CASE Refuse(p) /\ UNCHANGED temp
  BY <1>1, <1>2, <1>3, Refuses DEF StageOutput, DirStays
<1>4. CASE /\ temp' = [temp EXCEPT ![p] = scratch[ScratchOf(p)]]
           /\ job' = [job EXCEPT ![p] = k]
  <2>1. k.at = "reread" /\ k.at \in Stages /\ k.hash = job[p].hash /\ Kept(job[p], k)
        /\ Steady(job[p], k)
    BY <1>2 DEF Job, Steady, Kept, Stages
  <2> HIDE DEF k
  <2>2. Moved(p) /\ job'[p] = k
    BY <1>1, <1>4, <2>1, Moves
  <2> QED
    BY <1>2, <1>4, <2>1, <2>2 DEF StageOutput
<1> QED
  BY <1>3, <1>4 DEF StageOutput

LEMMA CheckArtifactMoves ==
  ASSUME TypeInv, TypeInv', NEW p \in Proc, CheckArtifact(p)
  PROVE  LET rec == job[p].snap.artifacts[job[p].target]
         IN  /\ job[p].at = "check"
             /\ \/ Refused(p)
                \/ /\ Moved(p) /\ DirStays /\ Kept(job[p], job'[p]) /\ job'[p].at = "resolve"
                   /\ job'[p].todo = job[p].todo
                   /\ disk[rec.path] = rec.hash
<1> DEFINE rec == job[p].snap.artifacts[job[p].target]
           k == [job[p] EXCEPT !.at = "resolve"]
<1>1. Running(p, "check") /\ "check" \in Stages /\ DirStays
  BY DEF CheckArtifact, Stages, DirStays
<1>2. job[p] \in Job /\ job[p].at = "check"
  BY <1>1, RunningJob
<1>3. CASE Refuse(p)
  BY <1>1, <1>2, <1>3, Refuses
<1>4. CASE disk[rec.path] = rec.hash /\ job' = [job EXCEPT ![p] = k]
  <2>1. k.at = "resolve" /\ k.at \in Stages /\ k.todo = job[p].todo /\ Kept(job[p], k)
        /\ Steady(job[p], k)
    BY <1>2 DEF Job, Steady, Kept, Stages
  <2> HIDE DEF k
  <2>2. Moved(p) /\ job'[p] = k
    BY <1>1, <1>4, <2>1, Moves
  <2> QED
    BY <1>1, <1>2, <1>4, <2>1, <2>2
<1> QED
  BY <1>3, <1>4 DEF CheckArtifact

LEMMA JudgeArtifactMoves ==
  ASSUME TypeInv, TypeInv', NEW p \in Proc, JudgeArtifact(p)
  PROVE  /\ job[p].at = "judge" /\ Moved(p) /\ DirStays /\ job'[p].at = "reread"
         /\ ArtifactAtPath(p) # Nil /\ Readable(p)
         /\ job'[p].inputs = job[p].inputs /\ job'[p].failed = job[p].failed
         /\ job'[p].fetched = job[p].fetched
         /\ job'[p].verdict \in Verdict /\ job'[p].judged = BytesRead(p)
         /\ Judges(job[p].target, BytesRead(p), ArtifactAtPath(p), job'[p].verdict)
<1>1. Running(p, "judge") /\ "judge" \in Stages /\ DirStays
  BY DEF JudgeArtifact, Stages, DirStays
<1>2. job[p] \in Job /\ job[p].at = "judge"
  BY <1>1, RunningJob
<1>3. PICK v \in Verdict :
        /\ Judges(job[p].target, BytesRead(p), ArtifactAtPath(p), v)
        /\ job' = [job EXCEPT ![p].at = "reread", ![p].verdict = v, ![p].judged = BytesRead(p)]
  BY DEF JudgeArtifact
<1> DEFINE a == BytesRead(p)
           k == [job[p] EXCEPT !.at = "reread", !.verdict = v, !.judged = a]
<1>4. job' = [job EXCEPT ![p] = k]
  BY <1>3
<1>5. k.at = "reread" /\ k.at \in Stages /\ k.verdict = v /\ k.inputs = job[p].inputs
      /\ k.judged = BytesRead(p)
      /\ k.fetched = job[p].fetched /\ k.failed = job[p].failed /\ Steady(job[p], k)
  <2> HIDE DEF a
  <2>1. /\ k.at = "reread" /\ k.at \in Stages /\ k.verdict = v /\ k.inputs = job[p].inputs
        /\ k.judged = a
        /\ k.fetched = job[p].fetched /\ k.failed = job[p].failed /\ Steady(job[p], k)
    BY <1>2 DEF Job, Steady, Stages
  <2> QED
    BY <2>1 DEF a
<1> HIDE DEF k
<1>6. Moved(p) /\ job'[p] = k
  BY <1>1, <1>4, <1>5, Moves
<1> QED
  BY <1>1, <1>2, <1>3, <1>5, <1>6 DEF JudgeArtifact

LEMMA ValidatorFailsMoves ==
  ASSUME TypeInv, TypeInv', NEW p \in Proc, ValidatorFails(p)
  PROVE  job[p].at = "judge" /\ Refused(p)
<1>1. Running(p, "judge") /\ "judge" \in Stages /\ Refuse(p) /\ DirStays
  BY DEF ValidatorFails, Stages, DirStays
<1> QED
  BY <1>1, Refuses DEF Running

LEMMA PinFollowedMoves ==
  ASSUME TypeInv, TypeInv', NEW p \in Proc, PinFollowed(p)
  PROVE  LET c == Resolved(AuthoredNow, job[p].snap.artifacts, Follows[job[p].target])
         IN  /\ job[p].at = "pin"
             /\ \/ Refused(p)
                \/ /\ Moved(p) /\ DirStays /\ Kept(job[p], job'[p]) /\ job'[p].at = "reread"
                   /\ c # Nil /\ job'[p].hash = c
<1> DEFINE c == Resolved(AuthoredNow, job[p].snap.artifacts, Follows[job[p].target])
           k == [job[p] EXCEPT !.at = "reread", !.hash = c]
<1>1. Running(p, "pin") /\ "pin" \in Stages /\ DirStays
  BY DEF PinFollowed, Stages, DirStays
<1>2. job[p] \in Job /\ job[p].at = "pin"
  BY <1>1, RunningJob
<1>3. CASE Refuse(p)
  BY <1>1, <1>2, <1>3, Refuses
<1>4. CASE c # Nil /\ job' = [job EXCEPT ![p] = k]
  <2>1. k.at = "reread" /\ k.at \in Stages /\ k.hash = c /\ Kept(job[p], k) /\ Steady(job[p], k)
    <3> HIDE DEF c
    <3> QED
      BY <1>2 DEF Job, Steady, Kept, Stages
  <2> HIDE DEF k
  <2>2. Moved(p) /\ job'[p] = k
    BY <1>1, <1>4, <2>1, Moves
  <2> QED
    BY <1>1, <1>2, <1>4, <2>1, <2>2
<1> QED
  BY <1>3, <1>4 DEF PinFollowed

LEMMA RereadLedgerMoves ==
  ASSUME TypeInv, TypeInv', NEW p \in Proc, RereadLedger(p)
  PROVE  /\ job[p].at = "reread"
         /\ \/ Refused(p) /\ ledger = Torn
            \/ /\ Moved(p) /\ DirStays /\ Kept(job[p], job'[p]) /\ job'[p].at = "write"
               /\ ledger # Torn /\ job'[p].base = ledger /\ job'[p].hash = job[p].hash
<1> DEFINE k == [job[p] EXCEPT !.at = "write", !.base = ledger]
<1>1. Running(p, "reread") /\ "reread" \in Stages /\ DirStays
  BY DEF RereadLedger, Stages, DirStays
<1>2. job[p] \in Job /\ job[p].at = "reread"
  BY <1>1, RunningJob
<1>3. CASE ledger = Torn
  <2>1. Refuse(p)
    BY <1>3 DEF RereadLedger
  <2> QED
    BY <1>1, <1>2, <1>3, <2>1, Refuses
<1>4. CASE ledger # Torn
  <2>1. job' = [job EXCEPT ![p] = k]
    BY <1>4 DEF RereadLedger
  <2>2. k.at = "write" /\ k.at \in Stages /\ k.base = ledger /\ k.hash = job[p].hash
        /\ Kept(job[p], k) /\ Steady(job[p], k)
    BY <1>2 DEF Job, Steady, Kept, Stages
  <2> HIDE DEF k
  <2>3. Moved(p) /\ job'[p] = k
    BY <1>1, <2>1, <2>2, Moves
  <2> QED
    BY <1>1, <1>2, <1>4, <2>2, <2>3
<1> QED
  BY <1>3, <1>4

LEMMA TruncateLedgerMoves ==
  ASSUME TypeInv, TypeInv', NEW p \in Proc, TruncateLedger(p)
  PROVE  /\ job[p].at = "write" /\ Moved(p) /\ job'[p].at = "writing" /\ Kept(job[p], job'[p])
         /\ job'[p].base = job[p].base /\ job'[p].hash = job[p].hash
         /\ ledger' = Torn /\ UNCHANGED <<recipe, file, disk, scratch, temp, waived, touched>>
<1> DEFINE k == [job[p] EXCEPT !.at = "writing"]
<1>1. Running(p, "write") /\ "write" \in Stages /\ job' = [job EXCEPT ![p] = k]
  BY DEF TruncateLedger, Stages
<1>2. job[p] \in Job /\ job[p].at = "write"
  BY <1>1, RunningJob
<1>3. k.at = "writing" /\ k.at \in Stages /\ k.base = job[p].base /\ k.hash = job[p].hash
      /\ Kept(job[p], k) /\ Steady(job[p], k)
  BY <1>2 DEF Job, Steady, Kept, Stages
<1> HIDE DEF k
<1>4. Moved(p) /\ job'[p] = k
  BY <1>1, <1>3, Moves
<1> QED
  BY <1>2, <1>3, <1>4 DEF TruncateLedger

LEMMA WriteLedgerMoves ==
  ASSUME TypeInv, TypeInv', NEW p \in Proc, WriteLedger(p)
  PROVE  /\ job[p].at = "writing" /\ Moved(p) /\ Kept(job[p], job'[p])
         /\ job'[p].at = IF job[p].verb = "build" THEN "rename" ELSE "clean"
         /\ job'[p].hash = job[p].hash
         /\ ledger' = Amended(job[p]) /\ ledger' \in Ledger /\ ledger' # Torn
         /\ waived' = IF job[p].verb = "review"
                      THEN [waived EXCEPT ![job[p].target] = job[p].hash] ELSE waived
         /\ UNCHANGED <<recipe, file, disk, scratch, temp, touched>>
<1> DEFINE at == IF job[p].verb = "build" THEN "rename" ELSE "clean"
           k == [job[p] EXCEPT !.at = at]
<1>1. Running(p, "writing") /\ "writing" \in Stages /\ job' = [job EXCEPT ![p] = k]
  BY DEF WriteLedger, Stages
<1>2. job[p] \in Job /\ JobOK(job[p]) /\ job[p].at = "writing"
  BY <1>1, RunningJob
<1>3. k.at = at /\ at \in Stages /\ k.hash = job[p].hash /\ Kept(job[p], k) /\ Steady(job[p], k)
  BY <1>2 DEF Job, Steady, Kept, Stages
<1> HIDE DEF k
<1>4. Moved(p) /\ job'[p] = k
  BY <1>1, <1>3, Moves
<1>5. ledger' \in Ledger /\ ledger' # Torn
  BY <1>2, AmendedType, LedgerAssumption DEF WriteLedger
<1> QED
  BY <1>2, <1>3, <1>4, <1>5 DEF WriteLedger

LEMMA RenameOutputMoves ==
  ASSUME TypeInv, TypeInv', NEW p \in Proc, RenameOutput(p)
  PROVE  /\ job[p].at = "rename" /\ Moved(p) /\ Kept(job[p], job'[p]) /\ job'[p].at = "clean"
         /\ job'[p].hash = job[p].hash
         /\ disk' = [disk EXCEPT ![OutPath[job[p].target]] = temp[p]]
         /\ touched' = touched \ {OutPath[job[p].target]}
         /\ UNCHANGED <<recipe, file, ledger, scratch, waived>>
<1> DEFINE k == [job[p] EXCEPT !.at = "clean"]
<1>1. Running(p, "rename") /\ "rename" \in Stages /\ job' = [job EXCEPT ![p] = k]
  BY DEF RenameOutput, Stages
<1>2. job[p] \in Job /\ job[p].at = "rename"
  BY <1>1, RunningJob
<1>3. k.at = "clean" /\ k.at \in Stages /\ k.hash = job[p].hash
      /\ Kept(job[p], k) /\ Steady(job[p], k)
  BY <1>2 DEF Job, Steady, Kept, Stages
<1> HIDE DEF k
<1>4. Moved(p) /\ job'[p] = k
  BY <1>1, <1>3, Moves
<1> QED
  BY <1>2, <1>3, <1>4 DEF RenameOutput

LEMMA RenameFailsMoves ==
  ASSUME TypeInv, TypeInv', NEW p \in Proc, RenameFails(p)
  PROVE  job[p].at = "rename" /\ "rename" \in Faults /\ Refused(p)
<1>1. Running(p, "rename") /\ "rename" \in Stages /\ Refuse(p) /\ DirStays /\ "rename" \in Faults
  BY DEF RenameFails, Stages, DirStays
<1> QED
  BY <1>1, Refuses DEF Running

\* The process ends, by its clean-up or killed, and leaves only scratch and temp files changed.
Ended(p) ==
  /\ job[p] # Idle /\ job'[p] = Idle
  /\ \A q \in Proc : q # p => job'[q] = job[q]
  /\ UNCHANGED <<recipe, file, disk, ledger, waived, touched>>
  /\ \A q \in Proc : q # p => temp'[q] = temp[q]

LEMMA EndMoves ==
  ASSUME TypeInv, NEW p \in Proc, CleanUp(p) \/ Crash(p) \/ EndStatus(p)
  PROVE  Ended(p)
<1>1. job' = [job EXCEPT ![p] = Idle] /\ UNCHANGED <<recipe, file, disk, ledger, waived, touched>>
  BY DEF CleanUp, Crash, EndStatus
<1>2. temp' = [temp EXCEPT ![p] = Nil] \/ temp' = temp
  BY DEF CleanUp, Crash, EndStatus
<1>3. job[p] # Idle
  BY DEF CleanUp, Crash, EndStatus, Answered, Running, Idle
<1> QED
  BY <1>1, <1>2, <1>3 DEF Ended, TypeInv, TypeOK

\* A status goes on scanning.
LEMMA ReadMoves ==
  ASSUME TypeInv, TypeInv', NEW p \in Proc,
         (\E a \in Authored : ReadAuthored(p, a)) \/ (\E t \in Derived : ReadOutput(p, t))
  PROVE  Moved(p) /\ DirStays /\ job[p].at = "scan" /\ job'[p].at = "scan"
<1>1. Running(p, "scan") /\ "scan" \in Stages /\ DirStays
  BY DEF ReadAuthored, ReadOutput, Stages, DirStays
<1>2. job[p] \in Job /\ job[p].at = "scan"
  BY <1>1, RunningJob
<1>3. ASSUME NEW a \in Authored, ReadAuthored(p, a)
      PROVE  Moved(p) /\ job'[p].at = "scan"
  <2> DEFINE m == [job[p].memo EXCEPT ![a] = AuthoredContent(a)]
             r == job[p].read \cup {a}
             k == [job[p] EXCEPT !.memo = m, !.read = r]
  <2>1. job' = [job EXCEPT ![p] = k]
    BY <1>3 DEF ReadAuthored
  <2>2. k.at = "scan" /\ Steady(job[p], k)
    <3> HIDE DEF m, r
    <3> QED
      BY <1>2 DEF Job, Steady
  <2> HIDE DEF k
  <2> QED
    BY <1>1, <2>1, <2>2, Moves
<1>4. ASSUME NEW t \in Derived, ReadOutput(p, t)
      PROVE  Moved(p) /\ job'[p].at = "scan"
  <2> DEFINE m == [job[p].seen EXCEPT ![t] = FoundBytes(job[p].snap, t)]
             r == job[p].scanned \cup {t}
             k == [job[p] EXCEPT !.seen = m, !.scanned = r]
  <2>1. job' = [job EXCEPT ![p] = k]
    BY <1>4 DEF ReadOutput
  <2>2. k.at = "scan" /\ Steady(job[p], k)
    <3> HIDE DEF m, r
    <3> QED
      BY <1>2 DEF Job, Steady
  <2> HIDE DEF k
  <2> QED
    BY <1>1, <2>1, <2>2, Moves
<1> QED
  BY <1>1, <1>2, <1>3, <1>4

-----------------------------------------------------------------------------
(* While one process writes, the ledger it loaded is the ledger it finds.  *)

BeforeWriting == {"resolve", "scratch", "run", "collect", "stage", "check", "judge", "pin",
                  "reread", "write"}

\* Until the writer truncates the ledger it is the one the verb loaded; what the verb re-read
\* is that one; and a refusal comes before the write, unless the rename fails after it.
HeldOK(p) ==
  job[p] # Idle =>
    /\ job[p].verb \in Verbs[p]
    /\ job[p].verb # "status" =>
         /\ job[p].at \in BeforeWriting => ledger = job[p].snap
         /\ job[p].at \in {"write", "writing"} => job[p].base = job[p].snap
         /\ job[p].at = "writing" => job[p].snap.reviews = waived
         /\ job[p].at # "clean" => job[p].failed = FALSE
         /\ (job[p].at = "clean" /\ job[p].failed = TRUE) =>
              ledger = job[p].snap \/ "rename" \in Faults

LedgerInv == DecisionsSurvive /\ \A p \in Proc : HeldOK(p)

LEMMA Held == \A p \in Proc : LedgerInv => HeldOK(p)
BY DEF LedgerInv

\* A step that writes no ledger leaves the other processes as they were.
LEMMA LedgerStays ==
  ASSUME LedgerInv, NEW p \in Proc, UNCHANGED <<ledger, waived>>,
         \A q \in Proc : q # p => job'[q] = job[q], HeldOK(p)'
  PROVE  LedgerInv'
<1>1. DecisionsSurvive'
  BY DEF LedgerInv, DecisionsSurvive
<1>2. \A q \in Proc : q # p => HeldOK(q)'
  BY DEF LedgerInv, HeldOK
<1> QED
  BY <1>1, <1>2 DEF LedgerInv

\* A step that writes it can disturb only processes that report.
LEMMA LedgerWritten ==
  ASSUME LedgerInv, OneWriter, NEW p \in Proc, Moved(p), job[p].verb # "status",
         DecisionsSurvive', HeldOK(p)'
  PROVE  LedgerInv'
<1>1. job[p].verb \in Verbs[p] \cap Writers
  BY Held DEF HeldOK, Moved, Job, Verb, Writers
<1>2. ASSUME NEW q \in Proc, q # p, job[q] # Idle
      PROVE  job[q].verb = "status" \/ job[q].verb \notin Writers
  BY <1>1, <1>2, Held DEF HeldOK, OneWriter
<1>3. ASSUME NEW q \in Proc, q # p  PROVE HeldOK(q)'
  <2>1. job'[q] = job[q]
    BY <1>3 DEF Moved
  <2>2. CASE job[q] = Idle
    BY <2>1, <2>2 DEF HeldOK
  <2>3. CASE job[q] # Idle
    <3>1. job[q].verb \in Verbs[q]
      BY <2>3, Held DEF HeldOK
    <3>2. job[q].verb = "status" \/ (job[q].verb \notin Writers /\ Verbs[q] \subseteq Verb)
      BY <1>2, <1>3, <2>3, EpisodeAssumption
    <3>3. job[q].verb = "status"
      BY <3>1, <3>2 DEF Verb, Writers
    <3> QED
      BY <2>1, <3>1, <3>3 DEF HeldOK
  <2> QED
    BY <2>2, <2>3
<1> QED
  BY <1>3 DEF LedgerInv

\* A verb goes on towards its write.
LEMMA LedgerAhead ==
  ASSUME LedgerInv, NEW p \in Proc, Moved(p), UNCHANGED <<ledger, waived>>,
         job[p].at \in BeforeWriting, job'[p].at \in BeforeWriting \ {"write"},
         job'[p].failed = job[p].failed
  PROVE  LedgerInv'
<1>1. HeldOK(p) /\ job[p].verb # "status"
  BY Held DEF Moved, JobOK, BeforeWriting
<1>2. HeldOK(p)'
  BY <1>1 DEF HeldOK, Moved, Steady, BeforeWriting
<1> QED
  BY <1>2, LedgerStays DEF Moved

LEMMA LedgerRefused ==
  ASSUME LedgerInv, NEW p \in Proc, Refused(p),
         job[p].at \in BeforeWriting \/ "rename" \in Faults
  PROVE  LedgerInv'
<1>1. HeldOK(p) /\ Moved(p) /\ UNCHANGED <<ledger, waived>>
  BY Held DEF Refused, DirStays
<1>2. HeldOK(p)'
  BY <1>1 DEF HeldOK, Moved, Refused, Steady, BeforeWriting
<1> QED
  BY <1>1, <1>2, LedgerStays DEF Moved

LEMMA LedgerStep ==
  ASSUME OneWriter
  PROVE  TypeInv /\ TypeInv' /\ LedgerInv /\ [Next]_vars => LedgerInv'
<1> SUFFICES ASSUME TypeInv, TypeInv', LedgerInv, [Next]_vars  PROVE LedgerInv'
  OBVIOUS
<1>1. CASE Human
  <2>1. UNCHANGED <<ledger, job, waived>>
    BY <1>1 DEF Human, EditFile, EditOutput, EditRecipe
  <2> QED
    BY <2>1 DEF LedgerInv, DecisionsSurvive, HeldOK
<1>2. ASSUME NEW p \in Proc, Begin(p)  PROVE LedgerInv'
  <2>1. Started(p)
    BY <1>2, Starts
  <2>2. HeldOK(p)'
    BY <2>1 DEF Started, DirStays, HeldOK, Job, Verb, BeforeWriting
  <2> QED
    BY <2>1, <2>2, LedgerStays DEF Started, DirStays
<1>3. ASSUME NEW p \in Proc, Provide(p)  PROVE LedgerInv'
  <2> USE DEF BeforeWriting, DirStays, Kept
  <2>1. CASE ResolveInput(p)
    BY <2>1, ResolveMoves, LedgerAhead, LedgerRefused
  <2>2. CASE InputsResolved(p)
    BY <2>2, ResolvedMoves, LedgerAhead
  <2>3. CASE EmptyScratch(p)
    BY <2>3, EmptyScratchMoves, LedgerAhead
  <2>4. CASE RunProvider(p)
    BY <2>4, RunProviderMoves, LedgerAhead
  <2>5. CASE ProviderFails(p)
    BY <2>5, ProviderFailsMoves, LedgerRefused
  <2>6. CASE CollectOutput(p)
    BY <2>6, CollectOutputMoves, LedgerAhead, LedgerRefused
  <2>7. CASE StageOutput(p)
    BY <2>7, StageOutputMoves, LedgerAhead, LedgerRefused
  <2>8. CASE CheckArtifact(p)
    BY <2>8, CheckArtifactMoves, LedgerAhead, LedgerRefused
  <2>9. CASE JudgeArtifact(p)
    BY <2>9, JudgeArtifactMoves, LedgerAhead
  <2>10. CASE PinFollowed(p)
    BY <2>10, PinFollowedMoves, LedgerAhead, LedgerRefused
  <2>11. CASE ValidatorFails(p)
    BY <2>11, ValidatorFailsMoves, LedgerRefused
  <2> QED
    BY <1>3, <2>1, <2>2, <2>3, <2>4, <2>5, <2>6, <2>7, <2>8, <2>9, <2>10, <2>11 DEF Provide
<1>4. ASSUME NEW p \in Proc, Finish(p)  PROVE LedgerInv'
  <2> USE Held DEF BeforeWriting, DirStays, Kept
  <2>1. CASE RereadLedger(p)
    <3>1. HeldOK(p) /\ job[p].at = "reread" /\ job[p].verb # "status"
      BY <2>1, RereadLedgerMoves DEF Refused, Moved, JobOK
    <3>2. CASE Refused(p)
      BY <3>1, <3>2, LedgerRefused
    <3>3. CASE ~Refused(p)
      <4>1. /\ Moved(p) /\ DirStays /\ job'[p].at = "write" /\ job'[p].base = ledger
            /\ job'[p].failed = job[p].failed
        BY <2>1, <3>3, RereadLedgerMoves
      <4>2. HeldOK(p)'
        BY <3>1, <4>1 DEF HeldOK, Moved, Steady
      <4> QED
        BY <4>1, <4>2, LedgerStays DEF Moved
    <3> QED
      BY <3>2, <3>3
  <2>2. CASE TruncateLedger(p)
    <3>1. /\ job[p].at = "write" /\ Moved(p) /\ job'[p].at = "writing" /\ ledger' = Torn
          /\ waived' = waived /\ job'[p].base = job[p].base /\ job'[p].failed = job[p].failed
      BY <2>2, TruncateLedgerMoves
    <3>2. job[p].verb # "status" /\ HeldOK(p)
      BY <3>1 DEF Moved, JobOK
    <3>3. ledger = job[p].snap /\ job[p].snap # Torn
      BY <3>1, <3>2, LedgerAssumption DEF HeldOK, Moved, Job
    <3>4. job[p].snap.reviews = waived
      BY <3>3 DEF LedgerInv, DecisionsSurvive
    <3>5. HeldOK(p)'
      BY <3>1, <3>2, <3>4 DEF HeldOK, Moved, Steady
    <3>6. DecisionsSurvive'
      BY <3>1 DEF DecisionsSurvive
    <3> QED
      BY <3>1, <3>2, <3>5, <3>6, LedgerWritten
  <2>3. CASE WriteLedger(p)
    <3> DEFINE j == job[p]
    <3>1. /\ j.at = "writing" /\ Moved(p) /\ job'[p].failed = j.failed
          /\ job'[p].at = IF j.verb = "build" THEN "rename" ELSE "clean"
          /\ ledger' = Amended(j)
          /\ waived' = IF j.verb = "review" THEN [waived EXCEPT ![j.target] = j.hash] ELSE waived
      BY <2>3, WriteLedgerMoves
    <3>2. /\ HeldOK(p) /\ j \in Job /\ JobOK(j) /\ j # Idle
          /\ j.verb \in {"build", "validate", "review"}
      BY <3>1 DEF Moved, JobOK, Job, Verb
    <3> HIDE DEF j
    <3>3. j.base = j.snap /\ j.base.reviews = waived /\ j.base \in Ledger /\ j.failed = FALSE
      BY <3>1, <3>2 DEF HeldOK, JobOK, Job, j
    <3>4. Amended(j).reviews = IF j.verb = "review" THEN [waived EXCEPT ![j.target] = j.hash]
                               ELSE waived
      <4>1. CASE j.verb = "build"
        BY <3>3, <4>1 DEF Amended, Ledger
      <4>2. CASE j.verb = "validate"
        BY <3>3, <4>2 DEF Amended, Ledger
      <4>3. CASE j.verb = "review"
        BY <3>3, <4>3 DEF Amended, Ledger
      <4> QED
        BY <4>1, <4>2, <4>3, <3>2
    <3>5. DecisionsSurvive'
      BY <3>1, <3>4 DEF DecisionsSurvive
    <3>6. HeldOK(p)'
      BY <3>1, <3>2, <3>3 DEF HeldOK, Moved, Steady, j
    <3> QED
      BY <3>1, <3>2, <3>5, <3>6, LedgerWritten DEF j
  <2>4. CASE RenameOutput(p)
    <3>1. /\ job[p].at = "rename" /\ Moved(p) /\ job'[p].at = "clean"
          /\ job'[p].failed = job[p].failed /\ UNCHANGED <<ledger, waived>>
      BY <2>4, RenameOutputMoves
    <3>2. HeldOK(p)'
      BY <3>1 DEF HeldOK, Moved, Steady, JobOK
    <3> QED
      BY <3>1, <3>2, LedgerStays DEF Moved
  <2>5. CASE RenameFails(p)
    BY <2>5, RenameFailsMoves, LedgerRefused
  <2>6. CASE CleanUp(p) \/ Crash(p)
    <3>1. Ended(p)
      BY <2>6, EndMoves
    <3> QED
      BY <3>1, LedgerStays DEF Ended, HeldOK
  <2> QED
    BY <1>4, <2>1, <2>2, <2>3, <2>4, <2>5, <2>6 DEF Finish
<1>5. ASSUME NEW p \in Proc, Scan(p)  PROVE LedgerInv'
  <2>1. CASE EndStatus(p)
    <3>1. Ended(p)
      BY <2>1, EndMoves
    <3> QED
      BY <3>1, LedgerStays DEF Ended, HeldOK
  <2>2. CASE ~EndStatus(p)
    <3>1. Moved(p) /\ DirStays /\ job'[p].at = "scan"
      BY <1>5, <2>2, ReadMoves DEF Scan
    <3>2. HeldOK(p)'
      BY <3>1, Held DEF HeldOK, Moved, Steady, JobOK
    <3> QED
      BY <3>1, <3>2, LedgerStays DEF Moved, DirStays
  <2> QED
    BY <2>1, <2>2
<1>6. CASE UNCHANGED vars
  BY <1>6 DEF vars, LedgerInv, DecisionsSurvive, HeldOK
<1> QED
  BY <1>1, <1>2, <1>3, <1>4, <1>5, <1>6 DEF Next

LEMMA LedgerInvariant ==
  ASSUME OneWriter
  PROVE  Spec => [](TypeInv /\ LedgerInv)
<1>1. Init => LedgerInv
  BY DEF Init, DirInit, EmptyLedger, LedgerInv, DecisionsSurvive, HeldOK
<1>2. TypeInv /\ LedgerInv /\ [Next]_vars => TypeInv' /\ LedgerInv'
  BY TypeStep, LedgerStep
<1> QED
  BY <1>1, <1>2, TypeInit, PTL DEF Spec

\* Whatever crashes and whatever a human edits, and however many processes report meanwhile,
\* no verb loses a waiver a human saw recorded, as long as one process writes at a time
\* (store.ts recordWaiver, build.ts record, validate.ts recordVerdict).
THEOREM DecisionsCorrect ==
  ASSUME OneWriter
  PROVE  Spec => []DecisionsSurvive
<1>1. LedgerInv => DecisionsSurvive
  BY DEF LedgerInv
<1> QED
  BY <1>1, LedgerInvariant, PTL

\* Unless the rename fails after the ledger was written, a build that refuses leaves the ledger
\* as it found it (build.ts buildTarget).
THEOREM RefusalCorrect ==
  ASSUME OneWriter, "rename" \notin Faults
  PROVE  Spec => []RefusalLeavesLedger
<1>1. TypeInv /\ LedgerInv => RefusalLeavesLedger
  <2> SUFFICES ASSUME TypeInv, LedgerInv, NEW p \in Proc, Running(p, "clean"),
                      job[p].verb = "build", job[p].failed
               PROVE  ledger = job[p].snap
    BY DEF RefusalLeavesLedger
  <2>1. job[p] \in Job /\ job[p] # Idle
    BY RunningJob, IdleIsNoJob DEF Stages
  <2>2. job[p].failed = TRUE
    BY <2>1 DEF Job
  <2> QED
    BY <2>1, <2>2, Held DEF HeldOK, Running
<1> QED
  BY <1>1, LedgerInvariant, PTL

\* A step of one process leaves the jobs of the others alone.
LEMMA OneMoves ==
  ASSUME TypeInv, NEW q \in Proc, Begin(q) \/ Provide(q) \/ Finish(q) \/ Scan(q)
  PROVE  \A p \in Proc : p # q => job'[p] = job[p]
<1>1. \E k : job' = [job EXCEPT ![q] = k]
  <2>1. CASE Begin(q)
    BY <2>1 DEF Begin, StartBuild, StartValidate, StartReview, StartStatus, Start
  <2>2. CASE Provide(q)
    BY <2>2 DEF Provide, Refuse, ResolveInput, InputsResolved, EmptyScratch, RunProvider,
                ProviderFails, CollectOutput, StageOutput, CheckArtifact, JudgeArtifact,
                ValidatorFails, PinFollowed
  <2>3. CASE Finish(q)
    BY <2>3 DEF Finish, Refuse, RereadLedger, TruncateLedger, WriteLedger, RenameOutput,
                RenameFails, CleanUp, Crash
  <2>4. CASE Scan(q)
    BY <2>4 DEF Scan, ReadAuthored, ReadOutput, EndStatus
  <2> QED
    BY <2>1, <2>2, <2>3, <2>4
<1> QED
  BY <1>1 DEF TypeInv, TypeOK

\* A verb whose ledger is being written goes on only by writing it.
LEMMA OnlyWriteLedger ==
  ASSUME TypeInv, NEW p \in Proc, Running(p, "writing"), [Next]_vars, job'[p] # job[p],
         job'[p] # Idle
  PROVE  WriteLedger(p)
<1>1. ~Human /\ ~UNCHANGED vars
  BY DEF Human, EditFile, EditOutput, EditRecipe, vars
<1>2. PICK q \in Proc : Begin(q) \/ Provide(q) \/ Finish(q) \/ Scan(q)
  BY <1>1 DEF Next
<1>3. q = p
  BY <1>2, OneMoves
<1>4. job[p] # Idle
  BY DEF Running, Idle
<1>5. ~Begin(p)
  BY <1>4 DEF Begin, StartBuild, StartValidate, StartReview, StartStatus, Start
<1>6. ~Provide(p)
  BY DEF Running, Provide, ResolveInput, InputsResolved, EmptyScratch, RunProvider,
         ProviderFails, CollectOutput, StageOutput, CheckArtifact, JudgeArtifact,
         ValidatorFails, PinFollowed
<1>7. ~Scan(p)
  BY DEF Running, Scan, ReadAuthored, ReadOutput, EndStatus, Answered
<1>8. ~Crash(p)
  BY DEF Crash, TypeInv, TypeOK
<1> QED
  BY <1>2, <1>3, <1>5, <1>6, <1>7, <1>8
     DEF Running, Finish, RereadLedger, TruncateLedger, RenameOutput, RenameFails, CleanUp

\* A verdict is written into the record it is about and changes nothing else of it
\* (validate.ts recordVerdict).
THEOREM VerdictCorrect ==
  ASSUME OneWriter
  PROVE  Spec => VerdictKeepsRecord
<1>1. ASSUME TypeInv, TypeInv', LedgerInv, [Next]_vars, NEW p \in Proc, Running(p, "writing"),
             job[p].verb = "validate", job'[p].at = "clean"
      PROVE  LET old == job[p].base.artifacts[job[p].target]
                 new == ledger'.artifacts[job[p].target]
             IN  /\ old # Nil
                 /\ new.inputs = old.inputs
                 /\ new.hash = old.hash
                 /\ new.path = old.path
  <2>1. job'[p] # job[p] /\ job'[p] # Idle
    BY <1>1 DEF Running, Idle
  <2>2. WriteLedger(p)
    BY <1>1, <2>1, OnlyWriteLedger
  <2> DEFINE j == job[p]
  <2>3. /\ j.at = "writing" /\ ledger' = Amended(j) /\ j \in Job /\ JobOK(j) /\ j # Idle
        /\ j.verb = "validate"
    BY <1>1, <2>2, WriteLedgerMoves DEF Moved
  <2>4. j.base = j.snap
    BY <1>1, <2>3, Held DEF HeldOK
  <2> HIDE DEF j
  <2>5. /\ j.snap \in Ledger /\ j.target \in Derived /\ j.snap.artifacts[j.target] # Nil
        /\ j.snap.artifacts[j.target] \in Record
    BY <2>3 DEF Job, JobOK, Ledger
  <2> DEFINE old == j.snap.artifacts[j.target]
             new == JudgedRecord(j)
  <2>6. ledger'.artifacts[j.target] = new
    BY <2>3, <2>4, <2>5 DEF Amended, Ledger
  <2>7. new.inputs = old.inputs /\ new.hash = old.hash /\ new.path = old.path
    BY <2>5 DEF JudgedRecord, Record
  <2> QED
    BY <2>4, <2>5, <2>6, <2>7 DEF j
<1>2. TypeInv /\ TypeInv' /\ LedgerInv /\ [Next]_vars =>
        [\A p \in Proc :
           (Running(p, "writing") /\ job[p].verb = "validate" /\ job'[p].at = "clean") =>
             LET old == job[p].base.artifacts[job[p].target]
                 new == ledger'.artifacts[job[p].target]
             IN  /\ old # Nil
                 /\ new.inputs = old.inputs
                 /\ new.hash = old.hash
                 /\ new.path = old.path]_vars
  BY <1>1
<1> QED
  BY <1>2, LedgerInvariant, PTL DEF Spec, VerdictKeepsRecord
=============================================================================
