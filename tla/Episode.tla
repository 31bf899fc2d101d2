------------------------------- MODULE Episode -------------------------------
(***************************************************************************)
(* One episode directory and the pc processes that work on it: the ledger  *)
(* file, the authored files, the output files, the scratch directories,    *)
(* and the verbs build, validate, review and status, each cut into one     *)
(* action per access of a shared file.  Nothing locks the directory, so    *)
(* two processes may interleave; a human edits files and the recipe, and a *)
(* process may be killed between any two steps.                            *)
(***************************************************************************)
EXTENDS EpisodeDir

CONSTANTS Proc,             \* pc processes that may run at the same time
          Verbs,            \* the verbs each of them runs
          EditsDuringRuns,  \* may the human edit while a pc process runs?
          Faults,           \* which of "crash", "rename", "provider" may happen
          Empty             \* a scratch directory that holds no file

Verb == {"build", "validate", "review", "status"}

ASSUME EpisodeAssumption ==
  /\ Verbs \in [Proc -> SUBSET Verb]
  /\ EditsDuringRuns \in BOOLEAN
  /\ Empty \notin Content \cup {Nil}

VARIABLES scratch,  \* dist/.pc-build-<id> and dist/.pc-validate-<id>
          temp,     \* the .pc-ingest-<uuid> file of each process
          job,      \* what each process is doing
          waived,   \* history: the last waiver a human saw recorded for each node
          touched   \* history: output paths whose bytes a human was the last to change

vars == <<recipe, file, disk, ledger, scratch, temp, job, waived, touched>>

Scratch == {"build", "validate"} \X Derived
Stages == {"resolve", "scratch", "run", "collect", "stage", "check", "judge", "pin",
           "reread", "write", "writing", "rename", "clean", "scan"}

Idle == [at |-> "idle"]

Job == [at : Stages, verb : Verb, target : Node \cup {Nil},
        recipe : Recipe, snap : Ledger,           \* loaded when the verb started
        todo : Seq(Node), inputs : InputMap,      \* inputs still to resolve, and resolved
        fetched : SUBSET Authored,                \* those that came from the asset store
        verdict : Verdict \cup {Nil},
        judged : InputMap \cup {Nil},             \* history: the input bytes it was given on
        hash : Content \cup {Nil},                \* hash of the collected output, or the pin
        base : Ledger \cup {Nil},                 \* the ledger as re-read before writing
        failed : BOOLEAN,
        memo : [Authored -> Content \cup {Nil}], read : SUBSET Authored,
        seen : [Derived -> Content \cup {Nil}], scanned : SUBSET Derived]

TypeOK ==
  /\ DirTypeOK
  /\ scratch \in [Scratch -> Content \cup {Nil, Empty}]
  /\ temp \in [Proc -> Content \cup {Nil}]
  /\ job \in [Proc -> Job \cup {Idle}]
  /\ waived \in [Authored -> Content \cup {Nil}]
  /\ touched \in SUBSET Path

Init ==
  /\ DirInit
  /\ scratch = [k \in Scratch |-> Nil]
  /\ temp = [p \in Proc |-> Nil]
  /\ job = [p \in Proc |-> Idle]
  /\ waived = [a \in Authored |-> Nil]
  /\ touched = {}

Running(p, stage) == job[p].at = stage

Quiet == \A p \in Proc : job[p] = Idle

-----------------------------------------------------------------------------
(* Starting a verb: load the manifest, the profile and the ledger. *)

NewJob(verb, n, at) ==
  [at |-> at, verb |-> verb, target |-> n, recipe |-> recipe, snap |-> ledger,
   todo |-> <<>>, inputs |-> [i \in {} |-> Nil], fetched |-> {},
   verdict |-> Nil, judged |-> Nil, hash |-> Nil, base |-> Nil, failed |-> FALSE,
   memo |-> [a \in Authored |-> Nil], read |-> {},
   seen |-> [t \in Derived |-> Nil], scanned |-> {}]

\* Mutant: a ledger that does not parse is loaded all the same.
StartUnparsed(p, new) ==
  /\ job[p] = Idle
  /\ new.verb \in Verbs[p]
  /\ job' = [job EXCEPT ![p] = new]
  /\ UNCHANGED <<recipe, file, disk, ledger, scratch, temp, waived, touched>>

\* A verb starts by reading the ledger; it refuses to run on one that does not parse.
Start(p, new) ==
  /\ job[p] = Idle
  /\ ledger # Torn
  /\ new.verb \in Verbs[p]
  /\ job' = [job EXCEPT ![p] = new]
  /\ UNCHANGED <<recipe, file, disk, ledger, scratch, temp, waived, touched>>

StartBuild(p, t) ==
  Start(p, [NewJob("build", t, "resolve") EXCEPT !.todo = recipe[t]])

\* With a declared validator the artifact on disk is checked first; without one the
\* producer is run again.
StartValidate(p, t) ==
  /\ ledger # Torn
  /\ ledger.artifacts[t] # Nil
  /\ Start(p, [NewJob("validate", t, IF t \in DeclaresValidator THEN "check" ELSE "resolve")
                 EXCEPT !.todo = recipe[t]])

StartReview(p, a) ==
  /\ Follows[a] # Nil
  /\ Start(p, NewJob("review", a, "pin"))

StartStatus(p) == Start(p, NewJob("status", Nil, "scan"))

\* A throw: the verb goes to its clean-up, then reports the failure.
Refuse(p) == job' = [job EXCEPT ![p].at = "clean", ![p].failed = TRUE]

-----------------------------------------------------------------------------
(* resolveInputs: one declared input at a time, in declared order. *)

Fetches(i) == i \in Authored /\ Standin[i] # Nil /\ file[i] = Nil

With(f, i, c) == [x \in DOMAIN f \cup {i} |-> IF x = i THEN c ELSE f[x]]

ResolveInput(p) ==
  /\ Running(p, "resolve")
  /\ job[p].todo # <<>>
  /\ LET i == Head(job[p].todo)
         c == InputBytes(i, job[p].snap)
     IN  IF c = Nil THEN Refuse(p)
         ELSE job' = [job EXCEPT ![p].todo = Tail(job[p].todo),
                                 ![p].inputs = With(job[p].inputs, i, c),
                                 ![p].fetched = IF Fetches(i) THEN @ \cup {i} ELSE @]
  /\ UNCHANGED <<recipe, file, disk, ledger, scratch, temp, waived, touched>>

InputsResolved(p) ==
  /\ Running(p, "resolve")
  /\ job[p].todo = <<>>
  /\ job' = [job EXCEPT ![p].at = IF /\ job[p].verb = "validate"
                                     /\ job[p].target \in DeclaresValidator
                                  THEN "judge" ELSE "scratch"]
  /\ UNCHANGED <<recipe, file, disk, ledger, scratch, temp, waived, touched>>

-----------------------------------------------------------------------------
(* invokeProvider, in the scratch directory of the verb and the target. *)

ScratchOf(p) == <<job[p].verb, job[p].target>>

\* Mutant: the old record is dropped before the provider has made the new output.
EmptyScratchAndRecord(p) ==
  /\ Running(p, "scratch")
  /\ scratch' = [scratch EXCEPT ![ScratchOf(p)] = Empty]
  /\ ledger' = [ledger EXCEPT !.artifacts = [@ EXCEPT ![job[p].target] = Nil]]
  /\ job' = [job EXCEPT ![p].at = "run"]
  /\ UNCHANGED <<recipe, file, disk, temp, waived, touched>>

\* rm -rf and mkdir: the directory is emptied, whoever used it last.
EmptyScratch(p) ==
  /\ Running(p, "scratch")
  /\ scratch' = [scratch EXCEPT ![ScratchOf(p)] = Empty]
  /\ job' = [job EXCEPT ![p].at = "run"]
  /\ UNCHANGED <<recipe, file, disk, ledger, temp, waived, touched>>

\* What the provider finds at the local path of input i when it reads it.
BytesAtPath(p, i) ==
  IF i \in Derived
  THEN IF job[p].snap.artifacts[i] = Nil THEN Nil ELSE disk[job[p].snap.artifacts[i].path]
  ELSE IF i \in job[p].fetched THEN job[p].inputs[i] ELSE file[i]

BytesRead(p) == [i \in DOMAIN job[p].inputs |-> BytesAtPath(p, i)]

Readable(p) == \A i \in DOMAIN job[p].inputs : BytesAtPath(p, i) # Nil

\* The provider reads its inputs by path, now, and writes its output.
RunProvider(p) ==
  /\ Running(p, "run")
  /\ scratch[ScratchOf(p)] # Nil
  /\ Readable(p)
  /\ \E c \in Content, v \in Verdict \cup {Nil} :
       /\ Produces(job[p].target, BytesRead(p), c, v)
       /\ scratch' = [scratch EXCEPT ![ScratchOf(p)] = c]
       /\ job' = [job EXCEPT ![p].at = "collect", ![p].verdict = v,
                             ![p].judged = About(BytesRead(p), v)]
  /\ UNCHANGED <<recipe, file, disk, ledger, temp, waived, touched>>

\* It exits non-zero, or its answer is refused, or it cannot read or write at all.
ProviderFails(p) ==
  /\ Running(p, "run")
  /\ \/ "provider" \in Faults
     \/ scratch[ScratchOf(p)] = Nil
     \/ ~Readable(p)
     \/ \A c \in Content, v \in Verdict \cup {Nil} : ~Produces(job[p].target, BytesRead(p), c, v)
  /\ Refuse(p)
  /\ UNCHANGED <<recipe, file, disk, ledger, scratch, temp, waived, touched>>

\* Mutant: a re-run that made other bytes has its verdict recorded against the old ones.
CollectAnyOutput(p) ==
  /\ Running(p, "collect")
  /\ LET c == scratch[ScratchOf(p)] IN
     IF c \in {Nil, Empty} \/ (job[p].verb = "validate" /\ job[p].verdict = Nil) THEN Refuse(p)
     ELSE job' = [job EXCEPT ![p].at = IF job[p].verb = "build" THEN "stage" ELSE "reread",
                             ![p].hash = c]
  /\ UNCHANGED <<recipe, file, disk, ledger, scratch, temp, waived, touched>>

\* The declared output is looked for and hashed.  The producer path of validate refuses
\* bytes that are not the recorded artifact, and an output with no verdict.
CollectOutput(p) ==
  /\ Running(p, "collect")
  /\ LET c == scratch[ScratchOf(p)] IN
     IF c \in {Nil, Empty} THEN Refuse(p)
     ELSE IF job[p].verb = "build"
     THEN job' = [job EXCEPT ![p].at = "stage", ![p].hash = c]
     ELSE IF c # job[p].snap.artifacts[job[p].target].hash \/ job[p].verdict = Nil
     THEN Refuse(p)
     ELSE job' = [job EXCEPT ![p].at = "reread", ![p].hash = c]
  /\ UNCHANGED <<recipe, file, disk, ledger, scratch, temp, waived, touched>>

-----------------------------------------------------------------------------
(* Steps of one verb only. *)

\* build: the produced file is copied to a temp sibling of its destination.
StageOutput(p) ==
  /\ Running(p, "stage")
  /\ LET c == scratch[ScratchOf(p)] IN
     IF c \in {Nil, Empty} THEN Refuse(p) /\ UNCHANGED temp
     ELSE /\ temp' = [temp EXCEPT ![p] = c]
          /\ job' = [job EXCEPT ![p].at = "reread"]
  /\ UNCHANGED <<recipe, file, disk, ledger, scratch, waived, touched>>

\* Mutant: whatever lies at the recorded path is judged.
CheckNothing(p) ==
  /\ Running(p, "check")
  /\ job' = [job EXCEPT ![p].at = "resolve"]
  /\ UNCHANGED <<recipe, file, disk, ledger, scratch, temp, waived, touched>>

\* validate, declared validator: the artifact on disk must be the recorded one.
CheckArtifact(p) ==
  /\ Running(p, "check")
  /\ LET rec == job[p].snap.artifacts[job[p].target] IN
     IF disk[rec.path] # rec.hash THEN Refuse(p)
     ELSE job' = [job EXCEPT ![p].at = "resolve"]
  /\ UNCHANGED <<recipe, file, disk, ledger, scratch, temp, waived, touched>>

ArtifactAtPath(p) == disk[job[p].snap.artifacts[job[p].target].path]

\* The validator reads the artifact and the inputs by path, now, and answers.
JudgeArtifact(p) ==
  /\ Running(p, "judge")
  /\ ArtifactAtPath(p) # Nil /\ Readable(p)
  /\ \E v \in Verdict :
       /\ Judges(job[p].target, BytesRead(p), ArtifactAtPath(p), v)
       /\ job' = [job EXCEPT ![p].at = "reread", ![p].verdict = v,
                             ![p].judged = BytesRead(p)]
  /\ UNCHANGED <<recipe, file, disk, ledger, scratch, temp, waived, touched>>

\* It exits non-zero: it cannot read or cannot decide.
ValidatorFails(p) ==
  /\ Running(p, "judge")
  /\ \/ "provider" \in Faults
     \/ ArtifactAtPath(p) = Nil \/ ~Readable(p)
     \/ /\ ArtifactAtPath(p) # Nil /\ Readable(p)
        /\ \A v \in Verdict : ~Judges(job[p].target, BytesRead(p), ArtifactAtPath(p), v)
  /\ Refuse(p)
  /\ UNCHANGED <<recipe, file, disk, ledger, scratch, temp, waived, touched>>

\* review: the pin is the followed node's content at the time of the command.
PinFollowed(p) ==
  /\ Running(p, "pin")
  /\ LET f == Follows[job[p].target]
         c == Resolved(AuthoredNow, job[p].snap.artifacts, f)
     IN  IF c = Nil THEN Refuse(p)
         ELSE job' = [job EXCEPT ![p].at = "reread", ![p].hash = c]
  /\ UNCHANGED <<recipe, file, disk, ledger, scratch, temp, waived, touched>>

-----------------------------------------------------------------------------
(* The ledger: read again, amended, written whole. *)

RereadLedger(p) ==
  /\ Running(p, "reread")
  /\ IF ledger = Torn THEN Refuse(p)
     ELSE job' = [job EXCEPT ![p].at = "write", ![p].base = ledger]
  /\ UNCHANGED <<recipe, file, disk, ledger, scratch, temp, waived, touched>>

\* Mutant: the inputs of the previous build are merged into the record, never forgotten.
MergedRecord(j) ==
  LET old == j.base.artifacts[j.target]
      kept == IF old = Nil THEN {} ELSE DOMAIN old.inputs
  IN  [inputs |-> [i \in DOMAIN j.inputs \cup kept |->
                     IF i \in DOMAIN j.inputs THEN j.inputs[i] ELSE old.inputs[i]],
       path |-> OutPath[j.target], hash |-> j.hash, validation |-> j.verdict,
       judged |-> j.judged]

BuiltRecord(j) ==
  [inputs |-> j.inputs, path |-> OutPath[j.target], hash |-> j.hash, validation |-> j.verdict,
   judged |-> j.judged]

\* The record a validate loaded when it started, with its verdict in place of the old one.
JudgedRecord(j) ==
  [j.snap.artifacts[j.target] EXCEPT !.validation = j.verdict, !.judged = j.judged]

\* Mutant: a verdict re-records the inputs it was given on.
AmendedWithInputs(j) ==
  CASE j.verb = "build" ->
         [j.base EXCEPT !.artifacts = [@ EXCEPT ![j.target] = BuiltRecord(j)]]
    [] j.verb = "validate" ->
         [j.base EXCEPT !.artifacts =
            [@ EXCEPT ![j.target] = [JudgedRecord(j) EXCEPT !.inputs = j.inputs]]]
    [] j.verb = "review" ->
         [j.base EXCEPT !.reviews = [@ EXCEPT ![j.target] = j.hash]]

\* Mutant: a build writes the ledger it loaded afresh, with no review in it.
AmendedWithoutReviews(j) ==
  CASE j.verb = "build" ->
         [artifacts |-> [j.base.artifacts EXCEPT ![j.target] = BuiltRecord(j)],
          reviews |-> EmptyLedger.reviews]
    [] j.verb = "validate" ->
         [j.base EXCEPT !.artifacts =
            [@ EXCEPT ![j.target] = JudgedRecord(j)]]
    [] j.verb = "review" ->
         [j.base EXCEPT !.reviews = [@ EXCEPT ![j.target] = j.hash]]

\* The ledger a verb writes: the one it re-read, with the one entry it is about replaced.
\* validate puts back the record it loaded when it started, with the verdict merged in.
Amended(j) ==
  CASE j.verb = "build" ->
         [j.base EXCEPT !.artifacts = [@ EXCEPT ![j.target] = BuiltRecord(j)]]
    [] j.verb = "validate" ->
         [j.base EXCEPT !.artifacts =
            [@ EXCEPT ![j.target] = JudgedRecord(j)]]
    [] j.verb = "review" ->
         [j.base EXCEPT !.reviews = [@ EXCEPT ![j.target] = j.hash]]

\* fs.writeFile truncates the file before it writes the text.  Keys are sorted, so version
\* comes last and no proper prefix of the text satisfies the schema.
TruncateLedger(p) ==
  /\ Running(p, "write")
  /\ ledger' = Torn
  /\ job' = [job EXCEPT ![p].at = "writing"]
  /\ UNCHANGED <<recipe, file, disk, scratch, temp, waived, touched>>

\* Mutant: the output is left in the scratch directory when an older one is in place.
WriteLedgerOnly(p) ==
  /\ Running(p, "writing")
  /\ ledger' = Amended(job[p])
  /\ job' = [job EXCEPT ![p].at = IF job[p].verb = "build" /\ disk[OutPath[job[p].target]] = Nil
                                 THEN "rename" ELSE "clean"]
  /\ waived' = IF job[p].verb = "review"
               THEN [waived EXCEPT ![job[p].target] = job[p].hash] ELSE waived
  /\ UNCHANGED <<recipe, file, disk, scratch, temp, touched>>

WriteLedger(p) ==
  /\ Running(p, "writing")
  /\ ledger' = Amended(job[p])
  /\ job' = [job EXCEPT ![p].at = IF job[p].verb = "build" THEN "rename" ELSE "clean"]
  /\ waived' = IF job[p].verb = "review"
               THEN [waived EXCEPT ![job[p].target] = job[p].hash] ELSE waived
  /\ UNCHANGED <<recipe, file, disk, scratch, temp, touched>>

-----------------------------------------------------------------------------
(* The end of a verb. *)

RenameOutput(p) ==
  /\ Running(p, "rename")
  /\ disk' = [disk EXCEPT ![OutPath[job[p].target]] = temp[p]]
  /\ touched' = touched \ {OutPath[job[p].target]}
  /\ temp' = [temp EXCEPT ![p] = Nil]
  /\ job' = [job EXCEPT ![p].at = "clean"]
  /\ UNCHANGED <<recipe, file, ledger, scratch, waived>>

RenameFails(p) ==
  /\ "rename" \in Faults
  /\ Running(p, "rename")
  /\ Refuse(p)
  /\ UNCHANGED <<recipe, file, disk, ledger, scratch, temp, waived, touched>>

\* The finally blocks: the temp file and the scratch directory are removed on every path, once
\* the inputs are resolved.  A build removes the scratch directory of its target even when it
\* is another process's.
CleanUp(p) ==
  /\ Running(p, "clean")
  /\ temp' = [temp EXCEPT ![p] = Nil]
  /\ scratch' = IF /\ job[p].verb \in {"build", "validate"}
                   /\ ~(job[p].verb = "validate" /\ job[p].target \in DeclaresValidator)
                   /\ job[p].todo = <<>>
                THEN [scratch EXCEPT ![ScratchOf(p)] = Nil] ELSE scratch
  /\ job' = [job EXCEPT ![p] = Idle]
  /\ UNCHANGED <<recipe, file, disk, ledger, waived, touched>>

\* The process is killed.  Its scratch directory stays; its temp file stays under a name
\* nobody uses again.
Crash(p) ==
  /\ "crash" \in Faults
  /\ job[p] # Idle
  /\ job' = [job EXCEPT ![p] = Idle]
  /\ temp' = [temp EXCEPT ![p] = Nil]
  /\ UNCHANGED <<recipe, file, disk, ledger, scratch, waived, touched>>

-----------------------------------------------------------------------------
(* status: every authored node is read once, then the bytes at each recorded path. *)

ReadAuthored(p, a) ==
  /\ Running(p, "scan")
  /\ a \notin job[p].read
  /\ job' = [job EXCEPT ![p].memo = [@ EXCEPT ![a] = AuthoredContent(a)],
                        ![p].read = @ \cup {a}]
  /\ UNCHANGED <<recipe, file, disk, ledger, scratch, temp, waived, touched>>

ReadOutput(p, t) ==
  /\ Running(p, "scan")
  /\ job[p].read = Authored
  /\ t \notin job[p].scanned
  /\ job' = [job EXCEPT ![p].seen = [@ EXCEPT ![t] = FoundBytes(job[p].snap, t)],
                        ![p].scanned = @ \cup {t}]
  /\ UNCHANGED <<recipe, file, disk, ledger, scratch, temp, waived, touched>>

Answered(p) == Running(p, "scan") /\ job[p].read = Authored /\ job[p].scanned = Derived

\* The report a finished scan prints.
Report(p) ==
  [n \in Node |-> StateOf(n, job[p].recipe, job[p].snap, job[p].memo, job[p].seen)]

EndStatus(p) ==
  /\ Answered(p)
  /\ job' = [job EXCEPT ![p] = Idle]
  /\ UNCHANGED <<recipe, file, disk, ledger, scratch, temp, waived, touched>>

-----------------------------------------------------------------------------
(* The human. *)

MayEdit == EditsDuringRuns \/ Quiet

EditFile(a) ==
  /\ MayEdit
  /\ \E c \in Edits[a] : c # file[a] /\ file' = [file EXCEPT ![a] = c]
  /\ UNCHANGED <<recipe, disk, ledger, scratch, temp, job, waived, touched>>

EditOutput(t) ==
  /\ MayEdit
  /\ \E c \in Edits[t] : c # disk[OutPath[t]] /\ disk' = [disk EXCEPT ![OutPath[t]] = c]
  /\ touched' = touched \cup {OutPath[t]}
  /\ UNCHANGED <<recipe, file, ledger, scratch, temp, job, waived>>

EditRecipe ==
  /\ MayEdit
  /\ \E r \in Recipes : r # recipe /\ recipe' = r
  /\ UNCHANGED <<file, disk, ledger, scratch, temp, job, waived, touched>>

-----------------------------------------------------------------------------
Begin(p) ==
  \/ \E t \in Derived : StartBuild(p, t) \/ StartValidate(p, t)
  \/ \E a \in Authored : StartReview(p, a)
  \/ StartStatus(p)

Provide(p) ==
  \/ ResolveInput(p) \/ InputsResolved(p) \/ EmptyScratch(p)
  \/ RunProvider(p) \/ ProviderFails(p) \/ CollectOutput(p) \/ StageOutput(p)
  \/ CheckArtifact(p) \/ JudgeArtifact(p) \/ ValidatorFails(p) \/ PinFollowed(p)

Finish(p) ==
  \/ RereadLedger(p) \/ TruncateLedger(p) \/ WriteLedger(p)
  \/ RenameOutput(p) \/ RenameFails(p) \/ CleanUp(p) \/ Crash(p)

Scan(p) ==
  \/ \E a \in Authored : ReadAuthored(p, a)
  \/ \E t \in Derived : ReadOutput(p, t)
  \/ EndStatus(p)

Human ==
  \/ \E a \in Authored : EditFile(a)
  \/ \E t \in Derived : EditOutput(t)
  \/ EditRecipe

Next == Human \/ \E p \in Proc : Begin(p) \/ Provide(p) \/ Finish(p) \/ Scan(p)

Spec == Init /\ [][Next]_vars

-----------------------------------------------------------------------------
(* Properties. *)

ReadableQuiet == Quiet /\ ledger # Torn

\* No step of any verb loses a waiver a human saw recorded (build.ts record, validate.ts
\* recordVerdict, store.ts recordWaiver all rewrite the whole ledger).
DecisionsSurvive == ledger # Torn => ledger.reviews = waived

\* Between commands, no sequence of builds, verdicts, edits and crashes fakes a fresh artifact.
FreshIsBuilt == ReadableQuiet => FreshArtifactsAreBuilt

\* Between commands, a yes of release-check is a yes about the bytes that would ship.
ReleasedIsCurrent == ReadableQuiet => ReleaseIsCurrent

\* modified is only ever reported where a human changed the bytes (resolve.ts, FR-017a).
ModifiedMeansEdited ==
  ReadableQuiet =>
    \A t \in Derived : ReportNow[t] = "modified" => OutPath[t] \in touched

\* A build that succeeded leaves its target fresh or invalid, unless some input of it is an
\* artifact that does not hold its recorded bytes, in which case it is stale (build.ts).
BuildSettles ==
  \A p \in Proc :
    (Running(p, "clean") /\ job[p].verb = "build" /\ ~job[p].failed) =>
      \/ ReportNow[job[p].target] \in {"fresh", "invalid"}
      \/ /\ ReportNow[job[p].target] = "stale"
         /\ \E i \in Members(recipe[job[p].target]) \cap Derived :
              FoundNow[i] # ledger.artifacts[i].hash

\* A verdict changes nothing else of the record it is written into (validate.ts recordVerdict).
VerdictKeepsRecord ==
  [][\A p \in Proc :
       (Running(p, "writing") /\ job[p].verb = "validate" /\ job'[p].at = "clean") =>
         LET old == job[p].base.artifacts[job[p].target]
             new == ledger'.artifacts[job[p].target]
         IN  /\ old # Nil
             /\ new.inputs = old.inputs
             /\ new.hash = old.hash
             /\ new.path = old.path]_vars

\* A build that ends in a refusal has left the ledger as it found it (build.ts buildTarget).
RefusalLeavesLedger ==
  \A p \in Proc :
    (Running(p, "clean") /\ job[p].verb = "build" /\ job[p].failed) =>
      ledger = job[p].snap

\* A status that calls an artifact fresh has seen bytes its provider makes of the content the
\* inputs of the target resolved to in that same scan, whatever build is running meanwhile.
StatusFreshIsTrue ==
  \A p \in Proc : Answered(p) =>
    \A t \in Derived : Report(p)[t] = "fresh" =>
      Makes(t, [i \in Members(job[p].recipe[t]) |->
                  Resolved(job[p].memo, job[p].snap.artifacts, i)],
            job[p].seen[t])
=============================================================================
