------------------------------ MODULE Production ------------------------------
(***************************************************************************)
(* What the verbs promise, each as one indivisible step: building an       *)
(* output and recording its origin is a single action, a verdict and a     *)
(* waiver change one entry of the ledger, and a refusal changes nothing.   *)
(* Episode is shown to implement this module while one process runs at a   *)
(* time and nothing fails after the ledger is written.                     *)
(***************************************************************************)
EXTENDS EpisodeDir

dirVars == <<recipe, file, disk, ledger>>

BytesIn(t) == [i \in Members(recipe[t]) |-> InputBytes(i, ledger)]

InputsAvailable(t) == \A i \in Members(recipe[t]) : InputBytes(i, ledger) # Nil

\* Mutant: the inputs of the previous build stay in the record.
BuildMerging(t) ==
  /\ ledger # Torn
  /\ InputsAvailable(t)
  /\ LET old == ledger.artifacts[t]
         kept == IF old = Nil THEN {} ELSE DOMAIN old.inputs \ Members(recipe[t])
     IN  \E c \in Content, v \in Verdict \cup {Nil} :
           /\ Produces(t, BytesIn(t), c, v)
           /\ ledger' = [ledger EXCEPT !.artifacts = [@ EXCEPT ![t] =
                [inputs |-> [i \in Members(recipe[t]) \cup kept |->
                               IF i \in kept THEN old.inputs[i] ELSE BytesIn(t)[i]],
                 path |-> OutPath[t], hash |-> c, validation |-> v,
                 judged |-> About(BytesIn(t), v)]]]
           /\ disk' = [disk EXCEPT ![OutPath[t]] = c]
  /\ UNCHANGED <<recipe, file>>

\* buildTarget: an output made from the inputs' bytes, its record, and the output in place.
Build(t) ==
  /\ ledger # Torn
  /\ InputsAvailable(t)
  /\ \E c \in Content, v \in Verdict \cup {Nil} :
       /\ Produces(t, BytesIn(t), c, v)
       /\ ledger' = [ledger EXCEPT !.artifacts = [@ EXCEPT ![t] =
            [inputs |-> BytesIn(t), path |-> OutPath[t], hash |-> c, validation |-> v,
             judged |-> About(BytesIn(t), v)]]]
       /\ disk' = [disk EXCEPT ![OutPath[t]] = c]
  /\ UNCHANGED <<recipe, file>>

\* validateTarget: a declared validator judges the recorded bytes where they lie; without one
\* the provider is run again, must make the recorded bytes, and must report on them.
Judgeable(t) ==
  IF t \in DeclaresValidator
  THEN FoundBytes(ledger, t) = ledger.artifacts[t].hash
  ELSE t \in SelfReporting /\ Makes(t, BytesIn(t), ledger.artifacts[t].hash)

Validatable(t) ==
  /\ ledger.artifacts[t] # Nil
  /\ InputsAvailable(t)
  /\ Judgeable(t)

Validate(t) ==
  /\ ledger # Torn
  /\ Validatable(t)
  /\ \E v \in Verdict :
       /\ Judges(t, BytesIn(t), ledger.artifacts[t].hash, v)
       /\ ledger' = [ledger EXCEPT !.artifacts = [@ EXCEPT ![t] =
            [ledger.artifacts[t] EXCEPT !.validation = v, !.judged = BytesIn(t)]]]
  /\ UNCHANGED <<recipe, file, disk>>

\* reviewCommand: the waiver pins what the followed node resolves to.
Reviewable(a) ==
  /\ Follows[a] # Nil
  /\ Resolved(AuthoredNow, ledger.artifacts, Follows[a]) # Nil

Review(a) ==
  /\ ledger # Torn
  /\ Reviewable(a)
  /\ ledger' = [ledger EXCEPT !.reviews = [@ EXCEPT ![a] =
       Resolved(AuthoredNow, ledger.artifacts, Follows[a])]]
  /\ UNCHANGED <<recipe, file, disk>>

EditFile(a) ==
  /\ \E c \in Edits[a] : c # file[a] /\ file' = [file EXCEPT ![a] = c]
  /\ UNCHANGED <<recipe, disk, ledger>>

EditOutput(t) ==
  /\ \E c \in Edits[t] : c # disk[OutPath[t]] /\ disk' = [disk EXCEPT ![OutPath[t]] = c]
  /\ UNCHANGED <<recipe, file, ledger>>

EditRecipe ==
  /\ \E r \in Recipes : r # recipe /\ recipe' = r
  /\ UNCHANGED <<file, disk, ledger>>

Human ==
  \/ \E a \in Authored : EditFile(a)
  \/ \E t \in Derived : EditOutput(t)
  \/ EditRecipe

Commands == (\E t \in Derived : Build(t) \/ Validate(t)) \/ (\E a \in Authored : Review(a))

Next == Human \/ Commands

Spec == DirInit /\ [][Next]_dirVars
=============================================================================
