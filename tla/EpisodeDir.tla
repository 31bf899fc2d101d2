----------------------------- MODULE EpisodeDir -----------------------------
(***************************************************************************)
(* The episode directory itself: the files that every pc verb reads and    *)
(* writes, what a build consumes, and what must be true of the files       *)
(* whenever no verb is in the middle of its work.                          *)
(***************************************************************************)
EXTENDS Provenance

CONSTANTS Recipes,          \* recipes (declared inputs) the human may put in place
          OutPath,          \* path of the file the provider of each target declares
          Makes(_, _, _),   \* Makes(t, f, c): given input bytes f, t's provider may produce c
          Judges(_, _, _, _),\* Judges(t, f, c, v): given input bytes f and output c, the judge
                            \* of t may give verdict v; its rules are no input of the episode
          SelfReporting,    \* targets whose provider reports a verdict with its output
          DeclaresValidator,\* targets with a validator of their own
          Standin,          \* address in the .asset file beside an authored path, or Nil
          Stored,           \* contents the asset store can deliver
          Edits             \* contents a human may leave at a node's path (Nil: no file)

Recipe == [Derived -> Seq(Node)]

ASSUME DirAssumption ==
  /\ Recipes \subseteq Recipe
  /\ OutPath \in [Derived -> Path]
  /\ Standin \in [Authored -> Content \cup {Nil}]
  /\ Edits \in [Node -> SUBSET (Content \cup {Nil})]

VARIABLES recipe,   \* the declared inputs of each derived node: episode.yaml with its profile
          file,     \* bytes at each authored node's declared path
          disk,     \* bytes at each output path
          ledger    \* .production/ledger.yaml

DirTypeOK ==
  /\ recipe \in Recipe
  /\ file \in [Authored -> Content \cup {Nil}]
  /\ disk \in [Path -> Content \cup {Nil}]
  /\ ledger \in Ledger \cup {Torn}

DirInit ==
  /\ recipe \in Recipes
  /\ file \in [Authored -> Content \cup {Nil}]
  /\ \A a \in Authored : file[a] \in Edits[a]
  /\ disk = [q \in Path |-> Nil]
  /\ ledger = EmptyLedger

\* What the state layer resolves an authored node to: its stand-in's address, else its bytes.
AuthoredContent(a) == IF Standin[a] # Nil THEN Standin[a] ELSE file[a]

\* Mutant: a derived input resolves to what its record claims, not to the bytes on disk.
InputBytesClaimed(i, snap) ==
  IF i \in Derived
  THEN IF snap.artifacts[i] = Nil \/ disk[snap.artifacts[i].path] = Nil THEN Nil
       ELSE snap.artifacts[i].hash
  ELSE IF Standin[i] = Nil THEN file[i]
  ELSE IF file[i] = Nil THEN IF Standin[i] \in Stored THEN Standin[i] ELSE Nil
  ELSE IF file[i] = Standin[i] THEN file[i] ELSE Nil

\* The bytes a build resolves an input to, Nil when it refuses.  A stand-in is fetched when
\* no file lies beside it; a file that lies beside it must be the one it addresses.
InputBytes(i, snap) ==
  IF i \in Derived
  THEN IF snap.artifacts[i] = Nil THEN Nil ELSE disk[snap.artifacts[i].path]
  ELSE IF Standin[i] = Nil THEN file[i]
  ELSE IF file[i] = Nil THEN IF Standin[i] \in Stored THEN Standin[i] ELSE Nil
  ELSE IF file[i] = Standin[i] THEN file[i] ELSE Nil

\* What the provider of t may hand back when it reads the bytes f: an output, and a verdict if
\* it reports one.
Produces(t, f, c, v) ==
  /\ Makes(t, f, c)
  /\ IF t \in SelfReporting THEN v \in Verdict /\ Judges(t, f, c, v) ELSE v = Nil

\* The bytes a verdict is about besides the output, if there is a verdict.
About(f, v) == IF v = Nil THEN Nil ELSE f

\* The bytes at a derived node's recorded output path.
FoundBytes(snap, t) ==
  IF snap.artifacts[t] = Nil THEN Nil ELSE disk[snap.artifacts[t].path]

FoundNow == [t \in Derived |-> FoundBytes(ledger, t)]
AuthoredNow == [a \in Authored |-> AuthoredContent(a)]

\* What a status that ran alone would report.
ReportNow == [n \in Node |-> StateOf(n, recipe, ledger, AuthoredNow, FoundNow)]

\* What the declared inputs of t are on this machine: authored content, bytes of artifacts.
InputsNow(t) ==
  [i \in Members(recipe[t]) |-> IF i \in Authored THEN AuthoredNow[i] ELSE FoundNow[i]]

\* What they are to the ledger: authored content, recorded hashes of artifacts.
InputsRecorded(t) ==
  [i \in Members(recipe[t]) |-> Resolved(AuthoredNow, ledger.artifacts, i)]

-----------------------------------------------------------------------------
(* What must hold of the directory. *)

\* Every record is the record of something that happened: the provider of the target makes
\* the recorded output from the recorded inputs (build.ts record, inputs.ts resolveInputs).
RecordsAreTrue ==
  ledger # Torn =>
    \A t \in Derived : ledger.artifacts[t] # Nil =>
      Makes(t, ledger.artifacts[t].inputs, ledger.artifacts[t].hash)

\* The verdict in a record was given on the output c, by a declared validator on whatever the
\* inputs were then, by a provider on inputs it makes c from.
VerdictIsAbout(t, rec, c) ==
  /\ Judges(t, rec.judged, c, rec.validation)
  /\ t \notin DeclaresValidator => Makes(t, rec.judged, c)

\* A recorded verdict is about the recorded bytes, never about others (validate.ts).
VerdictsAreTrue ==
  ledger # Torn =>
    \A t \in Derived :
      (ledger.artifacts[t] # Nil /\ ledger.artifacts[t].validation # Nil) =>
        VerdictIsAbout(t, ledger.artifacts[t], ledger.artifacts[t].hash)

\* A fresh artifact is on disk and is what its provider makes of what its declared inputs
\* resolve to now (freshness.ts).
FreshArtifactsAreBuilt ==
  \A t \in Derived :
    ReportNow[t] = "fresh" => Makes(t, InputsRecorded(t), FoundNow[t])

\* When release-check says yes, every artifact of the graph is what its provider makes of the
\* bytes its inputs have on this machine, so a clean rebuild from the authored content gives
\* the targets that ship; and a judge of each target has passed the very bytes that ship, if
\* perhaps on other inputs than these (release.ts assessRelease).
ReleaseIsCurrent ==
  Releasable(ReportNow, ledger) =>
    /\ \A t \in Derived : Makes(t, InputsNow(t), FoundNow[t])
    /\ \A t \in Targets : /\ ledger.artifacts[t].validation = "passed"
                          /\ VerdictIsAbout(t, ledger.artifacts[t], FoundNow[t])
=============================================================================
