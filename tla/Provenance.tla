----------------------------- MODULE Provenance -----------------------------
(***************************************************************************)
(* The oracle of production-control: what the state of an episode's nodes  *)
(* is, given the ledger and the bytes on disk.  Pure functions, translated *)
(* from src/state and the schemas they read.                               *)
(*                                                                         *)
(* A byte string and its SHA-256 hash are identified: a member of Content  *)
(* stands for both, which is to say that hashing is injective.             *)
(***************************************************************************)
EXTENDS Naturals, Sequences

CONSTANTS Authored,   \* identities of manifest.authored
          Derived,    \* identities of the reachable profile targets
          Targets,    \* manifest.targets: what the episode asked for
          Follows,    \* advisory edge of each authored node, or Nil
          Content,    \* byte strings
          Path,       \* episode-relative output paths
          Nil,        \* no record, no file, no verdict, no edge
          Torn        \* a ledger file that is present and does not parse

Node == Authored \cup Derived

ASSUME NodeAssumption ==
  /\ Authored \cap Derived = {}
  /\ Nil \notin Node
  /\ Targets \subseteq Derived
  /\ Follows \in [Authored -> Node \cup {Nil}]

ASSUME ContentAssumption == Nil \notin Content

Members(s) == {s[i] : i \in DOMAIN s}

Verdict == {"passed", "failed"}

\* The inputs of a record: hashes of the inputs that were declared when it was built.
InputMap == UNION {[S -> Content] : S \in SUBSET Node}

\* judged is history: the input bytes the verdict was given on.  The file does not hold it, and
\* no operator of the oracle reads it.
Record == [inputs : InputMap, path : Path, hash : Content, validation : Verdict \cup {Nil},
           judged : InputMap \cup {Nil}]

ASSUME RecordAssumption == Nil \notin Record

ASSUME VerdictAssumption == Nil \notin Verdict

\* artifacts and reviews of .production/ledger.yaml; a review is the hash it waived.
Ledger == [artifacts : [Derived -> Record \cup {Nil}], reviews : [Authored -> Content \cup {Nil}]]

EmptyLedger == [artifacts |-> [t \in Derived |-> Nil], reviews |-> [a \in Authored |-> Nil]]

ASSUME LedgerAssumption == Torn \notin Ledger

\* An artifact's own record is what its consumers see; an authored node is its bytes.
Resolved(authored, artifacts, n) ==
  IF n \in Authored THEN authored[n]
  ELSE IF artifacts[n] = Nil THEN Nil ELSE artifacts[n].hash

\* Mutant: an input that is declared but was not recorded goes unnoticed.
InputMovedIfRecorded(rec, cur, i) == i \in DOMAIN rec.inputs /\ rec.inputs[i] # cur

InputMoved(rec, cur, i) == i \notin DOMAIN rec.inputs \/ rec.inputs[i] # cur

(***************************************************************************)
(* assessFreshness: the facts about one derived node, in the order the     *)
(* code asks for them.  cur is what each declared input resolves to, rec   *)
(* the node's own record and found the bytes at rec.path.                  *)
(***************************************************************************)
Assessment(cur, rec, found) ==
  IF \E i \in DOMAIN cur : cur[i] = Nil THEN "input-absent"
  ELSE IF rec = Nil THEN "never-built"
  ELSE IF \E i \in DOMAIN cur : InputMoved(rec, cur[i], i) THEN "input-changed"
  ELSE IF ~(DOMAIN rec.inputs \subseteq DOMAIN cur) THEN "input-removed"
  ELSE IF found = Nil THEN "output-absent"
  ELSE IF found # rec.hash THEN "output-edited"
  ELSE "consistent"

DerivedStates == {"blocked", "missing", "stale", "modified", "invalid", "fresh"}

\* Mutant: bytes that are not the recorded ones do not matter.
DerivedStateOfRecord(assessment, validated) ==
  CASE assessment = "input-absent" -> "blocked"
    [] assessment \in {"never-built", "output-absent"} -> "missing"
    [] assessment \in {"input-changed", "input-removed"} -> "stale"
    [] OTHER -> IF validated = "failed" THEN "invalid" ELSE "fresh"

\* resolveDerivedNode: the fact mapped onto the state that asserts least.
DerivedState(assessment, validated) ==
  CASE assessment = "input-absent" -> "blocked"
    [] assessment \in {"never-built", "output-absent"} -> "missing"
    [] assessment \in {"input-changed", "input-removed"} -> "stale"
    [] assessment = "output-edited" -> "modified"
    [] assessment = "consistent" -> IF validated = "failed" THEN "invalid" ELSE "fresh"

AuthoredStates == {"absent", "present", "needs-review"}

\* resolveAuthoredNode and reviewStatus: the node's own absence outranks any question
\* about the node it follows, and an unread followed node keeps the question open.
AuthoredState(own, followed, followedContent, waived) ==
  CASE own = Nil -> "absent"
    [] own # Nil /\ followed = Nil -> "present"
    [] own # Nil /\ followed # Nil /\ followedContent = Nil -> "needs-review"
    [] OTHER -> IF waived = followedContent THEN "present" ELSE "needs-review"

Validated(ledger, t) ==
  IF ledger.artifacts[t] = Nil THEN Nil ELSE ledger.artifacts[t].validation

(***************************************************************************)
(* resolveStatus: the state of node n under a recipe (the declared inputs  *)
(* of each derived node), a ledger, the content of the authored nodes and  *)
(* the bytes found at each recorded output path.                           *)
(***************************************************************************)
StateOf(n, recipe, ledger, authored, found) ==
  LET Cur(i) == Resolved(authored, ledger.artifacts, i)
  IN  IF n \in Authored
      THEN AuthoredState(authored[n], Follows[n],
                         IF Follows[n] = Nil THEN Nil ELSE Cur(Follows[n]),
                         ledger.reviews[n])
      ELSE DerivedState(Assessment([i \in Members(recipe[n]) |-> Cur(i)],
                                   ledger.artifacts[n], found[n]),
                        Validated(ledger, n))

\* Mutant: a verdict that was never given does not block.
BlockersFailedOnly(report, ledger) ==
  {t \in Targets : report[t] # "fresh" \/ Validated(ledger, t) = "failed"}
    \cup {n \in Node : report[n] \in {"needs-review", "modified"}}

\* assessRelease: a report is a function from nodes to states.
Blockers(report, ledger) ==
  {t \in Targets : report[t] # "fresh" \/ Validated(ledger, t) # "passed"}
    \cup {n \in Node : report[n] \in {"needs-review", "modified"}}

Releasable(report, ledger) == Blockers(report, ledger) = {}

Action == {"build", "rebuild", "validate", "review", "supply", "resolve-edit"}

ASSUME ActionAssumption == Nil \notin Action

\* Mutant: a node a human edited is nobody's business.
ActionForUnedited(state, validated) ==
  CASE state = "missing" -> "build"
    [] state \in {"stale", "invalid"} -> "rebuild"
    [] state = "needs-review" -> "review"
    [] state = "absent" -> "supply"
    [] state = "fresh" /\ validated = Nil -> "validate"
    [] OTHER -> Nil

\* actionFor: what a node's state calls for, Nil when it calls for nothing.
ActionFor(state, validated) ==
  CASE state = "missing" -> "build"
    [] state \in {"stale", "invalid"} -> "rebuild"
    [] state = "modified" -> "resolve-edit"
    [] state = "needs-review" -> "review"
    [] state = "absent" -> "supply"
    [] state = "fresh" /\ validated = Nil -> "validate"
    [] OTHER -> Nil

Frontier(report, ledger) ==
  {n \in Node : ActionFor(report[n], IF n \in Derived THEN Validated(ledger, n) ELSE Nil) # Nil}
=============================================================================
