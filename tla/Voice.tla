------------------------------- MODULE Voice -------------------------------
(***************************************************************************)
(* A voice edition: the reviser turns a source draft and a model's reply   *)
(* into an edition that carries a coverage ledger, and the fidelity        *)
(* validator decides whether the edition keeps what the source says.       *)
(*                                                                         *)
(* A document is a frontmatter head, if any, and a sequence of lines.  A   *)
(* line of text is the sequence of the marks the validator looks for in it *)
(* (citations, numerals, terms); its other words are left out.  A hash is  *)
(* the text it is the hash of.                                             *)
(***************************************************************************)
EXTENDS Naturals, FiniteSets, Bags, SequencesExt

CONSTANTS
    Drafts,        \* the source documents
    Bodies,        \* the editions a model may write: documents with no head
    Destinations,  \* the index lists a model may declare for a source unit
    Citations, Numerals,   \* the marks that are citations, and numerals
    Lexicon,       \* the declared terms; {} when no lexicon is declared
    Requests,      \* how many voices and drafts a build request may declare
    Edits          \* what may be changed by hand before validation

None == [none |-> TRUE]

VoiceAssumption ==
    /\ \A d \in Drafts \cup Bodies : d.lines \in Seq([k : {"text", "quote",
           "blank", "fence", "delim"}, v : Seq(STRING)])
    /\ None \notin Drafts
    /\ \A b \in Bodies : b.head = None
    /\ Citations \cap Numerals = {}
    /\ Destinations \subseteq Seq(Nat)
    /\ Edits \subseteq {"source", "body", "ledger", "head"}

ASSUME VoiceAssumption

VARIABLES
    source,    \* the source draft on disk
    declared,  \* the draft whose hash the build request declares
    shown,     \* the draft the reviser read, and showed the model
    edition,   \* the edition on disk: head (the ledger) and lines, or None
    stage,     \* where the reviser and then the validator stand
    edited,    \* whether anything was changed by hand after the reviser ended
    checks,    \* the validator's report: the state of every named check
    failures,  \* the failures it recorded, each with the entry it is about
    supply,    \* per destination unit, the payload not yet spent
    at         \* the coverage entry it is at

vars == <<source, declared, shown, edition, stage, edited, checks, failures, supply, at>>

-----------------------------------------------------------------------------
(* Source units: maximal runs of lines that do not separate.               *)

Line(acc, l) ==
    CASE l.k = "fence" ->
           [acc EXCEPT !.run = Append(@, l),
                       !.fence = IF @ = None THEN l ELSE IF @ = l THEN None ELSE @]
      [] l.k = "blank" /\ acc.fence = None ->
           [acc EXCEPT !.units = IF acc.run = <<>> THEN @ ELSE Append(@, acc.run),
                       !.run = <<>>]
      [] OTHER -> [acc EXCEPT !.run = Append(@, l)]

GroupUnits(lines) ==
    LET end == FoldLeft(Line, [units |-> <<>>, run |-> <<>>, fence |-> None], lines)
    IN  IF end.run = <<>> THEN end.units ELSE Append(end.units, end.run)

\* A leading block is closed by the next delimiter; an unclosed one is text.
StripBlock(lines) ==
    LET closers == {i \in 2..Len(lines) : lines[i].k = "delim"}
    IN  IF lines # <<>> /\ lines[1].k = "delim" /\ closers # {}
        THEN SubSeq(lines, Min(closers) + 1, Len(lines)) ELSE lines

\* What follows the one block that is stripped.
Body(doc) == IF doc.head = None THEN StripBlock(doc.lines) ELSE doc.lines

Ref(contents, i) ==
    [hash |-> contents[i],
     occ |-> Cardinality({j \in 1..(i - 1) : contents[j] = contents[i]})]

DeriveUnits(doc) ==
    LET contents == GroupUnits(Body(doc))
    IN  [i \in DOMAIN contents |-> Ref(contents, i)]

-----------------------------------------------------------------------------
(* Payload: what must survive of a unit, as a sequence of <<kind, item>>.  *)

Marks(lines) ==
    FoldLeft(LAMBDA acc, l : IF l.k \in {"text", "quote"} THEN acc \o l.v ELSE acc,
             <<>>, lines)

\* The items that are in S, in their order.
Among(items, S) ==
    FoldLeft(LAMBDA acc, x : IF x \in S THEN Append(acc, x) ELSE acc, <<>>, items)

Those(items, S, kind) ==
    LET found == Among(items, S)
    IN  [i \in DOMAIN found |-> <<kind, found[i]>>]

Payload(lines) ==
    LET quoted == Among(lines, {l \in Range(lines) : l.k = "quote"})
        marks == Marks(lines)
    IN  [i \in DOMAIN quoted |-> <<"quote", quoted[i].v>>]
        \o Those(marks, Citations, "citation")
        \o Those(marks, Numerals, "numeric")
        \o Those(marks, Lexicon, "lexicon")

\* Mutant: an item counts once, however often it occurs.
PayloadSet(lines) == SetToBag(Range(Payload(lines)))

PayloadBag(lines) ==
    LET p == Payload(lines)
    IN  [x \in Range(p) |-> Cardinality({i \in DOMAIN p : p[i] = x})]

CitationsOf(lines) == Range(Marks(lines)) \cap Citations

Less(bag, x) == bag (-) SetToBag({x})

\* Spending one bag on a payload: what is left, and what was not found.
SpendItem(acc, x) ==
    IF BagIn(x, acc.left) THEN [acc EXCEPT !.left = Less(@, x)]
    ELSE [acc EXCEPT !.missing = @ \cup {x}]

Spend(bag, payload) == FoldLeft(SpendItem, [left |-> bag, missing |-> {}], payload)

\* An item is discharged by the first of the declared units that has it.
Discharge(dests, acc, x) ==
    LET first == SelectInSeq(dests, LAMBDA d : BagIn(x, acc.left[d]))
    IN  IF first = 0 THEN [acc EXCEPT !.missing = @ \cup {x}]
        ELSE [acc EXCEPT !.left[dests[first]] = Less(@, x)]

SpendAcross(sup, dests, payload) ==
    FoldLeft(LAMBDA acc, x : Discharge(dests, acc, x),
             [left |-> sup, missing |-> {}], payload)

-----------------------------------------------------------------------------
(* The reviser: the model declares, for each source unit, an operation and *)
(* the indices of the edition units it lands in; the provider builds refs. *)

Declarable ==
    [op : {"verbatim", "represented", "merged"}, to : Destinations]
    \cup {[op |-> "cut", to |-> <<>>]}

\* bare: the hash is written without its "sha256:" prefix.
Named(ref) == [hash |-> ref.hash, occ |-> ref.occ, bare |-> FALSE]
Normal(ref) == [hash |-> ref.hash, occ |-> ref.occ]
NormalDests(e) == [i \in DOMAIN e.dests |-> Normal(e.dests[i])]

BuildEdition(body, reply) ==
    LET from == DeriveUnits(shown)
        into == DeriveUnits(body)
    IN  [head |-> [hash |-> declared,
                   coverage |-> [i \in DOMAIN reply |->
                       [unit |-> Named(from[i]), op |-> reply[i].op,
                        dests |-> [j \in DOMAIN reply[i].to |->
                                      Named(into[reply[i].to[j]])],
                        reason |-> reply[i].op = "cut"]]],
         lines |-> body.lines]

\* Mutant: the number of entries is not compared with the source units.
BuildableAnyLength(body, reply) ==
    \A i \in DOMAIN reply :
       Range(reply[i].to) \subseteq DOMAIN DeriveUnits(body)

Buildable(body, reply) ==
    /\ Len(reply) = Len(DeriveUnits(shown))
    /\ \A i \in DOMAIN reply :
          Range(reply[i].to) \subseteq DOMAIN DeriveUnits(body)

VoiceInit ==
    /\ source \in Drafts
    /\ declared = source
    /\ shown = None
    /\ edition = None
    /\ stage = "requested"
    /\ edited = FALSE
    /\ checks = [c \in {} |-> "passed"]
    /\ failures = {}
    /\ supply = [d \in {} |-> EmptyBag]
    /\ at = 0

\* One voice and one draft, whose bytes have the hash the request declares.
ReadRequest ==
    /\ stage = "requested"
    /\ \E r \in Requests :
          IF r = [voices |-> 1, drafts |-> 1] /\ source = declared
          THEN shown' = source /\ stage' = "asked"
          ELSE shown' = None /\ stage' = "refused"
    /\ UNCHANGED <<source, declared, edition, edited, checks, failures, supply, at>>

\* The command fails, says nothing, or says what is no reply.
ModelFails ==
    /\ stage = "asked"
    /\ stage' = "refused"
    /\ UNCHANGED <<source, declared, shown, edition, edited, checks, failures,
                   supply, at>>

Revise ==
    /\ stage = "asked"
    /\ \E body \in Bodies, n \in {Len(DeriveUnits(shown)), 1} :
       \E reply \in [1..n -> Declarable] :
          IF Buildable(body, reply)
          THEN edition' = BuildEdition(body, reply) /\ stage' = "emitted"
          ELSE edition' = None /\ stage' = "refused"
    /\ UNCHANGED <<source, declared, shown, edited, checks, failures, supply, at>>

-----------------------------------------------------------------------------
(* Until the validator reads it, a file may be changed by hand.            *)

ByHand(what, stages) ==
    /\ what \in Edits /\ stage \in stages /\ ~edited
    /\ edited' = TRUE
    /\ UNCHANGED <<declared, shown, stage, checks, failures, supply, at>>

EditSource ==
    /\ ByHand("source", {"requested", "asked", "emitted"})
    /\ source' \in Drafts \ {source}
    /\ UNCHANGED edition

EditBody ==
    /\ ByHand("body", {"emitted"})
    /\ \E b \in Bodies : edition' = [edition EXCEPT !.lines = b.lines]
    /\ UNCHANGED source

DropHead ==
    /\ ByHand("head", {"emitted"})
    /\ edition' = [edition EXCEPT !.head = None]
    /\ UNCHANGED source

\* An entry removed, added again under the other spelling of its hash, or
\* given another operation; or the hash of the source lost.
EditLedger ==
    /\ ByHand("ledger", {"emitted"})
    /\ LET cov == edition.head.coverage
       IN  \E i \in DOMAIN cov : \E new \in
               {RemoveAt(cov, i), Append(cov, [cov[i] EXCEPT !.unit.bare = TRUE])}
               \cup {[cov EXCEPT ![i].op = op] :
                        op \in {"verbatim", "represented", "merged", "cut"}} :
              \/ edition' = [edition EXCEPT !.head.coverage = new]
              \/ edition' = [edition EXCEPT !.head.hash = None]
    /\ UNCHANGED source

-----------------------------------------------------------------------------
(* The fidelity validator: ordered checks, each of which aborts the rest.  *)

Coverage == edition.head.coverage
SourceUnits == DeriveUnits(source)
EditionUnits == DeriveUnits(edition)
Kept == {i \in DOMAIN Coverage : Coverage[i].op # "cut"}

Required == {"source_hash", "ledger_structure", "unit_accounting",
    "verbatim_quotes", "citations", "numeric_literals", "lexicon",
    "uncorroborated_units", "semantic_claim_fidelity", "voice_conformance"}

Payloads == {"verbatim_quotes", "citations", "numeric_literals", "lexicon",
    "uncorroborated_units"}

Boundary == [c \in {"semantic_claim_fidelity", "voice_conformance"} |->
    "not-checkable"]

\* A report with more checks in it; one that is there keeps its state.
Report(known, more) ==
    [c \in DOMAIN known \cup DOMAIN more |->
        IF c \in DOMAIN known THEN known[c] ELSE more[c]]

Abort(check, rest) ==
    /\ checks' = Report(Report(Report([c \in {check} |-> "failed"], checks),
                               [c \in rest |-> "aborted"]), Boundary)
    /\ failures' = {[kind |-> check, entry |-> 0]}
    /\ stage' = "decided"

Pass(check, next) ==
    /\ checks' = Report(checks, [c \in {check} |-> "passed"])
    /\ stage' = next
    /\ UNCHANGED failures

\* Without a ledger in its head the validator cannot decide.
ReadLedger ==
    /\ stage = "emitted"
    /\ stage' = IF edition.head = None THEN "undecided" ELSE "hash"
    /\ UNCHANGED <<source, declared, shown, edition, edited, checks, failures, supply, at>>

CheckSourceHash ==
    /\ stage = "hash"
    /\ CASE edition.head.hash = None ->
              Abort("ledger_structure",
                    Payloads \cup {"source_hash", "unit_accounting"})
         [] edition.head.hash = source -> Pass("source_hash", "structure")
         [] OTHER ->
              Abort("source_hash",
                    Payloads \cup {"ledger_structure", "unit_accounting"})
    /\ UNCHANGED <<source, declared, shown, edition, edited, supply, at>>

\* Refs are compared as they are written, prefix and all.
NoDuplicates ==
    \A i, j \in DOMAIN Coverage : Coverage[i].unit = Coverage[j].unit => i = j

Shares(dests, i) ==
    \E j \in DOMAIN dests \ {i} : Range(dests[i]) \cap Range(dests[j]) # {}

WellFormed(e) ==
    IF e.op = "cut" THEN e.dests = <<>> /\ e.reason
    ELSE /\ ~e.reason
         /\ e.dests # <<>>
         /\ e.op = "verbatim" => Len(e.dests) = 1

LedgerLoads ==
    /\ \A i \in DOMAIN Coverage : WellFormed(Coverage[i])
    /\ NoDuplicates
    /\ \A i \in DOMAIN Coverage : Coverage[i].op = "merged" =>
          Shares([j \in DOMAIN Coverage |-> Coverage[j].dests], i)

\* The citations a source allows, in a list that may be malformed.
Allowed(doc) == IF "allow" \in DOMAIN doc.head THEN doc.head.allow ELSE {}
Malformed(doc) == "malformed" \in DOMAIN doc.head

CheckLedgerStructure ==
    /\ stage = "structure"
    /\ IF /\ LedgerLoads
          /\ ~Malformed(source)
          /\ CitationsOf(Body(source)) \subseteq Allowed(source)
       THEN Pass("ledger_structure", "accounting")
       ELSE Abort("ledger_structure", Payloads \cup {"unit_accounting"})
    /\ UNCHANGED <<source, declared, shown, edition, edited, supply, at>>

EntriesFor(u) == {i \in DOMAIN Coverage : Normal(Coverage[i].unit) = u}

CheckUnitAccounting ==
    /\ stage = "accounting"
    /\ IF /\ \A u \in Range(SourceUnits) : Cardinality(EntriesFor(u)) = 1
          /\ \A i \in DOMAIN Coverage :
                Normal(Coverage[i].unit) \in Range(SourceUnits)
       THEN Pass("unit_accounting", "verbatim")
       ELSE Abort("unit_accounting", Payloads)
    /\ UNCHANGED <<source, declared, shown, edition, edited, supply, at>>

\* Mutant: an unresolved destination supplies its payload too.
SuppliesOfAllNamed ==
    [d \in UNION {Range(NormalDests(Coverage[i])) : i \in Kept}
        |-> PayloadBag(d.hash)]

\* One supply per distinct destination unit that resolves.  What a verbatim
\* entry copies byte for byte is spent before any other entry may claim it.
Supplies == [d \in (UNION {Range(NormalDests(Coverage[i])) : i \in Kept})
                   \cap Range(EditionUnits) |-> PayloadBag(d.hash)]

Copies(e) ==
    /\ e.op = "verbatim"
    /\ Normal(e.dests[1]) \in Range(EditionUnits)
    /\ e.dests[1].hash = e.unit.hash

SpendCopy(sup, e) ==
    IF Copies(e)
    THEN [sup EXCEPT ![Normal(e.dests[1])] = Spend(@, Payload(e.unit.hash)).left]
    ELSE sup

\* Mutant: verbatim copies spend nothing.
SpendNothingFirst ==
    /\ stage = "verbatim"
    /\ supply' = Supplies
    /\ stage' = "entries"
    /\ at' = 1
    /\ UNCHANGED <<source, declared, shown, edition, edited, checks, failures>>

SpendVerbatim ==
    /\ stage = "verbatim"
    /\ supply' = FoldLeft(SpendCopy, Supplies, Coverage)
    /\ stage' = "entries"
    /\ at' = 1
    /\ UNCHANGED <<source, declared, shown, edition, edited, checks, failures>>

Missing(e) == Range(NormalDests(e)) \ Range(EditionUnits)

Failed(kinds) == {[kind |-> k, entry |-> at] : k \in kinds}

CheckEntry ==
    /\ stage = "entries" /\ at <= Len(Coverage)
    /\ LET e == Coverage[at]
           spent == SpendAcross(supply, NormalDests(e), Payload(e.unit.hash))
           survives == e.op \in {"represented", "merged"} /\ Missing(e) = {}
       IN  /\ supply' = IF survives THEN spent.left ELSE supply
           /\ failures' = failures \cup Failed(
                 (IF e.op # "cut" /\ Missing(e) # {} THEN {"destination"} ELSE {})
                 \cup (IF e.op = "verbatim" /\ Missing(e) = {} /\ ~Copies(e)
                       THEN {"verbatim"} ELSE {})
                 \cup (IF survives THEN {x[1] : x \in spent.missing} ELSE {})
                 \cup (IF e.op = "merged" /\ ~Shares([i \in DOMAIN Coverage |->
                                                 NormalDests(Coverage[i])], at)
                       THEN {"structural"} ELSE {}))
    /\ at' = at + 1
    /\ UNCHANGED <<source, declared, shown, edition, stage, edited, checks>>

\* Mutant: only the payload kinds flip a check of the report.
CheckForPayloadKind(kind) ==
    CASE kind = "quote" -> "verbatim_quotes"
      [] kind = "citation" -> "citations"
      [] kind = "numeric" -> "numeric_literals"
      [] kind = "lexicon" -> "lexicon"
      [] OTHER -> kind

CheckForKind(kind) ==
    CASE kind = "quote" -> "verbatim_quotes"
      [] kind = "citation" -> "citations"
      [] kind = "numeric" -> "numeric_literals"
      [] kind = "lexicon" -> "lexicon"
      [] OTHER -> "op_obligations"

\* The kinds of payload that an entry with a dangling destination loses.
Unresolved(e) ==
    LET resolved == Among(NormalDests(e), Range(EditionUnits))
        union == FlattenSeq([i \in DOMAIN resolved |-> resolved[i].hash])
        lost == {x[1] : x \in Spend(PayloadBag(union), Payload(e.unit.hash)).missing}
    IN  IF e.op = "cut" \/ Missing(e) = {} THEN {}
        ELSE IF e.op = "verbatim" \/ lost = {} THEN {"op_obligations"}
        ELSE {CheckForKind(k) : k \in lost}

Affected == {CheckForKind(f.kind) : f \in failures}
            \cup UNION {Unresolved(Coverage[i]) : i \in DOMAIN Coverage}

\* The edition may cite only what the source cites, and what it allows.
ForgesNothing == CitationsOf(Body(edition)) \subseteq
                     CitationsOf(Body(source)) \cap Allowed(source)

StateOf(check) ==
    CASE check = "uncorroborated_units" -> "reported"
      [] check = "lexicon" /\ Lexicon = {} -> "not-run"
      [] check \in Affected \/ (check = "citations" /\ ~ForgesNothing) -> "failed"
      [] OTHER -> "passed"

Conclude ==
    /\ stage = "entries" /\ at > Len(Coverage)
    /\ stage' = "decided"
    /\ checks' = Report(Report(checks, Boundary), [c \in Payloads \cup
          (Affected \cap {"op_obligations"}) |-> StateOf(c)])
    /\ failures' = failures \cup
          (IF ForgesNothing THEN {} ELSE {[kind |-> "forged", entry |-> 0]})
    /\ UNCHANGED <<source, declared, shown, edition, edited, supply, at>>

BlocksVerdict(state) == state \notin
    {"passed", "not-run", "reported", "not-checkable"}

Passed ==
    /\ stage = "decided"
    /\ Required \subseteq DOMAIN checks
    /\ \A c \in DOMAIN checks : ~BlocksVerdict(checks[c])

VoiceNext ==
    \/ ReadRequest \/ ModelFails \/ Revise
    \/ EditSource \/ EditBody \/ DropHead \/ EditLedger
    \/ ReadLedger \/ CheckSourceHash \/ CheckLedgerStructure
    \/ CheckUnitAccounting \/ SpendVerbatim \/ CheckEntry \/ Conclude

-----------------------------------------------------------------------------
(* Properties.                                                             *)

\* The payload a set of entries must bring over, one claim per occurrence,
\* and the occurrences a set of edition units has to offer.
Claims(entries) == UNION {{<<i, n>> : n \in DOMAIN Payload(Coverage[i].unit.hash)}
                             : i \in entries}
Slots(units) == UNION {{<<d, n>> : n \in DOMAIN Payload(d.hash)} : d \in units}
Claimed(c) == Payload(Coverage[c[1]].unit.hash)[c[2]]
Offered(s) == Payload(s[1].hash)[s[2]]

\* Every claim is met by an occurrence of its own among the destinations its
\* entry declares: what "survives" means, with no order of spending in it.
Met(claims, slots) ==
    \A x \in {Claimed(c) : c \in claims} :
       \E f \in [{c \in claims : Claimed(c) = x} ->
                     {s \in slots : Offered(s) = x}] :
          /\ IsInjective(f)
          /\ \A c \in DOMAIN f :
                f[c][1] \in Range(NormalDests(Coverage[c[1]]))

Rewritten == {i \in DOMAIN Coverage : Coverage[i].op \in {"represented", "merged"}}
Verbatim == {i \in DOMAIN Coverage : Coverage[i].op = "verbatim"}
Unspent == Range(EditionUnits) \
               {Normal(Coverage[i].dests[1]) : i \in {j \in Verbatim : Copies(Coverage[j])}}

\* One type invariant: the report names only the checks there are, in the
\* states there are, and supplies exist only for units of the edition.
VoiceTypeOK ==
    /\ DOMAIN checks \subseteq Required \cup {"op_obligations"}
    /\ Range(checks) \subseteq {"passed", "failed", "aborted", "not-run",
                               "reported", "not-checkable"}
    /\ DOMAIN supply # {} => DOMAIN supply \subseteq Range(EditionUnits)

\* A passed verdict means that every paragraph of the source has exactly one
\* entry, that a verbatim one is in the edition byte for byte, and that every
\* quote, citation, numeral and term of the rewritten ones has an occurrence
\* of its own in a declared destination that no verbatim copy stands on.
PassedMeansKept ==
    Passed =>
        /\ \A u \in Range(SourceUnits) : Cardinality(EntriesFor(u)) = 1
        /\ \A i \in Verbatim : Copies(Coverage[i])
        /\ Met(Claims(Rewritten), Slots(Unspent))

\* Spending supply entry by entry refuses nothing that could be met, as long
\* as no entry spreads over two destinations.
FailedMeansLost ==
    /\ stage = "decided"
    /\ "unit_accounting" \in DOMAIN checks => checks["unit_accounting"] = "passed"
    /\ \A f \in failures : f.kind \in {"quote", "citation", "numeric", "lexicon"}
    /\ failures # {}
    /\ \A i \in Rewritten : Cardinality(Range(NormalDests(Coverage[i]))) = 1
    => ~Met(Claims(Rewritten), Slots(Unspent))

\* The verdict is withheld exactly when some failure was recorded: each kind
\* of failure flips a named check, and a check that was never reached blocks.
VerdictMatchesFailures == stage = "decided" => (Passed <=> failures = {})

\* What the reviser emits, and nobody touches, accounts for every paragraph
\* and names only paragraphs the validator finds, when the model's text does
\* not itself open with a frontmatter block.
OwnEditionResolves ==
    /\ edition # None /\ ~edited
    /\ StripBlock(edition.lines) = edition.lines
    => ~\E f \in failures : f.kind \in
           {"source_hash", "unit_accounting", "destination"}

\* Each occurrence of the source is discharged by a distinct occurrence of
\* the edition, those of verbatim entries included.
EveryOccurrenceDistinct ==
    Passed => Met(Claims(Rewritten \cup Verbatim), Slots(Range(EditionUnits)))

VoiceSpec == VoiceInit /\ [][VoiceNext]_vars
=============================================================================
