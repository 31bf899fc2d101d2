# A verification project for production-control

production-control (`pc`) keeps the provenance of an *episode*: which outputs
exist, what each was made from, what a human decided about it, and whether the
episode may be released. It never schedules work. Every answer is computed from
the manifest, a ledger file and the bytes on disk; providers and validators are
subprocesses. Nothing locks the episode directory, so processes, people and
crashes can interleave with every verb.

Beside it the repository holds two tools that work as providers: a quote miner
(`editorial-tooling`) and a voice reviser with its fidelity checker
(`voice-tooling`).

This directory models all three in TLA+, checks them with TLC on small
instances and proves the most important invariants with TLAPS for every
instance. Paths below are relative to the repository root; those under `src/`
of the main program are cut to the file's name where it is unique.

    tlc -workers 2 -config serial.cfg MCEpisode     # a run
    tlapm EpisodeProofs.tla                         # the proofs of a module

## 1. Inventory

| Component | State it keeps | Operations | Hard part | What makes it correct |
|---|---|---|---|---|
| Oracle `src/state/` | none; one memo per command | freshness, status, release, frontier | reads the ledger once and the files one by one, while others write | *fresh* means made from the current inputs; *modified* means a human edited; a release ships what a clean rebuild makes |
| Ledger `src/ledger/` | `.production/ledger.yaml` | `readLedger`, `writeLedger`, `recordWaiver` | unlocked whole-file read-modify-write, non-atomic write | no waiver and no record lost or invented; a truncated file is refused |
| Build `src/providers/build.ts`, `inputs.ts`, `invoke.ts`, `run.ts` | scratch directory, staged temporary file | resolve inputs, run provider, collect one output, stage, record, rename, clean up | seven steps over shared files; any may fail or be the last | a record tells what happened; a refusal changes nothing |
| Validate `src/providers/validate.ts`, `validate-run.ts` | scratch directory | judge the artifact, or run the producer again | a snapshot kept across a subprocess; providers that are not reproducible | a verdict is about the recorded bytes and changes nothing else |
| Review `src/cli/review.ts` | none | pin what the followed node is now | same ledger rewrite | a waiver survives until a human replaces it |
| Graph `src/graph/`, `src/manifest/` | none | load, reject, reach, find cycles | sharing, unreached parts | every reachable node once; a cycle is refused |
| Assets `src/assets/`, `src/cli/asset.ts` | object store, local cache, stand-ins | `put`, `has`, `get`, `asset add` | upload, confirm, unlink; truncated cache entries | bytes leave the tree only when the store has them |
| Zones `src/zoning/`, `src/cli/audit-zones.ts` | none | classify, route, audit | declarations against responses | impure outputs never land in `dist/` |
| Chain, readme, rendering `src/cli/`, `src/readme/` | none | `explain`, `readme` | which input is to blame, and where the blame stops | a chain leads to what can be done and halts at decisions |
| Quote miner `editorial-tooling/` | candidate cache | pool, retry, batches, grounding | failures amid concurrent work; resumed runs | nothing dropped silently, nothing ungrounded emitted |
| Voice tooling `voice-tooling/` | the edition with its ledger | revise, derive units, fidelity checks, payload matching | claims that share supplies; documents that change between steps | every source unit accounted for once; every payload kept has an occurrence of its own |

The verbs meet only in files: the ledger, the outputs, and the scratch
directories. A human edits authored files, outputs and the recipe at any time.
Consumers of an artifact see its *record* when the oracle asks
(`identity.ts:173`) and its *bytes* when a build asks (`inputs.ts:296`); most of
what is subtle here comes from that difference. Everything this code is exposed
to, line by line, is listed under `hazards` in `PROJECT.json`.

## 2. Modules

| Module | Models | Code |
|---|---|---|
| `Provenance` | the oracle as pure operators over ledger, contents and found bytes; the types of records and ledgers | `src/state/*`, `src/ledger/schema.ts` |
| `EpisodeDir` | the shared files as variables, what a build resolves an input to, what must hold of the directory between commands | `src/providers/inputs.ts`, `identity.ts` |
| `Episode` | any number of `pc` processes, each verb cut into one action per access of a shared file; human edits; failing providers and renames; kills | `build.ts`, `validate.ts`, `review.ts`, `status.ts`, `store.ts`, `invoke.ts` |
| `Production` | the abstract specification: every verb as one indivisible step | what those files promise |
| `EpisodeRefines` | the refinement mapping from `Episode` to `Production` | |
| `Agent` | a worker who works down what `pc next` lists and asks again, beside a human who edits | `frontier.ts`, `next.ts` |
| `Explain` | the cause a report names and the walk back from it, over `Agent`'s states | `chain.ts`, `explain.ts`, `resolve.ts` |
| `Graph` | one call of `validateGraph`: the reach walk, the rules in their order, the three-colour search; path zones; the zone audit | `src/graph/*`, `src/zoning/classify.ts`, `audit-zones.ts`, `manifest/*` |
| `AssetStore` | `asset add` and the resolution of an authored input, one action per access of a file, a stand-in, the cache or the store | `asset.ts`, `src/assets/*` |
| `Miner` | the pool, retries, batches, the candidate cache, grounding; runs that are killed and resumed | `editorial-tooling/src/*.mjs` |
| `Voice` | a revision from the build request to the verdict: units, payloads, the reviser's ledger, every fidelity check | `voice-tooling/src/{revise,units,payload,schema,fidelity}` |
| `EpisodeProofs`, `OutputProofs`, `RefinementProofs` | theorems about `Episode`: types and records, and the ledger while one process writes; verdicts, outputs and releases; that it implements `Production` | |
| `AgentProofs`, `GraphProofs`, `AssetProofs`, `MinerProofs`, `VoiceProofs` | theorems about `Agent` with `Explain`, `Graph`, `AssetStore`, `Miner` and `Voice` | |
| `MCDir`, `MCEpisode`, `MCAgent`, `MCGraph`, `MCAssets`, `MCMiner`, `MCVoice` | values for TLC | |

`EpisodeDir`, `Episode`, `Production`, `Agent` and `Explain` build on one
another and on `Provenance`; `EpisodeRefines` joins `Episode` to `Production`.
The other four are components of their own: `Graph` yields the constants
(`Authored`, `Derived`, `Targets`, `Follows`, `Recipes`) the first group is
parameterised by, `AssetStore` refines what `Standin` and `Stored` stand for in
`EpisodeDir`, and `Miner` and `Voice` are two providers seen from inside.

### How the state corresponds

`file`, `disk`, `ledger` and `scratch` are the files themselves; `temp[p]` is
the `.pc-ingest-<uuid>` of one process; `recipe` is `episode.yaml` with its
profile, reduced to the declared inputs of each target. `job[p]` is the stack
of one process: the snapshot of ledger and recipe it loaded, the inputs resolved
so far, the hash it collected, the ledger it re-read. `waived` and `touched` are
history variables and `judged`, in a job and in a record, is a history field: the
input bytes a verdict was given on, which the ledger file does not hold. No guard
and no answer of the oracle depends on them. A member of `Content` is a byte string
and its SHA-256 at once, that is, hashing is taken to be injective. `Torn` is a
ledger file cut short by a kill, which no verb will parse.

A build is `StartBuild`, `ResolveInput` for each input in declared order,
`InputsResolved`, `EmptyScratch`, `RunProvider` or `ProviderFails`,
`CollectOutput`, `StageOutput`, `RereadLedger`, `TruncateLedger`, `WriteLedger`,
`RenameOutput` or `RenameFails`, `CleanUp`. A verdict passes through the same
actions where the code calls the same functions, and through `CheckArtifact`,
`ResolveInput` and `JudgeArtifact` or `ValidatorFails` when the target declares a
validator: the validator reads the artifact and the inputs where they lie, as they
are by then. A review is
`StartReview`, `PinFollowed` and the rewrite of the ledger. A status is
`StartStatus`, one `ReadAuthored` or `ReadOutput` per file in any order, and
`EndStatus`. `Crash` may end a process between any two of them.

Providers and validators are constants. `Makes(t, f, c)` says that the provider
of `t` may produce `c` from the bytes `f`; it is a relation, so a provider need
not be reproducible. `Judges(t, f, c, v)` says that a judge of `t`, a validator or
the provider itself, may give the verdict `v` on the output `c` beside the input
bytes `f`; it is a relation too, so a judge need be neither deterministic nor a
function of the output alone. What a human may leave at a path is `Edits`.

In `Graph` the stack of `detectCycle` is `stack`, each frame with the inputs it
has still to look at; the recursion of `reachableTargets` is `pending`, in the
order it visits. A path is its segments: a name, one that begins with a dot, or
`..`.

In `AssetStore` a process adds (`has`, `put`, pointer, write of the stand-in,
`has` again, unlink) or fetches: it reads the stand-in, and then either stats the
file and hashes it, or looks beside the stand-in, asks for the store's
configuration, and goes on to cache, store, filling the cache, placing the copy
and verifying it. `up` says whether the store can be reached; a process that was
started without a configuration stops at `AddHas`, `ReAddConfirm` or
`FetchConfig`, the last before it has looked at the cache. `Torn` is a file a kill
or a hand left short. `kept` is a history variable: what a human last put at a
path.

In `Agent` the variable `list` holds, at each node, the item of the last `pc next`
that is not yet worked on. `Look` asks for a list when the last one is done with;
`Act` runs one listed verb to its end and strikes the item off, whether the verb
changed something (`Done`), wrote what was there before, or refused (`Refused`).

In `Miner` one action is what the event loop runs between two awaits. `entry`
is the cache directory by source bytes; everything else but `bytes` is in the
memory of a process and gone with it. `said` and `mined` are history.

In `Voice` a document is a head (its frontmatter) and a sequence of lines, a
line its kind and the marks in it: citations, numerals, declared terms. A unit's
hash is its lines. Everything the checker computes from these is computed, not
chosen: units, payloads, supplies, failures, named checks, verdict. What is
chosen is the documents, the model's text and entries, and one change by hand
to the source, the body, the head or the ledger.

## 3. Runs

The episode of the `pc` runs is the chain of `tests/fixtures/chain`: *narration* is
made into a *voiceover*, that into a *podcast*; where a waiver matters the
narration follows a *script*. A second recipe adds the narration to the inputs
of the podcast. A content is the sequence of names that went into it, so
that each artifact carries its derivation and no two derivations are confused.
Two takes of the narration, two texts of the script and one hand edit of the
voiceover suffice: a property that fails needs one change of an input, one of
an output or one of the recipe, at one of two depths.

| Run | Question | Setting |
|---|---|---|
| `serial` | Do verdicts, *fresh*, the release check and a finished build mean what they say? | one process at a time, both recipes, an irreproducible voice, a validator that rejects and looks at the inputs too, providers and renames that fail |
| `shared` | Does every record stay true, and is what a status calls fresh true, while a build runs beside it? | one process that builds, one that validates and reports; edits between commands |
| `crash` | Can a kill fake a fresh artifact or a release? | one process, killed anywhere |
| `atomic` | Do the stepwise verbs implement the one-step verbs? Do waivers survive, do refusals leave the ledger alone, is *modified* only said of edited bytes? | build, validate, review with the narration held in the asset store, an irreproducible voice, a recipe that swaps the podcast's input for the script, provider failures |
| `agent` | Does working down the lists of `pc next` lead to a release, does `pc explain` lead to something that can be done, does no chain cross a pending decision? | the items of a list in any order, from any authored files, up to two edits before, between and after the items |
| `graph` | Is what `validateGraph` accepts a graph the rest can rely on, and what it refuses for a cycle or a zone rightly refused? | 24 000 manifests: three targets with up to two inputs each, shared, cyclic, dangling, unreached; paths of up to four segments |
| `assets` | Are bytes ever lost, or a build refused without cause? | one process that adds and one that fetches; kills, outages, a store that is not configured or loses what it acknowledged, damaged caches, edits between commands |
| `miner` | Is the bank whole, grounded and paid for once, and does every run end? | three sources in two chunks, two runners, two attempts; kills, a full disk, damaged entries, edited and undecodable sources |
| `voice` | Does *passed* mean that everything survived, and *failed* that something did not? | five drafts and six editions of up to three paragraphs, every coverage entry the schema lets through, one change by hand |

Three runs each refute one sentence of the repository about itself; the
quotation and the lines are under `findings` in `PROJECT.json`.

| Run | What it shows |
|---|---|
| `asset_move` | `asset add` removes a file that replaced the one it stored |
| `copied_once` | two equal paragraphs may be verbatim copies of one |
| `model_mix` | of two models that answered in one run, one is not listed |

`MCMiner` has three sources because two chunks of unequal size, one of them a
mix of cached and fresh sources, need three; more runners than chunks change
nothing. `graph` has three targets because a diamond and a cycle that is
entered from outside need three. In `voice` two claims on one supply need two
paragraphs, and a shared destination beside a spare one needs three.

### Settings that could hide something, and why they do not

* `EditsDuringRuns = FALSE` everywhere: with it TRUE, TLC refutes
  `RecordsAreTrue` in `shared` within seconds, by an edit between the hash of an
  input (`inputs.ts:211`) and the provider's read. Edits happen between any two
  commands.
* `serial`, `crash` and `atomic` have one process: what two do to each other is
  listed in section 5. `shared` states what does survive two. Nothing is claimed
  for two builds at once: they share one scratch directory per target
  (`build.ts:107`).
* `atomic` lets no rename fail and no process be killed; `serial` and `crash`
  do. A build whose rename fails keeps its record, which `Production` forbids.
* In `serial` and `crash` all derived nodes are targets of the episode, as
  `ReleaseIsCurrent` needs: a target built from a stale artifact stays fresh.
* `agent` has providers that do not fail and validators that accept. With one that rejects, `pc next` lists
  *rebuild* for ever and a reproducible provider makes the same bytes each time
  (`frontier.ts:47`); only a human's edit ends that.
* The agent finishes a list before it asks for another, as `next.ts:38` has it:
  "a frontier is a list a human works down". One that asks again after each item
  and picks freely has no such guarantee: over a hand-edited voiceover the podcast
  is built from the bytes on disk and compared with the recorded ones
  (`inputs.ts:296`, `identity.ts:173`), so it is listed for *rebuild* again at
  once, and the agent that always picks it never gets to the voiceover.
* `agent` bounds the edits by `MaxEdits`; liveness is a claim about what
  happens once the edits stop. The walk of `pc explain` goes at most `MaxDepth`
  levels down, the number of nodes: the code has no bound, but a graph with a
  cycle is refused before it is walked.
* `assets` lets one process add (`AddsFrom`), as `Recoverable` needs: a second
  one may write another stand-in, and so may leave a build that looked for the
  first one's bytes without them. `AddLosesNothing` is proved for any number.
  It has no human who replaces a file under a running command
  (`EditsDuringRuns`): `asset_move` is that case.
* `miner` has one model; `model_mix` has two. `MiningEnds` holds although the
  process may be killed, since a kill is an end.
* `OwnEditionResolves` in `voice` assumes that the model's text does not open
  with a frontmatter block of its own (`StripBlock`), and `FailedMeansLost` that
  no entry spreads over two destinations; both conditions are needed, see
  section 5.

Deadlock is checked except in `agent`, where the agent stops when nothing is
listed and its edits are used up, in `graph`, where a call returns, and in
`voice` and `copied_once`, where the validator exits.

### Fairness

`Episode` has none: `pc` schedules nothing and a process may be killed. `Agent`
assumes weak fairness of `Work`, one action for the whole agent: the agent goes
on, and its providers end. Every step of `Work` changes `list`, save a look at
which nothing is listed. So a verb that ends with the record it found, or refuses,
is a step like any other and not a stutter the fairness could pass over, and
nothing is assumed about the order of the items of one list. What keeps the agent
from repeating one item for ever is that a list is finite and is finished, an
assumption about the agent (above) and not about the code.

`Miner` assumes weak fairness of each runner's steps and of `EndRun`: the event
loop serves every runner that can go on, and a model call returns, with an
answer or an error. The second is an assumption about the adapter's subprocess:
nothing in the code puts a limit on it, and one that hangs hangs the run. Nothing is assumed about
kills, damage or which answers come.

## 4. Theorems

Every theorem holds for all values of the constants that the named assumptions
on constants allow. Those keep the kinds of values apart (`NodeAssumption`,
`RecordAssumption`, `VerdictAssumption`, `ActionAssumption`,
`NothingAssumption`, ...: *nothing* is no node, record, verdict, action or
entry) and give the other constants their types. What a theorem assumes beyond
them is in its `ASSUME`, by these names:

| Hypothesis | Meaning | Why it is needed |
|---|---|---|
| `OneBuilder`, `OneProducer`, `OneWriter` | at most one process builds; builds or validates; builds, validates or waives | nothing locks the directory: two such processes overwrite each other's ledger, output or scratch directory (section 5). Any number of processes may report, and under the first two the others may also waive |
| `~EditsDuringRuns` | no human edits while a verb runs | an input may change between its hash and the provider's read |
| `Targets = Derived` | every artifact is a target | the release check looks at the targets only |
| `DistinctOutputs` | no two targets declare one output path | nothing refuses it, and each build then spoils the other's artifact |
| `NoSelfInput`, `Ordered` | no target is its own input; every recipe can be built in some order | what `validateGraph` makes sure of: `AcceptedCorrect` |
| `"rename" \notin Faults`, `"crash" \notin Faults` | the last rename does not fail; no process is killed | a build records before it renames (`build.ts:140-150`) |
| `OneAdder`, `EditsDuringRuns = FALSE` | one `asset add` at a time; nobody replaces a file while it is added | two write different stand-ins, and one may unlink what a build seeks under the other's; `asset_move` |

### Episode

| Theorem | States | Assumes |
|---|---|---|
| `TypeCorrect` | `[]TypeOK` | nothing |
| `RecordsCorrect`, `FreshCorrect`, `StatusCorrect` | `[]RecordsAreTrue`, `[]FreshIsBuilt`, `[]StatusFreshIsTrue` | `OneBuilder`, `~EditsDuringRuns` |
| `DecisionsCorrect`, `VerdictCorrect` | `[]DecisionsSurvive`, `VerdictKeepsRecord` | `OneWriter` |
| `RefusalCorrect` | `[]RefusalLeavesLedger` | `OneWriter`, no failing rename |
| `VerdictsCorrect` | `[]VerdictsAreTrue` | `OneProducer`, `~EditsDuringRuns` |
| `ReleaseCorrect` | `[]ReleasedIsCurrent` | the same, `Targets = Derived` |
| `ModifiedCorrect` | `[]ModifiedMeansEdited` | `OneWriter`, `DistinctOutputs`, no failing rename, no kill; edits at any time |
| `BuildCorrect` | `[]BuildSettles` | `OneWriter`, `~EditsDuringRuns`, `DistinctOutputs`, `NoSelfInput` |
| `VerbsCorrect` | `VerbsAreAtomic`, the refinement of `Production` | `OneWriter`, `~EditsDuringRuns`, no failing rename, no kill |

All of them allow providers that fail or are irreproducible, any graph and any
number of status scans; those that do not say otherwise allow kills and failing
renames.

*The argument.* None of these properties is inductive: a process carries what it
has read for many steps before it writes. Each proof rests on an invariant that
says, for every stage of a verb, how what the process has in hand relates to the
files.

* `TypeInv` adds to `TypeOK` what a job holds at each stage (`JobsOK`), since
  what `WriteLedger` writes is made of it.
* `RecInv`: until the provider has run, the bytes it will read are the ones that
  were hashed; after that, what is in the scratch directory, then the hash taken
  from it, is what the provider makes of them (`BuildOK`). The ledgers a process
  carries are as true as the one on disk (`CarriedOK`), so that a verdict which
  puts back an old record puts back a true one.
* `LedgerInv`: until the writer truncates the ledger it is the one the verb
  loaded, what it re-read is that one, and a refusal comes before the write
  (`HeldOK`).
* `ProducerInv`: a resolved input still is what it was resolved to and the
  declared inputs are those resolved or still to do (`InputsOK`); the output in
  hand is made of them (`BuiltOK`); a verdict in hand was given on the recorded
  bytes beside those inputs (`JudgedOK`), also where the producer was run again
  and might have made others.
* `PlaceInv`: the recorded bytes lie at the declared path, or a human was there
  last, or a build has them in its temporary file and is about to rename it.
* `SettleInv`: after the rename the record, the file and the inputs still agree.

Each action has a lemma for each invariant; steps of the other processes are
one lemma, since all they may touch is their own job. `FreshCorrect` and
`StatusCorrect` follow from `RecInv` by `FreshIsMade`: only the fact
*consistent* maps to *fresh*, and it says that the recorded inputs are the
declared ones with the hashes they resolve to and that the found bytes are the
recorded ones. `ReleaseCorrect` adds that, when all artifacts are fresh, a
recorded hash is the hash of the bytes on disk, so what inputs are to the ledger
is what they are on this machine. Of the verdicts that ship it says what the code
sees to: each was given on the shipped bytes and is a pass. It does not say that the
judge would pass them beside today's inputs, and it need not (section 5).

*The refinement.* `EpisodeRefines` maps the ledger to the one the writer found,
while that is cut short, and the disk to the one after the rename, once the new
ledger is written (`ledgerBar`, `diskBar`). A verb then takes its one step of
`Production` where it writes the ledger: `WriteIsAtomic` shows that step to be a
`Build`, a `Validate` or a `Review` of the mapped state, from `ProducerInv`,
`LedgerInv` and `PinInv` (a waiver in hand is the content of the node it
follows). Every other step of a verb, the truncation and the rename included, is
a stutter.

### Agent

`BlockedCorrect`: `AgentSpec => []BlockedMeansActionable`, given `Ordered`. While
nothing is listed, every authored node is there and every artifact is fresh with
a verdict that passed, or blocked (`NothingListed`). Of the blocked ones take one
of least rank: the input that blocks it resolves to nothing, so it is neither
authored nor fresh, and it is not blocked either. So none is, and nothing blocks
the release.

`DecisionsStopCorrect`: `AgentSpec => []DecisionsStopTheChain`, for every graph.
`Below` lists what the walk shows below a node, level by level (`BelowIs`). Such a
list *hangs* from its node: each link is a declared input of the node, right below
it, or of an artifact at an earlier link. Lists that hang from a node can be laid
end to end (`HangTogether`), and an input followed by what hangs from it hangs
from the node (`DescendHangs`), so every list does (`BelowHangs`).

`LeadsCorrect`: `AgentSpec => []ExplainLeadsToWork`, given `Ordered`. A blocked
artifact is followed to one input, which resolves to nothing (`BlockedIsFollowed`)
and so is listed for work or is blocked itself (`GoneIsWork`). Each step leaves
fewer artifacts before the node in the order (`UpToShrinks`), and there are no more
than `MaxDepth`: the walk finds work before its bound ends it (`WorkBelow`).

### Graph

For every catalogue and set of manifests, from `GraphAssumption` alone:
`GraphTypeCorrect`, `ReachIsClosure`, `SearchNeverRepeats`, `AcceptedCorrect`,
`RefusedCorrect`, `AuditCorrect` and `ZoneCorrect`, that is, every invariant of
the run `graph`.

*The walk.* `ReachedIsClosure` is about a finished walk, so `WalkInv` speaks of
an unfinished one, in two halves: what was reached and what is pending together
miss nothing (`Found`), and every closed set with the episode's targets holds
all of both (`Needed`). When nothing is pending they say *closed* and *least*.

*The search.* `SearchInv` ties the colours to the stack: the gray targets are
those on it, once each (`OnPath`), each an input of the one below
(`PathOfInputs`), and the inputs a frame has looked at are black
(`LookedAt`). Of an accepted episode the order in which targets can be built is
put together on the way: a target that turns black is ranked above everything
ranked so far (`Ordered`). Of a refused one, any such order would have to fall
along the path (`Falling`), and the input that closes the cycle would lie below
itself.

*The zones.* `Normalize` is a fold, so what it computes needs induction over the
path. `StacksFold` shows that the fold satisfies its own recursion, and
`StackAlways` that after every prefix the stack holds the segments that climb to
a level and are not climbed out of again (`Opened`), unless the path has left
the episode's directory, which `RelativePathSchema` refuses. The library's
induction theorems take a predicate as a parameter, which no installed prover
can instantiate; `LeastNatural` (every non-empty set of naturals has a least
member) takes a set, and serves as well: the least prefix that fails has a
predecessor that does not.

### AssetStore

| Theorem | States | Assumes |
|---|---|---|
| `AddLosesNothing` | `[]NothingLost` | `EditsDuringRuns = FALSE`; any number of processes add |
| `AssetTypeCorrect` | `[]AssetTypeOK` | the same |
| `DamageNeverRefuses` | `RefusedForCause` | the same, `OneAdder` |
| `RecoverCorrect` | `[]Recoverable` | the same, `OneAdder` |

All allow kills, outages, damage and a store that loses what it acknowledged.
`NothingLost` is about one instant, the unlink. `AssetInv` says what every
process on its way there knows: a process that adds holds the bytes that are at
its path (`AddsTheFile`), and past the second `has` the store holds them
(`FileIsKept`); buckets only grow. `Recoverable` needs besides that the one process
that adds finds the stand-in it has written when it unlinks (`RecoverInv`).
`RefusedForCause` names the cause at each access at which a build can refuse.
Between two of its accesses an `asset add` may finish, so a build that has found no
stand-in and then no file is only excused if the bytes are in the store by then,
under a stand-in that names them (`MovedAway`): that follows from `Recoverable` and
from what such a build found before (`Found`, `GoneIsMoved`). That a copy never
refuses rests on a process verifying the bytes it placed (`Placed`).

### Miner

From `MinerAssumption` and `NothingAssumption`, for any number of sources,
runners and attempts: `BankWhole`, `BankGrounded`, `ReportSettled`,
`FailureStopsClaims` and `NothingPaidTwice`, that is, every safety property of
the run `miner`. `MinerInv` says that every chunk is unclaimed, failed, in a
runner's hands or yielded whole (`ChunkOK`); that a runner has found or still
has to ground exactly the sources of its chunk, and that what it found is in the
bytes (`WorkOK`); that a runner stops only when a chunk has failed or none is
left; and that the cache has a usable entry for whatever was mined.

### Voice

From `VoiceAssumption` alone, which gives the drafts, bodies and index lists
their types, for any documents, lexicons, replies and edits by hand:

| Theorem | States |
|---|---|
| `VoiceTypeCorrect` | `[]VoiceTypeOK` |
| `VerdictMatches` | `[]VerdictMatchesFailures` |
| `OwnEditionCorrect` | `[]OwnEditionResolves` |
| `PassedMeans` | `[]PassedMeansKept` |
| `FailedMeans` | `[]FailedMeansLost` |

*The argument.* `VoiceInv` types the documents and the ledger; says which checks
have a state at each stage, and which of them have passed (a verdict cannot
pass while one is missing); that the kinds of the failures recorded so far are
those whose check `Conclude` fails; and, for an edition nobody touched, that its
entries are those of the draft that was shown, in order, and name units of its
own text (`OwnEditionResolves` when the validator gets there). The validator's
work is done in folds over lines, marks and entries. What each of them computes
is proved by taking the least prefix at which it would fail (`LeastNatural`, as
for `Normalize`): `FoldStepsOf` unrolls a fold into the sequence of its values,
and the lemmas about `GroupUnits`, `Payload`, `Spend` and `SpendAcross` go from
one value to the next.

*Spending and assigning.* The code spends bags; the two properties speak of an
injective assignment of occurrences to claims. `KeptInv` keeps such an
assignment for the entries that are past, as long as nothing failed, together
with a reserve: of no item does a supply hold more than there are occurrences
that no claim stands on (`Assigned`). It starts empty, when the verbatim copies
have used up the units they stand on (`StartAssigned`), and grows by one with
every item that is discharged (`AssignsOneMore`, `EntryAssigns`). `LostInv` says
the converse: what a supply has lost is no more than what is claimed of its unit
(`Balanced`), so an item that is not found is claimed more often than it is
there (`Overdrawn`, `EntryBalances`); when every entry names one unit those
claims have nowhere else to go, and the pigeonhole principle refutes any
assignment (`OverdrawnFails`).

### Only model-checked

* Liveness under fairness and `ENABLED` are beyond the prover:
  `FrontierLeadsToRelease` and `MiningEnds`.
* The three runs that expect a violation.

## 5. Known divergences

Beside the three findings, places where the code does other than the repository
says, met while modelling. The first seven are behaviours of `Episode` and
`Agent` as they stand.

* A build whose final rename fails is refused with its record already written
  (`build.ts:140-150`), against `build.ts:97-99`.
* A waiver recorded between the read and the write of a build's ledger is lost
  (`build.ts:400`, `store.ts:121-131`), against `build.ts:368-371`.
* A verdict writes back the record loaded when `validate` started
  (`validate.ts:59`), over one a build wrote meanwhile, against
  `validate.ts:190-192`.
* A declared validator is handed the inputs as they are when `validate` runs
  (`validate.ts:166-172`), compared with nothing, against `contract.ts:162-163`
  ("the same resolved inputs the build saw") and `173`. Build a target from an
  input, edit the input, validate, take the edit back: the target is fresh, passed
  and releasable, and no validator has seen it beside the input it was made from.
  The field `judged` of a record tells which inputs a verdict was given on: asked
  whether it always equals `inputs`, TLC refutes it in the setting of `crash` within
  seconds, by a trace without a kill.
* `pc build` over a hand-edited output replaces the bytes, where
  `validate.ts:160-162` says it records them.
* A target built from a stale artifact stays fresh until that is rebuilt
  (`identity.ts:173`), against `specs/001-episode-production-contract/spec.md:420`.
* `pc next` lists a target whose input has a record and no file, which build
  refuses (`frontier.ts:38`, `inputs.ts:296-304`), against
  `specs/001-episode-production-contract/contracts/cli.md:55`.
* `pc explain` halts at a node that needs review with "its own bytes have not
  changed" (`chain.ts`, `HALT_PENDING_DECISION`) also when they have: a stale
  artifact whose changed input is such a node gets that sentence.
* The lenient audit builds its graph without rule 6: an identity that is both
  authored in a dot-zone and a reached target is reported clean
  (`graph/build.ts:65-93`, `audit-zones.ts:170-180`).
* A kill while a stand-in is written leaves an empty one, which every later
  `asset add` refuses; two processes that add one path race at the unlink, and
  the second fails though the work is done.
* A build that has found no stand-in refuses an input although the store has its
  bytes, when an `asset add` writes the stand-in and moves the file away meanwhile
  (`pointer.ts:113-120`, `inputs.ts:211`); the next build finds it. The same holds
  for one that finds a stand-in and a file, which is gone when it is hashed
  (`inputs.ts:159`, `193`).
* Without a configured store a build refuses a stand-in whose bytes are in the
  cache: the configuration is read first (`config.ts:117`).
* A cache entry with a candidate whose `corrections` is no array passes
  `isUsableEntry` (`cache.mjs:221`) and throws when it is used.
* An edition whose text opens with a frontmatter block of its own does not keep
  its units when the ledger is put in front of it, against
  `ledger-build.ts:20-23`.
* Two readers of one edition disagree about its head: `derive.ts` strips a block
  between two lines that are exactly `---`, while the regular expression of
  `check-ledger-structure.ts:21` sees no block where nothing lies between the
  fences and closes one at any line that begins with `---`. `Voice` has one
  `StripBlock` for both, so a head is one the two agree on: a ledger that is not
  empty, with no such line in it.
* Greedy spending may refuse a ledger that some assignment would satisfy, when
  an entry spreads over two destinations (`match.ts:166-181`).
* `loadLedger` compares hashes as they are spelt: `abc` and `sha256:abc` are no
  duplicates to it, and only unit accounting catches them.

## 6. Not modelled

Rendering, option parsing, exit codes, messages and the generated readme: no
state others read. Symlink and path containment in `stage` and `hash/path.ts`:
they need a file system with links. Spawning and output parsing in the model
adapters, the prompts: I/O and text. The quote corrections, edits and validator
of `editorial-tooling`: text checks over one document with nothing that
interleaves. The regular expressions of the voice payloads, line terminators,
the reader of voices. The wire protocol of the object store. The scripts under
`.specify` and the records under `.stack-control`: vendored. Times (`built_at`,
`at`), producers and reasons in records are left out: no decision of the code
reads them.

## 7. Plan

Done: every module of section 2, and a theorem for every safety property of the
passing runs. Left: the hazards without a property (section 5).
