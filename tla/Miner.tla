------------------------------- MODULE Miner -------------------------------
(***************************************************************************)
(* The quote miner: a pool of runners that ask a model for candidate       *)
(* quotes chunk by chunk, retry, ground the answers in the sources' bytes, *)
(* and keep what the model said in a cache that a killed run leaves for    *)
(* the next.  The runners share one thread: what a runner does between two *)
(* awaits is one step, but for the kill that may come at any time.         *)
(***************************************************************************)
EXTENDS Naturals, FiniteSets

CONSTANTS N,             \* the number of sources
          BatchSize,     \* sources per model call; 1 is the per-source seam
          Limit,         \* the concurrency bound
          MaxAttempts,   \* the retry budget of one model call
          Text,          \* what the bytes of a source may be
          Undecodable,   \* those that are not UTF-8
          Candidate,     \* passages a model may point at
          In(_, _),      \* is a candidate a byte substring of a text?
          Answers,       \* the sets of candidates a model may answer for one source
          Model,         \* the identities a response may carry
          Command,       \* the identity before any response: the command's name
          Faults,        \* which of "kill", "damage", "edit", "disk" may happen
          Nil, Junk

ASSUME MinerAssumption ==
  /\ N \in Nat /\ BatchSize \in Nat \ {0} /\ Limit \in Nat \ {0} /\ MaxAttempts \in Nat \ {0}
  /\ Undecodable \subseteq Text
  /\ Answers \subseteq SUBSET Candidate
  /\ Nil # Junk

Source == 1..N
Chunks == 1..((N + BatchSize - 1) \div BatchSize)
Chunk(k) == {s \in Source : (k - 1) * BatchSize < s /\ s <= k * BatchSize}
Runner == 1..(IF Limit < Cardinality(Chunks) THEN Limit ELSE Cardinality(Chunks))

VARIABLES bytes,     \* the text of each source
          entry,     \* the cache, by text: Nil, Junk, or what a model said
          phase,     \* of the run: "off", "mining", "done", "failed"
          next,      \* the next unclaimed chunk
          failures,  \* the chunks that failed
          results,   \* by chunk: Nil, or what each source of it yielded
          runner,    \* what each runner is doing
          identity,  \* the model identity the adapter last learned
          said,      \* history: which model produced each source's candidates, and whether then
          mined      \* history: texts whose answer this cache should hold

minerVars == <<bytes, entry, phase, next, failures, results, runner, identity, said, mined>>

Off == [at |-> "off", chunk |-> 0, left |-> {}, asked |-> {}, cached |-> <<>>,
        attempt |-> 0, answers |-> <<>>, got |-> <<>>]

Entry == [cands : SUBSET Candidate, model : Model \cup {Command}]

\* What a chunk yields: for each source of it, the candidates found in its bytes.
Yields == UNION {[S -> SUBSET Candidate] : S \in SUBSET Source}

ASSUME NothingAssumption == {Nil, Junk} \cap Entry = {} /\ Nil \notin Yields

MinerInit ==
  /\ bytes \in [Source -> Text]
  /\ entry = [t \in Text |-> Nil]
  /\ phase = "off"
  /\ next = 1
  /\ failures = {}
  /\ results = [k \in Chunks |-> Nil]
  /\ runner = [r \in Runner |-> Off]
  /\ identity = Command
  /\ said = [s \in Source |-> Nil]
  /\ mined = {}

Usable(e) == e \notin {Nil, Junk}

Grounded(c, t) == {x \in c : In(x, t)}

\* Between two awaits of one runner no other runs.
MyTurn(r) == phase = "mining" /\ \A q \in Runner \ {r} : runner[q].at # "ground"

Set(r, j) == runner' = [runner EXCEPT ![r] = j]

Fail(r) ==
  /\ failures' = failures \cup {runner[r].chunk}
  /\ Set(r, [Off EXCEPT !.at = "stopped"])

-----------------------------------------------------------------------------
\* mine: a run starts with an empty pool and a fresh adapter; the cache is what it was.
StartRun ==
  /\ phase = "off"
  /\ phase' = "mining"
  /\ runner' = [r \in Runner |-> [Off EXCEPT !.at = "pull"]]
  /\ UNCHANGED <<bytes, entry, next, failures, results, identity, said, mined>>

\* Mutant: a failure elsewhere does not stop a runner.
PullOn(r) ==
  /\ MyTurn(r)
  /\ runner[r].at = "pull"
  /\ IF next \notin Chunks
     THEN Set(r, [Off EXCEPT !.at = "stopped"]) /\ UNCHANGED next
     ELSE Set(r, [Off EXCEPT !.at = "resolve", !.chunk = next]) /\ next' = next + 1
  /\ UNCHANGED <<bytes, entry, phase, failures, results, identity, said, mined>>

\* A runner claims the next chunk, unless one has failed.
Pull(r) ==
  /\ MyTurn(r)
  /\ runner[r].at = "pull"
  /\ IF failures # {} \/ next \notin Chunks
     THEN Set(r, [Off EXCEPT !.at = "stopped"]) /\ UNCHANGED next
     ELSE Set(r, [Off EXCEPT !.at = "resolve", !.chunk = next]) /\ next' = next + 1
  /\ UNCHANGED <<bytes, entry, phase, failures, results, identity, said, mined>>

\* Every source is decoded, then looked up; only the misses are worth a model call.
Resolve(r) ==
  LET chunk == Chunk(runner[r].chunk)
      hits == {s \in chunk : Usable(entry[bytes[s]])}
  IN  /\ MyTurn(r)
      /\ runner[r].at = "resolve"
      /\ IF \E s \in chunk : bytes[s] \in Undecodable THEN Fail(r)
         ELSE /\ Set(r, [runner[r] EXCEPT !.at = IF hits = chunk THEN "ground" ELSE "call",
                                          !.left = chunk,
                                          !.asked = chunk \ hits,
                                          !.cached = [s \in hits |-> entry[bytes[s]]],
                                          !.attempt = 1])
              /\ UNCHANGED failures
      /\ UNCHANGED <<bytes, entry, phase, next, results, identity, said, mined>>

\* Every source asked for is answered, and nothing else.
AnswersExactly(asked, named) == named = asked

\* Mutant: a spent budget starts over.
AttemptAgain(r) ==
  /\ Set(r, [runner[r] EXCEPT !.attempt = IF @ < MaxAttempts THEN @ + 1 ELSE 1])
  /\ UNCHANGED failures

\* One attempt failed: try again while the budget lasts, then fail the chunk.
AttemptFailed(r) ==
  IF runner[r].attempt < MaxAttempts
  THEN Set(r, [runner[r] EXCEPT !.attempt = @ + 1]) /\ UNCHANGED failures
  ELSE Fail(r)

\* The model answers; the adapter learns which model it was before the answer is used.
Answer(r) ==
  /\ MyTurn(r)
  /\ runner[r].at = "call"
  /\ \E named \in SUBSET Source, m \in Model \cup {identity} :
       IF AnswersExactly(runner[r].asked, named)
       THEN /\ \E said1 \in [named -> Answers] :
                 Set(r, [runner[r] EXCEPT !.at = "ground", !.answers = said1])
            /\ identity' = m
            /\ UNCHANGED failures
       ELSE AttemptFailed(r) /\ UNCHANGED identity
  /\ UNCHANGED <<bytes, entry, phase, next, results, said, mined>>

\* The call fails: no spawn, a non-zero exit, or an answer that does not parse.
CallFails(r) ==
  /\ MyTurn(r)
  /\ runner[r].at = "call"
  /\ AttemptFailed(r)
  /\ UNCHANGED <<bytes, entry, phase, next, results, identity, said, mined>>

Yield(r, s, cands) == [x \in DOMAIN runner[r].got \cup {s} |->
                         IF x = s THEN Grounded(cands, bytes[s]) ELSE runner[r].got[x]]

\* Mutant: cached candidates are taken as grounded.
ReplayAsIs(r, s) ==
  /\ Set(r, [runner[r] EXCEPT !.left = @ \ {s},
                              !.got = [x \in DOMAIN @ \cup {s} |->
                                         IF x = s THEN runner[r].cached[s].cands ELSE @[x]]])
  /\ said' = [said EXCEPT ![s] = [model |-> runner[r].cached[s].model, cached |-> TRUE]]
  /\ UNCHANGED <<entry, mined, failures>>

\* A cached answer is grounded like a fresh one.
ReplayCached(r, s) ==
  /\ Set(r, [runner[r] EXCEPT !.left = @ \ {s}, !.got = Yield(r, s, runner[r].cached[s].cands)])
  /\ said' = [said EXCEPT ![s] = [model |-> runner[r].cached[s].model, cached |-> TRUE]]
  /\ UNCHANGED <<entry, mined, failures>>

\* Mutant: answers are grounded, and would be written when the run is done.
GroundOnly(r, s) ==
  /\ Set(r, [runner[r] EXCEPT !.left = @ \ {s}, !.got = Yield(r, s, runner[r].answers[s])])
  /\ said' = [said EXCEPT ![s] = [model |-> identity, cached |-> FALSE]]
  /\ mined' = mined \cup {bytes[s]}
  /\ UNCHANGED <<entry, failures>>

\* A fresh answer is grounded and at once written to the cache; a cache that cannot be
\* written fails the run.
GroundFresh(r, s) ==
  IF s \in DOMAIN runner[r].answers
  THEN \/ /\ Set(r, [runner[r] EXCEPT !.left = @ \ {s},
                                      !.got = Yield(r, s, runner[r].answers[s])])
          /\ entry' = [entry EXCEPT ![bytes[s]] = [cands |-> runner[r].answers[s],
                                                   model |-> identity]]
          /\ said' = [said EXCEPT ![s] = [model |-> identity, cached |-> FALSE]]
          /\ mined' = mined \cup {bytes[s]}
          /\ UNCHANGED failures
       \/ "disk" \in Faults /\ Fail(r) /\ UNCHANGED <<entry, said, mined>>
  ELSE Fail(r) /\ UNCHANGED <<entry, said, mined>>

\* The sources of a chunk are grounded in order, without an await between them.
Ground(r) ==
  /\ MyTurn(r)
  /\ runner[r].at = "ground"
  /\ \E s \in runner[r].left :
       /\ \A x \in runner[r].left : s <= x
       /\ IF s \in DOMAIN runner[r].cached THEN ReplayCached(r, s) ELSE GroundFresh(r, s)
  /\ UNCHANGED <<bytes, phase, next, results, identity>>

\* Mutant: results are collected in the order they are finished.
SlotOf(k) == 1 + Cardinality({x \in Chunks : results[x] # Nil})

\* The slot of a result: its chunk's place among the sources, whoever finishes first.
Slot(k) == k

Collect(r) ==
  /\ MyTurn(r)
  /\ runner[r].at = "ground" /\ runner[r].left = {}
  /\ results' = [results EXCEPT ![Slot(runner[r].chunk)] = runner[r].got]
  /\ Set(r, [Off EXCEPT !.at = "pull"])
  /\ UNCHANGED <<bytes, entry, phase, next, failures, identity, said, mined>>

\* Mutant: the first failure ends the run.
EndAtOnce ==
  /\ phase = "mining"
  /\ failures # {} \/ \A r \in Runner : runner[r].at = "stopped"
  /\ phase' = IF failures = {} THEN "done" ELSE "failed"
  /\ UNCHANGED <<bytes, entry, next, failures, results, runner, identity, said, mined>>

\* When every runner has settled, the run throws the first failure or assembles the bank.
EndRun ==
  /\ phase = "mining"
  /\ \A r \in Runner : runner[r].at = "stopped"
  /\ phase' = IF failures = {} THEN "done" ELSE "failed"
  /\ UNCHANGED <<bytes, entry, next, failures, results, runner, identity, said, mined>>

-----------------------------------------------------------------------------
\* The process ends, or is killed at any time: of all it held, the cache's entries, each
\* renamed into place, are what is left.
Exit ==
  /\ phase \in {"done", "failed"} \/ ("kill" \in Faults /\ phase = "mining")
  /\ phase' = "off"
  /\ next' = 1
  /\ failures' = {}
  /\ results' = [k \in Chunks |-> Nil]
  /\ runner' = [r \in Runner |-> Off]
  /\ identity' = Command
  /\ said' = [s \in Source |-> Nil]
  /\ UNCHANGED <<bytes, entry, mined>>

\* Between runs a full disk, a sync or a hand spoils an entry or rewrites it.
Damage ==
  /\ "damage" \in Faults
  /\ phase = "off"
  /\ \E t \in Text : \E e \in {Junk} \cup [cands : Answers, model : Model] :
       /\ entry[t] # Nil /\ entry' = [entry EXCEPT ![t] = e]
       /\ mined' = mined \ {t}
  /\ UNCHANGED <<bytes, phase, next, failures, results, runner, identity, said>>

EditSource ==
  /\ "edit" \in Faults
  /\ phase = "off"
  /\ \E s \in Source, t \in Text : bytes' = [bytes EXCEPT ![s] = t]
  /\ UNCHANGED <<entry, phase, next, failures, results, runner, identity, said, mined>>

Run(r) == Pull(r) \/ Resolve(r) \/ Answer(r) \/ CallFails(r) \/ Ground(r) \/ Collect(r)

MinerNext ==
  \/ StartRun \/ EndRun \/ Exit \/ Damage \/ EditSource
  \/ \E r \in Runner : Run(r)

\* A model call returns, one way or another, and the event loop serves every runner.
MinerSpec == /\ MinerInit /\ [][MinerNext]_minerVars
             /\ WF_minerVars(EndRun) /\ \A r \in Runner : WF_minerVars(Run(r))

-----------------------------------------------------------------------------
(* What a bank and a run promise. *)

\* A bank holds every source, in the sources' order, whoever finished first, and for each
\* nothing that is not in the bytes this run read, whatever a model or a cache said
\* (pool.mjs mapWithConcurrency, grounding.mjs groundSource, FR-014).
BankIsWhole ==
  phase = "done" =>
    \A k \in Chunks : /\ results[k] # Nil
                      /\ DOMAIN results[k] = Chunk(k)

BankIsGrounded ==
  phase = "done" => \A k \in Chunks : \A s \in DOMAIN results[k] :
                      \A c \in results[k][s] : In(c, bytes[s])

\* A run that has reported leaves no call in flight behind it, and reports a bank only if
\* nothing failed (pool.mjs: settlement of all in-flight work).
EndsSettled ==
  phase \in {"done", "failed"} =>
    /\ \A r \in Runner : runner[r].at \in {"stopped", "off"}
    /\ phase = "done" <=> failures = {}

\* Once one chunk has failed no runner claims another.
NoWorkAfterFailure == [][failures # {} /\ phase = "mining" => next' <= next]_minerVars

\* A resumed run asks the model about nothing that an earlier run, killed or failed, has had
\* answered (cache.mjs: "the next run only asks the model about what is actually missing").
PaidOnce ==
  [][\A r \in Runner :
       (runner[r].at = "resolve" /\ runner'[r].at = "call") =>
         \A s \in runner'[r].asked : bytes[s] \notin mined]_minerVars

\* A run ends: retries are bounded and no runner waits for another for ever.
MiningEnds == (phase = "mining") ~> (phase # "mining")

\* The identities a report names: those of the cached entries, and the one the adapter
\* learned last for all that was mined fresh.
Named == {said[s].model : s \in {x \in Source : said[x].cached}}
           \cup {identity : s \in {x \in Source : ~said[x].cached}}

\* Every model that contributed to a bank is named by the report of the run (miner.mjs, report:
\* "every identity that contributed is listed").
IdentitiesDisclosed == phase = "done" => \A s \in Source : said[s].model \in Named
=============================================================================
