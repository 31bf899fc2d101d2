----------------------------- MODULE MinerProofs -----------------------------
(***************************************************************************)
(* The quote miner's bank is whole and grounded, a run that has reported   *)
(* is over, and nothing answered is asked again: for any number of         *)
(* sources, runners and attempts, and any model.                           *)
(***************************************************************************)
EXTENDS Miner, FiniteSetTheorems, TLAPS

Phases == {"off", "mining", "done", "failed"}
Busy == {"resolve", "call", "ground"}

Work == [at : Busy \cup {"off", "pull", "stopped"}, chunk : Nat,
         left : SUBSET Source, asked : SUBSET Source,
         cached : UNION {[S -> Entry] : S \in SUBSET Source}, attempt : Nat,
         answers : UNION {[S -> Answers] : S \in SUBSET Source}, got : Yields]

MinerTypeOK ==
  /\ bytes \in [Source -> Text]
  /\ entry \in [Text -> Entry \cup {Nil, Junk}]
  /\ phase \in Phases
  /\ next \in Nat \ {0}
  /\ failures \in SUBSET Chunks
  /\ results \in [Chunks -> Yields \cup {Nil}]
  /\ runner \in [Runner -> Work]
  /\ identity \in Model \cup {Command}
  /\ mined \in SUBSET Text

\* What a runner has in hand of its chunk.
WorkOK(r) ==
  LET j == runner[r] IN
  /\ j.at \in Busy => j.chunk \in Chunks
  /\ j.at = "resolve" => j.got = <<>>
  /\ j.at \in {"call", "ground"} => DOMAIN j.got \cup j.left = Chunk(j.chunk)
  /\ j.at = "stopped" => failures # {} \/ next \notin Chunks
  /\ \A s \in DOMAIN j.got : \A c \in j.got[s] : In(c, bytes[s])

\* A chunk is unclaimed, failed, being worked on, or yielded whole and grounded.
ChunkOK(k) ==
  /\ \/ k >= next \/ k \in failures \/ results[k] # Nil
     \/ \E r \in Runner : runner[r].at \in Busy /\ runner[r].chunk = k
  /\ results[k] # Nil =>
       /\ DOMAIN results[k] = Chunk(k)
       /\ \A s \in DOMAIN results[k] : \A c \in results[k][s] : In(c, bytes[s])

\* Between runs nothing is left of a run but the cache.
RestOK ==
  phase = "off" => /\ failures = {}
                   /\ runner = [r \in Runner |-> Off]
                   /\ results = [k \in Chunks |-> Nil]
                   /\ next = 1

SettledOK ==
  phase \in {"done", "failed"} => /\ \A r \in Runner : runner[r].at = "stopped"
                                  /\ phase = "done" <=> failures = {}

MinerInv ==
  /\ MinerTypeOK
  /\ RestOK /\ SettledOK
  /\ \A r \in Runner : WorkOK(r)
  /\ \A k \in Chunks : ChunkOK(k)
  /\ \A t \in mined : Usable(entry[t])

-----------------------------------------------------------------------------
(* Chunks, runners and what a runner starts with.                          *)

LEMMA ChunkNumbers ==
  /\ Chunks \subseteq Nat \ {0}
  /\ \A n \in Nat \ {0} : n \notin Chunks => \A k \in Chunks : k < n
<1> DEFINE m == (N + BatchSize - 1) \div BatchSize
<1>1. m \in Int
  BY MinerAssumption
<1> HIDE DEF m
<1>2. Chunks = 1..m
  BY DEF Chunks, m
<1> QED
  BY <1>1, <1>2

LEMMA SomeRunner == Chunks # {} => Runner # {}
<1> DEFINE m == (N + BatchSize - 1) \div BatchSize
<1>1. m \in Int
  BY MinerAssumption
<1> HIDE DEF m
<1>2. Chunks = 1..m
  BY DEF Chunks, m
<1> SUFFICES ASSUME Chunks # {}  PROVE 1 \in Runner
  OBVIOUS
<1>3. m >= 1
  BY <1>1, <1>2
<1>4. Cardinality(Chunks) = m
  BY <1>1, <1>2, <1>3, FS_Interval
<1> QED
  BY <1>1, <1>3, <1>4, MinerAssumption DEF Runner

LEMMA ChunkSources == \A k : Chunk(k) \subseteq Source
BY DEF Chunk

LEMMA NothingInHand ==
  /\ <<>> \in UNION {[S -> Entry] : S \in SUBSET Source}
  /\ <<>> \in UNION {[S -> Answers] : S \in SUBSET Source}
  /\ <<>> \in Yields
  /\ DOMAIN <<>> = {}
<1>1. DOMAIN <<>> = {}
  OBVIOUS
<1>2. \A T : <<>> \in [{} -> T]
  OBVIOUS
<1> QED
  BY <1>1, <1>2 DEF Yields

\* A runner with nothing in hand.
LEMMA OffHanded ==
  ASSUME NEW at \in Busy \cup {"off", "pull", "stopped"}, NEW k \in Nat
  PROVE  /\ [Off EXCEPT !.at = at, !.chunk = k] \in Work
         /\ [Off EXCEPT !.at = at, !.chunk = k].at = at
         /\ [Off EXCEPT !.at = at, !.chunk = k].chunk = k
         /\ [Off EXCEPT !.at = at, !.chunk = k].got = <<>>
BY NothingInHand DEF Off, Work

LEMMA OffStops ==
  ASSUME NEW at \in Busy \cup {"off", "pull", "stopped"}
  PROVE  /\ [Off EXCEPT !.at = at] \in Work
         /\ [Off EXCEPT !.at = at].at = at
         /\ [Off EXCEPT !.at = at].got = <<>>
BY NothingInHand DEF Off, Work

LEMMA OffIsWork == Off \in Work /\ Off.at = "off" /\ Off.got = <<>>
BY NothingInHand DEF Off, Work

-----------------------------------------------------------------------------
(* A step of one runner.                                                   *)

\* What a runner's step leaves to show of the others and of the chunks it does not finish.
LEMMA RunnerStep ==
  ASSUME MinerInv, NEW r \in Runner, NEW j \in Work, phase = "mining", Set(r, j),
         UNCHANGED <<bytes, phase, results>>,
         failures \subseteq failures', failures' \in SUBSET Chunks,
         next' \in {next, next + 1},
         next' = next + 1 => (j.at \in Busy /\ j.chunk = next) \/ next \notin Chunks,
         identity' \in Model \cup {Command},
         entry' \in [Text -> Entry \cup {Nil, Junk}], mined' \in SUBSET Text,
         \A t \in mined' : Usable(entry'[t]),
         runner[r].at \in Busy =>
           \/ j.at \in Busy /\ j.chunk = runner[r].chunk
           \/ runner[r].chunk \in failures',
         WorkOK(r)'
  PROVE  MinerInv'
<1>1. /\ runner \in [Runner -> Work] /\ next \in Nat \ {0}
      /\ results \in [Chunks -> Yields \cup {Nil}] /\ bytes \in [Source -> Text]
  BY DEF MinerInv, MinerTypeOK
<1>2. runner' \in [Runner -> Work] /\ runner'[r] = j
      /\ \A q \in Runner : q # r => runner'[q] = runner[q]
  BY <1>1 DEF Set
<1>3. next' \in Nat \ {0} /\ next <= next'
  BY <1>1
<1>4. MinerTypeOK'
  BY <1>2, <1>3 DEF MinerInv, MinerTypeOK
<1>5. RestOK' /\ SettledOK'
  BY DEF RestOK, SettledOK
<1>6. next \notin Chunks => next' \notin Chunks
  BY <1>1, <1>3, ChunkNumbers
<1>7. ASSUME NEW q \in Runner, q # r  PROVE WorkOK(q)'
  BY <1>2, <1>6, <1>7 DEF MinerInv, WorkOK
<1>8. ASSUME NEW k \in Chunks  PROVE ChunkOK(k)'
  <2>1. ChunkOK(k) /\ k \in Nat
    BY ChunkNumbers DEF MinerInv
  <2>2. results'[k] # Nil =>
          /\ DOMAIN results'[k] = Chunk(k)
          /\ \A s \in DOMAIN results'[k] : \A c \in results'[k][s] : In(c, bytes'[s])
    BY <2>1 DEF ChunkOK
  <2>3. CASE k >= next
    <3>1. k >= next' \/ (k = next /\ next' = next + 1)
      BY <1>1, <2>1, <2>3
    <3> QED
      BY <1>2, <2>2, <3>1 DEF ChunkOK
  <2>4. CASE k \in failures \/ results[k] # Nil
    BY <2>2, <2>4 DEF ChunkOK
  <2>5. CASE \E q \in Runner : runner[q].at \in Busy /\ runner[q].chunk = k
    BY <1>2, <2>2, <2>5 DEF ChunkOK
  <2> QED
    BY <2>1, <2>3, <2>4, <2>5 DEF ChunkOK
<1> QED
  BY <1>4, <1>5, <1>7, <1>8 DEF MinerInv

LEMMA Failed ==
  ASSUME MinerInv, NEW r \in Runner, phase = "mining", runner[r].at \in Busy, Fail(r),
         UNCHANGED <<bytes, phase, next, results, identity, entry, mined>>
  PROVE  MinerInv'
<1> DEFINE j == [Off EXCEPT !.at = "stopped"]
<1>1. j \in Work /\ j.at = "stopped" /\ j.got = <<>>
  BY OffStops
<1>2. Set(r, j) /\ failures' = failures \cup {runner[r].chunk}
  BY DEF Fail
<1> HIDE DEF j
<1>3. runner[r].chunk \in Chunks
  BY DEF MinerInv, WorkOK
<1>4. runner'[r] = j /\ failures \in SUBSET Chunks
  BY <1>2 DEF MinerInv, MinerTypeOK, Set
<1>5. WorkOK(r)'
  BY <1>1, <1>2, <1>4, NothingInHand DEF WorkOK, Busy
<1>6. /\ identity \in Model \cup {Command} /\ entry \in [Text -> Entry \cup {Nil, Junk}]
      /\ mined \in SUBSET Text /\ \A t \in mined : Usable(entry[t])
  BY DEF MinerInv, MinerTypeOK
<1>7. \A t \in mined' : Usable(entry'[t])
  BY <1>6 DEF Usable
<1>8. next' \in {next, next + 1} /\ next' # next + 1
  BY DEF MinerInv, MinerTypeOK
<1> QED
  BY <1>1, <1>2, <1>3, <1>4, <1>5, <1>6, <1>7, <1>8, RunnerStep

\* A step that changes the job of one runner and nothing else but the model's identity.
LEMMA GoesOn ==
  ASSUME MinerInv, NEW r \in Runner, NEW j \in Work, phase = "mining", Set(r, j),
         runner[r].at \in Busy, j.at \in Busy, j.chunk = runner[r].chunk,
         UNCHANGED <<bytes, phase, next, failures, results, entry, mined>>,
         identity' \in Model \cup {Command}, WorkOK(r)'
  PROVE  MinerInv'
<1>1. /\ failures \in SUBSET Chunks /\ entry \in [Text -> Entry \cup {Nil, Junk}]
      /\ mined \in SUBSET Text /\ \A t \in mined : Usable(entry[t])
  BY DEF MinerInv, MinerTypeOK
<1>2. \A t \in mined' : Usable(entry'[t])
  BY <1>1 DEF Usable
<1>3. next' \in {next, next + 1} /\ next' # next + 1
  BY DEF MinerInv, MinerTypeOK
<1> QED
  BY <1>1, <1>2, <1>3, RunnerStep

LEMMA PullKeeps ==
  ASSUME MinerInv, NEW r \in Runner, Pull(r)
  PROVE  MinerInv'
<1>1. /\ phase = "mining" /\ runner[r].at = "pull"
      /\ UNCHANGED <<bytes, entry, phase, failures, results, identity, mined>>
  BY DEF Pull, MyTurn
<1>2. /\ failures \in SUBSET Chunks /\ entry \in [Text -> Entry \cup {Nil, Junk}]
      /\ mined \in SUBSET Text /\ identity \in Model \cup {Command} /\ next \in Nat \ {0}
      /\ \A t \in mined : Usable(entry[t])
  BY DEF MinerInv, MinerTypeOK
<1>3. \A t \in mined' : Usable(entry'[t])
  BY <1>1, <1>2 DEF Usable
<1>4. CASE failures # {} \/ next \notin Chunks
  <2> DEFINE j == [Off EXCEPT !.at = "stopped"]
  <2>1. j \in Work /\ j.at = "stopped" /\ j.got = <<>>
    BY OffStops
  <2>2. Set(r, j) /\ next' = next
    BY <1>4 DEF Pull
  <2> HIDE DEF j
  <2>3. runner'[r] = j
    BY <2>2 DEF MinerInv, MinerTypeOK, Set
  <2>4. WorkOK(r)'
    BY <1>1, <1>4, <2>1, <2>2, <2>3, NothingInHand DEF WorkOK, Busy
  <2>5. next' # next + 1
    BY <1>2, <2>2
  <2> QED
    BY <1>1, <1>2, <1>3, <2>1, <2>2, <2>4, <2>5, RunnerStep DEF Busy
<1>5. CASE failures = {} /\ next \in Chunks
  <2> DEFINE j == [Off EXCEPT !.at = "resolve", !.chunk = next]
  <2>1. j \in Work /\ j.at = "resolve" /\ j.chunk = next /\ j.got = <<>>
    BY <1>2, OffHanded DEF Busy
  <2>2. Set(r, j) /\ next' = next + 1
    BY <1>5 DEF Pull
  <2> HIDE DEF j
  <2>3. runner'[r] = j
    BY <2>2 DEF MinerInv, MinerTypeOK, Set
  <2>4. WorkOK(r)'
    BY <1>1, <1>5, <2>1, <2>2, <2>3, NothingInHand DEF WorkOK, Busy
  <2> QED
    BY <1>1, <1>2, <1>3, <2>1, <2>2, <2>4, RunnerStep DEF Busy
<1> QED
  BY <1>4, <1>5

LEMMA InHandOf ==
  ASSUME MinerInv, NEW r \in Runner
  PROVE  runner[r] \in Work /\ WorkOK(r)
BY DEF MinerInv, MinerTypeOK

LEMMA ResolveKeeps ==
  ASSUME MinerInv, NEW r \in Runner, Resolve(r)
  PROVE  MinerInv'
<1> DEFINE chunk == Chunk(runner[r].chunk)
           hits == {s \in chunk : Usable(entry[bytes[s]])}
           at == IF hits = chunk THEN "ground" ELSE "call"
           asked == chunk \ hits
           cached == [s \in hits |-> entry[bytes[s]]]
           j == [runner[r] EXCEPT !.at = at, !.left = chunk, !.asked = asked,
                                  !.cached = cached, !.attempt = 1]
<1>1. /\ phase = "mining" /\ runner[r].at = "resolve"
      /\ UNCHANGED <<bytes, entry, phase, next, results, identity, mined>>
  BY DEF Resolve, MyTurn
<1>2. runner[r] \in Work /\ WorkOK(r)
  BY InHandOf
<1>3. CASE \E s \in chunk : bytes[s] \in Undecodable
  <2>1. Fail(r)
    BY <1>3 DEF Resolve
  <2> QED
    BY <1>1, <2>1, Failed DEF Busy
<1>4. CASE ~\E s \in chunk : bytes[s] \in Undecodable
  <2>1. Set(r, j) /\ failures' = failures
    BY <1>4 DEF Resolve
  <2>2. chunk \subseteq Source /\ hits \subseteq Source /\ asked \subseteq Source
    BY ChunkSources
  <2>3. /\ bytes \in [Source -> Text] /\ entry \in [Text -> Entry \cup {Nil, Junk}]
        /\ identity \in Model \cup {Command}
    BY DEF MinerInv, MinerTypeOK
  <2>4. \A s \in hits : entry[bytes[s]] \in Entry
    BY <2>2, <2>3 DEF Usable
  <2>5. cached \in UNION {[S -> Entry] : S \in SUBSET Source}
    <3>1. cached \in [hits -> Entry]
      BY <2>4
    <3> HIDE DEF cached, hits
    <3> QED
      BY <2>2, <3>1
  <2>6. /\ j \in Work /\ j.at = at /\ j.chunk = runner[r].chunk /\ j.left = chunk
        /\ j.got = runner[r].got
    <3>1. at \in {"ground", "call"}
      OBVIOUS
    <3> HIDE DEF cached, hits, asked, chunk, at
    <3> QED
      BY <1>2, <2>2, <2>5, <3>1 DEF Work, Busy
  <2>7. at \in {"call", "ground"}
    OBVIOUS
  <2> HIDE DEF j, at
  <2>8. runner'[r] = j
    BY <2>1 DEF MinerInv, MinerTypeOK, Set
  <2>9. WorkOK(r)'
    BY <1>1, <1>2, <2>1, <2>6, <2>7, <2>8, NothingInHand DEF WorkOK, Busy
  <2> QED
    BY <1>1, <2>1, <2>3, <2>6, <2>7, <2>9, GoesOn DEF Busy
<1> QED
  BY <1>3, <1>4

LEMMA AttemptKeeps ==
  ASSUME MinerInv, NEW r \in Runner, phase = "mining", runner[r].at = "call", AttemptFailed(r),
         UNCHANGED <<bytes, entry, phase, next, results, identity, mined>>
  PROVE  MinerInv'
<1> DEFINE j == [runner[r] EXCEPT !.attempt = runner[r].attempt + 1]
<1>1. runner[r] \in Work /\ WorkOK(r) /\ identity \in Model \cup {Command}
  BY InHandOf DEF MinerInv, MinerTypeOK
<1>2. CASE runner[r].attempt < MaxAttempts
  <2>1. Set(r, j) /\ failures' = failures
    BY <1>2 DEF AttemptFailed, Set
  <2>2. /\ j \in Work /\ j.at = "call" /\ j.chunk = runner[r].chunk
        /\ j.left = runner[r].left /\ j.got = runner[r].got
    BY <1>1 DEF Work
  <2> HIDE DEF j
  <2>3. runner'[r] = j
    BY <2>1 DEF MinerInv, MinerTypeOK, Set
  <2>4. WorkOK(r)'
    BY <1>1, <2>1, <2>2, <2>3 DEF WorkOK, Busy
  <2> QED
    BY <1>1, <2>1, <2>2, <2>4, GoesOn DEF Busy
<1>3. CASE ~(runner[r].attempt < MaxAttempts)
  BY <1>3, Failed DEF AttemptFailed, Busy
<1> QED
  BY <1>2, <1>3

LEMMA AnswerKeeps ==
  ASSUME MinerInv, NEW r \in Runner, Answer(r)
  PROVE  MinerInv'
<1>1. /\ phase = "mining" /\ runner[r].at = "call"
      /\ UNCHANGED <<bytes, entry, phase, next, results, mined>>
  BY DEF Answer, MyTurn
<1>2. PICK named \in SUBSET Source, m \in Model \cup {identity} :
        IF AnswersExactly(runner[r].asked, named)
        THEN /\ \E said1 \in [named -> Answers] :
                  Set(r, [runner[r] EXCEPT !.at = "ground", !.answers = said1])
             /\ identity' = m
             /\ UNCHANGED failures
        ELSE AttemptFailed(r) /\ UNCHANGED identity
  BY DEF Answer
<1>3. CASE ~AnswersExactly(runner[r].asked, named)
  BY <1>1, <1>2, <1>3, AttemptKeeps
<1>4. CASE AnswersExactly(runner[r].asked, named)
  <2>1. PICK said1 \in [named -> Answers] :
          Set(r, [runner[r] EXCEPT !.at = "ground", !.answers = said1])
    BY <1>2, <1>4
  <2> DEFINE j == [runner[r] EXCEPT !.at = "ground", !.answers = said1]
  <2>2. identity' \in Model \cup {Command} /\ failures' = failures
    BY <1>2, <1>4 DEF MinerInv, MinerTypeOK
  <2>3. runner[r] \in Work /\ WorkOK(r)
    BY InHandOf
  <2>4. said1 \in UNION {[S -> Answers] : S \in SUBSET Source}
    OBVIOUS
  <2>5. /\ j \in Work /\ j.at = "ground" /\ j.chunk = runner[r].chunk
        /\ j.left = runner[r].left /\ j.got = runner[r].got
    BY <2>3, <2>4 DEF Work, Busy
  <2>6. Set(r, j)
    BY <2>1
  <2> HIDE DEF j
  <2>7. runner'[r] = j
    BY <2>6 DEF MinerInv, MinerTypeOK, Set
  <2>8. WorkOK(r)'
    BY <1>1, <2>2, <2>3, <2>5, <2>7 DEF WorkOK, Busy
  <2> QED
    BY <1>1, <2>2, <2>5, <2>6, <2>8, GoesOn DEF Busy
<1> QED
  BY <1>3, <1>4

\* The candidates a source yields are in its bytes, and so are those it yielded before.
LEMMA YieldGrounded ==
  ASSUME MinerInv, NEW r \in Runner, NEW s \in Source, NEW cands \in SUBSET Candidate
  PROVE  /\ Yield(r, s, cands) \in Yields
         /\ DOMAIN Yield(r, s, cands) = DOMAIN runner[r].got \cup {s}
         /\ \A x \in DOMAIN Yield(r, s, cands) : \A c \in Yield(r, s, cands)[x] : In(c, bytes[x])
<1> DEFINE got == runner[r].got
<1>1. got \in Yields /\ \A x \in DOMAIN got : \A c \in got[x] : In(c, bytes[x])
  BY InHandOf DEF Work, WorkOK
<1> HIDE DEF got
<1>2. PICK S \in SUBSET Source : got \in [S -> SUBSET Candidate]
  BY <1>1 DEF Yields
<1>3. Yield(r, s, cands) = [x \in S \cup {s} |->
                              IF x = s THEN Grounded(cands, bytes[s]) ELSE got[x]]
  BY <1>2 DEF Yield, got
<1>4. Grounded(cands, bytes[s]) \in SUBSET Candidate
      /\ \A c \in Grounded(cands, bytes[s]) : In(c, bytes[s])
  BY DEF Grounded
<1>5. Yield(r, s, cands) \in [S \cup {s} -> SUBSET Candidate]
  BY <1>2, <1>3, <1>4
<1>6. \A x \in S \cup {s} : \A c \in Yield(r, s, cands)[x] : In(c, bytes[x])
  BY <1>1, <1>2, <1>3, <1>4
<1>7. S \cup {s} \in SUBSET Source
  OBVIOUS
<1> QED
  BY <1>2, <1>5, <1>6, <1>7 DEF Yields, got

\* One source of the chunk is done.
LEMMA SourceDone ==
  ASSUME MinerInv, NEW r \in Runner, runner[r].at = "ground", NEW s \in runner[r].left,
         NEW cands \in SUBSET Candidate,
         NEW j, j = [runner[r] EXCEPT !.left = runner[r].left \ {s}, !.got = Yield(r, s, cands)],
         Set(r, j), UNCHANGED <<bytes, failures, next>>
  PROVE  /\ j \in Work /\ j.at = "ground" /\ j.chunk = runner[r].chunk
         /\ WorkOK(r)'
<1>1. runner[r] \in Work /\ WorkOK(r)
  BY InHandOf
<1>2. s \in Source
  BY <1>1 DEF Work
<1> DEFINE y == Yield(r, s, cands)
<1>3. /\ y \in Yields /\ DOMAIN y = DOMAIN runner[r].got \cup {s}
      /\ \A x \in DOMAIN y : \A c \in y[x] : In(c, bytes[x])
  BY <1>2, YieldGrounded
<1> HIDE DEF y
<1>4. /\ j \in Work /\ j.at = "ground" /\ j.chunk = runner[r].chunk
      /\ j.left = runner[r].left \ {s} /\ j.got = y
  BY <1>1, <1>3 DEF Work, y
<1>5. runner'[r] = j
  BY DEF MinerInv, MinerTypeOK, Set
<1>6. WorkOK(r)'
  BY <1>1, <1>3, <1>4, <1>5 DEF WorkOK, Busy
<1> QED
  BY <1>4, <1>6

LEMMA GroundKeeps ==
  ASSUME MinerInv, NEW r \in Runner, Ground(r)
  PROVE  MinerInv'
<1>1. /\ phase = "mining" /\ runner[r].at = "ground"
      /\ UNCHANGED <<bytes, phase, next, results, identity>>
  BY DEF Ground, MyTurn
<1>2. PICK s \in runner[r].left :
        IF s \in DOMAIN runner[r].cached THEN ReplayCached(r, s) ELSE GroundFresh(r, s)
  BY DEF Ground
<1>3. runner[r] \in Work /\ WorkOK(r) /\ s \in Source
  BY InHandOf DEF Work
<1>4. /\ bytes \in [Source -> Text] /\ entry \in [Text -> Entry \cup {Nil, Junk}]
      /\ identity \in Model \cup {Command} /\ mined \in SUBSET Text /\ failures \in SUBSET Chunks
      /\ \A t \in mined : Usable(entry[t])
  BY DEF MinerInv, MinerTypeOK
<1>5. CASE s \in DOMAIN runner[r].cached
  <2> DEFINE cands == runner[r].cached[s].cands
             left == runner[r].left \ {s}
             got == Yield(r, s, cands)
             j == [runner[r] EXCEPT !.left = left, !.got = got]
  <2>1. cands \in SUBSET Candidate
    BY <1>3, <1>5 DEF Work, Entry
  <2>2. Set(r, j) /\ UNCHANGED <<entry, mined, failures>>
    BY <1>2, <1>5 DEF ReplayCached
  <2>3. j \in Work /\ j.at = "ground" /\ j.chunk = runner[r].chunk /\ WorkOK(r)'
    <3> HIDE DEF cands
    <3> QED
      BY <1>1, <2>1, <2>2, SourceDone
  <2> HIDE DEF j
  <2> QED
    BY <1>1, <1>4, <2>2, <2>3, GoesOn DEF Busy
<1>6. CASE s \notin DOMAIN runner[r].cached /\ s \in DOMAIN runner[r].answers
  <2> DEFINE cands == runner[r].answers[s]
             left == runner[r].left \ {s}
             got == Yield(r, s, cands)
             j == [runner[r] EXCEPT !.left = left, !.got = got]
             e == [cands |-> cands, model |-> identity]
  <2>1. cands \in SUBSET Candidate
    BY <1>3, <1>6, MinerAssumption DEF Work
  <2>2. CASE /\ Set(r, j) /\ entry' = [entry EXCEPT ![bytes[s]] = e]
             /\ mined' = mined \cup {bytes[s]} /\ UNCHANGED failures
    <3>1. j \in Work /\ j.at = "ground" /\ j.chunk = runner[r].chunk /\ WorkOK(r)'
      <4> HIDE DEF cands
      <4> QED
        BY <1>1, <2>1, <2>2, SourceDone
    <3>2. e \in Entry /\ Usable(e)
      <4>1. e \in Entry
        BY <1>4, <2>1 DEF Entry
      <4> QED
        BY <4>1, NothingAssumption DEF Usable
    <3> HIDE DEF j, e
    <3>3. bytes[s] \in Text
      BY <1>3, <1>4
    <3>4. /\ entry' \in [Text -> Entry \cup {Nil, Junk}]
          /\ \A t \in Text : entry'[t] = IF t = bytes[s] THEN e ELSE entry[t]
      BY <1>4, <2>2, <3>2, <3>3
    <3>5. mined' \in SUBSET Text /\ \A t \in mined' : Usable(entry'[t])
      BY <1>4, <2>2, <3>2, <3>3, <3>4 DEF Usable
    <3>6. next' \in {next, next + 1} /\ next' # next + 1
      BY <1>1 DEF MinerInv, MinerTypeOK
    <3> QED
      BY <1>1, <1>4, <2>2, <3>1, <3>4, <3>5, <3>6, RunnerStep DEF Busy
  <2>3. CASE Fail(r) /\ UNCHANGED <<entry, said, mined>>
    BY <1>1, <2>3, Failed DEF Busy
  <2> QED
    BY <1>2, <1>6, <2>2, <2>3 DEF GroundFresh
<1>7. CASE s \notin DOMAIN runner[r].cached /\ s \notin DOMAIN runner[r].answers
  BY <1>1, <1>2, <1>7, Failed DEF GroundFresh, Busy
<1> QED
  BY <1>5, <1>6, <1>7

\* The chunk's result is put in its slot.
LEMMA CollectKeeps ==
  ASSUME MinerInv, NEW r \in Runner, Collect(r)
  PROVE  MinerInv'
<1> DEFINE j == [Off EXCEPT !.at = "pull"]
           k == runner[r].chunk
<1>1. /\ phase = "mining" /\ runner[r].at = "ground" /\ runner[r].left = {}
      /\ results' = [results EXCEPT ![k] = runner[r].got] /\ Set(r, j)
      /\ UNCHANGED <<bytes, entry, phase, next, failures, identity, mined>>
  BY DEF Collect, MyTurn, Slot
<1>2. runner[r] \in Work /\ WorkOK(r) /\ results \in [Chunks -> Yields \cup {Nil}]
      /\ runner \in [Runner -> Work]
  BY InHandOf DEF MinerInv, MinerTypeOK
<1>3. /\ k \in Chunks /\ DOMAIN runner[r].got = Chunk(k) /\ runner[r].got \in Yields
      /\ \A s \in DOMAIN runner[r].got : \A c \in runner[r].got[s] : In(c, bytes[s])
  BY <1>1, <1>2 DEF WorkOK, Busy, Work
<1>4. j \in Work /\ j.at = "pull" /\ j.got = <<>>
  BY OffStops
<1> HIDE DEF j, k
<1>5. runner' \in [Runner -> Work] /\ runner'[r] = j
      /\ \A q \in Runner : q # r => runner'[q] = runner[q]
  BY <1>1, <1>2, <1>4 DEF Set
<1>6. /\ results' \in [Chunks -> Yields \cup {Nil}] /\ results'[k] = runner[r].got
      /\ \A x \in Chunks : x # k => results'[x] = results[x]
  BY <1>1, <1>2, <1>3
<1>7. MinerTypeOK'
  BY <1>1, <1>5, <1>6 DEF MinerInv, MinerTypeOK
<1>8. RestOK' /\ SettledOK'
  BY <1>1 DEF RestOK, SettledOK
<1>9. ASSUME NEW q \in Runner  PROVE WorkOK(q)'
  <2>1. CASE q = r
    BY <1>4, <1>5, <2>1, NothingInHand DEF WorkOK, Busy
  <2>2. CASE q # r
    BY <1>1, <1>5, <2>2 DEF MinerInv, WorkOK
  <2> QED
    BY <2>1, <2>2
<1>10. ASSUME NEW x \in Chunks  PROVE ChunkOK(x)'
  <2>1. CASE x = k
    <3>1. results'[x] # Nil
      BY <1>3, <1>6, <2>1, NothingAssumption
    <3> QED
      BY <1>1, <1>3, <1>6, <2>1, <3>1 DEF ChunkOK
  <2>2. CASE x # k
    <3>1. ChunkOK(x)
      BY DEF MinerInv
    <3>2. \A q \in Runner : (runner[q].at \in Busy /\ runner[q].chunk = x) => q # r
      BY <2>2 DEF k
    <3> QED
      BY <1>1, <1>5, <1>6, <2>2, <3>1, <3>2 DEF ChunkOK
  <2> QED
    BY <2>1, <2>2
<1>11. \A t \in mined' : Usable(entry'[t])
  BY <1>1 DEF MinerInv, Usable
<1> QED
  BY <1>7, <1>8, <1>9, <1>10, <1>11 DEF MinerInv

-----------------------------------------------------------------------------
(* Runs begin, end and are killed; between them the cache and the sources change. *)

LEMMA StartKeeps ==
  ASSUME MinerInv, StartRun
  PROVE  MinerInv'
<1> DEFINE j == [Off EXCEPT !.at = "pull"]
<1>1. j \in Work /\ j.at = "pull" /\ j.got = <<>>
  BY OffStops
<1>2. /\ phase = "off" /\ phase' = "mining" /\ runner' = [r \in Runner |-> j]
      /\ UNCHANGED <<bytes, entry, next, failures, results, identity, mined>>
  BY DEF StartRun
<1> HIDE DEF j
<1>3. MinerTypeOK' /\ RestOK' /\ SettledOK'
  BY <1>1, <1>2 DEF MinerInv, MinerTypeOK, Phases, RestOK, SettledOK
<1>4. \A r \in Runner : WorkOK(r)'
  BY <1>1, <1>2, NothingInHand DEF WorkOK, Busy
<1>5. /\ results = [k \in Chunks |-> Nil] /\ next = 1
  BY <1>2 DEF MinerInv, RestOK
<1>6. \A k \in Chunks : k >= next' /\ results'[k] = Nil
  BY <1>2, <1>5, ChunkNumbers
<1>7. \A k \in Chunks : ChunkOK(k)'
  BY <1>6 DEF ChunkOK
<1>8. \A t \in mined' : Usable(entry'[t])
  BY <1>2 DEF MinerInv, Usable
<1> QED
  BY <1>3, <1>4, <1>7, <1>8 DEF MinerInv

LEMMA EndKeeps ==
  ASSUME MinerInv, EndRun
  PROVE  MinerInv'
<1>1. /\ \A r \in Runner : runner[r].at = "stopped"
      /\ phase' = IF failures = {} THEN "done" ELSE "failed"
      /\ UNCHANGED <<bytes, entry, next, failures, results, runner, identity, mined>>
  BY DEF EndRun
<1>2. MinerTypeOK' /\ RestOK' /\ SettledOK'
  BY <1>1 DEF MinerInv, MinerTypeOK, Phases, RestOK, SettledOK
<1>3. \A r \in Runner : WorkOK(r)'
  BY <1>1 DEF MinerInv, WorkOK
<1>4. \A k \in Chunks : ChunkOK(k)'
  BY <1>1 DEF MinerInv, ChunkOK
<1>5. \A t \in mined' : Usable(entry'[t])
  BY <1>1 DEF MinerInv, Usable
<1> QED
  BY <1>2, <1>3, <1>4, <1>5 DEF MinerInv

\* Nothing runs, and nothing is left but the cache.
LEMMA RestKeeps ==
  ASSUME MinerTypeOK', phase' = "off", failures' = {}, next' = 1,
         runner' = [r \in Runner |-> Off], results' = [k \in Chunks |-> Nil],
         \A t \in mined' : Usable(entry'[t])
  PROVE  MinerInv'
<1>1. RestOK' /\ SettledOK'
  BY DEF RestOK, SettledOK
<1>2. \A r \in Runner : WorkOK(r)'
  BY OffIsWork, NothingInHand DEF WorkOK, Busy
<1>3. \A k \in Chunks : k >= next' /\ results'[k] = Nil
  BY ChunkNumbers
<1>4. \A k \in Chunks : ChunkOK(k)'
  BY <1>3 DEF ChunkOK
<1> QED
  BY <1>1, <1>2, <1>4 DEF MinerInv

LEMMA ExitKeeps ==
  ASSUME MinerInv, Exit
  PROVE  MinerInv'
<1>1. MinerTypeOK'
  BY OffIsWork DEF Exit, MinerInv, MinerTypeOK, Phases
<1>2. \A t \in mined' : Usable(entry'[t])
  BY DEF Exit, MinerInv, Usable
<1> QED
  BY <1>1, <1>2, RestKeeps DEF Exit

LEMMA DamageKeeps ==
  ASSUME MinerInv, Damage
  PROVE  MinerInv'
<1>1. PICK t \in Text, e \in {Junk} \cup [cands : Answers, model : Model] :
        entry' = [entry EXCEPT ![t] = e] /\ mined' = mined \ {t}
  BY DEF Damage
<1>2. /\ phase = "off"
      /\ UNCHANGED <<bytes, phase, next, failures, results, runner, identity>>
  BY DEF Damage
<1>3. e \in Entry \cup {Junk}
  BY MinerAssumption DEF Entry
<1>4. MinerTypeOK'
  BY <1>1, <1>2, <1>3 DEF MinerInv, MinerTypeOK
<1>5. \A x \in mined' : Usable(entry'[x])
  BY <1>1 DEF MinerInv, MinerTypeOK, Usable
<1> QED
  BY <1>2, <1>4, <1>5, RestKeeps DEF MinerInv, RestOK

LEMMA EditKeeps ==
  ASSUME MinerInv, EditSource
  PROVE  MinerInv'
<1>1. MinerTypeOK'
  BY DEF EditSource, MinerInv, MinerTypeOK
<1>2. \A t \in mined' : Usable(entry'[t])
  BY DEF EditSource, MinerInv, Usable
<1> QED
  BY <1>1, <1>2, RestKeeps DEF EditSource, MinerInv, RestOK

LEMMA MinerStart == MinerInit => MinerInv
<1> SUFFICES ASSUME MinerInit  PROVE MinerInv
  OBVIOUS
<1>1. MinerTypeOK
  BY OffIsWork DEF MinerInit, MinerTypeOK, Phases
<1>2. RestOK /\ SettledOK
  BY DEF MinerInit, RestOK, SettledOK
<1>3. \A r \in Runner : WorkOK(r)
  BY OffIsWork, NothingInHand DEF MinerInit, WorkOK, Busy
<1>4. \A k \in Chunks : k >= next /\ results[k] = Nil
  BY ChunkNumbers DEF MinerInit
<1>5. \A k \in Chunks : ChunkOK(k)
  BY <1>4 DEF ChunkOK
<1> QED
  BY <1>1, <1>2, <1>3, <1>5 DEF MinerInv, MinerInit

LEMMA MinerStep ==
  MinerInv /\ [MinerNext]_minerVars => MinerInv'
<1> SUFFICES ASSUME MinerInv, [MinerNext]_minerVars  PROVE MinerInv'
  OBVIOUS
<1>1. CASE StartRun \/ EndRun \/ Exit \/ Damage \/ EditSource
  BY <1>1, StartKeeps, EndKeeps, ExitKeeps, DamageKeeps, EditKeeps
<1>2. ASSUME NEW r \in Runner, Run(r)  PROVE MinerInv'
  <2>1. CASE CallFails(r)
    BY <2>1, AttemptKeeps DEF CallFails, MyTurn
  <2> QED
    BY <1>2, <2>1, PullKeeps, ResolveKeeps, AnswerKeeps, GroundKeeps, CollectKeeps DEF Run
<1>3. CASE UNCHANGED minerVars
  BY <1>3 DEF minerVars, MinerInv, MinerTypeOK, RestOK, SettledOK, WorkOK, ChunkOK, Usable
<1> QED
  BY <1>1, <1>2, <1>3 DEF MinerNext

LEMMA MinerInvariant == MinerSpec => []MinerInv
  BY MinerStart, MinerStep, PTL DEF MinerSpec

-----------------------------------------------------------------------------
(* What the miner promises.                                                *)

\* When every runner has stopped and nothing failed, every chunk was claimed and yielded.
LEMMA AllYielded ==
  ASSUME MinerInv, phase = "done"
  PROVE  \A k \in Chunks : results[k] # Nil
<1> SUFFICES ASSUME NEW k \in Chunks  PROVE results[k] # Nil
  OBVIOUS
<1>1. failures = {} /\ \A r \in Runner : runner[r].at = "stopped"
  BY DEF MinerInv, SettledOK
<1>2. PICK r \in Runner : TRUE
  BY SomeRunner
<1>3. next \notin Chunks
  BY <1>1, <1>2 DEF MinerInv, WorkOK
<1>4. k < next /\ k \in Nat /\ next \in Nat
  BY <1>3, ChunkNumbers DEF MinerInv, MinerTypeOK
<1>5. ChunkOK(k) /\ ~(k >= next)
  BY <1>4 DEF MinerInv
<1> QED
  BY <1>1, <1>5 DEF ChunkOK, Busy

\* For any number of sources and runners, and whatever fails and is retried: a bank has a
\* slot for every chunk, and in it every source of that chunk (pool.mjs mapWithConcurrency).
THEOREM BankWhole == MinerSpec => []BankIsWhole
<1>1. MinerInv => BankIsWhole
  BY AllYielded DEF BankIsWhole, MinerInv, ChunkOK
<1> QED
  BY <1>1, MinerInvariant, PTL

\* No candidate of a bank is missing from the bytes of its source, whatever the model said
\* and whatever became of the cache (grounding.mjs groundSource).
THEOREM BankGrounded == MinerSpec => []BankIsGrounded
<1>1. MinerInv => BankIsGrounded
  BY AllYielded DEF BankIsGrounded, MinerInv, ChunkOK
<1> QED
  BY <1>1, MinerInvariant, PTL

\* A run that has reported has no runner at work, and has reported a bank if and only if no
\* chunk failed (pool.mjs mapWithConcurrency).
THEOREM ReportSettled == MinerSpec => []EndsSettled
<1>1. MinerInv => EndsSettled
  BY DEF EndsSettled, MinerInv, SettledOK
<1> QED
  BY <1>1, MinerInvariant, PTL

\* Once a chunk has failed no runner claims another, in this run (pool.mjs).
THEOREM FailureStopsClaims == MinerSpec => NoWorkAfterFailure
<1>1. ASSUME MinerInv, [MinerNext]_minerVars, failures # {}, phase = "mining"
      PROVE  next' <= next
  <2>1. next \in Nat \ {0} /\ (next' = next => next' <= next) /\ (next' = 1 => next' <= next)
    BY <1>1 DEF MinerInv, MinerTypeOK
  <2>2. next' = next \/ next' = 1
    BY <1>1 DEF MinerNext, StartRun, EndRun, Exit, Damage, EditSource, Run, Pull, Resolve,
                Answer, CallFails, Ground, Collect, minerVars
  <2> QED
    BY <2>1, <2>2
<1>2. MinerInv /\ [MinerNext]_minerVars =>
        [failures # {} /\ phase = "mining" => next' <= next]_minerVars
  BY <1>1
<1> QED
  BY <1>2, MinerInvariant, PTL DEF MinerSpec, NoWorkAfterFailure

\* A runner that goes on to call the model has just resolved its chunk.
LEMMA OnlyResolveCalls ==
  ASSUME MinerInv, [MinerNext]_minerVars, NEW r \in Runner,
         runner[r].at = "resolve", runner'[r].at = "call"
  PROVE  Resolve(r)
<1>1. runner \in [Runner -> Work] /\ phase # "off"
  BY DEF MinerInv, MinerTypeOK, RestOK, Off
<1>2. runner' # runner /\ ~EndRun /\ ~Damage /\ ~EditSource /\ ~StartRun
  BY <1>1 DEF EndRun, Damage, EditSource, StartRun
<1>3. ~Exit
  BY DEF Exit, Off
<1>4. PICK q \in Runner : Run(q)
  BY <1>2, <1>3 DEF MinerNext, minerVars
<1>5. \E j : Set(q, j)
  BY <1>4 DEF Run, Pull, Resolve, Answer, CallFails, AttemptFailed, Ground, ReplayCached,
              GroundFresh, Collect, Fail
<1>6. q = r
  BY <1>1, <1>5 DEF Set
<1> QED
  BY <1>4, <1>6 DEF Run, Pull, Answer, CallFails, Ground, Collect

\* What the cache holds an answer for is not asked of the model again, by whatever run
\* (cache.mjs, miner.mjs).
THEOREM NothingPaidTwice == MinerSpec => PaidOnce
<1>1. ASSUME MinerInv, [MinerNext]_minerVars, NEW r \in Runner,
             runner[r].at = "resolve", runner'[r].at = "call", NEW s \in runner'[r].asked
      PROVE  bytes[s] \notin mined
  <2> DEFINE chunk == Chunk(runner[r].chunk)
             hits == {x \in chunk : Usable(entry[bytes[x]])}
             at == IF hits = chunk THEN "ground" ELSE "call"
             cached == [x \in hits |-> entry[bytes[x]]]
             asked == chunk \ hits
             j == [runner[r] EXCEPT !.at = at, !.left = chunk, !.asked = asked,
                                    !.cached = cached, !.attempt = 1]
  <2>1. Resolve(r)
    BY <1>1, OnlyResolveCalls
  <2>2. runner \in [Runner -> Work]
    BY <1>1 DEF MinerInv, MinerTypeOK
  <2>3. ~Fail(r)
    BY <1>1, <2>2, OffStops DEF Fail, Set
  <2>4. Set(r, j)
    BY <2>1, <2>3 DEF Resolve
  <2>5. j.asked = asked
    <3> HIDE DEF at, cached, asked, chunk
    <3> QED
      BY <2>2 DEF Work
  <2> HIDE DEF j
  <2>6. runner'[r] = j
    BY <2>2, <2>4 DEF Set
  <2>7. s \in chunk \ hits
    BY <1>1, <2>5, <2>6
  <2> QED
    BY <1>1, <2>7 DEF MinerInv
<1>2. MinerInv /\ [MinerNext]_minerVars =>
        [\A r \in Runner :
           (runner[r].at = "resolve" /\ runner'[r].at = "call") =>
             \A s \in runner'[r].asked : bytes[s] \notin mined]_minerVars
  BY <1>1
<1> QED
  BY <1>2, MinerInvariant, PTL DEF MinerSpec, PaidOnce
=============================================================================
