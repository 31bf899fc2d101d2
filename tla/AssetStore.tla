----------------------------- MODULE AssetStore -----------------------------
(***************************************************************************)
(* Authored files held outside version control: the bucket, the stand-ins  *)
(* beside the authored paths, the read-through cache and the copies a      *)
(* build hands to its providers.  Processes run asset add or resolve an    *)
(* authored input of a build, each cut into one action per access of a     *)
(* shared file or of the store.  A content is its own address.             *)
(***************************************************************************)
EXTENDS Naturals, FiniteSets

CONSTANTS Path, Content, Proc, Nil, Torn,
          AddsFrom,         \* the processes that run asset add; any may fetch
          Oversized,        \* contents over the inline limit that git does not track
          EditsDuringRuns,  \* may a human change a file while a process runs?
          Faults            \* which of "crash", "damage", "outage", "lossy", "unset" may happen

ASSUME AssetAssumption ==
  /\ AddsFrom \subseteq Proc
  /\ Oversized \subseteq Content
  /\ EditsDuringRuns \in BOOLEAN
  /\ Nil \notin Content /\ Torn \notin Content /\ Nil # Torn

VARIABLES file,     \* the bytes at an authored path
          standin,  \* the address its .asset file names, Torn while that is empty
          bucket,   \* the addresses the store holds
          up,       \* is the store reachable?
          cache,    \* .production/cache: Nil, the bytes, or Torn, by address
          copy,     \* .production/assets: likewise, by path and address
          job,      \* what each process is doing, or how it ended
          kept      \* history: the bytes a human last put at a path, Nil if removed

assetVars == <<file, standin, bucket, up, cache, copy, job, kept>>

AddStages == {"has", "put", "pointer", "truncate", "write", "confirm", "unlink"}
FetchStages == {"read", "stat", "hash", "look", "beside", "config", "cache", "get", "filling",
                "fill", "place", "verify"}
Outcomes == {"idle", "added", "readded", "fetched", "refused"}
Stages == AddStages \cup FetchStages \cup Outcomes \cup {"readd", "reconfirm"}

Idle == [at |-> "idle", path |-> Nil, bytes |-> Nil]

Job == [at : Stages, path : Path \cup {Nil}, bytes : Content \cup {Nil}]

AssetTypeOK ==
  /\ file \in [Path -> Content \cup {Nil}]
  /\ standin \in [Path -> Content \cup {Nil, Torn}]
  /\ bucket \in SUBSET Content
  /\ up \in BOOLEAN
  /\ cache \in [Content -> Content \cup {Nil, Torn}]
  /\ copy \in [Path \X Content -> Content \cup {Nil, Torn}]
  /\ job \in [Proc -> Job]
  /\ kept \in [Path -> Content \cup {Nil}]

AssetInit ==
  /\ file = [a \in Path |-> Nil]
  /\ standin = [a \in Path |-> Nil]
  /\ bucket = {}
  /\ up = TRUE
  /\ cache = [c \in Content |-> Nil]
  /\ copy = [x \in Path \X Content |-> Nil]
  /\ job = [p \in Proc |-> Idle]
  /\ kept = [a \in Path |-> Nil]

Ended(p) == job[p].at \in Outcomes

Go(p, stage) == job' = [job EXCEPT ![p].at = stage]
Stop(p) == Go(p, "refused")

On(p) == job[p].path
Bytes(p) == job[p].bytes

-----------------------------------------------------------------------------
(* pc asset add *)

\* The bytes are read once; everything after is about those bytes.
AddRead(p, a) ==
  /\ Ended(p)
  /\ p \in AddsFrom
  /\ job' = [job EXCEPT ![p] = [at |-> IF file[a] = Nil THEN "readd" ELSE "has",
                                path |-> a, bytes |-> file[a]]]
  /\ UNCHANGED <<file, standin, bucket, up, cache, copy, kept>>

\* A process reads the configuration of the store once, when it first needs the store; it may
\* have been started without one.
AddHas(p) ==
  /\ job[p].at = "has"
  /\ \/ "unset" \in Faults /\ Stop(p)
     \/ IF up THEN Go(p, IF Bytes(p) \in bucket THEN "pointer" ELSE "put") ELSE Stop(p)
  /\ UNCHANGED <<file, standin, bucket, up, cache, copy, kept>>

\* The store may acknowledge bytes it does not durably hold.
AddPut(p) ==
  /\ job[p].at = "put"
  /\ IF up THEN /\ Go(p, "pointer")
                /\ \/ bucket' = bucket \cup {Bytes(p)}
                   \/ "lossy" \in Faults /\ bucket' = bucket
           ELSE Stop(p) /\ UNCHANGED bucket
  /\ UNCHANGED <<file, standin, up, cache, copy, kept>>

\* Mutant: a stand-in that is there is left alone, whatever it says.
PointerIfAbsent(p) ==
  /\ job[p].at = "pointer"
  /\ IF standin[On(p)] = Torn THEN Stop(p)
     ELSE Go(p, IF standin[On(p)] # Nil THEN "confirm" ELSE "truncate")
  /\ UNCHANGED <<file, standin, bucket, up, cache, copy, kept>>

\* A stand-in that already says this is left alone; one that does not parse refuses.
AddPointer(p) ==
  /\ job[p].at = "pointer"
  /\ IF standin[On(p)] = Torn THEN Stop(p)
     ELSE Go(p, IF standin[On(p)] = Bytes(p) THEN "confirm" ELSE "truncate")
  /\ UNCHANGED <<file, standin, bucket, up, cache, copy, kept>>

\* writeFile truncates, then writes.
AddTruncate(p) ==
  /\ job[p].at = "truncate"
  /\ standin' = [standin EXCEPT ![On(p)] = Torn]
  /\ Go(p, "write")
  /\ UNCHANGED <<file, bucket, up, cache, copy, kept>>

AddWrite(p) ==
  /\ job[p].at = "write"
  /\ standin' = [standin EXCEPT ![On(p)] = Bytes(p)]
  /\ Go(p, "confirm")
  /\ UNCHANGED <<file, bucket, up, cache, copy, kept>>

\* Mutant: what put answered is trusted.
ConfirmNothing(p) ==
  /\ job[p].at = "confirm"
  /\ Go(p, "unlink")
  /\ UNCHANGED <<file, standin, bucket, up, cache, copy, kept>>

AddConfirm(p) ==
  /\ job[p].at = "confirm"
  /\ IF up /\ Bytes(p) \in bucket THEN Go(p, "unlink") ELSE Stop(p)
  /\ UNCHANGED <<file, standin, bucket, up, cache, copy, kept>>

\* The path is unlinked, whatever it holds by now; unlinking nothing throws.
AddUnlink(p) ==
  /\ job[p].at = "unlink"
  /\ Go(p, IF file[On(p)] = Nil THEN "refused" ELSE "added")
  /\ file' = [file EXCEPT ![On(p)] = Nil]
  /\ UNCHANGED <<standin, bucket, up, cache, copy, kept>>

\* Mutant: a stand-in that does not parse is taken for one that names something.
ReAddUnparsed(p) ==
  /\ job[p].at = "readd"
  /\ IF standin[On(p)] = Nil THEN Stop(p)
     ELSE job' = [job EXCEPT ![p].at = "reconfirm", ![p].bytes = standin[On(p)]]
  /\ UNCHANGED <<file, standin, bucket, up, cache, copy, kept>>

\* Nothing at the path: a re-add if a stand-in is there and the store holds its bytes.
ReAdd(p) ==
  /\ job[p].at = "readd"
  /\ IF standin[On(p)] \in {Nil, Torn} THEN Stop(p)
     ELSE job' = [job EXCEPT ![p].at = "reconfirm", ![p].bytes = standin[On(p)]]
  /\ UNCHANGED <<file, standin, bucket, up, cache, copy, kept>>

ReAddConfirm(p) ==
  /\ job[p].at = "reconfirm"
  /\ \/ "unset" \in Faults /\ Stop(p)
     \/ IF up /\ Bytes(p) \in bucket THEN Go(p, "readded") ELSE Stop(p)
  /\ UNCHANGED <<file, standin, bucket, up, cache, copy, kept>>

Add(p) ==
  \/ \E a \in Path : AddRead(p, a)
  \/ AddHas(p) \/ AddPut(p) \/ AddPointer(p) \/ AddTruncate(p) \/ AddWrite(p)
  \/ AddConfirm(p) \/ AddUnlink(p) \/ ReAdd(p) \/ ReAddConfirm(p)

-----------------------------------------------------------------------------
(* A build resolves an authored input: bytes is what the stand-in addresses. *)

FetchStart(p, a) ==
  /\ Ended(p)
  /\ job' = [job EXCEPT ![p] = [at |-> "read", path |-> a, bytes |-> Nil]]
  /\ UNCHANGED <<file, standin, bucket, up, cache, copy, kept>>

FetchPointer(p) ==
  /\ job[p].at = "read"
  /\ CASE standin[On(p)] = Torn -> Stop(p)
       [] standin[On(p)] = Nil -> Go(p, "stat")
       [] OTHER -> job' = [job EXCEPT ![p].at = "look", ![p].bytes = standin[On(p)]]
  /\ UNCHANGED <<file, standin, bucket, up, cache, copy, kept>>

\* No stand-in: a plain file is handed over as it is, unless it is large and untracked.
FetchStat(p) ==
  /\ job[p].at = "stat"
  /\ Go(p, IF file[On(p)] \in Oversized \cup {Nil} THEN "refused" ELSE "hash")
  /\ UNCHANGED <<file, standin, bucket, up, cache, copy, kept>>

FetchHash(p) ==
  /\ job[p].at = "hash"
  /\ IF file[On(p)] = Nil THEN Stop(p)
     ELSE job' = [job EXCEPT ![p].at = "fetched", ![p].bytes = file[On(p)]]
  /\ UNCHANGED <<file, standin, bucket, up, cache, copy, kept>>

FetchLook(p) ==
  /\ job[p].at = "look"
  /\ Go(p, IF file[On(p)] = Nil THEN "config" ELSE "beside")
  /\ UNCHANGED <<file, standin, bucket, up, cache, copy, kept>>

\* The bytes are beside the stand-in: they must be the ones it addresses.
FetchBeside(p) ==
  /\ job[p].at = "beside"
  /\ Go(p, IF file[On(p)] = Bytes(p) THEN "fetched" ELSE "refused")
  /\ UNCHANGED <<file, standin, bucket, up, cache, copy, kept>>

\* The configuration is asked for before the cache: without one, a cached asset is refused too.
FetchConfig(p) ==
  /\ job[p].at = "config"
  /\ \/ "unset" \in Faults /\ Stop(p)
     \/ Go(p, "cache")
  /\ UNCHANGED <<file, standin, bucket, up, cache, copy, kept>>

\* Mutant: a cache entry that does not verify is an error, not a miss.
TrustCache(p) ==
  /\ job[p].at = "cache"
  /\ Go(p, CASE cache[Bytes(p)] = Nil -> "get"
             [] cache[Bytes(p)] = Torn -> "refused"
             [] OTHER -> "place")
  /\ UNCHANGED <<file, standin, bucket, up, cache, copy, kept>>

\* An entry that does not hash to its address is a miss.
FetchCache(p) ==
  /\ job[p].at = "cache"
  /\ Go(p, IF cache[Bytes(p)] = Bytes(p) THEN "place" ELSE "get")
  /\ UNCHANGED <<file, standin, bucket, up, cache, copy, kept>>

FetchStore(p) ==
  /\ job[p].at = "get"
  /\ IF up /\ Bytes(p) \in bucket THEN Go(p, "filling") ELSE Stop(p)
  /\ UNCHANGED <<file, standin, bucket, up, cache, copy, kept>>

FetchTruncate(p) ==
  /\ job[p].at = "filling"
  /\ cache' = [cache EXCEPT ![Bytes(p)] = Torn]
  /\ Go(p, "fill")
  /\ UNCHANGED <<file, standin, bucket, up, copy, kept>>

FetchFill(p) ==
  /\ job[p].at = "fill"
  /\ cache' = [cache EXCEPT ![Bytes(p)] = Bytes(p)]
  /\ Go(p, "place")
  /\ UNCHANGED <<file, standin, bucket, up, copy, kept>>

\* A copy of the right content is left alone; any other is replaced by a rename.
FetchPlace(p) ==
  /\ job[p].at = "place"
  /\ copy' = [copy EXCEPT ![<<On(p), Bytes(p)>>] = Bytes(p)]
  /\ Go(p, "verify")
  /\ UNCHANGED <<file, standin, bucket, up, cache, kept>>

FetchVerify(p) ==
  /\ job[p].at = "verify"
  /\ Go(p, IF copy[<<On(p), Bytes(p)>>] = Bytes(p) THEN "fetched" ELSE "refused")
  /\ UNCHANGED <<file, standin, bucket, up, cache, copy, kept>>

Fetch(p) ==
  \/ \E a \in Path : FetchStart(p, a)
  \/ FetchPointer(p) \/ FetchStat(p) \/ FetchHash(p)
  \/ FetchLook(p) \/ FetchBeside(p) \/ FetchConfig(p) \/ FetchCache(p) \/ FetchStore(p)
  \/ FetchTruncate(p) \/ FetchFill(p) \/ FetchPlace(p) \/ FetchVerify(p)

-----------------------------------------------------------------------------
(* The human, and what fails. *)

Quiet == \A p \in Proc : Ended(p)

\* A file is put in place or removed; a stand-in that does not parse can be removed.
EditFile(a, c) ==
  /\ Quiet \/ EditsDuringRuns
  /\ c # file[a]
  /\ file' = [file EXCEPT ![a] = c]
  /\ kept' = [kept EXCEPT ![a] = c]
  /\ UNCHANGED <<standin, bucket, up, cache, copy, job>>

DropStandin(a) ==
  /\ Quiet
  /\ standin[a] = Torn
  /\ standin' = [standin EXCEPT ![a] = Nil]
  /\ UNCHANGED <<file, bucket, up, cache, copy, job, kept>>

Crash(p) ==
  /\ "crash" \in Faults
  /\ ~Ended(p)
  /\ job' = [job EXCEPT ![p] = Idle]
  /\ UNCHANGED <<file, standin, bucket, up, cache, copy, kept>>

Outage ==
  /\ "outage" \in Faults
  /\ up' = ~up
  /\ UNCHANGED <<file, standin, bucket, cache, copy, job, kept>>

\* Between runs, an entry under .production is cut short or changed by hand.
Damage(a, c) ==
  /\ "damage" \in Faults
  /\ Quiet
  /\ \/ cache[c] # Nil /\ cache' = [cache EXCEPT ![c] = Torn] /\ UNCHANGED copy
     \/ copy[<<a, c>>] # Nil /\ copy' = [copy EXCEPT ![<<a, c>>] = Torn] /\ UNCHANGED cache
  /\ UNCHANGED <<file, standin, bucket, up, job, kept>>

AssetNext ==
  \/ \E p \in Proc : Add(p) \/ Fetch(p) \/ Crash(p)
  \/ \E a \in Path : DropStandin(a) \/ \E c \in Content \cup {Nil} : EditFile(a, c)
  \/ \E a \in Path, c \in Content : Damage(a, c)
  \/ Outage

AssetSpec == AssetInit /\ [][AssetNext]_assetVars

-----------------------------------------------------------------------------
(* What the store, the stand-ins and the cache promise. *)

\* asset add never deletes bytes that are nowhere else: what a human last put at a path is
\* there, or in the store, whatever crashed, failed or ran at the same time
\* (cli/asset.ts assetAddCommand: "never a delete-before-confirm").
NothingLost == \A a \in Path : kept[a] \in {Nil, file[a]} \/ kept[a] \in bucket

\* With one process adding, bytes that left the working tree can still be found again: the
\* committed stand-in names them (FR-023, FR-025).
Recoverable ==
  \A a \in Path : kept[a] \notin {Nil, file[a]} => standin[a] = kept[a] /\ kept[a] \in bucket

\* The file left while a build was looking for it, and the next build finds it in the store.
MovedAway(a) == file[a] = Nil /\ kept[a] # Nil /\ standin[a] = kept[a] /\ kept[a] \in bucket

\* Why a build may refuse an authored input, at each of its accesses.
Cause(p) ==
  LET a == On(p) IN
  CASE job[p].at = "read" -> standin[a] = Torn
    [] job[p].at = "stat" -> file[a] \in Oversized \/ kept[a] = Nil \/ MovedAway(a)
    [] job[p].at = "hash" -> MovedAway(a)
    [] job[p].at = "beside" -> file[a] \notin {Nil, Bytes(p)} \/ MovedAway(a)
    [] job[p].at = "config" -> "unset" \in Faults
    [] job[p].at = "get" -> ~up \/ Bytes(p) \notin bucket
    [] OTHER -> FALSE

\* With one process adding, a build refuses an authored input only because its stand-in is
\* unreadable, the file is large, missing for good or not what its stand-in names, the store is
\* not configured, down or without it, or an asset add moved the file away under the build; a
\* cache entry or a copy that a kill left short is never why (assets/cache.ts get,
\* assets/resolve.ts resolveToLocalPath, providers/inputs.ts resolveAuthoredInput).
RefusedForCause ==
  [][\A p \in Proc : (job[p].at \in FetchStages /\ job'[p].at = "refused") => Cause(p)]_assetVars
=============================================================================
