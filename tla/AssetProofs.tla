----------------------------- MODULE AssetProofs -----------------------------
(***************************************************************************)
(* asset add never loses bytes: for any number of processes adding and     *)
(* fetching at the same time, with crashes, outages and a store that loses *)
(* what it acknowledged, as long as nobody edits while one of them runs.   *)
(***************************************************************************)
EXTENDS AssetStore, TLAPS

\* The stages at which a process knows a path and no bytes yet.
EmptyHanded == {"readd", "read", "stat", "hash"}

\* What a process works on, by where it is.
OnSomething ==
  \A p \in Proc : ~Ended(p) => /\ On(p) \in Path
                               /\ job[p].at \notin EmptyHanded => Bytes(p) \in Content

\* The file at a path is the one a human put there, or has been moved out.
FileIsKept == \A a \in Path : file[a] \in {kept[a], Nil}

\* An asset add holds the bytes of the file it read, and the store holds them before the
\* file is unlinked.
AddsTheFile ==
  \A p \in Proc : /\ job[p].at \in AddStages => Bytes(p) = kept[On(p)]
                  /\ job[p].at = "unlink" => Bytes(p) \in bucket

AssetInv == AssetTypeOK /\ OnSomething /\ FileIsKept /\ AddsTheFile /\ NothingLost

-----------------------------------------------------------------------------
\* The initial directory is empty and nothing runs.
LEMMA InitInv == ASSUME AssetAssumption PROVE AssetInit => AssetInv
  BY DEF AssetAssumption, AssetInit, AssetInv, AssetTypeOK, OnSomething, FileIsKept,
         AddsTheFile, NothingLost, Job, Idle, Stages, AddStages, FetchStages, Outcomes,
         Ended, On, Bytes

\* Replacing the job of one process by one that fits keeps what is known of all jobs.
LEMMA JobReplaced ==
  ASSUME AssetInv, NEW p \in Proc, NEW j \in Job,
         j.at \notin Outcomes => /\ j.path \in Path
                                 /\ j.at \notin EmptyHanded => j.bytes \in Content,
         j.at \in AddStages => j.bytes = kept[j.path],
         j.at = "unlink" => j.bytes \in bucket,
         job' = [job EXCEPT ![p] = j], bucket \subseteq bucket', kept' = kept
  PROVE  job' \in [Proc -> Job] /\ OnSomething' /\ AddsTheFile'
<1>1. job \in [Proc -> Job] BY DEF AssetInv, AssetTypeOK
<1>2. \A q \in Proc : job'[q] = IF q = p THEN j ELSE job[q] BY <1>1
<1>3. job' \in [Proc -> Job] BY <1>1
<1>4. OnSomething' BY <1>2 DEF AssetInv, OnSomething, Ended, On, Bytes
<1>5. \A q \in Proc : job'[q].at \in AddStages => job'[q].bytes = kept'[job'[q].path]
  BY <1>2 DEF AssetInv, AddsTheFile, On, Bytes
<1>6. \A q \in Proc : job'[q].at = "unlink" => job'[q].bytes \in bucket'
  BY <1>2 DEF AssetInv, AddsTheFile, On, Bytes
<1>7. AddsTheFile' BY <1>5, <1>6 DEF AddsTheFile, On, Bytes
<1> QED BY <1>3, <1>4, <1>7

\* The same for a process that goes on to its next stage.
LEMMA JobMoved ==
  ASSUME AssetInv, NEW p \in Proc, NEW s \in Stages, Go(p, s),
         s \notin Outcomes => ~Ended(p) /\ (s \in EmptyHanded \/ job[p].at \notin EmptyHanded),
         s \in AddStages => job[p].at \in AddStages,
         s = "unlink" => Bytes(p) \in bucket,
         bucket \subseteq bucket', kept' = kept
  PROVE  job' \in [Proc -> Job] /\ OnSomething' /\ AddsTheFile'
<1> DEFINE j == [job[p] EXCEPT !.at = s]
<1>1. job[p] \in Job BY DEF AssetInv, AssetTypeOK
<1>2. j \in Job /\ j.at = s /\ j.path = On(p) /\ j.bytes = Bytes(p)
  BY <1>1 DEF Job, On, Bytes
<1>3. job' = [job EXCEPT ![p] = j] BY DEF Go
<1>4. s \notin Outcomes => /\ On(p) \in Path
                           /\ s \notin EmptyHanded => Bytes(p) \in Content
  BY DEF AssetInv, OnSomething
<1>5. s \in AddStages => Bytes(p) = kept[On(p)] BY DEF AssetInv, AddsTheFile
<1> HIDE DEF j
<1> QED BY <1>2, <1>3, <1>4, <1>5, JobReplaced

\* What a process has in hand while it runs.
LEMMA InHand ==
  ASSUME AssetInv, NEW p \in Proc, ~Ended(p)
  PROVE  /\ On(p) \in Path
         /\ job[p].at \notin EmptyHanded => Bytes(p) \in Content
         /\ job[p].at \in AddStages => Bytes(p) = kept[On(p)]
         /\ job[p].at = "unlink" => Bytes(p) \in bucket
  BY DEF AssetInv, OnSomething, AddsTheFile

\* Steps that leave the files alone lose none.
LEMMA FilesKept ==
  ASSUME AssetInv, bucket \subseteq bucket', UNCHANGED <<file, kept>>
  PROVE  FileIsKept' /\ NothingLost'
  BY DEF AssetInv, FileIsKept, NothingLost

-----------------------------------------------------------------------------
(* pc asset add *)

LEMMA AddReadInv ==
  ASSUME AssetAssumption, AssetInv, NEW p \in Proc, NEW a \in Path, AddRead(p, a)
  PROVE  AssetInv'
<1> DEFINE j == [at |-> IF file[a] = Nil THEN "readd" ELSE "has", path |-> a, bytes |-> file[a]]
<1>1. file[a] \in Content \cup {Nil} BY DEF AssetInv, AssetTypeOK
<1>2. j \in Job BY <1>1 DEF Job, Stages, AddStages
<1>3. j.at \in {"readd", "has"} /\ j.path = a /\ j.bytes = file[a]
      /\ (j.at = "has" => file[a] \in Content)
  BY <1>1
<1>4. j.at \in AddStages => j.bytes = kept[j.path]
  BY <1>3 DEF AssetInv, FileIsKept, AddStages, AssetAssumption
<1>5. job' = [job EXCEPT ![p] = j] BY DEF AddRead
<1>6. bucket' = bucket /\ UNCHANGED <<file, kept>> BY DEF AddRead
<1> HIDE DEF j
<1>7. job' \in [Proc -> Job] /\ OnSomething' /\ AddsTheFile'
  BY <1>2, <1>3, <1>4, <1>5, <1>6, JobReplaced DEF EmptyHanded
<1>8. AssetTypeOK' BY <1>7 DEF AddRead, AssetInv, AssetTypeOK
<1> QED BY <1>6, <1>7, <1>8, FilesKept DEF AssetInv

\* The steps that only decide where to go on.
LEMMA AddDecides ==
  ASSUME AssetAssumption, AssetInv, NEW p \in Proc,
         AddHas(p) \/ AddPointer(p) \/ AddConfirm(p) \/ ReAddConfirm(p)
  PROVE  AssetInv'
<1>1. PICK s \in Stages : /\ Go(p, s)
                          /\ s \notin Outcomes => ~Ended(p) /\ job[p].at \notin EmptyHanded
                          /\ s \in AddStages => job[p].at \in AddStages
                          /\ s = "unlink" => Bytes(p) \in bucket
  <2> USE DEF Stop, Stages, AddStages, FetchStages, Outcomes, Ended, EmptyHanded
  <2>1. CASE AddHas(p)
    <3>1. CASE ~up \/ Stop(p)
      BY <2>1, <3>1 DEF AddHas
    <3>2. CASE up /\ Bytes(p) \in bucket
      BY <2>1, <3>2 DEF AddHas
    <3>3. CASE up /\ Bytes(p) \notin bucket
      BY <2>1, <3>3 DEF AddHas
    <3> QED BY <3>1, <3>2, <3>3
  <2>2. CASE AddPointer(p)
    <3>1. CASE standin[On(p)] = Torn
      BY <2>2, <3>1 DEF AddPointer
    <3>2. CASE standin[On(p)] # Torn /\ standin[On(p)] = Bytes(p)
      BY <2>2, <3>2 DEF AddPointer
    <3>3. CASE standin[On(p)] # Torn /\ standin[On(p)] # Bytes(p)
      BY <2>2, <3>3 DEF AddPointer
    <3> QED BY <3>1, <3>2, <3>3
  <2>3. CASE AddConfirm(p)
    <3>1. CASE up /\ Bytes(p) \in bucket
      BY <2>3, <3>1 DEF AddConfirm
    <3>2. CASE ~(up /\ Bytes(p) \in bucket)
      BY <2>3, <3>2 DEF AddConfirm
    <3> QED BY <3>1, <3>2
  <2>4. CASE ReAddConfirm(p)
    <3>1. CASE up /\ Bytes(p) \in bucket
      BY <2>4, <3>1 DEF ReAddConfirm
    <3>2. CASE ~(up /\ Bytes(p) \in bucket)
      BY <2>4, <3>2 DEF ReAddConfirm
    <3> QED BY <3>1, <3>2
  <2> QED BY <2>1, <2>2, <2>3, <2>4
<1>2. UNCHANGED <<file, standin, bucket, up, cache, copy, kept>>
  BY DEF AddHas, AddPointer, AddConfirm, ReAddConfirm
<1>3. job' \in [Proc -> Job] /\ OnSomething' /\ AddsTheFile' BY <1>1, <1>2, JobMoved
<1>4. AssetTypeOK' BY <1>2, <1>3 DEF AssetInv, AssetTypeOK
<1> QED BY <1>2, <1>3, <1>4, FilesKept DEF AssetInv

LEMMA AddPutInv ==
  ASSUME AssetAssumption, AssetInv, NEW p \in Proc, AddPut(p) PROVE AssetInv'
<1>1. ~Ended(p) /\ job[p].at = "put" BY DEF AddPut, Ended, Outcomes
<1>2. Bytes(p) \in Content BY <1>1, InHand DEF EmptyHanded
<1>3. bucket \subseteq bucket' /\ bucket' \in SUBSET Content
  BY <1>2 DEF AddPut, AssetInv, AssetTypeOK
<1>4. UNCHANGED <<file, standin, up, cache, copy, kept>> BY DEF AddPut
<1>5. Go(p, "pointer") \/ Go(p, "refused") BY DEF AddPut, Stop
<1>6. job' \in [Proc -> Job] /\ OnSomething' /\ AddsTheFile'
  BY <1>1, <1>3, <1>4, <1>5, JobMoved DEF Stages, AddStages, Outcomes, EmptyHanded
<1>7. AssetTypeOK' BY <1>3, <1>4, <1>6 DEF AssetInv, AssetTypeOK
<1> QED BY <1>3, <1>4, <1>6, <1>7, FilesKept DEF AssetInv

LEMMA AddWritesInv ==
  ASSUME AssetAssumption, AssetInv, NEW p \in Proc, AddTruncate(p) \/ AddWrite(p)
  PROVE  AssetInv'
<1>1. ~Ended(p) /\ job[p].at \in {"truncate", "write"}
  BY DEF AddTruncate, AddWrite, Ended, Outcomes
<1>2. Bytes(p) \in Content /\ On(p) \in Path BY <1>1, InHand DEF EmptyHanded
<1>3. standin' \in [Path -> Content \cup {Nil, Torn}]
  BY <1>2 DEF AddTruncate, AddWrite, AssetInv, AssetTypeOK
<1>4. UNCHANGED <<file, bucket, up, cache, copy, kept>> BY DEF AddTruncate, AddWrite
<1>5. Go(p, "write") \/ Go(p, "confirm") BY DEF AddTruncate, AddWrite
<1>6. job' \in [Proc -> Job] /\ OnSomething' /\ AddsTheFile'
  BY <1>1, <1>4, <1>5, JobMoved DEF Stages, AddStages, Outcomes, EmptyHanded
<1>7. AssetTypeOK' BY <1>3, <1>4, <1>6 DEF AssetInv, AssetTypeOK
<1> QED BY <1>4, <1>6, <1>7, FilesKept DEF AssetInv

\* The unlink takes away the bytes a human put there, which the store holds.
LEMMA AddUnlinkInv ==
  ASSUME AssetAssumption, AssetInv, NEW p \in Proc, AddUnlink(p) PROVE AssetInv'
<1>1. ~Ended(p) /\ job[p].at = "unlink" BY DEF AddUnlink, Ended, Outcomes
<1>2. On(p) \in Path /\ Bytes(p) = kept[On(p)] /\ Bytes(p) \in bucket
  BY <1>1, InHand DEF AddStages
<1>3. file' = [file EXCEPT ![On(p)] = Nil] /\ UNCHANGED <<standin, bucket, up, cache, copy, kept>>
  BY DEF AddUnlink
<1>4. Go(p, "refused") \/ Go(p, "added") BY DEF AddUnlink
<1>5. job' \in [Proc -> Job] /\ OnSomething' /\ AddsTheFile'
  BY <1>3, <1>4, JobMoved DEF Stages, AddStages, Outcomes
<1>6. AssetTypeOK' BY <1>3, <1>5 DEF AssetInv, AssetTypeOK
<1>7. file \in [Path -> Content \cup {Nil}] BY DEF AssetInv, AssetTypeOK
<1>8. FileIsKept' BY <1>3, <1>7 DEF AssetInv, FileIsKept
<1>9. NothingLost' BY <1>2, <1>3, <1>7 DEF AssetInv, NothingLost
<1> QED BY <1>5, <1>6, <1>8, <1>9 DEF AssetInv

LEMMA ReAddInv ==
  ASSUME AssetAssumption, AssetInv, NEW p \in Proc, ReAdd(p) PROVE AssetInv'
<1>1. ~Ended(p) /\ job[p].at = "readd" BY DEF ReAdd, Ended, Outcomes
<1>2. On(p) \in Path BY <1>1, InHand
<1>3. UNCHANGED <<file, standin, bucket, up, cache, copy, kept>> BY DEF ReAdd
<1>4. job' \in [Proc -> Job] /\ OnSomething' /\ AddsTheFile'
  <2>1. CASE standin[On(p)] \in {Nil, Torn}
    BY <1>3, <2>1, JobMoved DEF ReAdd, Stop, Stages, AddStages, Outcomes
  <2>2. CASE standin[On(p)] \notin {Nil, Torn}
    <3> DEFINE j == [job[p] EXCEPT !.at = "reconfirm", !.bytes = standin[On(p)]]
    <3>1. standin[On(p)] \in Content BY <1>2, <2>2 DEF AssetInv, AssetTypeOK
    <3>2. job[p] \in Job BY DEF AssetInv, AssetTypeOK
    <3>3. j \in Job /\ j.at = "reconfirm" /\ j.path = On(p) /\ j.bytes \in Content
      BY <3>1, <3>2 DEF Job, Stages, On
    <3>4. job' = [job EXCEPT ![p] = j] BY <2>2 DEF ReAdd
    <3> HIDE DEF j
    <3> QED BY <1>2, <1>3, <3>3, <3>4, JobReplaced DEF AddStages
  <2> QED BY <2>1, <2>2
<1>5. AssetTypeOK' BY <1>3, <1>4 DEF AssetInv, AssetTypeOK
<1> QED BY <1>3, <1>4, <1>5, FilesKept DEF AssetInv

-----------------------------------------------------------------------------
(* A build resolves an authored input *)

LEMMA FetchStartInv ==
  ASSUME AssetAssumption, AssetInv, NEW p \in Proc, NEW a \in Path, FetchStart(p, a)
  PROVE  AssetInv'
<1> DEFINE j == [at |-> "read", path |-> a, bytes |-> Nil]
<1>1. j \in Job /\ j.at = "read" /\ j.path = a BY DEF Job, Stages, FetchStages
<1>2. job' = [job EXCEPT ![p] = j] /\ UNCHANGED <<file, standin, bucket, up, cache, copy, kept>>
  BY DEF FetchStart
<1> HIDE DEF j
<1>3. job' \in [Proc -> Job] /\ OnSomething' /\ AddsTheFile'
  BY <1>1, <1>2, JobReplaced DEF EmptyHanded, AddStages
<1>4. AssetTypeOK' BY <1>2, <1>3 DEF AssetInv, AssetTypeOK
<1> QED BY <1>2, <1>3, <1>4, FilesKept DEF AssetInv

\* The steps that take what they found in hand.
LEMMA FetchTakesInv ==
  ASSUME AssetAssumption, AssetInv, NEW p \in Proc, FetchPointer(p) \/ FetchHash(p)
  PROVE  AssetInv'
<1>1. ~Ended(p) /\ job[p].at \in {"read", "hash"}
  BY DEF FetchPointer, FetchHash, Ended, Outcomes
<1>2. On(p) \in Path BY <1>1, InHand
<1>3. UNCHANGED <<file, standin, bucket, up, cache, copy, kept>> BY DEF FetchPointer, FetchHash
<1>4. CASE Stop(p) \/ Go(p, "stat")
  <2>1. job' \in [Proc -> Job] /\ OnSomething' /\ AddsTheFile'
    BY <1>1, <1>3, <1>4, JobMoved DEF Stop, Stages, AddStages, FetchStages, Outcomes, EmptyHanded
  <2>2. AssetTypeOK' BY <1>3, <2>1 DEF AssetInv, AssetTypeOK
  <2> QED BY <1>3, <2>1, <2>2, FilesKept DEF AssetInv
<1>5. ASSUME NEW s \in {"look", "fetched"}, NEW c \in Content,
             job' = [job EXCEPT ![p].at = s, ![p].bytes = c]
      PROVE  AssetInv'
  <2> DEFINE j == [job[p] EXCEPT !.at = s, !.bytes = c]
  <2>1. job[p] \in Job BY DEF AssetInv, AssetTypeOK
  <2>2. j \in Job /\ j.at = s /\ j.path = On(p) /\ j.bytes \in Content
    BY <2>1 DEF Job, Stages, FetchStages, Outcomes, On
  <2>3. job' = [job EXCEPT ![p] = j] BY <1>5
  <2> HIDE DEF j
  <2>4. job' \in [Proc -> Job] /\ OnSomething' /\ AddsTheFile'
    BY <1>2, <1>3, <2>2, <2>3, JobReplaced DEF AddStages
  <2>5. AssetTypeOK' BY <1>3, <2>4 DEF AssetInv, AssetTypeOK
  <2> QED BY <1>3, <2>4, <2>5, FilesKept DEF AssetInv
<1>6. file[On(p)] \in Content \cup {Nil} /\ standin[On(p)] \in Content \cup {Nil, Torn}
  BY <1>2 DEF AssetInv, AssetTypeOK
<1>7. CASE FetchPointer(p)
  <2>1. CASE standin[On(p)] \in {Nil, Torn}
    BY <1>4, <1>7, <2>1 DEF FetchPointer, AssetAssumption
  <2>2. CASE standin[On(p)] \in Content
    BY <1>5, <1>7, <2>2 DEF FetchPointer, AssetAssumption
  <2> QED BY <1>6, <2>1, <2>2
<1>8. CASE FetchHash(p) BY <1>4, <1>5, <1>6, <1>8 DEF FetchHash
<1> QED BY <1>7, <1>8

LEMMA FetchInv ==
  ASSUME AssetAssumption, AssetInv, NEW p \in Proc,
         \/ FetchLook(p) \/ FetchBeside(p) \/ FetchConfig(p) \/ FetchCache(p) \/ FetchStore(p)
         \/ FetchTruncate(p) \/ FetchFill(p) \/ FetchPlace(p) \/ FetchVerify(p)
  PROVE  AssetInv'
<1>1. job[p].at \in FetchStages \ EmptyHanded
  BY DEF FetchLook, FetchBeside, FetchConfig, FetchCache, FetchStore, FetchTruncate, FetchFill,
         FetchPlace, FetchVerify, FetchStages, EmptyHanded
<1>2. ~Ended(p) BY <1>1 DEF Ended, FetchStages, Outcomes
<1>3. On(p) \in Path /\ Bytes(p) \in Content BY <1>1, <1>2, InHand
<1>4. PICK s \in {"config", "cache", "beside", "fetched", "refused", "place", "get", "filling",
                  "fill", "verify"} : Go(p, s)
  BY DEF FetchLook, FetchBeside, FetchConfig, FetchCache, FetchStore, FetchTruncate, FetchFill,
         FetchPlace, FetchVerify, Stop
<1>5. UNCHANGED <<file, standin, bucket, up, kept>>
  BY DEF FetchLook, FetchBeside, FetchConfig, FetchCache, FetchStore, FetchTruncate, FetchFill,
         FetchPlace, FetchVerify
<1>6. /\ cache' \in [Content -> Content \cup {Nil, Torn}]
      /\ copy' \in [Path \X Content -> Content \cup {Nil, Torn}]
  <2>1. CASE FetchTruncate(p) \/ FetchFill(p)
    BY <1>3, <2>1 DEF FetchTruncate, FetchFill, AssetInv, AssetTypeOK
  <2>2. CASE FetchPlace(p)
    BY <1>3, <2>2 DEF FetchPlace, AssetInv, AssetTypeOK
  <2>3. CASE \/ FetchLook(p) \/ FetchBeside(p) \/ FetchConfig(p) \/ FetchCache(p)
             \/ FetchStore(p) \/ FetchVerify(p)
    BY <2>3 DEF FetchLook, FetchBeside, FetchConfig, FetchCache, FetchStore, FetchVerify,
                AssetInv, AssetTypeOK
  <2> QED BY <2>1, <2>2, <2>3
<1>7. job' \in [Proc -> Job] /\ OnSomething' /\ AddsTheFile'
  BY <1>1, <1>2, <1>4, <1>5, JobMoved DEF Stages, AddStages, FetchStages, Outcomes
<1>8. AssetTypeOK' BY <1>5, <1>6, <1>7 DEF AssetInv, AssetTypeOK
<1> QED BY <1>5, <1>7, <1>8, FilesKept DEF AssetInv

LEMMA FetchStatInv ==
  ASSUME AssetAssumption, AssetInv, NEW p \in Proc, FetchStat(p) PROVE AssetInv'
<1>1. ~Ended(p) /\ job[p].at = "stat" BY DEF FetchStat, Ended, Outcomes
<1>2. UNCHANGED <<file, standin, bucket, up, cache, copy, kept>> BY DEF FetchStat
<1>3. Go(p, "refused") \/ Go(p, "hash") BY DEF FetchStat
<1>4. job' \in [Proc -> Job] /\ OnSomething' /\ AddsTheFile'
  BY <1>1, <1>2, <1>3, JobMoved DEF Stages, AddStages, FetchStages, Outcomes, EmptyHanded
<1>5. AssetTypeOK' BY <1>2, <1>4 DEF AssetInv, AssetTypeOK
<1> QED BY <1>2, <1>4, <1>5, FilesKept DEF AssetInv

-----------------------------------------------------------------------------
(* The human, and what fails *)

\* An edit between runs: no asset add is under way with older bytes in hand.
LEMMA EditInv ==
  ASSUME AssetAssumption, AssetInv, EditsDuringRuns = FALSE,
         NEW a \in Path, NEW c \in Content \cup {Nil}, EditFile(a, c)
  PROVE  AssetInv'
<1>1. UNCHANGED <<standin, bucket, up, cache, copy, job>> BY DEF EditFile
<1>2. file \in [Path -> Content \cup {Nil}] /\ kept \in [Path -> Content \cup {Nil}]
  BY DEF AssetInv, AssetTypeOK
<1>3. \A b \in Path : /\ file'[b] = IF b = a THEN c ELSE file[b]
                      /\ kept'[b] = IF b = a THEN c ELSE kept[b]
  BY <1>2 DEF EditFile
<1>4. \A p \in Proc : Ended(p) BY DEF EditFile, Quiet
<1>5. AssetTypeOK' BY <1>1, <1>2 DEF EditFile, AssetInv, AssetTypeOK
<1>6. FileIsKept' /\ NothingLost' BY <1>1, <1>3 DEF AssetInv, FileIsKept, NothingLost
<1>7. OnSomething' BY <1>1 DEF AssetInv, OnSomething, Ended, On, Bytes
<1>8. AddsTheFile' BY <1>1, <1>4 DEF AddsTheFile, Ended, Outcomes, AddStages
<1> QED BY <1>5, <1>6, <1>7, <1>8 DEF AssetInv

LEMMA DropInv ==
  ASSUME AssetInv, NEW a \in Path, DropStandin(a) PROVE AssetInv'
<1>1. UNCHANGED <<file, bucket, up, cache, copy, job, kept>> BY DEF DropStandin
<1>2. AssetTypeOK' BY <1>1 DEF DropStandin, AssetInv, AssetTypeOK
<1>3. OnSomething' /\ AddsTheFile'
  BY <1>1 DEF AssetInv, OnSomething, AddsTheFile, Ended, On, Bytes
<1> QED BY <1>1, <1>2, <1>3, FilesKept DEF AssetInv

LEMMA CrashInv ==
  ASSUME AssetInv, NEW p \in Proc, Crash(p) PROVE AssetInv'
<1>1. UNCHANGED <<file, standin, bucket, up, cache, copy, kept>> BY DEF Crash
<1>2. Idle \in Job /\ Idle.at = "idle" BY DEF Idle, Job, Stages, Outcomes
<1>3. job' = [job EXCEPT ![p] = Idle] BY DEF Crash
<1>4. job' \in [Proc -> Job] /\ OnSomething' /\ AddsTheFile'
  BY <1>1, <1>2, <1>3, JobReplaced DEF Outcomes, AddStages
<1>5. AssetTypeOK' BY <1>1, <1>4 DEF AssetInv, AssetTypeOK
<1> QED BY <1>1, <1>4, <1>5, FilesKept DEF AssetInv

LEMMA DamageInv ==
  ASSUME AssetInv, NEW a \in Path, NEW c \in Content, Damage(a, c) PROVE AssetInv'
<1>1. UNCHANGED <<file, standin, bucket, up, job, kept>> BY DEF Damage
<1>2. AssetTypeOK' BY <1>1 DEF Damage, AssetInv, AssetTypeOK
<1>3. OnSomething' /\ AddsTheFile'
  BY <1>1 DEF AssetInv, OnSomething, AddsTheFile, Ended, On, Bytes
<1> QED BY <1>1, <1>2, <1>3, FilesKept DEF AssetInv

LEMMA OutageInv ==
  ASSUME AssetInv, Outage PROVE AssetInv'
<1>1. UNCHANGED <<file, standin, bucket, cache, copy, job, kept>> BY DEF Outage
<1>2. AssetTypeOK' BY <1>1 DEF Outage, AssetInv, AssetTypeOK
<1>3. OnSomething' /\ AddsTheFile'
  BY <1>1 DEF AssetInv, OnSomething, AddsTheFile, Ended, On, Bytes
<1> QED BY <1>1, <1>2, <1>3, FilesKept DEF AssetInv

-----------------------------------------------------------------------------
LEMMA StepInv ==
  ASSUME AssetAssumption, EditsDuringRuns = FALSE, AssetInv, [AssetNext]_assetVars
  PROVE  AssetInv'
<1>1. ASSUME NEW p \in Proc, Add(p) PROVE AssetInv'
  BY <1>1, AddReadInv, AddDecides, AddPutInv, AddWritesInv, AddUnlinkInv, ReAddInv DEF Add
<1>2. ASSUME NEW p \in Proc, Fetch(p) PROVE AssetInv'
  BY <1>2, FetchStartInv, FetchTakesInv, FetchStatInv, FetchInv DEF Fetch
<1>3. ASSUME NEW p \in Proc, Crash(p) PROVE AssetInv' BY <1>3, CrashInv
<1>4. ASSUME NEW a \in Path, DropStandin(a) PROVE AssetInv' BY <1>4, DropInv
<1>5. ASSUME NEW a \in Path, NEW c \in Content \cup {Nil}, EditFile(a, c) PROVE AssetInv'
  BY <1>5, EditInv
<1>6. ASSUME NEW a \in Path, NEW c \in Content, Damage(a, c) PROVE AssetInv'
  BY <1>6, DamageInv
<1>7. CASE Outage BY <1>7, OutageInv
<1>8. CASE UNCHANGED assetVars
  BY <1>8 DEF assetVars, AssetInv, AssetTypeOK, OnSomething, FileIsKept, AddsTheFile,
              NothingLost, Ended, On, Bytes
<1> QED BY <1>1, <1>2, <1>3, <1>4, <1>5, <1>6, <1>7, <1>8 DEF AssetNext

\* For any number of authored paths and of processes adding and fetching at once, with
\* crashes, outages and a store that loses what it acknowledged: as long as no human edits
\* while one runs, what a human last put at a path is there or in the store
\* (cli/asset.ts assetAddCommand).
THEOREM AddLosesNothing ==
  ASSUME AssetAssumption, EditsDuringRuns = FALSE
  PROVE  AssetSpec => []NothingLost
<1>1. AssetInit => AssetInv BY InitInv
<1>2. AssetInv /\ [AssetNext]_assetVars => AssetInv' BY StepInv
<1>3. AssetInv => NothingLost BY DEF AssetInv
<1> QED BY <1>1, <1>2, <1>3, PTL DEF AssetSpec

-----------------------------------------------------------------------------
(* Damaged caches *)

\* Between placing a copy and verifying it nothing changes the copy.
Placed == \A p \in Proc : job[p].at = "verify" => copy[<<On(p), Bytes(p)>>] = Bytes(p)

\* A process that another process's step leaves alone.
LEMMA OthersStay ==
  ASSUME AssetInv, NEW p \in Proc, Add(p) \/ Fetch(p) \/ Crash(p)
  PROVE  \A q \in Proc \ {p} : job'[q] = job[q]
<1>1. job \in [Proc -> Job] BY DEF AssetInv, AssetTypeOK
<1>2. CASE Add(p)
  BY <1>1, <1>2 DEF Add, AddRead, AddHas, AddPut, AddPointer, AddTruncate, AddWrite,
       AddConfirm, AddUnlink, ReAdd, ReAddConfirm, Go, Stop
<1>3. CASE Fetch(p)
  BY <1>1, <1>3 DEF Fetch, FetchStart, FetchPointer, FetchStat, FetchHash, FetchLook,
       FetchBeside, FetchConfig, FetchCache, FetchStore, FetchTruncate, FetchFill, FetchPlace,
       FetchVerify, Go, Stop
<1>4. CASE Crash(p) BY <1>1, <1>4 DEF Crash
<1> QED BY <1>2, <1>3, <1>4

\* What a step of the process itself does, when it ends up verifying or refused.
LEMMA OwnStep ==
  ASSUME AssetInv, NEW p \in Proc, Add(p) \/ Fetch(p) \/ Crash(p)
  PROVE  /\ copy' = copy \/ FetchPlace(p)
         /\ job'[p].at = "verify" => FetchPlace(p)
         /\ (job[p].at \in FetchStages /\ job'[p].at = "refused") =>
              FetchPointer(p) \/ FetchStat(p) \/ FetchHash(p) \/ FetchBeside(p)
                \/ FetchConfig(p) \/ FetchStore(p) \/ FetchVerify(p)
         /\ (job'[p].at = "hash" => FetchStat(p)) /\ (job'[p].at = "beside" => FetchLook(p))
<1>1. job \in [Proc -> Job] BY DEF AssetInv, AssetTypeOK
<1>2. CASE Add(p)
  <2>1. job'[p].at \notin {"verify", "hash", "beside"} /\ copy' = copy
    BY <1>1, <1>2 DEF Add, AddRead, AddHas, AddPut, AddPointer, AddTruncate, AddWrite,
         AddConfirm, AddUnlink, ReAdd, ReAddConfirm, Go, Stop, Job
  <2>2. job[p].at \notin FetchStages
    BY <1>2 DEF Add, AddRead, AddHas, AddPut, AddPointer, AddTruncate, AddWrite,
         AddConfirm, AddUnlink, ReAdd, ReAddConfirm, Ended, Outcomes, FetchStages
  <2> QED BY <2>1, <2>2
<1>3. CASE Fetch(p)
  <2>1. ASSUME NEW a \in Path, FetchStart(p, a)
        PROVE  copy' = copy /\ job'[p].at = "read" /\ job[p].at \notin FetchStages
    BY <1>1, <2>1 DEF FetchStart, Ended, Outcomes, FetchStages
  <2>2. CASE FetchLook(p) \/ FetchCache(p) \/ FetchTruncate(p) \/ FetchFill(p)
    <3>1. copy' = copy BY <2>2 DEF FetchLook, FetchCache, FetchTruncate, FetchFill
    <3>2. job'[p].at \notin {"verify", "refused", "hash"} /\ (job'[p].at = "beside" => FetchLook(p))
      BY <1>1, <2>2 DEF FetchLook, FetchCache, FetchTruncate, FetchFill, Go, Job
    <3> QED BY <3>1, <3>2
  <2>3. CASE FetchBeside(p) \/ FetchConfig(p) \/ FetchStore(p) \/ FetchVerify(p)
    <3>1. copy' = copy BY <2>3 DEF FetchBeside, FetchConfig, FetchStore, FetchVerify
    <3>2. job'[p].at \notin {"verify", "hash", "beside"}
      BY <1>1, <2>3 DEF FetchBeside, FetchConfig, FetchStore, FetchVerify, Go, Stop, Job
    <3> QED BY <2>3, <3>1, <3>2
  <2>4. CASE FetchPointer(p) \/ FetchStat(p) \/ FetchHash(p)
    <3>1. copy' = copy BY <2>4 DEF FetchPointer, FetchStat, FetchHash
    <3>2. job'[p].at \notin {"verify", "beside"} /\ (job'[p].at = "hash" => FetchStat(p))
      BY <1>1, <2>4 DEF FetchPointer, FetchStat, FetchHash, Go, Stop, Job
    <3> QED BY <2>4, <3>1, <3>2
  <2>5. CASE FetchPlace(p)
    <3>1. job'[p].at = "verify" BY <1>1, <2>5 DEF FetchPlace, Go, Job
    <3> QED BY <2>5, <3>1
  <2> QED BY <1>3, <2>1, <2>2, <2>3, <2>4, <2>5 DEF Fetch
<1>4. CASE Crash(p)
  BY <1>1, <1>4 DEF Crash, Idle
<1> QED BY <1>2, <1>3, <1>4

\* Placing a copy puts the right bytes there, for every process that holds its address.
LEMMA PlaceStep ==
  ASSUME AssetInv, NEW p \in Proc, FetchPlace(p)
  PROVE  /\ copy'[<<On(p), Bytes(p)>>] = Bytes(p)
         /\ On(p)' = On(p) /\ Bytes(p)' = Bytes(p)
         /\ \A x \in Path \X Content : copy'[x] = copy[x] \/ x = <<On(p), Bytes(p)>>
<1>1. ~Ended(p) /\ job[p].at = "place" BY DEF FetchPlace, Ended, Outcomes
<1>2. <<On(p), Bytes(p)>> \in Path \X Content BY <1>1, InHand DEF EmptyHanded
<1>3. copy \in [Path \X Content -> Content \cup {Nil, Torn}] /\ job \in [Proc -> Job]
  BY DEF AssetInv, AssetTypeOK
<1>4. On(p)' = On(p) /\ Bytes(p)' = Bytes(p)
  BY <1>3 DEF FetchPlace, Go, Job, On, Bytes
<1> QED BY <1>2, <1>3, <1>4 DEF FetchPlace

LEMMA PlacedStep ==
  ASSUME AssetInv, Placed, [AssetNext]_assetVars PROVE Placed'
<1>1. ASSUME NEW p \in Proc, Add(p) \/ Fetch(p) \/ Crash(p), NEW q \in Proc,
             job'[q].at = "verify"
      PROVE  copy'[<<On(q), Bytes(q)>>'] = Bytes(q)'
  <2>1. CASE q = p
    BY <1>1, <2>1, OwnStep, PlaceStep
  <2>2. CASE q # p
    <3>1. job'[q] = job[q] BY <1>1, <2>2, OthersStay
    <3>2. copy[<<On(q), Bytes(q)>>] = Bytes(q) BY <1>1, <3>1 DEF Placed
    <3>3. On(q)' = On(q) /\ Bytes(q)' = Bytes(q) BY <3>1 DEF On, Bytes
    <3>4. <<On(q), Bytes(q)>> \in Path \X Content
      BY <1>1, <3>1, InHand DEF Ended, Outcomes, EmptyHanded
    <3>5. CASE copy' = copy BY <3>2, <3>3, <3>5
    <3>6. CASE FetchPlace(p)
      BY <3>2, <3>3, <3>4, <3>6, PlaceStep
    <3> QED BY <1>1, <3>5, <3>6, OwnStep
  <2> QED BY <2>1, <2>2
<1>2. ASSUME UNCHANGED <<job, copy>> PROVE Placed'
  BY <1>2 DEF Placed, On, Bytes
<1>3. ASSUME NEW a \in Path, NEW c \in Content, Damage(a, c) PROVE Placed'
  <2>1. \A p \in Proc : job'[p].at # "verify"
    BY <1>3 DEF Damage, Quiet, Ended, Outcomes
  <2> QED BY <2>1 DEF Placed
<1>4. CASE UNCHANGED assetVars BY <1>2, <1>4 DEF assetVars
<1>5. CASE \E p \in Proc : Add(p) \/ Fetch(p) \/ Crash(p)
  BY <1>1, <1>5 DEF Placed
<1>6. CASE Outage \/ \E a \in Path : DropStandin(a)
  BY <1>2, <1>6 DEF Outage, DropStandin
<1>7. CASE \E a \in Path : \E c \in Content \cup {Nil} : EditFile(a, c)
  BY <1>2, <1>7 DEF EditFile
<1> QED BY <1>3, <1>4, <1>5, <1>6, <1>7 DEF AssetNext

\* Every file, stand-in, object, cached copy and job has the form it should have.
THEOREM AssetTypeCorrect ==
  ASSUME AssetAssumption, EditsDuringRuns = FALSE
  PROVE  AssetSpec => []AssetTypeOK
<1>1. AssetInit => AssetInv BY InitInv
<1>2. AssetInv /\ [AssetNext]_assetVars => AssetInv' BY StepInv
<1>3. AssetInv => AssetTypeOK BY DEF AssetInv
<1> QED BY <1>1, <1>2, <1>3, PTL DEF AssetSpec

-----------------------------------------------------------------------------
(* With one process adding, a stand-in names what left the working tree *)

OneAdder == \A p, q \in AddsFrom : p = q

\* The file an asset add has read is where it was until it is unlinked, and by then its
\* stand-in names it.
AddingOK(p) ==
  /\ job[p].at \in AddStages => p \in AddsFrom /\ file[On(p)] = Bytes(p)
  /\ job[p].at \in {"confirm", "unlink"} => standin[On(p)] = Bytes(p)

RecoverInv == Recoverable /\ \A p \in Proc : AddingOK(p)

\* A step of one process and what the others have in hand.
LEMMA OthersAdding ==
  ASSUME RecoverInv, OneAdder, NEW p \in Proc, \A q \in Proc \ {p} : job'[q] = job[q],
         UNCHANGED <<file, standin>> \/ job[p].at \in AddStages
  PROVE  \A q \in Proc \ {p} : AddingOK(q)'
<1> SUFFICES ASSUME NEW q \in Proc \ {p}  PROVE AddingOK(q)'
  OBVIOUS
<1>1. job'[q] = job[q] /\ AddingOK(q) /\ AddingOK(p) BY DEF RecoverInv
<1>2. CASE UNCHANGED <<file, standin>> BY <1>1, <1>2 DEF AddingOK, On, Bytes
<1>3. CASE job[p].at \in AddStages
  <2>1. job[q].at \notin AddStages BY <1>1, <1>3 DEF AddingOK, OneAdder
  <2> QED BY <1>1, <2>1 DEF AddingOK, AddStages
<1> QED BY <1>2, <1>3

\* A step that leaves the working tree alone.
LEMMA TreeStays ==
  ASSUME RecoverInv, OneAdder, NEW p \in Proc, \A q \in Proc \ {p} : job'[q] = job[q],
         UNCHANGED <<file, standin, kept>>, bucket \subseteq bucket', AddingOK(p)'
  PROVE  RecoverInv'
<1>1. \A q \in Proc \ {p} : AddingOK(q)' BY OthersAdding
<1>2. Recoverable' BY DEF RecoverInv, Recoverable
<1> QED BY <1>1, <1>2 DEF RecoverInv

LEMMA AddReadRecovers ==
  ASSUME AssetInv, RecoverInv, OneAdder, NEW p \in Proc, NEW a \in Path, AddRead(p, a)
  PROVE  RecoverInv'
<1>1. job \in [Proc -> Job] BY DEF AssetInv, AssetTypeOK
<1>2. job'[p] = [at |-> IF file[a] = Nil THEN "readd" ELSE "has", path |-> a, bytes |-> file[a]]
  BY <1>1 DEF AddRead
<1>3. p \in AddsFrom /\ UNCHANGED <<file, standin, kept, bucket>> BY DEF AddRead
<1>4. AddingOK(p)' BY <1>2, <1>3 DEF AddingOK, AddStages, On, Bytes
<1>5. \A q \in Proc \ {p} : job'[q] = job[q] BY <1>1 DEF AddRead
<1> QED BY <1>3, <1>4, <1>5, TreeStays

\* The steps of an add that leave the working tree alone.
LEMMA AddRecovers ==
  ASSUME AssetInv, RecoverInv, OneAdder, NEW p \in Proc,
         AddHas(p) \/ AddPut(p) \/ AddPointer(p) \/ AddConfirm(p) \/ ReAdd(p) \/ ReAddConfirm(p)
  PROVE  RecoverInv'
<1>1. job \in [Proc -> Job] BY DEF AssetInv, AssetTypeOK
<1>2. UNCHANGED <<file, standin, kept>> /\ bucket \subseteq bucket'
  BY DEF AddHas, AddPut, AddPointer, AddConfirm, ReAdd, ReAddConfirm
<1>3. \A q \in Proc \ {p} : job'[q] = job[q]
  BY <1>1 DEF AddHas, AddPut, AddPointer, AddConfirm, ReAdd, ReAddConfirm, Go, Stop
<1>4. AddingOK(p) BY DEF RecoverInv
<1>5. \/ job'[p].at \notin AddStages
      \/ /\ job[p].at \in AddStages /\ job'[p].path = On(p) /\ job'[p].bytes = Bytes(p)
         /\ job'[p].at = "confirm" => standin[On(p)] = Bytes(p)
         /\ job'[p].at = "unlink" => job[p].at = "confirm"
  <2> USE <1>1 DEF Go, Stop, Job, AddStages, On, Bytes
  <2>1. CASE AddHas(p) BY <2>1 DEF AddHas
  <2>2. CASE AddPut(p) BY <2>2 DEF AddPut
  <2>3. CASE AddPointer(p) BY <2>3 DEF AddPointer
  <2>4. CASE AddConfirm(p) BY <2>4 DEF AddConfirm
  <2>5. CASE ReAdd(p) BY <2>5 DEF ReAdd
  <2>6. CASE ReAddConfirm(p) BY <2>6 DEF ReAddConfirm
  <2> QED BY <2>1, <2>2, <2>3, <2>4, <2>5, <2>6
<1>6. AddingOK(p)' BY <1>2, <1>4, <1>5 DEF AddingOK, AddStages, On, Bytes
<1> QED BY <1>2, <1>3, <1>6, TreeStays

\* The stand-in is rewritten while the file it is about is still there.
LEMMA StandinRecovers ==
  ASSUME AssetInv, RecoverInv, OneAdder, NEW p \in Proc, AddTruncate(p) \/ AddWrite(p)
  PROVE  RecoverInv'
<1>1. job \in [Proc -> Job] /\ standin \in [Path -> Content \cup {Nil, Torn}]
  BY DEF AssetInv, AssetTypeOK
<1>2. job[p].at \in AddStages /\ ~Ended(p)
  BY DEF AddTruncate, AddWrite, AddStages, Ended, Outcomes
<1>3. On(p) \in Path /\ Bytes(p) = kept[On(p)] BY <1>2, InHand
<1>4. p \in AddsFrom /\ file[On(p)] = Bytes(p) BY <1>2 DEF RecoverInv, AddingOK
<1>5. UNCHANGED <<file, bucket, kept>> BY DEF AddTruncate, AddWrite
<1>6. \A a \in Path : a # On(p) => standin'[a] = standin[a]
  BY <1>1 DEF AddTruncate, AddWrite
<1>7. Recoverable' BY <1>3, <1>4, <1>5, <1>6 DEF RecoverInv, Recoverable
<1>8. \A q \in Proc \ {p} : job'[q] = job[q] BY <1>1 DEF AddTruncate, AddWrite, Go
<1>9. /\ job'[p].path = On(p) /\ job'[p].bytes = Bytes(p)
      /\ \/ job'[p].at = "write"
         \/ job'[p].at = "confirm" /\ standin'[On(p)] = Bytes(p)
  BY <1>1, <1>3 DEF AddTruncate, AddWrite, Go, Job, On, Bytes
<1>10. AddingOK(p)' BY <1>4, <1>5, <1>9 DEF AddingOK, On, Bytes
<1>11. \A q \in Proc \ {p} : AddingOK(q)' BY <1>2, <1>8, OthersAdding
<1> QED BY <1>7, <1>10, <1>11 DEF RecoverInv

\* The file leaves, and its stand-in names it.
LEMMA UnlinkRecovers ==
  ASSUME AssetInv, RecoverInv, OneAdder, NEW p \in Proc, AddUnlink(p)
  PROVE  RecoverInv'
<1>1. job \in [Proc -> Job] /\ file \in [Path -> Content \cup {Nil}]
  BY DEF AssetInv, AssetTypeOK
<1>2. job[p].at = "unlink" /\ job[p].at \in AddStages /\ ~Ended(p)
  BY DEF AddUnlink, AddStages, Ended, Outcomes
<1>3. On(p) \in Path /\ Bytes(p) = kept[On(p)] /\ Bytes(p) \in bucket BY <1>2, InHand
<1>4. standin[On(p)] = Bytes(p) BY <1>2 DEF RecoverInv, AddingOK
<1>5. UNCHANGED <<standin, bucket, kept>> BY DEF AddUnlink
<1>6. \A a \in Path : a # On(p) => file'[a] = file[a] BY <1>1 DEF AddUnlink
<1>7. Recoverable' BY <1>3, <1>4, <1>5, <1>6 DEF RecoverInv, Recoverable
<1>8. \A q \in Proc \ {p} : job'[q] = job[q] BY <1>1 DEF AddUnlink, Go
<1>9. job'[p].at \in {"added", "refused"} BY <1>1 DEF AddUnlink, Go, Job
<1>10. AddingOK(p)' BY <1>9 DEF AddingOK, AddStages
<1>11. \A q \in Proc \ {p} : AddingOK(q)' BY <1>2, <1>8, OthersAdding
<1> QED BY <1>7, <1>10, <1>11 DEF RecoverInv

LEMMA FetchRecovers ==
  ASSUME AssetInv, RecoverInv, OneAdder, NEW p \in Proc, Fetch(p) \/ Crash(p)
  PROVE  RecoverInv'
<1>1. job \in [Proc -> Job] BY DEF AssetInv, AssetTypeOK
<1>2. UNCHANGED <<file, standin, kept, bucket>>
  BY DEF Fetch, Crash, FetchStart, FetchPointer, FetchStat, FetchHash, FetchLook, FetchBeside,
         FetchConfig, FetchCache, FetchStore, FetchTruncate, FetchFill, FetchPlace, FetchVerify
<1>3. job'[p].at \notin AddStages
  <2> USE <1>1 DEF Go, Stop, Job, AddStages
  <2>1. ASSUME NEW a \in Path, FetchStart(p, a)  PROVE job'[p].at \notin AddStages
    BY <2>1 DEF FetchStart
  <2>2. CASE FetchPointer(p) \/ FetchStat(p) \/ FetchHash(p)
    BY <2>2 DEF FetchPointer, FetchStat, FetchHash
  <2>3. CASE FetchLook(p) \/ FetchBeside(p) \/ FetchConfig(p) \/ FetchCache(p) \/ FetchStore(p)
    BY <2>3 DEF FetchLook, FetchBeside, FetchConfig, FetchCache, FetchStore
  <2>4. CASE FetchTruncate(p) \/ FetchFill(p) \/ FetchPlace(p) \/ FetchVerify(p)
    BY <2>4 DEF FetchTruncate, FetchFill, FetchPlace, FetchVerify
  <2>5. CASE Crash(p)
    BY <2>5 DEF Crash, Idle
  <2> QED BY <2>1, <2>2, <2>3, <2>4, <2>5 DEF Fetch
<1>4. AddingOK(p)' BY <1>3 DEF AddingOK, AddStages
<1> QED BY <1>2, <1>4, OthersStay, TreeStays

\* Between runs: what a human puts in place is there, and only a stand-in that names
\* nothing is dropped.
LEMMA QuietRecovers ==
  ASSUME AssetAssumption, EditsDuringRuns = FALSE, AssetInv, RecoverInv, NEW a \in Path,
         DropStandin(a) \/ \E c \in Content \cup {Nil} : EditFile(a, c)
  PROVE  RecoverInv'
<1>1. (\A p \in Proc : Ended(p)) /\ UNCHANGED <<job, bucket>>
  BY DEF DropStandin, EditFile, Quiet
<1>2. \A p \in Proc : AddingOK(p)'
  BY <1>1 DEF AddingOK, Ended, Outcomes, AddStages
<1>3. /\ standin \in [Path -> Content \cup {Nil, Torn}]
      /\ file \in [Path -> Content \cup {Nil}] /\ kept \in [Path -> Content \cup {Nil}]
  BY DEF AssetInv, AssetTypeOK
<1>4. CASE DropStandin(a)
  <2>1. kept[a] # Torn BY <1>3 DEF AssetAssumption
  <2>2. kept[a] \in {Nil, file[a]} BY <1>4, <2>1 DEF DropStandin, RecoverInv, Recoverable
  <2>3. \A b \in Path : b # a => standin'[b] = standin[b] BY <1>3, <1>4 DEF DropStandin
  <2>4. UNCHANGED <<file, kept>> BY <1>4 DEF DropStandin
  <2>5. Recoverable' BY <1>1, <2>2, <2>3, <2>4 DEF RecoverInv, Recoverable
  <2> QED BY <1>2, <2>5 DEF RecoverInv
<1>5. ASSUME NEW c \in Content \cup {Nil}, EditFile(a, c)  PROVE RecoverInv'
  <2>1. \A b \in Path : /\ file'[b] = IF b = a THEN c ELSE file[b]
                        /\ kept'[b] = IF b = a THEN c ELSE kept[b]
    BY <1>3, <1>5 DEF EditFile
  <2>2. standin' = standin BY <1>5 DEF EditFile
  <2>3. Recoverable' BY <1>1, <2>1, <2>2 DEF RecoverInv, Recoverable
  <2> QED BY <1>2, <2>3 DEF RecoverInv
<1> QED BY <1>4, <1>5

LEMMA RecoverStep ==
  ASSUME AssetAssumption, EditsDuringRuns = FALSE, OneAdder, AssetInv, RecoverInv,
         [AssetNext]_assetVars
  PROVE  RecoverInv'
<1>1. ASSUME NEW p \in Proc, Add(p) PROVE RecoverInv'
  BY <1>1, AddReadRecovers, AddRecovers, StandinRecovers, UnlinkRecovers DEF Add
<1>2. ASSUME NEW p \in Proc, Fetch(p) \/ Crash(p) PROVE RecoverInv'
  BY <1>2, FetchRecovers
<1>3. ASSUME NEW a \in Path, DropStandin(a) \/ \E c \in Content \cup {Nil} : EditFile(a, c)
      PROVE  RecoverInv'
  BY <1>3, QuietRecovers
<1>4. ASSUME UNCHANGED <<file, standin, bucket, job, kept>> PROVE RecoverInv'
  BY <1>4 DEF RecoverInv, Recoverable, AddingOK, On, Bytes
<1>5. CASE Outage \/ UNCHANGED assetVars \/ \E a \in Path, c \in Content : Damage(a, c)
  BY <1>4, <1>5 DEF Outage, assetVars, Damage
<1> QED BY <1>1, <1>2, <1>3, <1>5 DEF AssetNext

\* With one process adding, and any number fetching, bytes that have left the working tree
\* are named by the stand-in beside their path and held by the store (cli/asset.ts
\* assetAddCommand), whatever crashed or failed.
THEOREM RecoverCorrect ==
  ASSUME AssetAssumption, EditsDuringRuns = FALSE, OneAdder
  PROVE  AssetSpec => []Recoverable
<1>1. AssetInit => AssetInv /\ RecoverInv
  BY InitInv DEF AssetInit, RecoverInv, Recoverable, AddingOK, Idle, AddStages
<1>2. AssetInv /\ RecoverInv /\ [AssetNext]_assetVars => AssetInv' /\ RecoverInv'
  BY StepInv, RecoverStep
<1>3. RecoverInv => Recoverable BY DEF RecoverInv
<1> QED BY <1>1, <1>2, <1>3, PTL DEF AssetSpec
-----------------------------------------------------------------------------
(* Why a build refuses *)

\* A file a build found was put there by a human.
Found == \A p \in Proc : job[p].at \in {"hash", "beside"} => kept[On(p)] # Nil

LEMMA FoundStep ==
  ASSUME AssetAssumption, EditsDuringRuns = FALSE, AssetInv, Found, [AssetNext]_assetVars
  PROVE  Found'
<1>1. ASSUME NEW p \in Proc, Add(p) \/ Fetch(p) \/ Crash(p), NEW q \in Proc,
             job'[q].at \in {"hash", "beside"}
      PROVE  kept'[On(q)'] # Nil
  <2>1. kept' = kept
    BY <1>1 DEF Add, AddRead, AddHas, AddPut, AddPointer, AddTruncate, AddWrite, AddConfirm,
         AddUnlink, ReAdd, ReAddConfirm, Fetch, FetchStart, FetchPointer, FetchStat, FetchHash,
         FetchLook, FetchBeside, FetchConfig, FetchCache, FetchStore, FetchTruncate, FetchFill,
         FetchPlace, FetchVerify, Crash
  <2>2. CASE q = p
    <3>1. FetchStat(p) \/ FetchLook(p) BY <1>1, <2>2, OwnStep
    <3>2. On(p)' = On(p) /\ file[On(p)] # Nil
      BY <1>1, <2>2, <3>1 DEF FetchStat, FetchLook, Go, On, AssetInv, AssetTypeOK, Job
    <3>3. On(p) \in Path
      BY <3>1, InHand DEF FetchStat, FetchLook, Ended, Outcomes
    <3> QED BY <2>1, <2>2, <3>2, <3>3 DEF AssetInv, FileIsKept
  <2>3. CASE q # p
    <3>1. job'[q] = job[q] BY <1>1, <2>3, OthersStay
    <3> QED BY <1>1, <2>1, <3>1 DEF Found, On
  <2> QED BY <2>2, <2>3
<1>2. ASSUME UNCHANGED <<job, kept>> PROVE Found'
  BY <1>2 DEF Found, On
<1>3. ASSUME NEW a \in Path, NEW c \in Content \cup {Nil}, EditFile(a, c) PROVE Found'
  BY <1>3 DEF EditFile, Quiet, Ended, Outcomes, Found
<1>4. CASE UNCHANGED assetVars BY <1>2, <1>4 DEF assetVars
<1>5. CASE \E p \in Proc : Add(p) \/ Fetch(p) \/ Crash(p) BY <1>1, <1>5 DEF Found
<1>6. CASE \/ Outage \/ \E a \in Path : DropStandin(a)
           \/ \E a \in Path, c \in Content : Damage(a, c)
  BY <1>2, <1>6 DEF Outage, DropStandin, Damage
<1> QED BY <1>3, <1>4, <1>5, <1>6 DEF AssetNext

\* A file that is gone although a human left it there is in the store, under its stand-in.
LEMMA GoneIsMoved ==
  ASSUME Recoverable, NEW a \in Path, file[a] = Nil, kept[a] # Nil
  PROVE  MovedAway(a)
BY DEF Recoverable, MovedAway

LEMMA RefusedStep ==
  ASSUME AssetInv, Placed, Found, Recoverable, [AssetNext]_assetVars, NEW p \in Proc,
         job[p].at \in FetchStages, job'[p].at = "refused"
  PROVE  Cause(p)
<1>1. job'[p] # job[p] BY DEF FetchStages
<1>2. job' # job BY <1>1
<1>3. ~(UNCHANGED assetVars) BY <1>2 DEF assetVars
<1>4. PICK q \in Proc : Add(q) \/ Fetch(q) \/ Crash(q)
  BY <1>2, <1>3 DEF AssetNext, Outage, DropStandin, EditFile, Damage
<1>5. q = p BY <1>1, <1>4, OthersStay
<1>6. \/ FetchPointer(p) \/ FetchStat(p) \/ FetchHash(p) \/ FetchBeside(p) \/ FetchConfig(p)
      \/ FetchStore(p) \/ FetchVerify(p)
  BY <1>4, <1>5, OwnStep
<1>7. job \in [Proc -> Job] BY DEF AssetInv, AssetTypeOK
<1>8. On(p) \in Path BY InHand DEF FetchStages, Ended, Outcomes
<1> USE DEF Go, Stop, Job
<1>9. CASE FetchPointer(p)
  <2>1. job[p].at = "read" /\ standin[On(p)] = Torn BY <1>7, <1>9 DEF FetchPointer
  <2> QED BY <2>1 DEF Cause
<1>10. CASE FetchStat(p)
  <2>1. job[p].at = "stat" /\ file[On(p)] \in Oversized \cup {Nil} BY <1>7, <1>10 DEF FetchStat
  <2> QED BY <1>8, <2>1, GoneIsMoved DEF Cause
<1>11. CASE FetchHash(p)
  <2>1. job[p].at = "hash" /\ file[On(p)] = Nil BY <1>7, <1>11 DEF FetchHash
  <2> QED BY <1>8, <2>1, GoneIsMoved DEF Cause, Found
<1>12. CASE FetchBeside(p)
  <2>1. job[p].at = "beside" /\ file[On(p)] # Bytes(p) BY <1>7, <1>12 DEF FetchBeside
  <2> QED BY <1>8, <2>1, GoneIsMoved DEF Cause, Found
<1>13. CASE FetchConfig(p)
  <2>1. job[p].at = "config" /\ "unset" \in Faults BY <1>7, <1>13 DEF FetchConfig
  <2> QED BY <2>1 DEF Cause
<1>14. CASE FetchStore(p)
  <2>1. job[p].at = "get" /\ ~(up /\ Bytes(p) \in bucket) BY <1>7, <1>14 DEF FetchStore
  <2> QED BY <2>1 DEF Cause
<1>15. CASE FetchVerify(p)
  <2>1. copy[<<On(p), Bytes(p)>>] = Bytes(p) BY <1>15 DEF FetchVerify, Placed
  <2>2. job'[p].at = "fetched" BY <1>7, <1>15, <2>1 DEF FetchVerify
  <2> QED BY <2>2
<1> QED BY <1>6, <1>9, <1>10, <1>11, <1>12, <1>13, <1>14, <1>15

\* For one process adding and any number fetching: whatever crashed, failed or was damaged, a
\* build refuses an authored input only for a cause in the tree, the configuration or the store,
\* or because an asset add was moving the file just then (providers/inputs.ts
\* resolveAuthoredInput, assets/cache.ts get, assets/resolve.ts resolveToLocalPath).
THEOREM DamageNeverRefuses ==
  ASSUME AssetAssumption, EditsDuringRuns = FALSE, OneAdder
  PROVE  AssetSpec => RefusedForCause
<1>1. AssetInit => AssetInv /\ Placed /\ Found
  BY InitInv DEF AssetInit, Placed, Found, Idle
<1>2. AssetInv /\ Placed /\ Found /\ [AssetNext]_assetVars => AssetInv' /\ Placed' /\ Found'
  BY StepInv, PlacedStep, FoundStep
<1>3. AssetInv /\ Placed /\ Found /\ Recoverable /\ [AssetNext]_assetVars =>
        [\A p \in Proc :
           (job[p].at \in FetchStages /\ job'[p].at = "refused") => Cause(p)]_assetVars
  BY RefusedStep
<1> QED BY <1>1, <1>2, <1>3, RecoverCorrect, PTL DEF AssetSpec, RefusedForCause
=============================================================================
