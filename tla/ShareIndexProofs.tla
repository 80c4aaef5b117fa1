-------------------------- MODULE ShareIndexProofs --------------------------
(***************************************************************************)
(* Theorems about ShareIndex, for any number of shares, files, callers,    *)
(* rebuilds, changes and restarts.                                         *)
(***************************************************************************)
EXTENDS ShareIndex, TLAPS

(***************************************************************************)
(* Types.  A rebuild is at a file when it works on one, and a number that  *)
(* was not given out yet belongs to no rebuild.                            *)
(***************************************************************************)
Places == {"none", "scan", "hash", "read", "cache", "upsert", "add", "done", "failed",
           "lost"} \cup Publishing

RunRecords ==
    [at : Places, dirs : SUBSET Shares, todo : SUBSET Files,
     found : SUBSET (Files \X Versions), file : Files \cup {None},
     stamp : Versions \cup {None}, tth : Versions \cup {None}, since : [Files -> Versions]]

AtFile ==
    \A r \in Runs :
      /\ run[r].at \in {"read", "cache", "upsert", "add"} => run[r].file \in Files
      /\ run[r].at \in {"cache", "upsert", "add"} => run[r].tth \in Versions
      /\ run[r].at = "upsert" => run[r].stamp \in Versions

Numbered == /\ \A r \in Runs : r > current => run[r] = NoRun
            /\ \A r \in cancelled : r <= current

Typed == TypeOK /\ AtFile /\ Numbered

LEMMA RunType == TypeOK => run \in [Runs -> RunRecords]
BY DEF TypeOK, RunRecords, Places

LEMMA Constants ==
  /\ 0 \in Versions
  /\ Versions \subseteq Nat
  /\ None \notin Versions
  /\ NoRun \in RunRecords
  /\ \A place \in Places : [NoRun EXCEPT !.at = place] \in RunRecords
  /\ \A s, h \in Versions : [stamp |-> s, tth |-> h] \in Entries
<1>1. 0 \in Versions /\ Versions \subseteq Nat /\ None \notin Versions
  BY ShareAssumption DEF Versions
<1>2. \A place \in Places : [NoRun EXCEPT !.at = place] \in RunRecords
  BY <1>1 DEF NoRun, RunRecords
<1>3. NoRun \in RunRecords
  BY <1>1 DEF NoRun, RunRecords, Places
<1>. QED
  BY <1>1, <1>2, <1>3 DEF Entries

LEMMA TypeInit == Init => Typed
<1>. SUFFICES ASSUME Init PROVE Typed
  OBVIOUS
<1>1. run \in [Runs -> RunRecords]
  BY Constants DEF Init
<1>2. version \in [Files -> Versions]
  BY Constants DEF Init
<1>3. EmptyList \in FileLists
  BY DEF EmptyList, FileLists
<1>4. hashCache \in [Files -> Entries] /\ dbCache \in [Files -> Entries]
  BY DEF Init, Entries
<1>5. current \in 0 .. MaxRuns /\ restarts \in 0 .. MaxRestarts
  BY ShareAssumption DEF Init
<1>6. AtFile /\ Numbered
  BY DEF Init, AtFile, Numbered, NoRun
<1>7. TypeOK
  BY <1>1, <1>2, <1>3, <1>4, <1>5 DEF Init, TypeOK, RunRecords, Places
<1>. QED
  BY <1>6, <1>7 DEF Typed

\* A rebuild that was given out changes its locals and nobody else's.
LEMMA RunChanges ==
  ASSUME Typed, NEW r \in Runs, NEW x \in RunRecords, run' = [run EXCEPT ![r] = x],
         run[r].at # "none", cancelled' = cancelled, current' = current,
         x.at \in {"read", "cache", "upsert", "add"} => x.file \in Files,
         x.at \in {"cache", "upsert", "add"} => x.tth \in Versions,
         x.at = "upsert" => x.stamp \in Versions
  PROVE  run' \in [Runs -> RunRecords] /\ AtFile' /\ Numbered'
<1>1. run \in [Runs -> RunRecords]
  BY RunType DEF Typed
<1>2. run' \in [Runs -> RunRecords] /\ run'[r] = x /\ \A s \in Runs \ {r} : run'[s] = run[s]
  BY <1>1
<1>3. AtFile'
  BY <1>2 DEF AtFile, Typed
<1>4. Numbered'
  <2>1. run[r] # NoRun
    BY DEF NoRun
  <2>. QED
    BY <1>2, <2>1 DEF Numbered, Typed
<1>. QED
  BY <1>2, <1>3, <1>4

\* The places a rebuild goes through, with what it takes along.
LEMMA RebuildTypes ==
  ASSUME Typed, NEW r \in Runs, Rebuild(r)
  PROVE  run' \in [Runs -> RunRecords] /\ AtFile' /\ Numbered'
<1>. USE Constants, ShareAssumption DEF runVars, cacheVars, listVars, shareVars, At
<1>0. run \in [Runs -> RunRecords] /\ run[r] \in RunRecords /\ cancelled' = cancelled
      /\ current' = current
  BY RunType DEF Typed, Rebuild, ExtractDirectoryTree, ScanFails, Aborted, Hash, Lookup,
     ComputeTTH, HashFault, CacheHash, UpsertHashCache, AddPath, Publish, SwapPaths,
     CleanupHashCache, CleanMemory, PublishList, RebuildSearchIndex, PublishingFails,
     FinishRebuild
<1>1. CASE ExtractDirectoryTree(r)
  <2>. DEFINE x == [run[r] EXCEPT !.at = "hash", !.dirs = sharedDirectories,
                           !.todo = Scanned(sharedDirectories),
                           !.since = version]
  <2>1. x \in RunRecords /\ x.at = "hash"
    BY <1>0 DEF RunRecords, Places, Scanned, Typed, TypeOK
  <2>. QED
    BY <1>0, <1>1, <2>1, RunChanges DEF ExtractDirectoryTree
<1>2. CASE ScanFails(r) \/ Aborted(r) \/ PublishingFails(r) \/ FinishRebuild(r)
  <2>1. PICK place \in {"done", "failed"} : run' = [run EXCEPT ![r] = [NoRun EXCEPT !.at = place]]
    BY <1>2 DEF ScanFails, Aborted, PublishingFails, FinishRebuild
  <2>. DEFINE x == [NoRun EXCEPT !.at = place]
  <2>2. x \in RunRecords /\ x.at = place
    BY DEF Places, NoRun
  <2>3. run[r].at # "none"
    BY <1>2 DEF ScanFails, Aborted, PublishingFails, FinishRebuild
  <2>4. run' = [run EXCEPT ![r] = x]
    BY <2>1
  <2>. HIDE DEF x
  <2>. QED
    BY <1>0, <2>2, <2>3, <2>4, RunChanges
<1>3. CASE Lookup(r)
  <2>1. PICK f \in run[r].todo :
          run' = [run EXCEPT ![r] =
                    IF hashCache[f] = None
                    THEN [@ EXCEPT !.at = "read", !.file = f]
                    ELSE IF hashCache[f].stamp = version[f]
                    THEN [@ EXCEPT !.at = "add", !.file = f, !.tth = hashCache[f].tth]
                    ELSE [@ EXCEPT !.at = "read", !.file = f, !.stamp = version[f]]]
    BY <1>3 DEF Lookup
  <2>2. f \in Files /\ version[f] \in Versions /\ hashCache[f] \in Entries
    BY <1>0 DEF RunRecords, Typed, TypeOK
  <2>3. CASE hashCache[f] = None
    <3>1. [run[r] EXCEPT !.at = "read", !.file = f] \in RunRecords
      BY <1>0, <2>2 DEF RunRecords, Places
    <3>. QED
      BY <1>0, <1>3, <2>1, <2>2, <2>3, <3>1, RunChanges DEF Lookup, RunRecords
  <2>4. CASE hashCache[f] # None /\ hashCache[f].stamp = version[f]
    <3>1. hashCache[f].tth \in Versions
      BY <2>2, <2>4 DEF Entries
    <3>2. [run[r] EXCEPT !.at = "add", !.file = f, !.tth = hashCache[f].tth] \in RunRecords
      BY <1>0, <2>2, <3>1 DEF RunRecords, Places
    <3>. DEFINE x == [run[r] EXCEPT !.at = "add", !.file = f, !.tth = hashCache[f].tth]
    <3>3. x \in RunRecords /\ x.at = "add" /\ x.file \in Files /\ x.tth \in Versions
      BY <1>0, <2>2, <3>1, <3>2 DEF RunRecords
    <3>4. run' = [run EXCEPT ![r] = x] /\ run[r].at # "none"
      BY <1>3, <2>1, <2>4 DEF Lookup
    <3>. HIDE DEF x
    <3>. QED
      BY <1>0, <3>3, <3>4, RunChanges
  <2>5. CASE hashCache[f] # None /\ hashCache[f].stamp # version[f]
    <3>1. [run[r] EXCEPT !.at = "read", !.file = f, !.stamp = version[f]] \in RunRecords
      BY <1>0, <2>2 DEF RunRecords, Places
    <3>. QED
      BY <1>0, <1>3, <2>1, <2>2, <2>5, <3>1, RunChanges DEF Lookup, RunRecords
  <2>. QED
    BY <2>3, <2>4, <2>5
<1>4. CASE ComputeTTH(r)
  <2>1. run[r].file \in Files /\ version[run[r].file] \in Versions
    BY <1>4 DEF ComputeTTH, Typed, AtFile, TypeOK
  <2>. DEFINE x == [run[r] EXCEPT !.at = "cache", !.tth = version[run[r].file]]
  <2>2. /\ x \in RunRecords
        /\ x.at = "cache" /\ x.file \in Files /\ x.tth \in Versions
    BY <1>0, <2>1 DEF RunRecords, Places
  <2>3. run' = [run EXCEPT ![r] = x]
    BY <1>0, <1>4 DEF ComputeTTH
  <2>4. run[r].at # "none"
    BY <1>4 DEF ComputeTTH
  <2>. HIDE DEF x
  <2>. QED
    BY <1>0, <2>2, <2>3, <2>4, RunChanges
<1>5. ASSUME HashFault(r) \/ AddPath(r)
      PROVE  run' \in [Runs -> RunRecords] /\ AtFile' /\ Numbered'
  <2>1. PICK file \in Files, found \in SUBSET (Files \X Versions) : NextJob(r, file, found)
    <3>0. run[r].found \in SUBSET (Files \X Versions) /\ run[r].todo \subseteq Files
      BY <1>0 DEF RunRecords
    <3>1. CASE HashFault(r)
      <4>1. PICK file \in run[r].todo \cup {run[r].file} : NextJob(r, file, run[r].found)
                                                       /\ file \in Files
        BY <3>0, <3>1 DEF HashFault, Typed, AtFile
      <4>. QED
        BY <3>0, <4>1
    <3>2. CASE AddPath(r)
      <4>1. <<run[r].file, run[r].tth>> \in Files \X Versions
        BY <3>2 DEF AddPath, Typed, AtFile
      <4>2. run[r].file \in Files
        BY <4>1
      <4>3. run[r].found \cup {<<run[r].file, run[r].tth>>} \in SUBSET (Files \X Versions)
        BY <3>0, <4>1
      <4>4. NextJob(r, run[r].file, run[r].found \cup {<<run[r].file, run[r].tth>>})
        BY <3>2 DEF AddPath
      <4>. QED
        BY <4>2, <4>3, <4>4
    <3>. QED
      BY <1>5, <3>1, <3>2
  <2>. DEFINE x == [run[r] EXCEPT !.at = "hash", !.todo = run[r].todo \ {file},
                           !.found = found, !.file = None, !.stamp = None, !.tth = None]
  <2>2. x \in RunRecords /\ x.at = "hash"
    BY <1>0 DEF RunRecords, Places
  <2>3. run' = [run EXCEPT ![r] = x]
    BY <2>1 DEF NextJob
  <2>4. run[r].at # "none"
    BY <1>5 DEF HashFault, AddPath
  <2>. HIDE DEF x
  <2>. QED
    BY <1>0, <2>2, <2>3, <2>4, RunChanges
<1>6. CASE CacheHash(r)
  <2>1. run[r].file \in Files /\ run[r].tth \in Versions /\ run[r].stamp \in Versions \cup {None}
        /\ version[run[r].file] \in Versions
    BY <1>0, <1>6 DEF CacheHash, Typed, AtFile, RunRecords, TypeOK
  <2>2. NewEntry(r).stamp \in Versions
    BY <2>1 DEF NewEntry
  <2>. DEFINE x == [run[r] EXCEPT !.at = "upsert", !.stamp = NewEntry(r).stamp]
  <2>3. /\ x \in RunRecords
        /\ x.at = "upsert" /\ x.file \in Files /\ x.tth \in Versions /\ x.stamp \in Versions
    BY <1>0, <2>1, <2>2 DEF RunRecords, Places
  <2>4. run' = [run EXCEPT ![r] = x]
    BY <1>0, <1>6 DEF CacheHash
  <2>5. run[r].at # "none"
    BY <1>6 DEF CacheHash
  <2>. HIDE DEF x
  <2>. QED
    BY <1>0, <2>3, <2>4, <2>5, RunChanges
<1>7. CASE UpsertHashCache(r)
  <2>1. [run[r] EXCEPT !.at = "add"] \in RunRecords
    BY <1>0 DEF RunRecords, Places
  <2>2. run' = [run EXCEPT ![r] = [run[r] EXCEPT !.at = "add"]]
    BY <1>0, <1>7 DEF UpsertHashCache
  <2>. QED
    BY <1>0, <1>7, <2>1, <2>2, RunChanges DEF UpsertHashCache, RunRecords, Typed, AtFile
<1>8. CASE SwapPaths(r) \/ CleanupHashCache(r) \/ CleanMemory(r) \/ PublishList(r)
           \/ RebuildSearchIndex(r)
  <2>1. PICK place \in Publishing : run' = [run EXCEPT ![r].at = place]
    BY <1>8 DEF SwapPaths, CleanupHashCache, CleanMemory, PublishList, RebuildSearchIndex,
                Step, Publishing
  <2>2. [run[r] EXCEPT !.at = place] \in RunRecords
    BY <1>0 DEF RunRecords, Places
  <2>3. run' = [run EXCEPT ![r] = [run[r] EXCEPT !.at = place]]
    BY <1>0, <2>1
  <2>4. run[r].at # "none"
    BY <1>8 DEF SwapPaths, CleanupHashCache, CleanMemory, PublishList, RebuildSearchIndex, Step
  <2>. QED
    BY <1>0, <2>2, <2>3, <2>4, RunChanges DEF RunRecords, Publishing
<1>. QED
  BY <1>1, <1>2, <1>3, <1>4, <1>5, <1>6, <1>7, <1>8 DEF Rebuild, Hash, Publish

LEMMA StartTypes ==
  ASSUME Typed, current < MaxRuns, NEW R \in [Runs -> RunRecords],
         \A r \in Runs : R[r] = run[r] \/ R[r].at \in {"none", "lost"},
         \A r \in Runs : r > current => R[r] = NoRun,
         current' = current + 1, run' = [R EXCEPT ![current'].at = "scan"],
         cancelled' \subseteq cancelled
  PROVE  /\ current' \in 0 .. MaxRuns /\ cancelled' \subseteq Runs
         /\ run' \in [Runs -> RunRecords] /\ AtFile' /\ Numbered'
<1>1. current \in Nat /\ current' \in Runs /\ current' \in 0 .. MaxRuns /\ current' > current
  BY ShareAssumption DEF Typed, TypeOK, Runs
<1>. DEFINE x == [R[current'] EXCEPT !.at = "scan"]
<1>2. x \in RunRecords /\ x.at = "scan"
  <2>1. R[current'] \in RunRecords /\ "scan" \in Places
    BY <1>1 DEF Places
  <2>. QED
    BY <2>1 DEF RunRecords
<1>3. run' = [R EXCEPT ![current'] = x]
  BY <1>1
<1>. HIDE DEF x
<1>4. run' \in [Runs -> RunRecords] /\ run'[current'] = x
      /\ \A s \in Runs \ {current'} : run'[s] = R[s]
  BY <1>1, <1>2, <1>3
<1>5. AtFile'
  BY <1>2, <1>4 DEF AtFile, Typed
<1>6. Numbered'
  <2>1. \A r \in Runs : r > current' => r > current /\ r # current'
    BY <1>1 DEF Runs
  <2>2. \A r \in cancelled : r <= current'
    BY <1>1 DEF Typed, TypeOK, Numbered, Runs
  <2>. QED
    BY <1>4, <2>1, <2>2 DEF Numbered
<1>. QED
  BY <1>1, <1>4, <1>5, <1>6 DEF Typed, TypeOK

LEMMA TypeStep == Typed /\ [Next]_vars => Typed'
<1>. SUFFICES ASSUME Typed, [Next]_vars PROVE Typed'
  OBVIOUS
<1>. USE ShareAssumption DEF runVars, cacheVars, listVars, shareVars, history
<1>0. run \in [Runs -> RunRecords]
  BY RunType DEF Typed
<1>1. CASE UNCHANGED vars
  BY <1>1 DEF vars, Typed, TypeOK, AtFile, Numbered
<1>2. ASSUME NEW t \in Threads, Request(t) /\ ~StartRebuild(t)
      PROVE  Typed'
  <2>1. CASE CancelRebuild(t)
    <3>1. cancelled' \subseteq Runs /\ \A r \in cancelled' : r <= current
      BY <2>1 DEF CancelRebuild, Typed, TypeOK, Numbered, Runs
    <3>2. op' \in [Threads -> {"idle", "save", "cancel", "start"}]
      BY <2>1 DEF CancelRebuild, Goto, Typed, TypeOK
    <3>3. current' = current /\ run' = run
      BY <2>1 DEF CancelRebuild
    <3>. QED
      BY <2>1, <3>1, <3>2, <3>3 DEF CancelRebuild, Typed, TypeOK, AtFile, Numbered
  <2>2. CASE ~CancelRebuild(t)
    <3>1. /\ UNCHANGED <<version, cacheVars, listVars, runVars, restarts, history>>
          /\ sharedDirectories' \subseteq Shares /\ dbDirectories' \subseteq Shares
          /\ op' \in [Threads -> {"idle", "save", "cancel", "start"}]
      BY <1>2, <2>2 DEF Request, AddSharedDirectory, RemoveSharedDirectory, RefreshShares,
                        Elapsed, SaveDirectories, Goto, Typed, TypeOK
    <3>. QED
      BY <3>1 DEF Typed, TypeOK, AtFile, Numbered
  <2>. QED
    BY <2>1, <2>2
<1>3. ASSUME NEW t \in Threads, StartRebuild(t)
      PROVE  Typed'
  <2>1. /\ current' \in 0 .. MaxRuns /\ cancelled' \subseteq Runs
        /\ run' \in [Runs -> RunRecords] /\ AtFile' /\ Numbered'
    BY <1>0, <1>3, StartTypes DEF StartRebuild, Typed, Numbered
  <2>2. op' \in [Threads -> {"idle", "save", "cancel", "start"}]
    BY <1>3 DEF StartRebuild, Goto, Typed, TypeOK
  <2>. QED
    BY <1>3, <2>1, <2>2 DEF StartRebuild, Typed, TypeOK, RunRecords, Places
<1>4. ASSUME NEW r \in Runs, Rebuild(r)
      PROVE  Typed'
  <2>1. run' \in [Runs -> RunRecords] /\ AtFile' /\ Numbered'
    BY <1>4, RebuildTypes
  <2>2. /\ UNCHANGED <<shareVars, version, current, cancelled, op, restarts, torn>>
        /\ isHashing' \in BOOLEAN /\ overtaken' \subseteq Runs
    BY <1>4 DEF Rebuild, ExtractDirectoryTree, ScanFails, Aborted, Hash, Lookup, ComputeTTH,
       HashFault, CacheHash, UpsertHashCache, AddPath, Publish, SwapPaths, CleanupHashCache,
       CleanMemory, PublishList, RebuildSearchIndex, PublishingFails, FinishRebuild,
       NoteOvertaking, Typed, TypeOK
  <2>3. /\ run[r].found \subseteq Files \X Versions /\ run[r].dirs \subseteq Shares
        /\ run[r].at \in {"upsert", "cache"} =>
             run[r].file \in Files /\ run[r].tth \in Versions /\ NewEntry(r) \in Entries
    <3>1. run[r] \in RunRecords
      BY <1>0
    <3>2. run[r].found \subseteq Files \X Versions /\ run[r].dirs \subseteq Shares
          /\ run[r].stamp \in Versions \cup {None}
      BY <3>1 DEF RunRecords
    <3>3. ASSUME run[r].at \in {"upsert", "cache"}
          PROVE  run[r].file \in Files /\ run[r].tth \in Versions
                 /\ version[run[r].file] \in Versions
      BY <3>3 DEF Typed, TypeOK, AtFile
    <3>. QED
      BY <3>2, <3>3, Constants DEF NewEntry
  <2>4. hashCache' \in [Files -> Entries] /\ dbCache' \in [Files -> Entries]
    <3>1. CASE CacheHash(r)
      BY <2>3, <3>1 DEF CacheHash, At, Typed, TypeOK
    <3>2. CASE UpsertHashCache(r)
      BY <2>3, <3>2 DEF UpsertHashCache, At, Typed, TypeOK
    <3>3. CASE CleanupHashCache(r) \/ PublishingFails(r)
      <4>1. Cleaned(r, dbCache) \in [Files -> Entries]
        BY DEF Cleaned, Typed, TypeOK, Entries
      <4>. QED
        BY <3>3, <4>1 DEF CleanupHashCache, PublishingFails, Typed, TypeOK
    <3>4. CASE CleanMemory(r)
      BY <3>4 DEF CleanMemory, Cleaned, Typed, TypeOK, Entries
    <3>. QED
      BY <1>4, <3>1, <3>2, <3>3, <3>4 DEF Rebuild, ExtractDirectoryTree, ScanFails, Aborted,
         Hash, Lookup, ComputeTTH, HashFault, AddPath, Publish, SwapPaths, PublishList,
         RebuildSearchIndex, FinishRebuild, Typed, TypeOK
  <2>5. /\ filePaths' \subseteq Files \X Versions
        /\ localFileList' \in FileLists /\ searchIndex' \in FileLists
    <3>1. CASE AddPath(r)
      <4>1. <<run[r].file, run[r].tth>> \in Files \X Versions
        BY <3>1 DEF AddPath, At, Typed, AtFile
      <4>. QED
        BY <3>1, <4>1 DEF AddPath, Typed, TypeOK
    <3>2. CASE SwapPaths(r)
      BY <2>3, <3>2 DEF SwapPaths, Typed, TypeOK
    <3>3. CASE PublishList(r)
      <4>1. Unhashed(r) \subseteq Files
        BY DEF Unhashed, Scanned
      <4>2. run[r].found \cup (Unhashed(r) \X {None})
              \subseteq Files \X (Versions \cup {None})
        BY <2>3, <4>1
      <4>. QED
        BY <2>3, <3>3, <4>2 DEF PublishList, FileLists, Typed, TypeOK
    <3>4. CASE RebuildSearchIndex(r)
      BY <3>4 DEF RebuildSearchIndex, Typed, TypeOK
    <3>. QED
      BY <1>4, <3>1, <3>2, <3>3, <3>4 DEF Rebuild, ExtractDirectoryTree, ScanFails, Aborted,
         Hash, Lookup, ComputeTTH, HashFault, CacheHash, UpsertHashCache, Publish,
         CleanupHashCache, CleanMemory, PublishingFails, FinishRebuild, Typed, TypeOK
  <2>. QED
    BY <2>1, <2>2, <2>4, <2>5 DEF Typed, TypeOK, RunRecords, Places
<1>5. ASSUME NEW f \in Files, Edit(f)
      PROVE  Typed'
  <2>1. version' \in [Files -> Versions]
    BY <1>5 DEF Edit, Typed, TypeOK, Versions
  <2>2. torn' \in BOOLEAN
    BY <1>5 DEF Edit, Typed, TypeOK
  <2>. QED
    BY <1>5, <2>1, <2>2 DEF Edit, Typed, TypeOK, AtFile, Numbered
<1>6. CASE Restart
  <2>. DEFINE R == [r \in Runs |-> IF At(r, "none") THEN NoRun ELSE [NoRun EXCEPT !.at = "lost"]]
  <2>1. /\ R \in [Runs -> RunRecords]
        /\ \A r \in Runs : R[r].at \in {"none", "lost"}
        /\ \A r \in Runs : r > current => R[r] = NoRun
    <3>1. NoRun.at = "none" /\ [NoRun EXCEPT !.at = "lost"].at = "lost"
      BY DEF NoRun
    <3>2. NoRun \in RunRecords /\ [NoRun EXCEPT !.at = "lost"] \in RunRecords
      BY Constants DEF Places
    <3>3. \A r \in Runs : r > current => At(r, "none")
      BY <3>1 DEF Typed, Numbered, At
    <3>. QED
      BY <3>1, <3>2, <3>3
  <2>2. /\ current' \in 0 .. MaxRuns /\ cancelled' \subseteq Runs /\ isHashing' \in BOOLEAN
        /\ run' \in [Runs -> RunRecords] /\ AtFile' /\ Numbered'
    <3>1. CASE current' = current
      <4>1. run' = R
        BY <1>6, <3>1 DEF Restart, Typed, TypeOK
      <4>. QED
        BY <1>6, <2>1, <3>1, <4>1 DEF Restart, Typed, TypeOK, AtFile, Numbered
    <3>2. CASE current' # current
      <4>1. current < MaxRuns /\ current' = current + 1 /\ cancelled' = {} /\ isHashing' = TRUE
            /\ run' = [R EXCEPT ![current'].at = "scan"]
        BY <1>6, <3>2 DEF Restart
      <4>. HIDE DEF R
      <4>. QED
        BY <2>1, <4>1, StartTypes
    <3>. QED
      BY <3>1, <3>2
  <2>3. EmptyList \in FileLists
    BY DEF EmptyList, FileLists
  <2>4. restarts' \in 0 .. MaxRestarts
    BY <1>6 DEF Restart, Typed, TypeOK
  <2>5. op' \in [Threads -> {"idle", "save", "cancel", "start"}]
    BY <1>6 DEF Restart
  <2>. HIDE DEF R
  <2>. QED
    BY <1>6, <2>2, <2>3, <2>4, <2>5 DEF Restart, Typed, TypeOK, RunRecords, Places
<1>. QED
  BY <1>1, <1>2, <1>3, <1>4, <1>5, <1>6 DEF Next

\* Type correctness: the lists, the caches and the locals of every rebuild are
\* of the kind the code keeps (ShareManager.cs 24-41, 198-377).
THEOREM TypesHold == Spec => []TypeOK
<1>1. Spec => []Typed
  BY TypeInit, TypeStep, PTL DEF Spec
<1>. QED
  BY <1>1, PTL DEF Typed

(***************************************************************************)
(* RestsClean: a change that is not saved belongs to a caller on its way   *)
(* to save it, and the flag belongs to the newest rebuild, which only a    *)
(* caller can have cancelled and only its own end takes down.              *)
(***************************************************************************)
Final == {"none", "done", "failed", "lost"}

Busy == \E t \in Threads : op[t] # "idle"

SavedSoon == dbDirectories # sharedDirectories => \E t \in Threads : op[t] = "save"
CancelledByCaller == current \in cancelled => Busy
FlagIsOwned == isHashing /\ ~Busy => current > 0 /\ run[current].at \notin Final

Settled == SavedSoon /\ CancelledByCaller /\ FlagIsOwned

\* What a step of a rebuild leaves alone.
LEMMA RebuildFrame ==
  ASSUME Typed, NEW r \in Runs, Rebuild(r)
  PROVE  /\ UNCHANGED <<sharedDirectories, dbDirectories, version, current, cancelled, op, torn>>
         /\ run[r].at \notin Final
         /\ \A s \in Runs \ {r} : run'[s] = run[s]
         /\ isHashing' => isHashing
         /\ run'[r].at \in Final => ~isHashing' \/ Aborted(r)
<1>. USE DEF runVars, cacheVars, listVars, shareVars, history, At, Final, Publishing
<1>0. run \in [Runs -> RunRecords]
  BY RunType DEF Typed
<1>1. CASE ExtractDirectoryTree(r) \/ Lookup(r)
  <2>1. run[r].at \in {"scan", "hash"} /\ run'[r].at \in {"hash", "read", "add"}
    <3>1. CASE ExtractDirectoryTree(r)
      BY <1>0, <3>1 DEF ExtractDirectoryTree, RunRecords
    <3>2. CASE Lookup(r)
      BY <1>0, <3>2 DEF Lookup, RunRecords
    <3>. QED
      BY <1>1, <3>1, <3>2
  <2>2. \A s \in Runs \ {r} : run'[s] = run[s]
    BY <1>0, <1>1 DEF ExtractDirectoryTree, Lookup
  <2>. QED
    <3>1. UNCHANGED <<sharedDirectories, dbDirectories, version, isHashing, current, cancelled,
                      op, torn>>
      BY <1>1 DEF ExtractDirectoryTree, Lookup
    <3>. QED
      BY <2>1, <2>2, <3>1
<1>2. CASE ScanFails(r) \/ Aborted(r) \/ PublishingFails(r) \/ FinishRebuild(r)
  BY <1>0, <1>2 DEF ScanFails, Aborted, PublishingFails, FinishRebuild, NoteOvertaking
<1>3. CASE ComputeTTH(r) \/ CacheHash(r) \/ UpsertHashCache(r)
  <2>1. run'[r].at \in {"cache", "upsert", "add"} /\ \A s \in Runs \ {r} : run'[s] = run[s]
    BY <1>0, <1>3 DEF ComputeTTH, CacheHash, UpsertHashCache, RunRecords
  <2>. QED
    BY <1>3, <2>1 DEF ComputeTTH, CacheHash, UpsertHashCache
<1>4. CASE HashFault(r) \/ AddPath(r)
  <2>1. run'[r].at = "hash" /\ \A s \in Runs \ {r} : run'[s] = run[s]
    <3>1. PICK file, found : NextJob(r, file, found)
      BY <1>4 DEF HashFault, AddPath
    <3>. QED
      BY <1>0, <3>1 DEF NextJob, RunRecords
  <2>. QED
    BY <1>4, <2>1 DEF HashFault, AddPath, NoteOvertaking
<1>5. CASE SwapPaths(r) \/ CleanupHashCache(r) \/ CleanMemory(r) \/ PublishList(r)
           \/ RebuildSearchIndex(r)
  <2>1. run'[r].at \in Publishing /\ run[r].at \in {"hash"} \cup Publishing
        /\ \A s \in Runs \ {r} : run'[s] = run[s]
    BY <1>0, <1>5 DEF SwapPaths, CleanupHashCache, CleanMemory, PublishList,
       RebuildSearchIndex, Step, RunRecords
  <2>. QED
    BY <1>5, <2>1 DEF SwapPaths, CleanupHashCache, CleanMemory, PublishList,
       RebuildSearchIndex, NoteOvertaking
<1>. QED
  BY <1>1, <1>2, <1>3, <1>4, <1>5 DEF Rebuild, Hash, Publish

\* The newest rebuild is in its scan after a caller has started it.
LEMMA Started ==
  ASSUME Typed, NEW t \in Threads, StartRebuild(t)
  PROVE  /\ current' = current + 1 /\ current' \in Runs /\ current' > 0
         /\ run' = [run EXCEPT ![current'] = [NoRun EXCEPT !.at = "scan"]]
         /\ run'[current'] = [NoRun EXCEPT !.at = "scan"]
         /\ \A s \in Runs \ {current'} : run'[s] = run[s]
         /\ current' \notin cancelled
<1>1. /\ current' = current + 1 /\ current \in Nat /\ current < MaxRuns
      /\ run \in [Runs -> RunRecords]
  BY RunType DEF StartRebuild, Typed, TypeOK
<1>2. current' \in Runs /\ current' > current /\ current' > 0
  BY <1>1, ShareAssumption DEF Runs
<1>3. run[current'] = NoRun
  BY <1>2 DEF Typed, Numbered
<1>4. run' = [run EXCEPT ![current'] = [run[current'] EXCEPT !.at = "scan"]]
  BY <1>1, <1>2 DEF StartRebuild
<1>5. current' \notin cancelled
  BY <1>1, <1>2 DEF Typed, Numbered
<1>. QED
  BY <1>1, <1>2, <1>3, <1>4, <1>5

\* After a restart the newest rebuild is lost, or a new one and in its scan.
LEMMA Restarted ==
  ASSUME Typed, Restart
  PROVE  /\ ~Busy'
         /\ cancelled' = {}
         /\ sharedDirectories' = dbDirectories'
         /\ isHashing' => current' > 0
         /\ current' > 0 => IF isHashing' THEN run'[current'] = [NoRun EXCEPT !.at = "scan"]
                                          ELSE run'[current'].at \in {"none", "lost"}
         /\ \A r \in Runs : run'[r] \in {NoRun, [NoRun EXCEPT !.at = "lost"],
                                         [NoRun EXCEPT !.at = "scan"]}
<1>. DEFINE R == [r \in Runs |-> IF At(r, "none") THEN NoRun ELSE [NoRun EXCEPT !.at = "lost"]]
<1>1. /\ \A r \in Runs : R[r] \in {NoRun, [NoRun EXCEPT !.at = "lost"]}
      /\ \A r \in Runs : R[r].at \in {"none", "lost"}
      /\ \A r \in Runs : r > current => R[r] = NoRun
  <2>1. NoRun.at = "none" /\ [NoRun EXCEPT !.at = "lost"].at = "lost"
    BY DEF NoRun
  <2>. QED
    BY <2>1 DEF Typed, Numbered, At
<1>2. current \in 0 .. MaxRuns /\ MaxRuns \in Nat
  BY ShareAssumption DEF Typed, TypeOK
<1>3. CASE ~isHashing'
  <2>1. run' = R /\ current' = current
    BY <1>3 DEF Restart
  <2>. QED
    BY <1>1, <1>2, <1>3, <2>1 DEF Restart, Busy, shareVars, Runs
<1>4. CASE isHashing'
  <2>1. /\ current < MaxRuns /\ current' = current + 1
        /\ run' = [R EXCEPT ![current'].at = "scan"]
    BY <1>4 DEF Restart
  <2>2. current' \in Runs /\ current' > current /\ current' > 0
    BY <1>2, <2>1 DEF Runs
  <2>3. R[current'] = NoRun
    BY <1>1, <2>2
  <2>. HIDE DEF R
  <2>4. R = [r \in Runs |-> R[r]]
    BY DEF R
  <2>5. run'[current'] = [NoRun EXCEPT !.at = "scan"]
        /\ \A r \in Runs \ {current'} : run'[r] = R[r]
    BY <2>1, <2>2, <2>3, <2>4
  <2>. QED
    BY <1>1, <1>4, <2>2, <2>5 DEF Restart, Busy
<1>. QED
  BY <1>3, <1>4

LEMMA SettledStep == Typed /\ Settled /\ [Next]_vars => Settled'
<1>. SUFFICES ASSUME Typed, Settled, [Next]_vars PROVE Settled'
  OBVIOUS
<1>. USE DEF runVars, cacheVars, listVars, shareVars, history
<1>1. CASE UNCHANGED vars
  BY <1>1 DEF vars, Settled, SavedSoon, CancelledByCaller, FlagIsOwned, Busy
<1>2. ASSUME NEW t \in Threads, Request(t), ~StartRebuild(t)
      PROVE  Settled'
  <2>1. op \in [Threads -> {"idle", "save", "cancel", "start"}]
    BY DEF Typed, TypeOK
  <2>2. Busy'
    BY <1>2, <2>1 DEF Request, AddSharedDirectory, RemoveSharedDirectory, RefreshShares, Elapsed,
       SaveDirectories, ChangedByOther, CancelRebuild, Goto, Busy
  <2>3. SavedSoon'
    <3>1. CASE SaveDirectories(t)
      BY <2>1, <3>1 DEF SaveDirectories, ChangedByOther, Goto, Settled, SavedSoon
    <3>2. CASE ~SaveDirectories(t)
      BY <1>2, <2>1, <3>2 DEF Request, AddSharedDirectory, RemoveSharedDirectory, RefreshShares,
         Elapsed, CancelRebuild, Goto, Settled, SavedSoon
    <3>. QED
      BY <3>1, <3>2
  <2>. QED
    BY <2>2, <2>3 DEF Settled, CancelledByCaller, FlagIsOwned
<1>3. ASSUME NEW t \in Threads, StartRebuild(t)
      PROVE  Settled'
  <2>1. op \in [Threads -> {"idle", "save", "cancel", "start"}]
    BY DEF Typed, TypeOK
  <2>2. SavedSoon'
    BY <1>3, <2>1 DEF StartRebuild, Goto, Settled, SavedSoon
  <2>3. CancelledByCaller' /\ FlagIsOwned'
    <3>1. cancelled' = cancelled
      BY <1>3 DEF StartRebuild
    <3>2. run'[current'].at = "scan"
      BY <1>3, Started DEF NoRun
    <3>. QED
      BY <1>3, <3>1, <3>2, Started DEF CancelledByCaller, FlagIsOwned, Final
  <2>. QED
    BY <2>2, <2>3 DEF Settled
<1>4. ASSUME NEW r \in Runs, Rebuild(r)
      PROVE  Settled'
  <2>1. SavedSoon' /\ CancelledByCaller' /\ Busy' = Busy
    BY <1>4, RebuildFrame DEF Settled, SavedSoon, CancelledByCaller, Busy
  <2>2. FlagIsOwned'
    <3>. SUFFICES ASSUME isHashing', ~Busy' PROVE current' > 0 /\ run'[current'].at \notin Final
      BY DEF FlagIsOwned
    <3>1. current' = current /\ current > 0 /\ run[current].at \notin Final /\ current \in Runs
      BY <1>4, <2>1, RebuildFrame DEF Settled, FlagIsOwned, Typed, TypeOK, Runs
    <3>2. CASE r # current
      BY <1>4, <3>1, <3>2, RebuildFrame
    <3>3. CASE r = current
      <4>1. ~Aborted(r)
        BY <2>1, <3>3 DEF Aborted, Settled, CancelledByCaller
      <4>. QED
        BY <1>4, <3>1, <3>3, <4>1, RebuildFrame
    <3>. QED
      BY <3>2, <3>3
  <2>. QED
    BY <2>1, <2>2 DEF Settled
<1>5. ASSUME NEW f \in Files, Edit(f)
      PROVE  Settled'
  BY <1>5 DEF Edit, Settled, SavedSoon, CancelledByCaller, FlagIsOwned, Busy
<1>6. CASE Restart
  <2>1. isHashing' => run'[current'].at = "scan"
    BY <1>6, Restarted DEF NoRun
  <2>. QED
    BY <1>6, <2>1, Restarted DEF Settled, SavedSoon, CancelledByCaller, FlagIsOwned, Final
<1>. QED
  BY <1>1, <1>2, <1>3, <1>4, <1>5, <1>6 DEF Next

\* However calls overlapped, were cancelled or failed, in quiet moments the
\* hashing flag is down and the shares are saved as they are
\* (ShareManager.cs 58-70, 171-200, 358-376).
THEOREM RestsAreClean == Spec => []RestsClean
<1>1. Init => Settled
  BY DEF Init, Settled, SavedSoon, CancelledByCaller, FlagIsOwned
<1>2. Spec => [](Typed /\ Settled)
  BY TypeInit, TypeStep, <1>1, SettledStep, PTL DEF Spec
<1>3. Typed /\ Settled => RestsClean
  <2>. SUFFICES ASSUME Typed, Settled, Quiescent
                PROVE  ~isHashing /\ dbDirectories = sharedDirectories
    BY DEF RestsClean
  <2>1. ~Busy
    BY DEF Busy, Quiescent
  <2>2. current > 0 => current \in Runs
    BY DEF Typed, TypeOK, Runs
  <2>. QED
    BY <2>1, <2>2 DEF Settled, SavedSoon, FlagIsOwned, Quiescent, Final
<1>. QED
  BY <1>2, <1>3, PTL

(***************************************************************************)
(* FreshHashes: a cache entry was stamped before its content was hashed,   *)
(* so an entry whose stamp is that of the file holds no older content; and *)
(* what a rebuild reads itself is no older than its start.                 *)
(***************************************************************************)
FreshCache == \A f \in Files :
    /\ hashCache[f] # None => hashCache[f].stamp <= hashCache[f].tth
    /\ dbCache[f] # None => dbCache[f].stamp <= dbCache[f].tth

FreshLocals(x) ==
    /\ \A f \in Files : x.since[f] <= version[f]
    /\ x.at = "scan" => x.found = {}
    /\ x.at \in {"scan", "hash"} => x.stamp = None
    /\ x.at = "read" /\ x.stamp # None => x.stamp <= version[x.file]
    /\ x.at = "cache" /\ x.stamp # None => x.stamp <= x.tth
    /\ x.at = "cache" /\ x.stamp = None => x.tth = version[x.file]
    /\ x.at = "upsert" => x.stamp <= x.tth
    /\ x.at \in {"cache", "upsert", "add"} => x.tth >= x.since[x.file]
    /\ \A p \in x.found : p[2] >= x.since[p[1]]

Fresh == ~torn => FreshCache /\ \A r \in Runs : FreshLocals(run[r])

\* A record that stands for no rebuild, or for one that has not begun or has
\* ended, holds nothing.
LEMMA NothingHeld ==
  ASSUME Typed, NEW place \in {"scan", "done", "failed", "lost"}
  PROVE  FreshLocals(NoRun) /\ FreshLocals([NoRun EXCEPT !.at = place])
<1>1. \A f \in Files : 0 <= version[f]
  BY Constants DEF Typed, TypeOK
<1>2. NoRun.found = {} /\ NoRun.stamp = None /\ NoRun.at = "none" /\ NoRun.since = [f \in Files |-> 0]
  BY DEF NoRun
<1>. DEFINE x == [NoRun EXCEPT !.at = place]
<1>3. x.found = {} /\ x.stamp = None /\ x.since = [f \in Files |-> 0]
      /\ x.at \in {"scan", "done", "failed", "lost"}
  BY DEF NoRun
<1>. HIDE DEF x
<1>4. FreshLocals(x)
  BY <1>1, <1>3 DEF FreshLocals
<1>5. FreshLocals(NoRun)
  BY <1>1, <1>2 DEF FreshLocals
<1>. QED
  BY <1>4, <1>5 DEF x

LEMMA FreshRun ==
  ASSUME Typed, NEW r \in Runs, FreshCache, FreshLocals(run[r]), Rebuild(r)
  PROVE  FreshCache' /\ FreshLocals(run'[r])
<1>. USE Constants DEF runVars, cacheVars, listVars, shareVars, At
<1>0. /\ run \in [Runs -> RunRecords] /\ run[r] \in RunRecords
      /\ version \in [Files -> Versions] /\ version' = version
      /\ hashCache \in [Files -> Entries] /\ dbCache \in [Files -> Entries]
  BY RunType, RebuildFrame DEF Typed, TypeOK
<1>1. CASE ExtractDirectoryTree(r)
  <2>1. run'[r] = [run[r] EXCEPT !.at = "hash", !.dirs = sharedDirectories,
                           !.todo = Scanned(sharedDirectories), !.since = version]
    BY <1>0, <1>1 DEF ExtractDirectoryTree
  <2>2. /\ run'[r].at = "hash" /\ run'[r].since = version
        /\ run'[r].found = {} /\ run'[r].stamp = None
    BY <1>0, <1>1, <2>1 DEF ExtractDirectoryTree, FreshLocals, RunRecords
  <2>3. FreshLocals(run'[r])
    BY <1>0, <2>2 DEF FreshLocals
  <2>. QED
    BY <1>1, <2>3 DEF ExtractDirectoryTree, FreshCache
<1>2. CASE ScanFails(r) \/ Aborted(r) \/ PublishingFails(r) \/ FinishRebuild(r)
  <2>1. PICK place \in {"done", "failed"} : run'[r] = [NoRun EXCEPT !.at = place]
    BY <1>0, <1>2 DEF ScanFails, Aborted, PublishingFails, FinishRebuild
  <2>2. FreshCache'
    <3>1. \A f \in Files : Cleaned(r, dbCache)[f] \in {dbCache[f], None}
      BY DEF Cleaned
    <3>2. hashCache' = hashCache /\ dbCache' \in {dbCache, Cleaned(r, dbCache)}
      BY <1>2 DEF ScanFails, Aborted, PublishingFails, FinishRebuild
    <3>. QED
      BY <3>1, <3>2 DEF FreshCache
  <2>. QED
    BY <2>1, <2>2, NothingHeld
<1>3. CASE Lookup(r)
  <2>1. PICK f \in run[r].todo :
          run'[r] = IF hashCache[f] = None
                    THEN [run[r] EXCEPT !.at = "read", !.file = f]
                    ELSE IF hashCache[f].stamp = version[f]
                    THEN [run[r] EXCEPT !.at = "add", !.file = f, !.tth = hashCache[f].tth]
                    ELSE [run[r] EXCEPT !.at = "read", !.file = f, !.stamp = version[f]]
    BY <1>0, <1>3 DEF Lookup
  <2>2. f \in Files /\ version[f] \in Nat /\ hashCache[f] \in Entries
        /\ run[r].since[f] \in Nat /\ run[r].since[f] <= version[f] /\ run[r].stamp = None
    BY <1>0, <1>3 DEF RunRecords, FreshLocals, Lookup
  <2>3. /\ run'[r].found = run[r].found /\ run'[r].since = run[r].since /\ run'[r].file = f
        /\ run'[r].at \in {"read", "add"}
        /\ run'[r].at = "read" => run'[r].stamp \in {None, version[f]}
        /\ run'[r].at = "add" => hashCache[f] # None /\ hashCache[f].stamp = version[f]
                                 /\ run'[r].tth = hashCache[f].tth
    BY <1>0, <2>1, <2>2 DEF RunRecords
  <2>4. run'[r].at = "add" => run'[r].tth >= run[r].since[f]
    <3>. SUFFICES ASSUME run'[r].at = "add" PROVE run'[r].tth >= run[r].since[f]
      OBVIOUS
    <3>1. hashCache[f].tth \in Nat /\ hashCache[f].stamp <= hashCache[f].tth
      BY <2>2, <2>3 DEF FreshCache, Entries
    <3>. QED
      BY <2>2, <2>3, <3>1
  <2>5. FreshLocals(run'[r])
    BY <1>0, <2>2, <2>3, <2>4 DEF FreshLocals
  <2>. QED
    BY <1>3, <2>5 DEF Lookup, FreshCache
<1>4. CASE ComputeTTH(r)
  <2>1. run'[r] = [run[r] EXCEPT !.at = "cache", !.tth = version[run[r].file]]
    BY <1>0, <1>4 DEF ComputeTTH
  <2>2. run[r].file \in Files /\ version[run[r].file] \in Nat /\ run[r].since \in [Files -> Nat]
        /\ (run[r].stamp = None \/ run[r].stamp \in Nat)
    BY <1>0, <1>4 DEF ComputeTTH, Typed, AtFile, RunRecords
  <2>3. /\ run'[r].found = run[r].found /\ run'[r].since = run[r].since
        /\ run'[r].file = run[r].file /\ run'[r].stamp = run[r].stamp
        /\ run'[r].at = "cache" /\ run'[r].tth = version[run[r].file]
    BY <1>0, <2>1 DEF RunRecords
  <2>4. FreshLocals(run'[r])
    BY <1>0, <1>4, <2>2, <2>3 DEF FreshLocals, ComputeTTH
  <2>. QED
    BY <1>4, <2>4 DEF ComputeTTH, FreshCache
<1>5. CASE HashFault(r)
  <2>1. /\ run'[r].found = run[r].found /\ run'[r].since = run[r].since
        /\ run'[r].at = "hash" /\ run'[r].stamp = None
    <3>1. PICK file : NextJob(r, file, run[r].found)
      BY <1>5 DEF HashFault
    <3>. QED
      BY <1>0, <3>1 DEF NextJob, RunRecords
  <2>2. FreshLocals(run'[r])
    BY <1>0, <2>1 DEF FreshLocals
  <2>. QED
    BY <1>5, <2>2 DEF HashFault, FreshCache
<1>6. CASE CacheHash(r)
  <2>1. /\ run[r].at = "cache" /\ run[r].file \in Files /\ run[r].tth \in Nat
        /\ version[run[r].file] \in Nat /\ run[r].since \in [Files -> Nat]
        /\ (run[r].stamp = None \/ run[r].stamp \in Nat)
    BY <1>0, <1>6 DEF CacheHash, Typed, AtFile, RunRecords
  <2>2. NewEntry(r).stamp \in Nat /\ NewEntry(r).tth = run[r].tth
        /\ NewEntry(r).stamp <= NewEntry(r).tth
    BY <2>1 DEF NewEntry, FreshLocals
  <2>3. /\ run'[r].found = run[r].found /\ run'[r].since = run[r].since
        /\ run'[r].file = run[r].file /\ run'[r].stamp = NewEntry(r).stamp
        /\ run'[r].at = "upsert" /\ run'[r].tth = run[r].tth
    BY <1>0, <1>6 DEF CacheHash, RunRecords
  <2>4. FreshLocals(run'[r])
    BY <1>0, <2>1, <2>2, <2>3 DEF FreshLocals
  <2>5. FreshCache'
    BY <1>0, <1>6, <2>2 DEF CacheHash, FreshCache
  <2>. QED
    BY <2>4, <2>5
<1>7. CASE UpsertHashCache(r)
  <2>1. /\ run[r].at = "upsert" /\ run[r].file \in Files /\ run[r].tth \in Nat
        /\ run[r].stamp \in Nat
    BY <1>0, <1>7 DEF UpsertHashCache, Typed, AtFile, RunRecords
  <2>2. NewEntry(r).stamp <= NewEntry(r).tth
    BY <2>1, ShareAssumption DEF NewEntry, FreshLocals
  <2>3. /\ run'[r].found = run[r].found /\ run'[r].since = run[r].since
        /\ run'[r].file = run[r].file /\ run'[r].at = "add" /\ run'[r].tth = run[r].tth
    BY <1>0, <1>7 DEF UpsertHashCache, RunRecords
  <2>4. FreshLocals(run'[r])
    BY <1>0, <2>1, <2>3 DEF FreshLocals
  <2>5. FreshCache'
    BY <1>0, <1>7, <2>2 DEF UpsertHashCache, FreshCache
  <2>. QED
    BY <2>4, <2>5
<1>8. CASE AddPath(r)
  <2>1. /\ run'[r].found = run[r].found \cup {<<run[r].file, run[r].tth>>}
        /\ run'[r].since = run[r].since /\ run'[r].at = "hash" /\ run'[r].stamp = None
    BY <1>0, <1>8 DEF AddPath, NextJob, RunRecords
  <2>2. run[r].tth >= run[r].since[run[r].file]
    BY <1>8 DEF AddPath, FreshLocals
  <2>3. \A p \in run'[r].found : p[2] >= run'[r].since[p[1]]
    BY <2>1, <2>2 DEF FreshLocals
  <2>4. FreshLocals(run'[r])
    BY <1>0, <2>1, <2>3 DEF FreshLocals
  <2>. QED
    BY <1>8, <2>4 DEF AddPath, FreshCache
<1>9. CASE SwapPaths(r) \/ CleanupHashCache(r) \/ CleanMemory(r) \/ PublishList(r)
           \/ RebuildSearchIndex(r)
  <2>1. /\ run'[r].found = run[r].found /\ run'[r].since = run[r].since
        /\ run'[r].at \in Publishing
    <3>1. PICK place \in Publishing : run' = [run EXCEPT ![r].at = place]
      BY <1>9 DEF SwapPaths, CleanupHashCache, CleanMemory, PublishList, RebuildSearchIndex,
                  Step, Publishing
    <3>. QED
      BY <1>0, <3>1 DEF RunRecords
  <2>2. FreshLocals(run'[r])
    BY <1>0, <2>1 DEF FreshLocals, Publishing
  <2>3. \A f \in Files : Cleaned(r, hashCache)[f] \in {hashCache[f], None}
                         /\ Cleaned(r, dbCache)[f] \in {dbCache[f], None}
    BY DEF Cleaned
  <2>4. FreshCache'
    BY <1>9, <2>3 DEF SwapPaths, CleanupHashCache, CleanMemory, PublishList,
       RebuildSearchIndex, FreshCache
  <2>. QED
    BY <2>2, <2>4
<1>. QED
  BY <1>1, <1>2, <1>3, <1>4, <1>5, <1>6, <1>7, <1>8, <1>9 DEF Rebuild, Hash, Publish

LEMMA FreshStep == Typed /\ Fresh /\ [Next]_vars => Fresh'
<1>. SUFFICES ASSUME Typed, Fresh, [Next]_vars, ~torn'
              PROVE  FreshCache' /\ \A r \in Runs : FreshLocals(run[r])'
  BY DEF Fresh
<1>. USE DEF runVars, cacheVars, listVars, shareVars, history
<1>1. CASE UNCHANGED vars
  BY <1>1 DEF vars, Fresh, FreshCache, FreshLocals
<1>2. ASSUME NEW t \in Threads, Request(t), ~StartRebuild(t)
      PROVE  FreshCache' /\ \A r \in Runs : FreshLocals(run[r])'
  <2>1. UNCHANGED <<torn, hashCache, dbCache, version, run>>
    BY <1>2 DEF Request, AddSharedDirectory, RemoveSharedDirectory, RefreshShares, Elapsed,
       SaveDirectories, CancelRebuild
  <2>. QED
    BY <2>1 DEF Fresh, FreshCache, FreshLocals
<1>3. ASSUME NEW t \in Threads, StartRebuild(t)
      PROVE  FreshCache' /\ \A r \in Runs : FreshLocals(run[r])'
  <2>1. UNCHANGED <<torn, hashCache, dbCache, version>>
    BY <1>3 DEF StartRebuild
  <2>2. \A r \in Runs : FreshLocals(run'[r])
    BY <1>3, <2>1, Started, NothingHeld DEF Fresh
  <2>. QED
    BY <2>1, <2>2 DEF Fresh, FreshCache, FreshLocals
<1>4. ASSUME NEW r \in Runs, Rebuild(r)
      PROVE  FreshCache' /\ \A s \in Runs : FreshLocals(run[s])'
  <2>1. ~torn /\ version' = version
    BY <1>4, RebuildFrame
  <2>2. FreshCache' /\ \A s \in Runs : FreshLocals(run'[s])
    BY <1>4, <2>1, FreshRun, RebuildFrame DEF Fresh
  <2>. QED
    BY <2>1, <2>2 DEF FreshLocals
<1>5. ASSUME NEW f \in Files, Edit(f)
      PROVE  FreshCache' /\ \A r \in Runs : FreshLocals(run[r])'
  <2>1. /\ ~torn /\ UNCHANGED <<hashCache, dbCache, run>>
        /\ \A r \in Runs : run[r].at = "cache" /\ run[r].stamp = None => run[r].file # f
    BY <1>5 DEF Edit, At
  <2>2. /\ run \in [Runs -> RunRecords] /\ version \in [Files -> Nat]
        /\ version' = [version EXCEPT ![f] = @ + 1]
    BY <1>5, Constants, RunType DEF Edit, Typed, TypeOK
  <2>3. ASSUME NEW r \in Runs
        PROVE  FreshLocals(run[r])'
    <3>1. /\ run[r].since \in [Files -> Nat] /\ (run[r].stamp = None \/ run[r].stamp \in Nat)
          /\ run[r].at \in {"read", "cache"} => run[r].file \in Files
      BY <2>2, Constants DEF RunRecords, Typed, AtFile
    <3>2. FreshLocals(run[r])
      BY <2>1 DEF Fresh
    <3>. QED
      BY <2>1, <2>2, <3>1, <3>2 DEF FreshLocals
  <2>. QED
    BY <2>1, <2>3 DEF Fresh, FreshCache
<1>6. CASE Restart
  <2>1. UNCHANGED <<torn, version, dbCache>> /\ hashCache' = dbCache
    BY <1>6 DEF Restart
  <2>2. \A r \in Runs : FreshLocals(run'[r])
    BY <1>6, Restarted, NothingHeld
  <2>. QED
    BY <2>1, <2>2 DEF Fresh, FreshCache, FreshLocals
<1>. QED
  BY <1>1, <1>2, <1>3, <1>4, <1>5, <1>6 DEF Next

\* No rebuild lists a hash that was out of date before it began, wherever it
\* took it from, unless a file changed between being hashed and stamped
\* (ShareManager.cs 252-304).
THEOREM HashesAreFresh == Spec => []FreshHashes
<1>1. Init => Fresh
  <2>. SUFFICES ASSUME Init PROVE FreshCache /\ \A r \in Runs : FreshLocals(run[r])
    BY DEF Fresh
  <2>1. Typed /\ \A r \in Runs : run[r] = NoRun
    BY TypeInit DEF Init
  <2>2. FreshCache
    BY DEF Init, FreshCache
  <2>. QED
    BY <2>1, <2>2, NothingHeld
<1>2. Spec => [](Typed /\ Fresh)
  BY TypeInit, TypeStep, <1>1, FreshStep, PTL DEF Spec
<1>3. Fresh => FreshHashes
  BY DEF Fresh, FreshLocals, FreshHashes
<1>. QED
  BY <1>2, <1>3, PTL

(***************************************************************************)
(* IndexIsCurrent: while no caller is under way, what the newest rebuild   *)
(* has published by each of its steps stays as it published it, since an   *)
(* older rebuild that changed it would be an overtaking.                   *)
(***************************************************************************)
Hashing == {"hash", "read", "cache", "upsert", "add"}

\* The files of a list that were published with a hash.
Hashed(list) == {p \in list.files : p[2] # None}

PublishedBy(x) ==
    /\ x.at \in Hashing \cup Publishing => x.dirs = sharedDirectories
    /\ x.at \in Publishing => filePaths = x.found
    /\ x.at \in {"index", "finish"} => /\ localFileList.dirs = x.dirs
                                       /\ Hashed(localFileList) = x.found
    /\ x.at = "finish" => searchIndex = localFileList
    /\ x.at = "done" => /\ localFileList.dirs = sharedDirectories
                        /\ Hashed(localFileList) = filePaths
                        /\ searchIndex = localFileList

Newest == current > 0 /\ current \notin overtaken /\ ~Busy => PublishedBy(run[current])

\* The newest rebuild publishes what it has found.
LEMMA NewestPublishes ==
  ASSUME Typed, NEW r \in Runs, Rebuild(r), ~Aborted(r), ~ScanFails(r), PublishedBy(run[r])
  PROVE  PublishedBy(run[r])'
<1>. USE DEF runVars, cacheVars, listVars, shareVars, At, Hashing, Publishing
<1>0. run \in [Runs -> RunRecords] /\ run[r] \in RunRecords /\ sharedDirectories' = sharedDirectories
  BY RunType, RebuildFrame DEF Typed
<1>1. CASE ExtractDirectoryTree(r)
  <2>1. run'[r].at = "hash" /\ run'[r].dirs = sharedDirectories
    BY <1>0, <1>1 DEF ExtractDirectoryTree, RunRecords
  <2>. QED
    BY <1>0, <2>1 DEF PublishedBy
<1>2. CASE Lookup(r) \/ ComputeTTH(r) \/ HashFault(r) \/ CacheHash(r) \/ UpsertHashCache(r)
           \/ AddPath(r)
  <2>1. run[r].at \in Hashing /\ run'[r].at \in Hashing /\ run'[r].dirs = run[r].dirs
    <3>1. CASE Lookup(r)
      BY <1>0, <3>1 DEF Lookup, RunRecords
    <3>2. CASE ComputeTTH(r) \/ CacheHash(r) \/ UpsertHashCache(r)
      BY <1>0, <3>2 DEF ComputeTTH, CacheHash, UpsertHashCache, RunRecords
    <3>3. CASE HashFault(r) \/ AddPath(r)
      <4>1. PICK file, found : NextJob(r, file, found)
        BY <3>3 DEF HashFault, AddPath
      <4>. QED
        BY <1>0, <3>3, <4>1 DEF NextJob, HashFault, AddPath, RunRecords
    <3>. QED
      BY <1>2, <3>1, <3>2, <3>3
  <2>. QED
    BY <1>0, <2>1 DEF PublishedBy
<1>3. CASE SwapPaths(r)
  <2>1. run'[r] = [run[r] EXCEPT !.at = "cleanDb"] /\ filePaths' = run[r].found
    BY <1>0, <1>3 DEF SwapPaths, Step
  <2>. QED
    BY <1>0, <1>3, <2>1 DEF SwapPaths, Step, PublishedBy, RunRecords
<1>4. CASE CleanupHashCache(r) \/ CleanMemory(r)
  <2>1. PICK place \in {"cleanCache", "publish"} : run'[r] = [run[r] EXCEPT !.at = place]
    BY <1>0, <1>4 DEF CleanupHashCache, CleanMemory, Step
  <2>2. filePaths' = filePaths /\ run[r].at \in Publishing
    BY <1>4 DEF CleanupHashCache, CleanMemory, Step
  <2>3. run'[r].at \in {"cleanCache", "publish"} /\ run'[r].dirs = run[r].dirs
        /\ run'[r].found = run[r].found
    BY <1>0, <2>1 DEF RunRecords
  <2>. QED
    BY <1>0, <2>2, <2>3 DEF PublishedBy
<1>5. CASE PublishList(r)
  <2>1. run'[r] = [run[r] EXCEPT !.at = "index"] /\ run[r].at = "publish"
    BY <1>0, <1>5 DEF PublishList, Step
  <2>2. run'[r].at = "index" /\ run'[r].dirs = run[r].dirs /\ run'[r].found = run[r].found
    BY <1>0, <2>1 DEF RunRecords
  <2>3. localFileList'.dirs = run[r].dirs /\ Hashed(localFileList') = run[r].found
    <3>1. run[r].found \subseteq Files \X Versions
      BY <1>0 DEF RunRecords
    <3>2. \A p \in run[r].found : p[2] # None
      BY <3>1, Constants
    <3>3. localFileList' = [dirs |-> run[r].dirs,
                            files |-> run[r].found \cup (Unhashed(r) \X {None})]
      BY <1>5 DEF PublishList
    <3>. QED
      BY <3>2, <3>3 DEF Hashed
  <2>4. filePaths' = filePaths
    BY <1>5 DEF PublishList
  <2>. QED
    BY <1>0, <2>1, <2>2, <2>3, <2>4 DEF PublishedBy, Hashed
<1>6. CASE RebuildSearchIndex(r)
  <2>1. run'[r] = [run[r] EXCEPT !.at = "finish"] /\ run[r].at = "index"
    BY <1>0, <1>6 DEF RebuildSearchIndex, Step
  <2>2. run'[r].at = "finish" /\ run'[r].dirs = run[r].dirs /\ run'[r].found = run[r].found
    BY <1>0, <2>1 DEF RunRecords
  <2>. QED
    BY <1>0, <1>6, <2>1, <2>2 DEF RebuildSearchIndex, PublishedBy
<1>7. CASE FinishRebuild(r)
  <2>1. run'[r].at = "done" /\ run[r].at = "finish"
    BY <1>0, <1>7 DEF FinishRebuild
  <2>. QED
    BY <1>0, <1>7, <2>1 DEF FinishRebuild, PublishedBy, Hashed
<1>8. CASE PublishingFails(r)
  <2>1. run'[r].at = "failed"
    BY <1>0, <1>8 DEF PublishingFails
  <2>. QED
    BY <2>1 DEF PublishedBy
<1>. QED
  BY <1>1, <1>2, <1>3, <1>4, <1>5, <1>6, <1>7, <1>8 DEF Rebuild, Hash, Publish

\* An older rebuild that changes the lists overtakes a newer one that has begun
\* to publish.
LEMMA OlderStaysAway ==
  ASSUME Typed, NEW r \in Runs, Rebuild(r), r # current, current \in Runs,
         current \notin overtaken',
         PublishedBy(run[current])
  PROVE  PublishedBy(run[current])'
<1>. USE DEF runVars, cacheVars, listVars, shareVars, history, At
<1>1. r < current
  <2>1. run[r] # NoRun
    BY RebuildFrame DEF Final, NoRun
  <2>. QED
    BY <2>1 DEF Typed, Numbered, Runs
<1>2. run'[current] = run[current] /\ sharedDirectories' = sharedDirectories /\ current' = current
  BY RebuildFrame
<1>3. CASE run[current].at \in Publishing \cup {"done", "failed"}
  <2>1. ~NoteOvertaking(r)
    BY <1>1, <1>3 DEF NoteOvertaking
  <2>2. UNCHANGED listVars
    BY <2>1 DEF Rebuild, ExtractDirectoryTree, ScanFails, Aborted, Hash, Lookup, ComputeTTH,
       HashFault, CacheHash, UpsertHashCache, AddPath, Publish, SwapPaths, CleanupHashCache,
       CleanMemory, PublishList, RebuildSearchIndex, PublishingFails, FinishRebuild
  <2>. QED
    BY <1>2, <2>2 DEF PublishedBy, Hashed
<1>4. CASE run[current].at \notin Publishing \cup {"done", "failed"}
  BY <1>2, <1>4 DEF PublishedBy, Publishing
<1>. QED
  BY <1>3, <1>4

LEMMA NewestStep == Typed /\ Settled /\ Newest /\ [Next]_vars => Newest'
<1>. SUFFICES ASSUME Typed, Settled, Newest, [Next]_vars,
                     current' > 0, current' \notin overtaken', ~Busy'
              PROVE  PublishedBy(run[current])'
  BY DEF Newest
<1>. USE DEF runVars, cacheVars, listVars, shareVars, history
<1>1. CASE UNCHANGED vars
  BY <1>1 DEF vars, Newest, PublishedBy, Hashed, Busy
<1>2. ASSUME NEW t \in Threads, Request(t), ~StartRebuild(t)
      PROVE  FALSE
  <2>1. op \in [Threads -> {"idle", "save", "cancel", "start"}]
    BY DEF Typed, TypeOK
  <2>. QED
    BY <1>2, <2>1 DEF Request, AddSharedDirectory, RemoveSharedDirectory, RefreshShares, Elapsed,
       SaveDirectories, ChangedByOther, CancelRebuild, Goto, Busy
<1>3. ASSUME NEW t \in Threads, StartRebuild(t)
      PROVE  PublishedBy(run[current])'
  <2>1. run'[current'].at = "scan"
    BY <1>3, Started DEF NoRun
  <2>. QED
    BY <2>1 DEF PublishedBy, Hashing, Publishing
<1>4. ASSUME NEW r \in Runs, Rebuild(r)
      PROVE  PublishedBy(run[current])'
  <2>1. current' = current /\ op' = op /\ ~Busy /\ overtaken \subseteq overtaken'
    <3>1. overtaken \subseteq overtaken'
      BY <1>4 DEF Rebuild, ExtractDirectoryTree, ScanFails, Aborted, Hash, Lookup, ComputeTTH,
         HashFault, CacheHash, UpsertHashCache, AddPath, Publish, SwapPaths, CleanupHashCache,
         CleanMemory, PublishList, RebuildSearchIndex, PublishingFails, FinishRebuild,
         NoteOvertaking
    <3>. QED
      BY <1>4, <3>1, RebuildFrame DEF Busy
  <2>2. current \in Runs /\ PublishedBy(run[current])
    BY <2>1 DEF Newest, Typed, TypeOK, Runs
  <2>3. CASE r = current
    <3>1. ~Aborted(r) /\ ~ScanFails(r)
      BY <2>1, <2>3 DEF Aborted, ScanFails, Busy, Settled, CancelledByCaller
    <3>2. PublishedBy(run[r])'
      BY <1>4, <2>2, <2>3, <3>1, NewestPublishes
    <3>. QED
      BY <2>1, <2>3, <3>2 DEF PublishedBy, Hashed
  <2>4. CASE r # current
    BY <1>4, <2>1, <2>2, <2>4, OlderStaysAway
  <2>. QED
    BY <2>3, <2>4
<1>5. ASSUME NEW f \in Files, Edit(f)
      PROVE  PublishedBy(run[current])'
  BY <1>5 DEF Edit, Newest, PublishedBy, Hashed, Busy
<1>6. CASE Restart
  <2>1. run'[current'].at \in {"none", "lost", "scan"}
    BY <1>6, Restarted DEF NoRun
  <2>. QED
    BY <2>1 DEF PublishedBy, Hashing, Publishing
<1>. QED
  BY <1>1, <1>2, <1>3, <1>4, <1>5, <1>6 DEF Next

\* In quiet moments the lists are those of the newest rebuild, if it published to
\* its end and no older one changed them after it had begun to: the list is of the
\* shares there are, can be searched, and exactly its files with a hash can be
\* downloaded by it, whatever failed or was cancelled (ShareManager.cs 308-376).
THEOREM IndexFollows == Spec => []IndexIsCurrent
<1>1. Init => Settled /\ Newest
  BY DEF Init, Settled, SavedSoon, CancelledByCaller, FlagIsOwned, Newest
<1>2. Spec => [](Typed /\ Settled /\ Newest)
  BY TypeInit, TypeStep, <1>1, SettledStep, NewestStep, PTL DEF Spec
<1>3. Newest => IndexIsCurrent
  BY DEF Newest, PublishedBy, Hashed, IndexIsCurrent, Quiescent, Busy
<1>. QED
  BY <1>2, <1>3, PTL
=============================================================================
