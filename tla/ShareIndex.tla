------------------------------ MODULE ShareIndex ------------------------------
(***************************************************************************)
(* The index of the shared folders: Transfarr.Node/Core/ShareManager.cs    *)
(* with its tables in ShareDatabase.                                       *)
(*                                                                         *)
(* Adding or removing a share, a refresh and the periodic timer each       *)
(* cancel the rebuild that is running and start another, without waiting   *)
(* for the first to end; a rebuild looks at its token while it scans and   *)
(* hashes, and no longer once it publishes.  Requests of several clients   *)
(* and the timer run on different threads.                                 *)
(*                                                                         *)
(* The content of a file is a version number.  Its size and its time of    *)
(* last write tell versions apart, so they are the version too.            *)
(***************************************************************************)
EXTENDS Naturals, FiniteSets

CONSTANTS
    Shares,      \* virtual names of shared folders
    Files,       \* the files in them
    Home,        \* the share each file is in
    Threads,     \* callers: UI requests and the timer
    None,        \* no file, no cache entry, no stamp, no hash
    MaxRuns,     \* bound on rebuilds
    MaxEdits,    \* bound on changes of a file
    MaxRestarts  \* bound on restarts of the node

ASSUME ShareAssumption ==
    /\ Home \in [Files -> Shares]
    /\ None \notin Files
    /\ None \notin Nat
    /\ MaxRuns \in Nat /\ MaxEdits \in Nat /\ MaxRestarts \in Nat

VARIABLES
    sharedDirectories,
    dbDirectories,  \* table Directories
    version,        \* the files on disk
    hashCache,      \* path -> stamp and hash
    dbCache,        \* table HashCache
    filePaths,      \* pairs of a file and a hash it can be downloaded by
    localFileList,  \* the published list: shares, and files with their hash
    searchIndex,    \* table FileIndex
    isHashing,      \* CurrentProgress.IsHashing
    current,        \* hashCts: the newest rebuild
    cancelled,      \* rebuilds whose token is cancelled
    run,            \* the locals of each RebuildFileListAsync
    op,             \* per thread, where it is
    restarts,
    overtaken,      \* history: rebuilds after whose beginning to publish an older
                    \* one changed the lists or the caches
    torn            \* history: a file changed between being hashed and stamped

shareVars == <<sharedDirectories, dbDirectories>>
cacheVars == <<hashCache, dbCache>>
listVars  == <<filePaths, localFileList, searchIndex>>
runVars   == <<isHashing, current, cancelled, run>>
history   == <<overtaken, torn>>
vars == <<shareVars, version, cacheVars, listVars, runVars, op, restarts, history>>

Runs     == 1 .. MaxRuns
Versions == 0 .. MaxEdits
Entries  == [stamp : Versions, tth : Versions] \cup {None}
FileLists == [dirs : SUBSET Shares, files : SUBSET (Files \X (Versions \cup {None}))]
Publishing == {"cleanDb", "cleanCache", "publish", "index", "finish"}

NoRun == [at |-> "none", dirs |-> {}, todo |-> {}, found |-> {}, file |-> None,
          stamp |-> None, tth |-> None, since |-> [f \in Files |-> 0]]
EmptyList == [dirs |-> {}, files |-> {}]

Init ==
    /\ sharedDirectories = {}
    /\ dbDirectories = {}
    /\ version = [f \in Files |-> 0]
    /\ hashCache = [f \in Files |-> None]
    /\ dbCache = [f \in Files |-> None]
    /\ filePaths = {}
    /\ localFileList = EmptyList
    /\ searchIndex = EmptyList
    /\ isHashing = FALSE
    /\ current = 0
    /\ cancelled = {}
    /\ run = [r \in Runs |-> NoRun]
    /\ op = [t \in Threads |-> "idle"]
    /\ restarts = 0
    /\ overtaken = {}
    /\ torn = FALSE

-----------------------------------------------------------------------------
(* The callers. *)

Goto(t, from, to) == op[t] = from /\ op' = [op EXCEPT ![t] = to]

AddSharedDirectory(t) ==
    /\ Goto(t, "idle", "save")
    /\ \E s \in Shares : sharedDirectories' = sharedDirectories \cup {s}
    /\ UNCHANGED <<dbDirectories, version, cacheVars, listVars, runVars,
                   restarts, history>>

(* Without SaveDirectories. *)
RemoveUnsaved(t) ==
    /\ Goto(t, "idle", "cancel")
    /\ \E s \in sharedDirectories : sharedDirectories' = sharedDirectories \ {s}
    /\ UNCHANGED <<dbDirectories, version, cacheVars, listVars, runVars,
                   restarts, history>>

RemoveSharedDirectory(t) ==
    /\ Goto(t, "idle", "save")
    /\ \E s \in sharedDirectories : sharedDirectories' = sharedDirectories \ {s}
    /\ UNCHANGED <<dbDirectories, version, cacheVars, listVars, runVars,
                   restarts, history>>

(* A dictionary that another thread has just changed may throw out of an     *)
(* enumeration.                                                              *)
ChangedByOther(t) == \E u \in Threads \ {t} : op[u] = "save"

(* SaveDirectories writes what the dictionary holds by then.  If it throws,  *)
(* the transaction is rolled back and no rebuild starts.                     *)
SaveDirectories(t) ==
    /\ \/ /\ Goto(t, "save", "cancel")
          /\ dbDirectories' = sharedDirectories
       \/ /\ Goto(t, "save", "idle")
          /\ ChangedByOther(t)
          /\ UNCHANGED dbDirectories
    /\ UNCHANGED <<sharedDirectories, version, cacheVars, listVars, runVars,
                   restarts, history>>

RefreshShares(t) ==
    /\ Goto(t, "idle", "cancel")
    /\ UNCHANGED <<shareVars, version, cacheVars, listVars, runVars, restarts,
                   history>>

(* refreshTimer.Elapsed                                                      *)
Elapsed(t) == ~isHashing /\ RefreshShares(t)

(* StartRebuild: hashCts?.Cancel() ...                                       *)
CancelRebuild(t) ==
    /\ Goto(t, "cancel", "start")
    /\ cancelled' = cancelled \cup ({current} \ {0})
    /\ UNCHANGED <<shareVars, version, cacheVars, listVars, isHashing, current,
                   run, restarts, history>>

(* ... then a new token and a new RebuildFileListAsync.                      *)
StartRebuild(t) ==
    /\ Goto(t, "start", "idle")
    /\ current < MaxRuns
    /\ current' = current + 1
    /\ run' = [run EXCEPT ![current'].at = "scan"]
    /\ isHashing' = TRUE
    /\ UNCHANGED <<shareVars, version, cacheVars, listVars, cancelled,
                   restarts, history>>

-----------------------------------------------------------------------------
(* RebuildFileListAsync *)

At(r, place) == run[r].at = place

(* The files in these shares.                                                *)
Scanned(dirs) == {f \in Files : Home[f] \in dirs}

(* Pass 1: the shares and the files in them.  (One that cannot be read here  *)
(* is left out of everything, as if it were not there.)                      *)
ExtractDirectoryTree(r) ==
    /\ At(r, "scan")
    /\ r \notin cancelled
    /\ run' = [run EXCEPT ![r] =
                 [@ EXCEPT !.at = "hash",
                           !.dirs = sharedDirectories,
                           !.todo = Scanned(sharedDirectories),
                           !.since = version]]
    /\ UNCHANGED <<shareVars, version, cacheVars, listVars, isHashing, current,
                   cancelled, op, restarts, history>>

(* The enumeration throws: the last catch clause.                            *)
ScanFails(r) ==
    /\ At(r, "scan")
    /\ \E t \in Threads : op[t] = "save"
    /\ run' = [run EXCEPT ![r] = [NoRun EXCEPT !.at = "done"]]
    /\ isHashing' = FALSE
    /\ UNCHANGED <<shareVars, version, cacheVars, listVars, current, cancelled,
                   op, restarts, history>>

(* OperationCanceledException, from the scan or from Parallel.ForEachAsync.  *)
Aborted(r) ==
    /\ r \in cancelled
    /\ At(r, "scan") \/ At(r, "hash")
    /\ run' = [run EXCEPT ![r] = [NoRun EXCEPT !.at = "done"]]
    /\ UNCHANGED <<shareVars, version, cacheVars, listVars, isHashing, current,
                   cancelled, op, restarts, history>>

(* A cache hit whatever the size and time of the file. *)
LookupByName(r) ==
    /\ At(r, "hash")
    /\ r \notin cancelled
    /\ \E f \in run[r].todo :
         run' = [run EXCEPT ![r] =
                   IF hashCache[f] # None
                   THEN [@ EXCEPT !.at = "add", !.file = f, !.tth = hashCache[f].tth]
                   ELSE [@ EXCEPT !.at = "read", !.file = f]]
    /\ UNCHANGED <<shareVars, version, cacheVars, listVars, isHashing, current,
                   cancelled, op, restarts, history>>

(* Pass 2, for each file (several at a time, which share nothing here): the  *)
(* cached hash is taken if the cached stamp is that of the file.  FileInfo   *)
(* reads the stamp when it is first asked: now if there is a cache entry to  *)
(* compare with, else only after the file was hashed.                        *)
Lookup(r) ==
    /\ At(r, "hash")
    /\ r \notin cancelled
    /\ \E f \in run[r].todo :
         LET cached == hashCache[f] IN
           run' = [run EXCEPT ![r] =
                     IF cached = None
                     THEN [@ EXCEPT !.at = "read", !.file = f]
                     ELSE IF cached.stamp = version[f]
                     THEN [@ EXCEPT !.at = "add", !.file = f, !.tth = cached.tth]
                     ELSE [@ EXCEPT !.at = "read", !.file = f, !.stamp = version[f]]]
    /\ UNCHANGED <<shareVars, version, cacheVars, listVars, isHashing, current,
                   cancelled, op, restarts, history>>

(* TigerTreeHash.ComputeTTH of what the file holds, if it can be read.       *)
ComputeTTH(r) ==
    /\ At(r, "read")
    /\ run' = [run EXCEPT ![r].at = "cache", ![r].tth = version[run[r].file]]
    /\ UNCHANGED <<shareVars, version, cacheVars, listVars, isHashing, current,
                   cancelled, op, restarts, history>>

NextJob(r, file, found) ==
    run' = [run EXCEPT ![r] =
              [@ EXCEPT !.at = "hash", !.todo = run[r].todo \ {file},
                        !.found = found, !.file = None, !.stamp = None, !.tth = None]]

(* The file or the database throws before the file has got its hash: the     *)
(* rebuild goes on with the next one.                                        *)
HashFault(r) ==
    /\ \/ /\ At(r, "hash")
          /\ r \notin cancelled
          /\ \E f \in run[r].todo : NextJob(r, f, run[r].found)
       \/ /\ run[r].at \in {"read", "cache", "upsert"}
          /\ NextJob(r, run[r].file, run[r].found)
    /\ UNCHANGED <<shareVars, version, cacheVars, listVars, isHashing, current,
                   cancelled, op, restarts, history>>

(* The stamp taken before the hash, or none. *)
NewEntryUnstamped(r) == [stamp |-> run[r].stamp, tth |-> run[r].tth]

NewEntry(r) ==
    [stamp |-> IF run[r].stamp = None THEN version[run[r].file] ELSE run[r].stamp,
     tth   |-> run[r].tth]

CacheHash(r) ==
    /\ At(r, "cache")
    /\ hashCache' = [hashCache EXCEPT ![run[r].file] = NewEntry(r)]
    /\ run' = [run EXCEPT ![r].at = "upsert", ![r].stamp = NewEntry(r).stamp]
    /\ UNCHANGED <<shareVars, version, dbCache, listVars, isHashing, current,
                   cancelled, op, restarts, history>>

UpsertHashCache(r) ==
    /\ At(r, "upsert")
    /\ dbCache' = [dbCache EXCEPT ![run[r].file] = NewEntry(r)]
    /\ run' = [run EXCEPT ![r].at = "add"]
    /\ UNCHANGED <<shareVars, version, hashCache, listVars, isHashing, current,
                   cancelled, op, restarts, history>>

(* A rebuild changes what is published although newer ones have begun to.    *)
NoteOvertaking(r) ==
    /\ overtaken' = overtaken \cup
         {n \in Runs : n > r /\ run[n].at \in Publishing \cup {"done", "failed"}}
    /\ UNCHANGED torn

(* "Make file immediately available for download"                            *)
AddPath(r) ==
    /\ At(r, "add")
    /\ filePaths' = filePaths \cup {<<run[r].file, run[r].tth>>}
    /\ NextJob(r, run[r].file, run[r].found \cup {<<run[r].file, run[r].tth>>})
    /\ NoteOvertaking(r)
    /\ UNCHANGED <<shareVars, version, cacheVars, localFileList, searchIndex,
                   isHashing, current, cancelled, op, restarts>>

Step(r, from, to) == At(r, from) /\ run' = [run EXCEPT ![r].at = to]

(* filePaths.Clear() forgotten. *)
SwapPathsUncleared(r) ==
    /\ Step(r, "hash", "cleanDb")
    /\ run[r].todo = {}
    /\ filePaths' = filePaths \cup run[r].found
    /\ NoteOvertaking(r)
    /\ UNCHANGED <<shareVars, version, cacheVars, localFileList, searchIndex,
                   isHashing, current, cancelled, op, restarts>>

(* filePaths is cleared and filled with what this rebuild has found.         *)
SwapPaths(r) ==
    /\ Step(r, "hash", "cleanDb")
    /\ run[r].todo = {}
    /\ filePaths' = run[r].found
    /\ NoteOvertaking(r)
    /\ UNCHANGED <<shareVars, version, cacheVars, localFileList, searchIndex,
                   isHashing, current, cancelled, op, restarts>>

Cleaned(r, cache) ==
    [f \in Files |-> IF \E h \in Versions : <<f, h>> \in run[r].found
                     THEN cache[f] ELSE None]

CleanupHashCache(r) ==
    /\ Step(r, "cleanDb", "cleanCache")
    /\ dbCache' = Cleaned(r, dbCache)
    /\ NoteOvertaking(r)
    /\ UNCHANGED <<shareVars, version, hashCache, listVars, isHashing, current,
                   cancelled, op, restarts>>

CleanMemory(r) ==
    /\ Step(r, "cleanCache", "publish")
    /\ hashCache' = Cleaned(r, hashCache)
    /\ NoteOvertaking(r)
    /\ UNCHANGED <<shareVars, version, dbCache, listVars, isHashing, current,
                   cancelled, op, restarts>>

(* A file whose hashing failed keeps the empty hash it was scanned with.     *)
Unhashed(r) ==
    {f \in Scanned(run[r].dirs) : \A h \in Versions : <<f, h>> \notin run[r].found}

PublishList(r) ==
    /\ Step(r, "publish", "index")
    /\ localFileList' = [dirs  |-> run[r].dirs,
                         files |-> run[r].found \cup (Unhashed(r) \X {None})]
    /\ NoteOvertaking(r)
    /\ UNCHANGED <<shareVars, version, cacheVars, filePaths, searchIndex,
                   isHashing, current, cancelled, op, restarts>>

(* The search index is made from the published list, whoever published it.   *)
RebuildSearchIndex(r) ==
    /\ Step(r, "index", "finish")
    /\ searchIndex' = localFileList
    /\ NoteOvertaking(r)
    /\ UNCHANGED <<shareVars, version, cacheVars, filePaths, localFileList,
                   isHashing, current, cancelled, op, restarts>>

(* The database throws: the last catch clause.  What was published so far    *)
(* stays; CleanupHashCache may have committed before its VACUUM throws.      *)
PublishingFails(r) ==
    /\ At(r, "cleanDb") \/ At(r, "index")
    /\ run' = [run EXCEPT ![r] = [NoRun EXCEPT !.at = "failed"]]
    /\ isHashing' = FALSE
    /\ dbCache' \in {dbCache} \cup IF At(r, "cleanDb") THEN {Cleaned(r, dbCache)} ELSE {}
    /\ NoteOvertaking(r)
    /\ UNCHANGED <<shareVars, version, hashCache, listVars, current, cancelled,
                   op, restarts>>

FinishRebuild(r) ==
    /\ At(r, "finish")
    /\ run' = [run EXCEPT ![r] = [NoRun EXCEPT !.at = "done"]]
    /\ isHashing' = FALSE
    /\ UNCHANGED <<shareVars, version, cacheVars, listVars, current, cancelled,
                   op, restarts, history>>

-----------------------------------------------------------------------------
(* A file is changed on disk.                                                *)
Edit(f) ==
    /\ version[f] < MaxEdits
    /\ version' = [version EXCEPT ![f] = @ + 1]
    /\ torn' = (torn \/ \E r \in Runs : At(r, "cache") /\ run[r].file = f
                                         /\ run[r].stamp = None)
    /\ UNCHANGED <<shareVars, cacheVars, listVars, runVars, op, restarts, overtaken>>

(* The node stops at any point and starts again: Initialize, LoadCache.      *)
Restart ==
    /\ restarts < MaxRestarts
    /\ restarts' = restarts + 1
    /\ sharedDirectories' = dbDirectories
    /\ hashCache' = dbCache
    /\ filePaths' = {}
    /\ localFileList' = EmptyList
    /\ cancelled' = {}
    /\ op' = [t \in Threads |-> "idle"]
    /\ LET stopped == [r \in Runs |-> IF At(r, "none") THEN NoRun
                                      ELSE [NoRun EXCEPT !.at = "lost"]]
       IN  \/ /\ dbDirectories # {}
              /\ current < MaxRuns
              /\ current' = current + 1
              /\ run' = [stopped EXCEPT ![current'].at = "scan"]
              /\ isHashing' = TRUE
           \/ /\ dbDirectories = {}
              /\ run' = stopped
              /\ isHashing' = FALSE
              /\ UNCHANGED current
    /\ UNCHANGED <<dbDirectories, version, dbCache, searchIndex, history>>

-----------------------------------------------------------------------------

Request(t) ==
    \/ AddSharedDirectory(t) \/ RemoveSharedDirectory(t) \/ RefreshShares(t)
    \/ Elapsed(t)
    \/ SaveDirectories(t) \/ CancelRebuild(t) \/ StartRebuild(t)

Hash(r) ==
    \/ Lookup(r) \/ ComputeTTH(r) \/ HashFault(r)
    \/ CacheHash(r) \/ UpsertHashCache(r) \/ AddPath(r)

Publish(r) ==
    \/ SwapPaths(r) \/ CleanupHashCache(r) \/ CleanMemory(r) \/ PublishList(r)
    \/ RebuildSearchIndex(r) \/ PublishingFails(r) \/ FinishRebuild(r)

Rebuild(r) ==
    \/ ExtractDirectoryTree(r) \/ ScanFails(r) \/ Aborted(r)
    \/ Hash(r) \/ Publish(r)

Next ==
    \/ \E t \in Threads : Request(t)
    \/ \E r \in Runs : Rebuild(r)
    \/ \E f \in Files : Edit(f)
    \/ Restart

Spec == Init /\ [][Next]_vars

-----------------------------------------------------------------------------
(* Properties *)

TypeOK ==
    /\ sharedDirectories \subseteq Shares
    /\ dbDirectories \subseteq Shares
    /\ version \in [Files -> Versions]
    /\ hashCache \in [Files -> Entries]
    /\ dbCache \in [Files -> Entries]
    /\ filePaths \subseteq Files \X Versions
    /\ localFileList \in FileLists
    /\ searchIndex \in FileLists
    /\ isHashing \in BOOLEAN
    /\ current \in 0 .. MaxRuns
    /\ cancelled \subseteq Runs
    /\ run \in [Runs ->
         [at : {"none", "scan", "hash", "read", "cache", "upsert", "add", "done",
               "failed", "lost"}
                 \cup Publishing,
          dirs : SUBSET Shares, todo : SUBSET Files,
          found : SUBSET (Files \X Versions), file : Files \cup {None},
          stamp : Versions \cup {None}, tth : Versions \cup {None},
          since : [Files -> Versions]]]
    /\ op \in [Threads -> {"idle", "save", "cancel", "start"}]
    /\ restarts \in 0 .. MaxRestarts
    /\ overtaken \subseteq Runs
    /\ torn \in BOOLEAN

Quiescent ==
    /\ \A t \in Threads : op[t] = "idle"
    /\ \A r \in Runs : run[r].at \in {"none", "done", "failed", "lost"}

(* However calls overlapped and rebuilds cancelled each other or failed, in  *)
(* quiet moments IsHashing is down, or the periodic timer would never        *)
(* refresh again, and the shares that are saved are those there are: each    *)
(* call saves the dictionary as it is by then.                               *)
RestsClean == Quiescent => ~isHashing /\ dbDirectories = sharedDirectories

(* In quiet moments the published list is of the shares there are, what can  *)
(* be searched is what is published, and exactly the files published with a  *)
(* hash can be downloaded by it, whatever failed, was cancelled or overtaken *)
(* before: if the newest rebuild has published to its end, and no older one  *)
(* changed the lists after it had begun to.                                  *)
IndexIsCurrent ==
    Quiescent /\ current > 0 /\ run[current].at = "done" /\ current \notin overtaken =>
        /\ localFileList.dirs = sharedDirectories
        /\ {p \in localFileList.files : p[2] # None} = filePaths
        /\ searchIndex = localFileList

(* A rebuild lists no hash that was out of date before it began, wherever it *)
(* took it from, unless a file changed between being hashed and stamped.     *)
FreshHashes ==
    ~torn => \A r \in Runs : \A p \in run[r].found : p[2] >= run[r].since[p[1]]

=============================================================================
