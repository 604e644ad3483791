------------------------------- MODULE FileIndex -------------------------------
(***************************************************************************)
(* The cached index of an upload directory (core/server/upload.go:         *)
(* indexedFiles, invalidateFileIndex), the list handler that pages it, and *)
(* the handlers that change the directory: the publication of an upload    *)
(* and the batch delete.  Other programs change the directory too.         *)
(*                                                                         *)
(* A cached index is used while the directory's modification time is the   *)
(* one it was built under.  The clock of the file system is coarse: a      *)
(* change may leave the modification time as it was.                       *)
(*                                                                         *)
(* The cache has one entry per directory; fileIndexMu and one directory    *)
(* are modelled.  A request refused for its input, or for a target that is *)
(* no regular file, touches nothing and is left out.                       *)
(***************************************************************************)
EXTENDS Integers, Sequences, FiniteSets, SequencesExt

CONSTANTS
  File,        \* manageable names, numbered in the order of their spelling
  ModTime,     \* ModTime[f]: modification time of the file f
  Changer,     \* goroutines that publish or delete
  Lister,      \* goroutines that list
  Absent,      \* no cached index, mutex not held
  MaxTime,     \* bound: modification times of the directory
  MaxPageSize  \* bound: page sizes tried

ASSUME FileIndexAssumption ==
  /\ File \subseteq Nat /\ IsFiniteSet(File)
  /\ ModTime \in [File -> Nat]
  /\ MaxTime \in Nat
  /\ Absent \notin Lister \union Changer
  /\ Absent \notin [time : Nat, files : Seq(File)]

VARIABLES
  dir,         \* regular files in the directory
  dirTime,     \* modification time of the directory
  fileIndex,   \* fileIndexes[uploadDir], or Absent
  fileIndexMu, \* lister that holds the mutex over several steps, or Absent
  change,      \* change[r]: where the handler that changes the directory is
  todo,        \* todo[r]: names of the batch not yet tried
  deleted,     \* deleted[r]: the handler has changed the directory
  list,        \* list[l]: where the list request is
  statTime,    \* statTime[l]: directoryInfo.ModTime()
  entries,     \* entries[l]: names os.ReadDir returned
  claim,       \* history: files r changed last, to be answered for
  settled      \* history: files whose present state was answered to a client

changing == <<change, todo, deleted>>
listing == <<list, statTime, entries>>
owed == <<claim, settled>>
fileIndexVars == <<dir, dirTime, fileIndex, fileIndexMu, changing, listing, owed>>

FileIndexInit ==
  /\ dir \in SUBSET File /\ dirTime = 0
  /\ fileIndex = Absent /\ fileIndexMu = Absent
  /\ change = [r \in Changer |-> "idle"]
  /\ todo = [r \in Changer |-> {}]
  /\ deleted = [r \in Changer |-> FALSE]
  /\ list = [l \in Lister |-> "idle"]
  /\ statTime = [l \in Lister |-> 0]
  /\ entries = [l \in Lister |-> {}]
  /\ claim = [r \in Changer |-> {}]
  /\ settled = {}

-------------------------------------------------------------------------------
(* The directory *)

(* f comes or goes; the file system may or may not have ticked since the   *)
(* last change.  Whoever answers for f now is r alone, if it is a handler. *)
Altered(f, r) ==
  /\ dirTime' \in {t \in {dirTime, dirTime + 1} : t <= MaxTime}
  /\ claim' = [q \in Changer |-> IF q = r THEN claim[q] \union {f} ELSE claim[q] \ {f}]
  /\ settled' = settled \ {f}

(* Another program adds or removes f. *)
Outside(f) ==
  /\ dir' = IF f \in dir THEN dir \ {f} ELSE dir \union {f}
  /\ Altered(f, Absent)
  /\ UNCHANGED <<fileIndex, fileIndexMu, changing, listing>>

-------------------------------------------------------------------------------
(* Changing the directory *)

(* handleUploadComplete after the merge: the rename to a free name *)
Publish(r, f) ==
  /\ change[r] = "idle" /\ f \notin dir
  /\ dir' = dir \union {f}
  /\ Altered(f, r)
  /\ change' = [change EXCEPT ![r] = "changed"]
  /\ UNCHANGED <<fileIndex, fileIndexMu, todo, deleted, listing>>

(* handleDeleteFile with a batch of names that passed every check *)
BeginDelete(r, names) ==
  /\ change[r] = "idle"
  /\ names # {}
  /\ change' = [change EXCEPT ![r] = "deleting"]
  /\ todo' = [todo EXCEPT ![r] = names]
  /\ UNCHANGED <<dir, dirTime, fileIndex, fileIndexMu, deleted, listing, owed>>

(* os.Remove of the next name; a name that is not there is skipped *)
Remove1(r, f) ==
  /\ change[r] = "deleting" /\ f \in todo[r]
  /\ todo' = [todo EXCEPT ![r] = @ \ {f}]
  /\ IF f \in dir
       THEN /\ dir' = dir \ {f}
            /\ Altered(f, r)
            /\ deleted' = [deleted EXCEPT ![r] = TRUE]
       ELSE UNCHANGED <<dir, dirTime, deleted, owed>>
  /\ UNCHANGED <<fileIndex, fileIndexMu, change, listing>>

(* The deferred function runs after the last name and after a failure. *)
EndDelete(r) ==
  /\ change[r] = "deleting"
  /\ change' = [change EXCEPT ![r] = IF deleted[r] THEN "changed" ELSE "idle"]
  /\ todo' = [todo EXCEPT ![r] = {}]
  /\ deleted' = [deleted EXCEPT ![r] = FALSE]
  /\ UNCHANGED <<dir, dirTime, fileIndex, fileIndexMu, listing, owed>>

(* invalidateFileIndex *)
Invalidate(r) ==
  /\ change[r] = "changed" /\ fileIndexMu = Absent
  /\ fileIndex' = Absent
  /\ change' = [change EXCEPT ![r] = "invalidated"]
  /\ UNCHANGED <<dir, dirTime, fileIndexMu, todo, deleted, listing, owed>>

(* The client learns that the request is over.  A deletion writes its      *)
(* answer before the deferred invalidation, but the end of the answer is   *)
(* sent when the handler has returned.                                     *)
Answer(r) ==
  /\ change[r] = "invalidated"
  /\ change' = [change EXCEPT ![r] = "idle"]
  /\ settled' = settled \union claim[r]
  /\ claim' = [claim EXCEPT ![r] = {}]
  /\ UNCHANGED <<dir, dirTime, fileIndex, fileIndexMu, todo, deleted, listing>>

-------------------------------------------------------------------------------
(* Listing: handleListFiles and indexedFiles *)

Usable(time) == fileIndex # Absent /\ fileIndex.time = time

(* The mutex is given back for the time of the scan. *)
StatDir_Unlocked(l) ==
  /\ list[l] = "idle" /\ fileIndexMu = Absent
  /\ ~ Usable(dirTime)
  /\ list' = [list EXCEPT ![l] = "stale"]
  /\ statTime' = [statTime EXCEPT ![l] = dirTime]
  /\ UNCHANGED <<dir, dirTime, fileIndex, fileIndexMu, changing, entries, owed>>

(* os.Stat under the mutex; a usable index is copied at once, which is all *)
(* that the request needs                                                  *)
StatDir(l) ==
  /\ list[l] = "idle" /\ fileIndexMu = Absent
  /\ ~ Usable(dirTime)
  /\ fileIndexMu' = l
  /\ list' = [list EXCEPT ![l] = "stale"]
  /\ statTime' = [statTime EXCEPT ![l] = dirTime]
  /\ UNCHANGED <<dir, dirTime, fileIndex, changing, entries, owed>>

(* os.ReadDir *)
ReadDir(l) ==
  /\ list[l] = "stale"
  /\ list' = [list EXCEPT ![l] = "read"]
  /\ entries' = [entries EXCEPT ![l] = dir]
  /\ UNCHANGED <<dir, dirTime, fileIndex, fileIndexMu, changing, statTime, owed>>

Before(f, g) == ModTime[f] > ModTime[g] \/ (ModTime[f] = ModTime[g] /\ f < g)

(* sort.Slice: the names S with the newest first, and else by name         *)
Sorted(S) ==
  {files \in [1..Cardinality(S) -> S] :
     ToSet(files) = S /\ \A i, j \in DOMAIN files : i < j => Before(files[i], files[j])}

(* entry.Info of each name, which leaves out the ones gone meanwhile; the   *)
(* sorted index is kept under the time that was looked at first            *)
StoreIndex(l) ==
  /\ list[l] = "read"
  /\ \E files \in Sorted(entries[l] \intersect dir) :
       fileIndex' = [time |-> statTime[l], files |-> files]
  /\ fileIndexMu' = Absent
  /\ list' = [list EXCEPT ![l] = "idle"]
  /\ statTime' = [statTime EXCEPT ![l] = 0]
  /\ entries' = [entries EXCEPT ![l] = {}]
  /\ UNCHANGED <<dir, dirTime, changing, owed>>

(* The directory cannot be read: status 500 *)
ListFails(l) ==
  /\ list[l] = "stale"
  /\ fileIndexMu' = Absent
  /\ list' = [list EXCEPT ![l] = "idle"]
  /\ statTime' = [statTime EXCEPT ![l] = 0]
  /\ UNCHANGED <<dir, dirTime, fileIndex, changing, entries, owed>>

FileIndexNext ==
  \/ \E f \in File : Outside(f)
  \/ \E r \in Changer :
       \/ \E f \in File : Publish(r, f) \/ Remove1(r, f)
       \/ \E names \in SUBSET File : BeginDelete(r, names)
       \/ EndDelete(r) \/ Invalidate(r) \/ Answer(r)
  \/ \E l \in Lister :
       StatDir(l) \/ ReadDir(l) \/ StoreIndex(l) \/ ListFails(l)

FileIndexSpec == FileIndexInit /\ [][FileIndexNext]_fileIndexVars

-------------------------------------------------------------------------------
(* Pages of a listing: handleListFiles *)

(* The filters: the files of the index that match, in its order *)
Filtered(index, matching) ==
  FoldLeft(LAMBDA files, item : IF item \in matching THEN Append(files, item) ELSE files, <<>>, index)

TotalPages_RoundedDown(files, size) ==
  IF size = 0 \/ Len(files) < size THEN 1 ELSE Len(files) \div size

TotalPages(files, size) ==
  IF size = 0 \/ files = <<>> THEN 1 ELSE (Len(files) + size - 1) \div size

Page(files, page, size) ==
  LET start == (page - 1) * size
      end == IF start + size > Len(files) THEN Len(files) ELSE start + size
  IN  CASE size = 0 -> files
        [] size # 0 /\ start >= Len(files) -> <<>>
        [] OTHER -> SubSeq(files, start + 1, end)

-------------------------------------------------------------------------------
(* Properties *)

FileIndexTypeOK ==
  /\ dir \subseteq File /\ dirTime \in Nat
  /\ fileIndex \in [time : Nat, files : Seq(File)] \union {Absent}
  /\ fileIndexMu \in Lister \union {Absent}
  /\ change \in [Changer -> {"idle", "deleting", "changed", "invalidated"}]
  /\ todo \in [Changer -> SUBSET File] /\ deleted \in [Changer -> BOOLEAN]
  /\ list \in [Lister -> {"idle", "stale", "read"}]
  /\ statTime \in [Lister -> Nat] /\ entries \in [Lister -> SUBSET File]
  /\ claim \in [Changer -> SUBSET File] /\ settled \subseteq File

(* Once a client knows that a file was published or deleted, no index is   *)
(* kept that says otherwise: however coarse the clock of the file system,  *)
(* whatever lists, publications and deletions run at the same time, and    *)
(* also when a batch fails half-way.  A list answers with the index that   *)
(* is kept or with the one it has just stored.  Holds for a file until it  *)
(* changes again.                                                          *)
ListingFresh ==
  fileIndex # Absent =>
    \A f \in settled : f \in ToSet(fileIndex.files) <=> f \in dir

(* The pages of an index, for every filter and page size, put together     *)
(* are the filtered index: no file is skipped or shown twice, and beyond   *)
(* the last page is nothing.                                               *)
PagesPartition ==
  fileIndex # Absent =>
    \A matching \in SUBSET File, size \in 0..MaxPageSize :
      LET files == Filtered(fileIndex.files, matching)
          pages == TotalPages(files, size)
      IN  /\ FlattenSeq([p \in 1..pages |-> Page(files, p, size)]) = files
          /\ size # 0 => Page(files, pages + 1, size) = <<>>

===============================================================================
