-------------------------------- MODULE Upload --------------------------------
(***************************************************************************)
(* The resumable upload engine of the server (core/server/upload.go): the  *)
(* handlers of /api/upload/chunk, /complete and /cancel, the sweeper of    *)
(* abandoned uploads and the switch of the upload directory, interleaved   *)
(* at every point where one of them can observe another.                   *)
(*                                                                         *)
(* An HTTP request is a goroutine r with a program counter pc[r] and its   *)
(* inputs and locals req[r].  Sections under uploadMu are single actions,  *)
(* except publishUploadFile, which holds it from the tombstone check to    *)
(* the rename.  The mutex of a file_id is the abstract one that UploadLock *)
(* is shown to implement.                                                  *)
(*                                                                         *)
(* A chunk is a member of Data with its size; its bytes are a tag.  The    *)
(* content of a file is the sequence of the chunks merged into it.         *)
(***************************************************************************)
EXTENDS Integers, Sequences, FiniteSets, FiniteSetsExt

CONSTANTS
  Request,      \* goroutines that can serve a request at the same time
  FileID,       \* valid file_ids
  Dir,          \* directories the operator may choose for uploads
  Meta,         \* metadata that validateUploadMetadata accepts: [name, total, size]
  Data,         \* chunks: [size, bytes]
  None,         \* no value: nil, "", a file that does not exist
  MaxSlots,     \* maxConcurrentChunkRequests
  MaxChunks,    \* maxUploadChunks
  MaxActive,    \* maxActiveUploads
  MaxTombs,     \* maxCancelledUploadTombstones
  MaxPubs,      \* bound: publications of one file_id before no further complete
  MaxSkips,     \* bound: free names passed over because they cannot be looked up
  MaxCrashes,   \* bound: crashes of the server
  Op,           \* handlers exercised: "chunk", "complete", "cancel", "sweep"
  Hazard        \* of "fault", "removal", "read", "expire", "switch", "delete", "age"

Index == 0..MaxChunks - 1

(* State of an upload on disk: .upload.json, chunk_NNNNN and .merged.part. *)
(* old says that its modification time lies before the sweeper's cutoff.   *)
TempState == [meta : Meta \union {None}, chunks : [Index -> Data \union {None}],
              part : Seq(Data) \union {None}, old : BOOLEAN]

ASSUME UploadAssumption ==
  /\ IsFiniteSet(Request) /\ None \notin Request
  /\ None \notin FileID
  /\ None \notin Dir /\ Dir # {}
  /\ MaxSlots \in Nat \ {0} /\ MaxChunks \in Nat \ {0}
  /\ MaxActive \in Nat \ {0} /\ MaxTombs \in Nat \ {0}
  /\ MaxPubs \in Nat /\ MaxSkips \in Nat /\ MaxCrashes \in Nat
  /\ None \notin Meta
  /\ \A m \in Meta : m.total \in 1..MaxChunks /\ m.size \in Nat
  /\ None \notin Data
  /\ \A x \in Data : x.size \in Nat
  /\ None \notin TempState /\ None \notin Seq(Data)

VARIABLES
  uploadDir,          \* Config.uploadDir
  uploadDirectories,  \* Server.uploadDirectories: the directory an upload is bound to
  cancelledUploads,   \* the tombstones, oldest expiry first
  lock,               \* lock[id]: holder of the mutex of file_id id
  uploadMu,           \* holder of uploadMu across publishUploadFile's two steps
  uploadStateMu,      \* holder of uploadStateMu
  temp,               \* temp[d][id]: directory d/.tmp_<id>
  files,              \* files[d]: the finished files of directory d
  pc,                 \* pc[r]: the next step of goroutine r
  req,                \* req[r]: its inputs and locals
  acked,              \* history: chunks answered with "ok", per directory
  cancelAck,          \* history: cancelled with "ok", tombstone still there
  stale,              \* history: chunk requests queued when their cancel returned
  spent,              \* history: temp directories already published
  pubs,               \* history: publications of each file_id
  crashes             \* bound counter

server == <<uploadDirectories, cancelledUploads, uploadMu, uploadStateMu>>
disk == <<temp, files>>
history == <<acked, cancelAck, stale, spent, pubs>>
vars == <<uploadDir, server, lock, disk, pc, req, history, crashes>>

-------------------------------------------------------------------------------
NoChunks == [i \in Index |-> None]

EmptyTemp == [meta |-> None, chunks |-> NoChunks, part |-> None, old |-> FALSE]

Present(t) == t # None /\ t.meta # None

HasMeta(d, id) == Present(temp[d][id])

(* An operation that changes files or asks for the free space may fail,    *)
(* the removal of a whole directory half-way ...                           *)
Fault == "fault" \in Hazard

RemovalFault == "removal" \in Hazard

(* ... and so may one that looks: Stat, ReadDir, the reading of metadata.  *)
(* Not to exist is an answer and no failure.                               *)
ReadFault == "read" \in Hazard

(* What a failing os.RemoveAll may leave of directory state t: all of it   *)
(* if nothing was removed                                                  *)
Remnants(t) ==
  {t} \union
  { [meta |-> m, chunks |-> [i \in Index |-> IF i \in keep THEN t.chunks[i] ELSE None],
     part |-> p, old |-> FALSE] :
      m \in {t.meta, None}, keep \in SUBSET Index, p \in {t.part, None} }

Leftovers(d, id) ==
  IF RemovalFault /\ temp[d][id] # None THEN Remnants(temp[d][id]) ELSE {}

NoReq == [op |-> "none", id |-> None, meta |-> None, idx |-> 0, data |-> None,
          dir |-> None, fresh |-> FALSE, made |-> FALSE, next |-> 0,
          key |-> None, reply |-> "none"]

Init ==
  /\ uploadDir \in Dir
  /\ uploadDirectories = [id \in FileID |-> None]
  /\ cancelledUploads = <<>>
  /\ lock = [id \in FileID |-> None]
  /\ uploadMu = None
  /\ uploadStateMu = None
  /\ temp = [d \in Dir |-> [id \in FileID |-> None]]
  /\ files = [d \in Dir |-> {}]
  /\ pc = [r \in Request |-> "idle"]
  /\ req = [r \in Request |-> NoReq]
  /\ acked = [d \in Dir |-> [id \in FileID |-> NoChunks]]
  /\ cancelAck = {}
  /\ stale = {}
  /\ spent = {}
  /\ pubs = [id \in FileID |-> 0]
  /\ crashes = 0

-------------------------------------------------------------------------------
(* Registries guarded by uploadMu *)

(* A publication releases uploadMu before its rename. *)
UploadMuFree_Always == TRUE

UploadMuFree == uploadMu = None

(* The first chunk of an upload does not hold uploadStateMu. *)
UploadStateMuFree_Always == TRUE

UploadStateMuFree == uploadStateMu = None

Tombstones(seq) == {seq[k] : k \in 1..Len(seq)}

Cancelled(id) == id \in Tombstones(cancelledUploads)

(* seq without its first id: a map has one entry for an id *)
Without(seq, id) ==
  IF id \notin Tombstones(seq) THEN seq
  ELSE LET k == CHOOSE k \in 1..Len(seq) : seq[k] = id
       IN  [j \in 1..Len(seq) - 1 |-> IF j < k THEN seq[j] ELSE seq[j + 1]]

(* No other upload's tombstone makes room. *)
Marked_NoEviction(id) == Append(Without(cancelledUploads, id), id)

(* At the limit the oldest tombstone makes room, even for an id that has   *)
(* one already; the new expiry is the latest.                              *)
Marked(id) ==
  Append(Without(IF Len(cancelledUploads) < MaxTombs
                 THEN cancelledUploads ELSE Tail(cancelledUploads), id), id)

(* The directory of the moment instead of the one the upload began in *)
UploadDirectoryFor_Current(id, fallback) == fallback

UploadDirectoryFor(id, fallback) ==
  IF uploadDirectories[id] # None THEN uploadDirectories[id] ELSE fallback

(* forgetUploadDirectory only drops a binding to the directory named. *)
Forgotten(id, d) ==
  IF uploadDirectories[id] = d THEN [uploadDirectories EXCEPT ![id] = None]
                               ELSE uploadDirectories

(* Only the directory of the moment is swept. *)
Snapshot_Current == {uploadDir}

Snapshot == ({uploadDir} \union {uploadDirectories[id] : id \in FileID}) \ {None}

(* Uploads that countActiveUploads sees in d, but for its own file_id *)
ActiveOthers(d, id) == {x \in FileID \ {id} : temp[d][x] # None}

TakenKeys(d) == {f.key : f \in files[d]}

(* actualSize of the chunks 0..total-1 *)
ActualSize(t) == MapThenSumSet(LAMBDA i : t.chunks[i].size, 0..t.meta.total - 1)

(* The bytes of the chunks copied one after the other *)
ContentSize(c) == MapThenSumSet(LAMBDA k : c[k].size, 1..Len(c))

-------------------------------------------------------------------------------
Goto(r, s) == pc' = [pc EXCEPT ![r] = s]

Finish(r, answer) ==
  /\ req' = [req EXCEPT ![r].reply = answer]
  /\ Goto(r, "reply")

(* stateCommitted does not start as true for an upload that exists. *)
RollbackFrom_Uncommitted(r) ==
  IF req[r].made \/ ~ req[r].fresh THEN "undo" ELSE "forget"

(* The deferred closure of handleUploadChunk: a request that found no      *)
(* upload and did not commit one removes what it made and its binding.     *)
RollbackFrom(r) ==
  IF ~ req[r].fresh THEN "reply" ELSE IF req[r].made THEN "undo" ELSE "forget"

Rollback(r, answer) ==
  /\ req' = [req EXCEPT ![r].reply = answer]
  /\ Goto(r, RollbackFrom(r))

(* Directory .tmp_<id> of d becomes t. *)
Put(d, id, t) == temp' = [temp EXCEPT ![d][id] = t]

-------------------------------------------------------------------------------
(* A request arrives.  Every handler reads cfg.UploadDir() first, long     *)
(* before it blocks on the mutex of the file_id: a chunk request parses    *)
(* its multipart body in between.                                          *)

ChunkRequests == {r \in Request : pc[r] # "idle" /\ req[r].op = "chunk"}

Begin(r, input) ==
  /\ pc[r] = "idle" /\ input.op \in Op
  /\ req' = [req EXCEPT ![r] = input]
  /\ Goto(r, IF input.op = "cancel" THEN "mark" ELSE "lock")
  /\ UNCHANGED <<uploadDir, server, lock, disk, history, crashes>>

(* With all the slots of chunkRequestSlots taken the answer is 429.        *)
BeginChunk(r) ==
  /\ Cardinality(ChunkRequests) < MaxSlots
  /\ \E id \in FileID, m \in Meta, x \in Data : \E i \in 0..m.total - 1 :
       /\ x.size <= m.size
       /\ Begin(r, [NoReq EXCEPT !.op = "chunk", !.id = id, !.meta = m,
                                 !.idx = i, !.data = x, !.dir = uploadDir])

BeginComplete(r) ==
  \E id \in FileID, m \in Meta :
    /\ pubs[id] < MaxPubs
    /\ Begin(r, [NoReq EXCEPT !.op = "complete", !.id = id, !.meta = m, !.dir = uploadDir])

BeginCancel(r) ==
  \E id \in FileID :
    Begin(r, [NoReq EXCEPT !.op = "cancel", !.id = id, !.dir = uploadDir])

(* The sweeper reaches an upload listed in one of the directories of its   *)
(* snapshot.  It visits one at a time; a visit is a request here, so the   *)
(* listing may be as old as the wait for the mutex.                        *)
BeginSweep(r, d, id) ==
  /\ d \in Snapshot
  /\ temp[d][id] # None
  /\ Begin(r, [NoReq EXCEPT !.op = "sweep", !.id = id, !.dir = d])

(* markUploadCancelled: before the mutex of the file_id *)
Mark(r) ==
  /\ pc[r] = "mark"
  /\ UploadMuFree
  /\ cancelledUploads' = Marked(req[r].id)
  /\ cancelAck' = cancelAck \intersect Tombstones(Marked(req[r].id))
  /\ Goto(r, "lock")
  /\ UNCHANGED <<uploadDir, uploadDirectories, uploadMu, uploadStateMu, lock, disk, req,
                 acked, stale, spent, pubs, crashes>>

LockUpload(r) ==
  /\ pc[r] = "lock"
  /\ lock[req[r].id] = None
  /\ lock' = [lock EXCEPT ![req[r].id] = r]
  /\ Goto(r, "admit")
  /\ UNCHANGED <<uploadDir, server, disk, req, history, crashes>>

(* The deferred unlock, the slot given back and the answer sent *)
Reply(r) ==
  LET q == req[r] IN
  /\ pc[r] = "reply"
  /\ lock' = [lock EXCEPT ![q.id] = None]
  /\ req' = [req EXCEPT ![r] = NoReq]
  /\ Goto(r, "idle")
  /\ acked' = IF q.op = "chunk" /\ q.reply = "ok"
              THEN [acked EXCEPT ![q.dir][q.id][q.idx] = q.data] ELSE acked
  /\ cancelAck' = IF q.op = "cancel" /\ q.reply = "ok" /\ Cancelled(q.id)
                  THEN cancelAck \union {q.id} ELSE cancelAck
  /\ stale' = IF q.op = "cancel" /\ q.reply = "ok"
              THEN stale \union {w \in ChunkRequests : req[w].id = q.id}
              ELSE stale \ {r}
  /\ UNCHANGED <<uploadDir, server, disk, spent, pubs, crashes>>

-------------------------------------------------------------------------------
(* handleUploadChunk, inside the mutex *)

(* A chunk is not checked against the tombstones. *)
TurnedAway_Never(r) == FALSE

TurnedAway(r) == Cancelled(req[r].id)

(* Another declaration is stored under the file_id. *)
Conflicting(d, q) == HasMeta(d, q.id) /\ temp[d][q.id].meta # q.meta

(* Tombstone check, binding to a directory, stored metadata.  The deferred *)
(* rollback comes after: a request turned away here keeps the binding it   *)
(* has made, and if the metadata could not be read there may be no         *)
(* directory.                                                              *)
AdmitChunk(r) ==
  LET q == req[r]
      d == UploadDirectoryFor(q.id, q.dir)
  IN
  /\ pc[r] = "admit" /\ q.op = "chunk"
  /\ UploadMuFree
  /\ IF TurnedAway(r)
     THEN Finish(r, "cancelled") /\ UNCHANGED uploadDirectories
     ELSE
       /\ uploadDirectories' = [uploadDirectories EXCEPT ![q.id] = d]
       /\ \/ /\ ReadFault \/ Conflicting(d, q)
             /\ req' = [req EXCEPT ![r].dir = d, ![r].reply = "conflict"]
             /\ Goto(r, "reply")
          \/ /\ ~ Conflicting(d, q)
             /\ req' = [req EXCEPT ![r].dir = d, ![r].fresh = ~ HasMeta(d, q.id)]
             /\ Goto(r, "reserve")
  /\ UNCHANGED <<uploadDir, cancelledUploads, uploadMu, uploadStateMu, lock, disk,
                 history, crashes>>

(* reserveStorage: 507 or 500, or the bytes are set aside until the reply *)
ReserveChunk(r) ==
  /\ pc[r] = "reserve"
  /\ \/ /\ Goto(r, IF req[r].fresh THEN "count" ELSE "store")
        /\ UNCHANGED req
     \/ Fault /\ Rollback(r, "nospace")
  /\ UNCHANGED <<uploadDir, server, lock, disk, history, crashes>>

(* The 429 path returns with uploadStateMu locked. *)
CountActive_KeepsMutex(r) ==
  /\ pc[r] = "count"
  /\ UploadStateMuFree
  /\ uploadStateMu' = r
  /\ IF Cardinality(ActiveOthers(req[r].dir, req[r].id)) >= MaxActive
     THEN Rollback(r, "toomany") ELSE Goto(r, "mkdir") /\ UNCHANGED req
  /\ UNCHANGED <<uploadDir, uploadDirectories, cancelledUploads, uploadMu, lock, disk,
                 history, crashes>>

(* Under uploadStateMu: the limit on active uploads ... *)
CountActive(r) ==
  LET q == req[r]
      full == Cardinality(ActiveOthers(q.dir, q.id)) >= MaxActive
  IN
  /\ pc[r] = "count"
  /\ UploadStateMuFree
  /\ \/ full /\ Rollback(r, "toomany") /\ UNCHANGED uploadStateMu
     \/ ~ full /\ uploadStateMu' = r /\ Goto(r, "mkdir") /\ UNCHANGED req
     \/ ReadFault /\ Rollback(r, "error") /\ UNCHANGED uploadStateMu
  /\ UNCHANGED <<uploadDir, uploadDirectories, cancelledUploads, uploadMu, lock, disk,
                 history, crashes>>

(* ... a legacy directory removed and the new one made ... *)
MakeTemp(r) ==
  LET q == req[r] IN
  /\ pc[r] = "mkdir"
  /\ \/ /\ Put(q.dir, q.id, EmptyTemp)
        /\ req' = [req EXCEPT ![r].made = TRUE]
        /\ Goto(r, "meta")
        /\ UNCHANGED uploadStateMu
     \/ /\ Fault
        /\ \E t \in {None} \union Leftovers(q.dir, q.id) : Put(q.dir, q.id, t)
        /\ uploadStateMu' = None
        /\ Rollback(r, "error")
  /\ UNCHANGED <<uploadDir, uploadDirectories, cancelledUploads, uploadMu, lock, files,
                 history, crashes>>

(* ... and writeUploadMetadata. *)
WriteMeta(r) ==
  LET q == req[r]
      t == temp[q.dir][q.id]
  IN
  /\ pc[r] = "meta"
  /\ uploadStateMu' = None
  /\ \/ /\ Put(q.dir, q.id, [t EXCEPT !.meta = q.meta, !.old = FALSE])
        /\ Goto(r, "store")
        /\ UNCHANGED req
     \/ Fault /\ Rollback(r, "error") /\ UNCHANGED temp
  /\ UNCHANGED <<uploadDir, uploadDirectories, cancelledUploads, uploadMu, lock, files,
                 history, crashes>>

(* The body is copied to a private file in the directory, which is renamed *)
(* to the chunk's name unless a chunk is there already.                    *)
StoreChunk(r) ==
  LET q == req[r]
      t == temp[q.dir][q.id]
      existing == t.chunks[q.idx]
  IN
  /\ pc[r] = "store"
  /\ \/ /\ existing = None
        /\ Put(q.dir, q.id, [t EXCEPT !.chunks[q.idx] = q.data, !.old = FALSE])
        /\ Finish(r, "ok")
     \/ /\ existing # None
        /\ Put(q.dir, q.id, [t EXCEPT !.old = FALSE])
        /\ Rollback(r, IF existing = q.data THEN "ok" ELSE "conflict")
     \/ /\ Fault
        /\ Put(q.dir, q.id, [t EXCEPT !.old = FALSE])
        /\ Rollback(r, "error")
  /\ UNCHANGED <<uploadDir, server, lock, files, history, crashes>>

(* The rollback's os.RemoveAll, whose error is ignored *)
Undo(r) ==
  LET q == req[r] IN
  /\ pc[r] = "undo"
  /\ \/ Put(q.dir, q.id, None)
     \/ \E t \in Leftovers(q.dir, q.id) : Put(q.dir, q.id, t)
  /\ Goto(r, "forget")
  /\ UNCHANGED <<uploadDir, server, lock, files, req, history, crashes>>

(* forgetUploadDirectory, after a rollback, a publication, a cancellation  *)
(* or a sweep                                                              *)
Forget(r) ==
  /\ pc[r] = "forget"
  /\ UploadMuFree
  /\ uploadDirectories' = Forgotten(req[r].id, req[r].dir)
  /\ Goto(r, "reply")
  /\ UNCHANGED <<uploadDir, cancelledUploads, uploadMu, uploadStateMu, lock, disk, req,
                 history, crashes>>

-------------------------------------------------------------------------------
(* handleCompleteUpload, inside the mutex *)

AllChunks(t) == \A i \in 0..t.meta.total - 1 : t.chunks[i] # None

(* The stored upload t can be completed with metadata m. *)
Ready(t, m) == Present(t) /\ t.meta = m /\ AllChunks(t) /\ ActualSize(t) = m.size

(* The answer otherwise *)
Refusal(t, m) ==
  IF ~ Present(t) THEN "notfound"
  ELSE IF t.meta = m /\ ~ AllChunks(t) THEN "missing" ELSE "conflict"

AdmitComplete(r) ==
  LET q == req[r]
      d == UploadDirectoryFor(q.id, q.dir)
      t == temp[d][q.id]
  IN
  /\ pc[r] = "admit" /\ q.op = "complete"
  /\ UploadMuFree
  /\ \/ Cancelled(q.id) /\ Finish(r, "cancelled")
     \/ /\ ~ Cancelled(q.id) /\ Ready(t, q.meta)
        /\ req' = [req EXCEPT ![r].dir = d]
        /\ Goto(r, "part")
     \/ /\ ~ Cancelled(q.id) /\ ~ Ready(t, q.meta)
        /\ Finish(r, Refusal(t, q.meta))
     \/ ReadFault /\ ~ Cancelled(q.id) /\ Finish(r, "conflict")
  /\ UNCHANGED <<uploadDir, server, lock, disk, history, crashes>>

(* The mutex excludes every writer of this directory but r itself. *)
SetPart(q, p) ==
  Put(q.dir, q.id, [temp[q.dir][q.id] EXCEPT !.part = p, !.old = FALSE])

(* mergeErr is set: the partial merge is removed, if the removal works. *)
AbortMerge(r, answer) ==
  /\ Finish(r, answer)
  /\ \/ SetPart(req[r], None)
     \/ Fault /\ UNCHANGED temp

(* Storage reserved, a left-over .merged.part removed, a new one created *)
CreatePart(r) ==
  LET q == req[r] IN
  /\ pc[r] = "part"
  /\ \/ /\ SetPart(q, <<>>)
        /\ req' = [req EXCEPT ![r].next = 0]
        /\ Goto(r, "merge")
     \/ Fault /\ AbortMerge(r, "nospace")
  /\ UNCHANGED <<uploadDir, server, lock, files, history, crashes>>

(* The chunks are merged from the last to the first. *)
Merged_Backwards(t, i) == Append(t.part, t.chunks[t.meta.total - 1 - i])

Merged(t, i) == Append(t.part, t.chunks[i])

(* One turn of the merge loop.  The client may have gone away, the upload  *)
(* may have been cancelled, the copy may fail.                             *)
MergeChunk(r) ==
  LET q == req[r]
      t == temp[q.dir][q.id]
  IN
  /\ pc[r] = "merge" /\ q.next < t.meta.total
  /\ UploadMuFree
  /\ \/ AbortMerge(r, "cancelled")
     \/ /\ ~ Cancelled(q.id)
        /\ SetPart(q, Merged(t, q.next))
        /\ req' = [req EXCEPT ![r].next = q.next + 1]
        /\ UNCHANGED pc
     \/ Fault /\ AbortMerge(r, "error")
  /\ UNCHANGED <<uploadDir, server, lock, files, history, crashes>>

(* After the loop: size, Sync, the tombstone again, Close *)
Seal(r) ==
  LET q == req[r]
      sized == ContentSize(temp[q.dir][q.id].part) = temp[q.dir][q.id].meta.size
  IN
  /\ pc[r] = "merge" /\ q.next = temp[q.dir][q.id].meta.total
  /\ UploadMuFree
  /\ \/ sized /\ ~ Cancelled(q.id) /\ Goto(r, "publish") /\ UNCHANGED <<req, temp>>
     \/ sized /\ Cancelled(q.id) /\ AbortMerge(r, "cancelled")
     \/ (Fault \/ ~ sized) /\ AbortMerge(r, "error")
  /\ UNCHANGED <<uploadDir, server, lock, files, history, crashes>>

(* publishUploadFile: uploadMu and finalizeMu, here one, and the tombstone *)
TakeUploadMu(r) ==
  LET q == req[r] IN
  /\ pc[r] = "publish"
  /\ UploadMuFree
  /\ \/ /\ ~ Cancelled(q.id)
        /\ uploadMu' = r
        /\ req' = [req EXCEPT ![r].key = <<q.meta.name, 0>>]
        /\ Goto(r, "name")
        /\ UNCHANGED temp
     \/ /\ Cancelled(q.id)
        /\ AbortMerge(r, "cancelled")
        /\ UNCHANGED uploadMu
  /\ UNCHANGED <<uploadDir, uploadDirectories, cancelledUploads, uploadStateMu, lock, files,
                 history, crashes>>

(* One turn of getUniqueFilePath: the name itself, then "name (1)", "name  *)
(* (2)", ..., until Stat says that there is no such file.  A Stat that     *)
(* fails passes a free name over too; no number of failures ends the loop. *)
PickName(r) ==
  LET q == req[r] IN
  /\ pc[r] = "name"
  /\ \/ q.key \notin TakenKeys(q.dir) /\ Goto(r, "rename") /\ UNCHANGED req
     \/ /\ q.key \in TakenKeys(q.dir) \/ (ReadFault /\ q.key[2] < MaxSkips)
        /\ req' = [req EXCEPT ![r].key = <<q.key[1], q.key[2] + 1>>]
        /\ UNCHANGED pc
  /\ UNCHANGED <<uploadDir, server, lock, disk, history, crashes>>

(* os.Rename puts the merged file in the place of whatever has that name. *)
Renamed(d, f) == [files EXCEPT ![d] = {g \in @ : g.key # f.key} \union {f}]

PublishFile(r) ==
  LET q == req[r]
      f == [key |-> q.key, id |-> q.id, meta |-> q.meta, content |-> temp[q.dir][q.id].part]
  IN
  /\ pc[r] = "rename"
  /\ uploadMu' = None
  /\ \/ /\ files' = Renamed(q.dir, f)
        /\ SetPart(q, None)
        /\ pubs' = [pubs EXCEPT ![q.id] = @ + 1]
        /\ spent' = spent \union {<<q.dir, q.id>>}
        /\ Goto(r, "clean")
        /\ UNCHANGED req
     \/ /\ Fault
        /\ AbortMerge(r, "error")
        /\ UNCHANGED <<files, pubs, spent>>
  /\ UNCHANGED <<uploadDir, uploadDirectories, cancelledUploads, uploadStateMu, lock,
                 acked, cancelAck, stale, crashes>>

-------------------------------------------------------------------------------
(* The three places where an upload ends on purpose: os.RemoveAll of its   *)
(* directory d, which may fail half-way.                                   *)
RemoveAll(d, id, ok) ==
  /\ IF ok THEN Put(d, id, None) ELSE \E t \in Leftovers(d, id) : Put(d, id, t)
  /\ spent' = IF ok THEN spent \ {<<d, id>>} ELSE spent

(* The directory of a published upload stays. *)
Clean_Never(r) ==
  /\ pc[r] = "clean"
  /\ req' = [req EXCEPT ![r].reply = "ok"]
  /\ Goto(r, "forget")
  /\ UNCHANGED <<uploadDir, server, lock, disk, history, crashes>>

(* After a publication; the error is ignored.                              *)
Clean(r) ==
  /\ pc[r] = "clean"
  /\ \E ok \in BOOLEAN : RemoveAll(req[r].dir, req[r].id, ok)
  /\ acked' = [acked EXCEPT ![req[r].dir][req[r].id] = NoChunks]
  /\ req' = [req EXCEPT ![r].reply = "ok"]
  /\ Goto(r, "forget")
  /\ UNCHANGED <<uploadDir, server, lock, files, cancelAck, stale, pubs, crashes>>

(* handleCancelUpload, inside the mutex *)
AdmitCancel(r) ==
  LET q == req[r]
      d == UploadDirectoryFor(q.id, q.dir)
  IN
  /\ pc[r] = "admit" /\ q.op = "cancel"
  /\ UploadMuFree
  /\ \E ok \in BOOLEAN :
       /\ RemoveAll(d, q.id, ok)
       /\ acked' = [acked EXCEPT ![d][q.id] = NoChunks]
       /\ req' = [req EXCEPT ![r].dir = d, ![r].reply = IF ok THEN "ok" ELSE "error"]
       /\ Goto(r, IF ok THEN "forget" ELSE "reply")
  /\ UNCHANGED <<uploadDir, server, lock, files, cancelAck, stale, pubs, crashes>>

(* The age is judged from the listing, before the mutex. *)
Abandoned_Listed(d, id) == temp[d][id] # None

(* CleanupTempChunks, inside the mutex: the age is read here, not from the *)
(* listing, and a directory whose age cannot be read is left alone.        *)
Abandoned(d, id) == temp[d][id] # None /\ temp[d][id].old

(* Only an upload that is old is given up by its client. *)
GivenUp(d, id) ==
  IF temp[d][id] # None /\ temp[d][id].old
  THEN [acked EXCEPT ![d][id] = NoChunks] ELSE acked

AdmitSweep(r) ==
  LET q == req[r] IN
  /\ pc[r] = "admit" /\ q.op = "sweep"
  /\ \/ /\ Abandoned(q.dir, q.id)
        /\ \E ok \in BOOLEAN :
             /\ RemoveAll(q.dir, q.id, ok)
             /\ acked' = GivenUp(q.dir, q.id)
             /\ Goto(r, IF ok THEN "forget" ELSE "reply")
     \/ /\ ReadFault \/ ~ Abandoned(q.dir, q.id)
        /\ Goto(r, "reply")
        /\ UNCHANGED <<temp, acked, spent>>
  /\ UNCHANGED <<uploadDir, server, lock, files, req, cancelAck, stale, pubs, crashes>>

-------------------------------------------------------------------------------
(* The world around the handlers *)

(* Config.SetUploadDir from the desktop window *)
SetUploadDir ==
  /\ "switch" \in Hazard
  /\ \E d \in Dir \ {uploadDir} : uploadDir' = d
  /\ UNCHANGED <<server, lock, disk, pc, req, history, crashes>>

(* cancelTombstoneTTL passes for the oldest tombstone. *)
ExpireTombstone ==
  /\ "expire" \in Hazard
  /\ cancelledUploads # <<>>
  /\ cancelledUploads' = Tail(cancelledUploads)
  /\ cancelAck' = cancelAck \ {Head(cancelledUploads)}
  /\ UNCHANGED <<uploadDir, uploadDirectories, uploadMu, uploadStateMu, lock, disk, pc, req,
                 acked, stale, spent, pubs, crashes>>

(* A directory untouched for tempChunkMaxAge *)
Age ==
  /\ "age" \in Hazard
  /\ \E d \in Dir, id \in FileID :
       /\ temp[d][id] # None /\ ~ temp[d][id].old
       /\ Put(d, id, [temp[d][id] EXCEPT !.old = TRUE])
  /\ UNCHANGED <<uploadDir, server, lock, files, pc, req, history, crashes>>

(* A finished file is deleted, by handleDeleteFile or by the operator. *)
DeleteFile ==
  /\ "delete" \in Hazard
  /\ \E d \in Dir : \E f \in files[d] : files' = [files EXCEPT ![d] = @ \ {f}]
  /\ UNCHANGED <<uploadDir, server, lock, temp, pc, req, history, crashes>>

(* The process dies and is started again, in any directory: everything in  *)
(* memory is gone, and NewServer starts with empty maps.                   *)
Crash ==
  /\ crashes < MaxCrashes
  /\ crashes' = crashes + 1
  /\ uploadDir' \in Dir
  /\ uploadDirectories' = [id \in FileID |-> None]
  /\ cancelledUploads' = <<>>
  /\ lock' = [id \in FileID |-> None]
  /\ uploadMu' = None
  /\ uploadStateMu' = None
  /\ pc' = [r \in Request |-> "idle"]
  /\ req' = [r \in Request |-> NoReq]
  /\ cancelAck' = {}
  /\ stale' = {}
  /\ UNCHANGED <<disk, acked, spent, pubs>>

-------------------------------------------------------------------------------
Arrive(r) == BeginChunk(r) \/ BeginComplete(r) \/ BeginCancel(r)

Sweeper(r) == \E d \in Dir, id \in FileID : BeginSweep(r, d, id)

ChunkStep(r) ==
  \/ AdmitChunk(r) \/ ReserveChunk(r) \/ CountActive(r) \/ MakeTemp(r) \/ WriteMeta(r)
  \/ StoreChunk(r) \/ Undo(r)

CompleteStep(r) ==
  \/ AdmitComplete(r) \/ CreatePart(r) \/ MergeChunk(r) \/ Seal(r) \/ TakeUploadMu(r)
  \/ PickName(r) \/ PublishFile(r) \/ Clean(r)

(* Everything a goroutine does once its request has arrived *)
Serve(r) ==
  \/ Mark(r) \/ LockUpload(r) \/ ChunkStep(r) \/ CompleteStep(r) \/ AdmitCancel(r)
  \/ AdmitSweep(r) \/ Forget(r) \/ Reply(r)

World == SetUploadDir \/ ExpireTombstone \/ Age \/ DeleteFile \/ Crash

Next == (\E r \in Request : Arrive(r) \/ Sweeper(r) \/ Serve(r)) \/ World

Spec == Init /\ [][Next]_vars

(***************************************************************************)
(* Handlers run without waiting for a client once the body is read, so a   *)
(* goroutine keeps taking steps; sync.Mutex admits a waiter that has       *)
(* starved, whichever of the three mutexes it waits for.  No fairness is   *)
(* assumed of arrivals or of the world.                                    *)
(***************************************************************************)
Fairness == \A r \in Request : SF_vars(Serve(r))

FairSpec == Spec /\ Fairness

(* The sweeper's ticker never stops, and every sweep visits every listed   *)
(* upload of every directory of its snapshot.                              *)
SweeperFairness == \A d \in Dir, id \in FileID :
  SF_vars(\E r \in Request : BeginSweep(r, d, id))

SweepSpec == FairSpec /\ SweeperFairness

-------------------------------------------------------------------------------
PC == {"idle", "mark", "lock", "admit", "reserve", "count", "mkdir", "meta", "store",
       "undo", "forget", "part", "merge", "publish", "name", "rename", "clean", "reply"}

FileKey == {m.name : m \in Meta} \X Nat

FileState == [key : FileKey, id : FileID, meta : Meta, content : Seq(Data)]

ReqState == [op : {"none", "chunk", "complete", "cancel", "sweep"},
             id : FileID \union {None}, meta : Meta \union {None}, idx : Index,
             data : Data \union {None}, dir : Dir \union {None}, fresh : BOOLEAN,
             made : BOOLEAN, next : 0..MaxChunks, key : FileKey \union {None},
             reply : {"none", "ok", "cancelled", "conflict", "nospace", "toomany",
                      "error", "notfound", "missing"}]

TypeOK ==
  /\ uploadDir \in Dir
  /\ uploadDirectories \in [FileID -> Dir \union {None}]
  /\ cancelledUploads \in Seq(FileID) /\ Len(cancelledUploads) <= MaxTombs
  /\ lock \in [FileID -> Request \union {None}]
  /\ uploadMu \in Request \union {None}
  /\ uploadStateMu \in Request \union {None}
  /\ temp \in [Dir -> [FileID -> TempState \union {None}]]
  /\ files \in [Dir -> SUBSET FileState]
  /\ pc \in [Request -> PC]
  /\ req \in [Request -> ReqState]
  /\ acked \in [Dir -> [FileID -> [Index -> Data \union {None}]]]
  /\ cancelAck \subseteq FileID
  /\ stale \subseteq Request
  /\ spent \subseteq Dir \X FileID
  /\ pubs \in [FileID -> Nat]
  /\ crashes \in 0..MaxCrashes

(* A chunk answered with "ok" is on disk, with the bytes that were         *)
(* answered for, until its upload is published, cancelled or swept: no     *)
(* rollback, duplicate, conflicting request, failed merge or restart loses *)
(* or replaces it (upload.go:557-567, 652-684, 921-929).                   *)
AckedChunkKept ==
  \A d \in Dir, id \in FileID, i \in Index :
    acked[d][id][i] # None => HasMeta(d, id) /\ temp[d][id].chunks[i] = acked[d][id][i]

(* What is published is whole: exactly the declared chunks, of exactly the *)
(* declared size, each the chunk that was acknowledged for its index       *)
(* (upload.go:837-859, 872-919).                                           *)
Whole(d, f) ==
  /\ Len(f.content) = f.meta.total
  /\ ContentSize(f.content) = f.meta.size
  /\ \A k \in 1..f.meta.total : acked[d][f.id][k - 1] \in {None, f.content[k]}

PublishedWhole == [][\A d \in Dir : \A f \in files'[d] \ files[d] : Whole(d, f)]_vars

(* Publishing never replaces a finished file, whichever uploads finish     *)
(* under the same name at the same time: a file only goes by being deleted *)
(* (publishUploadFile and getUniqueFilePath, upload.go:243-266, 1265).     *)
NoOverwrite ==
  [][\A d \in Dir : files[d] \subseteq files'[d]
        \/ \E f \in files[d] : files'[d] = files[d] \ {f}]_vars

(* Cancellation and publication have one order: nothing is published while *)
(* the tombstone of its file_id is there, even one set between the last    *)
(* check and the rename (comment at upload.go:244-245).                    *)
CancelOrdersPublish ==
  [][\A id \in FileID : pubs'[id] # pubs[id] => ~ Cancelled(id)]_vars

(* Between requests, an upload has a directory on disk exactly where it is *)
(* bound in memory, so its chunks never split over two directories and the *)
(* sweeper finds it after a switch (upload.go:160-203).  This holds as     *)
(* long as metadata can be read: a request that cannot read it leaves its  *)
(* binding behind without a directory (upload.go:549-552).                 *)
BindingExact ==
  \A id \in FileID, d \in Dir :
    lock[id] = None => (temp[d][id] # None <=> uploadDirectories[id] = d)

(* maxActiveUploads bounds the upload directories of a directory however   *)
(* many first chunks arrive at once (upload.go:589-620).                   *)
ActiveLimit ==
  \A d \in Dir : Cardinality({id \in FileID : temp[d][id] # None}) <= MaxActive

(* A chunk request that was queued when the cancellation of its upload     *)
(* returned never gets past the tombstone (comment at upload.go:769-770).  *)
QueuedChunkStaysOut ==
  \A r \in stale : pc[r] \in {"lock", "admit", "reply"}

(* An upload directory that stays untouched is swept in the end, also      *)
(* after the operator switched to another directory (README.md:52,         *)
(* upload.go:971-998).                                                     *)
AbandonedSwept ==
  \A d \in Dir, id \in FileID :
    (temp[d][id] # None /\ Abandoned(d, id)) ~> (temp[d][id] = None \/ ~ temp[d][id].old)

(* Every request is answered: neither the three mutexes nor the rollback   *)
(* and abort paths leave a goroutine stuck (upload.go:449-969), as long as *)
(* Stat does not fail for ever: MaxSkips bounds its failures, which the    *)
(* loop of getUniqueFilePath does not (upload.go:1275-1281).               *)
EveryRequestAnswered == \A r \in Request : pc[r] # "idle" ~> pc[r] = "idle"

===============================================================================
