------------------------------- MODULE MCUpload -------------------------------
(***************************************************************************)
(* Chunks and metadata for the small instances of Upload.                  *)
(***************************************************************************)
EXTENDS Upload, TLC

(* One chunk; two that differ in size and bytes, the conflict of a retried *)
(* index                                                                   *)
OneChunk == {[size |-> 1, bytes |-> "x"]}
TwoSizes == {[size |-> 1, bytes |-> "x"], [size |-> 2, bytes |-> "xx"]}

(* A file of one chunk; a file whose two chunks must have different sizes; *)
(* two declarations under one file_id, the conflict of stored metadata:    *)
(* the chunk of the second is smaller than the file                        *)
OneChunkFile == {[name |-> "a", total |-> 1, size |-> 1]}
MixedFile == {[name |-> "a", total |-> 2, size |-> 3]}
TwoMetas == {[name |-> "a", total |-> 2, size |-> 2], [name |-> "a", total |-> 1, size |-> 2]}

Symmetry == Permutations(Request) \union Permutations(FileID) \union Permutations(Dir)

-------------------------------------------------------------------------------
(* The uploads in directory d, whose chunks a client could still use: once *)
(* published, a directory only waits for its removal.                      *)
Usable(d, id) ==
  /\ HasMeta(d, id) /\ <<d, id>> \notin spent
  /\ temp[d][id].chunks # NoChunks

UploadOf(d, id) == [id |-> id, meta |-> temp[d][id].meta,
                    chunks |-> temp[d][id].chunks, old |-> temp[d][id].old]

Shelved(d, f) == [place |-> <<d, f.key>>, id |-> f.id, meta |-> f.meta, content |-> f.content]

Uploads == UNION {{UploadOf(d, id) : id \in {i \in FileID : Usable(d, i)}} : d \in Dir}

Shelf == UNION {{Shelved(d, f) : f \in files[d]} : d \in Dir}

Cancelling == {req[r].id : r \in {q \in Request : req[q].op = "cancel" /\ pc[q] # "mark"}}

Barred == Tombstones(cancelledUploads)

View == INSTANCE UploadView WITH
  uploads <- Uploads, shelf <- Shelf, cancelling <- Cancelling, barred <- Barred,
  closed <- cancelAck

(* As long as nothing crashes and no removal fails, the handlers, the      *)
(* sweeper and the switch of directories together behave as one upload per *)
(* file_id: its chunks are collected in one place, it is published at most *)
(* once, whole and never after a cancellation, nobody else's arrival makes *)
(* it go away, and an answered cancellation leaves nothing of it and keeps *)
(* it away (upload.go:449-998).                                            *)
ImplementsUploadView == View!Spec

===============================================================================
