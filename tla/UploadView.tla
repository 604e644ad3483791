------------------------------ MODULE UploadView ------------------------------
(***************************************************************************)
(* One resumable upload as its client knows it: chunks are collected under *)
(* a file_id, and the upload ends in a finished file, by a cancellation or *)
(* because nobody touched it for long.  Nothing is said of requests,       *)
(* mutexes, directories or bindings: Upload says that and is shown to      *)
(* implement this module as long as it neither crashes nor fails to remove *)
(* a directory.                                                            *)
(***************************************************************************)
EXTENDS Naturals, Sequences, FiniteSetsExt

CONSTANTS
  FileID,   \* file_ids
  Meta,     \* declarations: [name, total, size]
  Data,     \* chunks: [size, bytes]
  Index,    \* chunk indices
  None      \* a chunk that is missing

VARIABLES
  uploads,     \* uploads with a chunk: [id, meta, chunks, old]
  shelf,       \* finished files: [place, id, meta, content]
  cancelling,  \* file_ids with a cancellation under way
  barred,      \* file_ids with a tombstone
  closed       \* those of barred whose cancellation was answered

vars == <<uploads, shelf, cancelling, barred, closed>>

Init ==
  /\ uploads = {} /\ shelf = {}
  /\ cancelling = {} /\ barred = {} /\ closed = {}

Replace(u, v) == uploads' = (uploads \ {u}) \union {v}

(* A cancelled upload does not come back. *)
Free == FileID \ (closed \union {u.id : u \in uploads})

(* The first chunk makes the upload, and there is one upload of a file_id. *)
Open(id, m, i, x) ==
  /\ id \in Free /\ i < m.total
  /\ uploads' = uploads \union
       {[id |-> id, meta |-> m, old |-> FALSE,
         chunks |-> [j \in Index |-> IF j = i THEN x ELSE None]]}
  /\ UNCHANGED <<shelf, cancelling, barred, closed>>

(* A chunk that is there is never replaced. *)
Add(u, i, x) ==
  /\ u.id \notin closed
  /\ i < u.meta.total /\ u.chunks[i] = None
  /\ Replace(u, [u EXCEPT !.chunks[i] = x, !.old = FALSE])
  /\ UNCHANGED <<shelf, cancelling, barred, closed>>

(* A duplicate chunk or an attempt to complete it keeps an upload alive. *)
Touch(u) ==
  /\ u.old /\ Replace(u, [u EXCEPT !.old = FALSE])
  /\ UNCHANGED <<shelf, cancelling, barred, closed>>

Grow(u) ==
  /\ ~u.old /\ Replace(u, [u EXCEPT !.old = TRUE])
  /\ UNCHANGED <<shelf, cancelling, barred, closed>>

(* The upload becomes a file: its chunks in order, in a place of its own,  *)
(* a directory and a name.                                                 *)
Content(u) == [k \in 1..u.meta.total |-> u.chunks[k - 1]]

Publish(u) ==
  /\ u.id \notin barred
  /\ \A i \in 0..u.meta.total - 1 : u.chunks[i] # None
  /\ MapThenSumSet(LAMBDA i : u.chunks[i].size, 0..u.meta.total - 1) = u.meta.size
  /\ uploads' = uploads \ {u}
  /\ \E f \in shelf' :
       /\ shelf' = shelf \union {f}
       /\ f = [place |-> f.place, id |-> u.id, meta |-> u.meta, content |-> Content(u)]
       /\ \A g \in shelf : g.place # f.place
  /\ UNCHANGED <<cancelling, barred, closed>>

(* Only a cancellation or old age takes an upload away without a file. *)
Discard(u) ==
  /\ u.id \in cancelling \/ u.old
  /\ uploads' = uploads \ {u}
  /\ UNCHANGED <<shelf, cancelling, barred, closed>>

(* A cancellation begins with a tombstone, which may push another out. *)
Cancel(id) ==
  /\ cancelling' = cancelling \union {id}
  /\ \E gone \in SUBSET barred :
       /\ Cardinality(gone) <= 1
       /\ barred' = (barred \ gone) \union {id}
  /\ closed' = closed \intersect barred'
  /\ UNCHANGED <<uploads, shelf>>

(* Once it is answered, nothing of the upload is left, and nothing comes   *)
(* back while the tombstone lasts; another cancellation may still run.     *)
Answer(id) ==
  /\ id \in cancelling
  /\ cancelling' \in {cancelling, cancelling \ {id}}
  /\ closed' = closed \union ({id} \intersect barred)
  /\ \A u \in uploads : u.id \notin closed'
  /\ UNCHANGED <<uploads, shelf, barred>>

Expire(id) ==
  /\ barred' = barred \ {id} /\ closed' = closed \ {id}
  /\ UNCHANGED <<uploads, shelf, cancelling>>

Delete(f) ==
  /\ shelf' = shelf \ {f}
  /\ UNCHANGED <<uploads, cancelling, barred, closed>>

Next ==
  \/ \E id \in Free, m \in Meta, i \in Index, x \in Data : Open(id, m, i, x)
  \/ \E u \in uploads :
       \/ \E i \in Index, x \in Data : Add(u, i, x)
       \/ Touch(u) \/ Grow(u) \/ Discard(u) \/ Publish(u)
  \/ \E id \in FileID : Cancel(id) \/ Answer(id) \/ Expire(id)
  \/ \E f \in shelf : Delete(f)

Spec == Init /\ [][Next]_vars

===============================================================================
