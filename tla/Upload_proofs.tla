----------------------------- MODULE Upload_proofs -----------------------------
(***************************************************************************)
(* Proofs about Upload, for any number of goroutines, file_ids,            *)
(* directories, chunks and values of the limits.                           *)
(***************************************************************************)
EXTENDS Upload, FiniteSetTheorems, SequenceTheorems, TLAPS

(* Goroutine r is between the lock and the unlock of its file_id's mutex. *)
Inside(r) == pc[r] \notin {"idle", "mark", "lock"}

Holding == \A r \in Request : Inside(r) => lock[req[r].id] = r

ChunkPlaces == {"reserve", "count", "mkdir", "meta", "store", "undo"}

MergePlaces == {"part", "merge", "publish", "name", "rename"}

(* The inputs of a request that is at place p with locals q *)
Shape(p, q) ==
  /\ p # "idle" => q.id \in FileID /\ q.dir \in Dir /\ q.op # "none"
  /\ q.op = "chunk" => /\ q.meta \in Meta /\ q.data \in Data
                       /\ q.idx \in 0..q.meta.total - 1
  /\ q.op = "complete" => q.meta \in Meta
  /\ p \in ChunkPlaces => q.op = "chunk"
  /\ p \in MergePlaces \union {"clean"} => q.op = "complete"

(* A merge has copied the chunks of t in order. *)
Copied(t) ==
  /\ t.part \in Seq(Data)
  /\ \A k \in 1..Len(t.part) : k - 1 \in Index /\ t.part[k] = t.chunks[k - 1]

(* What a request at place p knows of the directory t of its upload *)
OnDisk(p, q, t) ==
  /\ p \in {"meta", "store"} /\ q.fresh => q.made /\ t # None /\ t.chunks = NoChunks
  /\ p \in {"count", "mkdir", "meta", "undo"} => q.fresh
  /\ p = "store" \/ (p = "reserve" /\ ~ q.fresh) => Present(t) /\ t.meta = q.meta
  /\ p \in MergePlaces => Present(t) /\ t.meta = q.meta /\ AllChunks(t)
  /\ p \in {"merge", "publish", "name", "rename"} => Copied(t)
  /\ p = "merge" => q.next <= q.meta.total /\ Len(t.part) = q.next
  /\ p \in {"publish", "name", "rename"} =>
       Len(t.part) = q.meta.total /\ ContentSize(t.part) = q.meta.size
  /\ p \in {"undo", "forget"} /\ q.op = "chunk" => q.reply # "ok"
  /\ p = "reply" /\ q.op = "chunk" /\ q.reply = "ok" =>
       Present(t) /\ t.chunks[q.idx] = q.data

(* A first chunk that is not committed: a are the acknowledged chunks. *)
Uncommitted(p, q, a) == p \in ChunkPlaces /\ q.fresh => a = NoChunks

Local(r) ==
  /\ Shape(pc[r], req[r])
  /\ Inside(r) => OnDisk(pc[r], req[r], temp[req[r].dir][req[r].id])
  /\ Inside(r) => Uncommitted(pc[r], req[r], acked[req[r].dir][req[r].id])

(* A publication keeps uploadMu from the tombstone check to the rename.    *)
Naming(r) ==
  pc[r] \in {"name", "rename"} =>
    /\ uploadMu = r
    /\ ~ Cancelled(req[r].id)
    /\ req[r].key \in FileKey
    /\ pc[r] = "rename" => req[r].key \notin TakenKeys(req[r].dir)

Active(d) == {id \in FileID : temp[d][id] # None}

(* A first chunk that was counted keeps uploadStateMu until it is visible. *)
Counted(r) ==
  /\ pc[r] \in {"mkdir", "meta"} => uploadStateMu = r
  /\ pc[r] = "mkdir" => Cardinality(ActiveOthers(req[r].dir, req[r].id)) < MaxActive

ActiveFinite == \A d \in Dir : IsFiniteSet(Active(d))

IInv ==
  /\ TypeOK
  /\ Holding
  /\ \A r \in Request : Local(r) /\ Naming(r) /\ Counted(r)
  /\ AckedChunkKept
  /\ ActiveFinite
  /\ ActiveLimit

-------------------------------------------------------------------------------
(* The parts of the state that other goroutines of the same kind leave     *)
(* alone: what is on disk for the other file_ids.                          *)
OthersOut(r) == \A p \in Request \ {r} : Inside(p) => req[p].id # req[r].id

SameFor(p) == pc'[p] = pc[p] /\ req'[p] = req[p]

Apart(r) ==
  \A d \in Dir, id \in FileID \ {req[r].id} :
    temp'[d][id] = temp[d][id] /\ acked'[d][id] = acked[d][id]

(* What a file_id's mutex gives: nobody else is inside with it.            *)
LEMMA Alone ==
  ASSUME IInv, NEW r \in Request, Inside(r)
  PROVE  OthersOut(r)
BY DEF IInv, TypeOK, Holding, OthersOut, Inside, Local, Shape

(* A step of r leaves the local facts of the other goroutines alone.       *)
LEMMA OthersKept ==
  ASSUME IInv, NEW r \in Request, OthersOut(r), Apart(r),
         NEW p \in Request \ {r}, SameFor(p)
  PROVE  Local(p)'
<1>1. Shape(pc[p], req[p])'
  BY DEF IInv, Local, SameFor, Shape
<1>2. CASE ~ Inside(p)
  BY <1>1, <1>2 DEF Local, Inside, SameFor
<1>3. CASE Inside(p)
  <2>1. req[p].id \in FileID \ {req[r].id} /\ req[p].dir \in Dir
    BY <1>3 DEF IInv, Local, Shape, Inside, OthersOut
  <2>2. /\ temp'[req[p].dir][req[p].id] = temp[req[p].dir][req[p].id]
        /\ acked'[req[p].dir][req[p].id] = acked[req[p].dir][req[p].id]
    BY <2>1 DEF Apart
  <2>3. /\ OnDisk(pc[p], req[p], temp[req[p].dir][req[p].id])
        /\ Uncommitted(pc[p], req[p], acked[req[p].dir][req[p].id])
    BY <1>3 DEF IInv, Local
  <2>4. /\ OnDisk(pc'[p], req'[p], temp'[req'[p].dir][req'[p].id])
        /\ Uncommitted(pc'[p], req'[p], acked'[req'[p].dir][req'[p].id])
    BY <2>2, <2>3 DEF SameFor
  <2> QED
    BY <1>1, <2>4 DEF Local, OnDisk, Uncommitted
<1> QED
  BY <1>2, <1>3

LEMMA NamingKept ==
  ASSUME IInv, NEW r \in Request,
         \A p \in Request \ {r} : SameFor(p),
         pc'[r] \notin {"name", "rename"},
         \A p \in Request \ {r} : uploadMu = p => uploadMu' = p,
         \A id \in FileID : Cancelled(id)' => Cancelled(id),
         \A d \in Dir : files'[d] \subseteq files[d]
  PROVE  \A p \in Request : Naming(p)'
<1> SUFFICES ASSUME NEW p \in Request, pc'[p] \in {"name", "rename"}
             PROVE  Naming(p)'
  BY DEF Naming
<1>1. p \in Request \ {r} /\ SameFor(p) /\ pc[p] \in {"name", "rename"} /\ Naming(p)
  BY DEF IInv, SameFor
<1>2. req[p].id \in FileID /\ req[p].dir \in Dir
  BY <1>1 DEF IInv, Local, Shape
<1>3. /\ uploadMu = p /\ ~ Cancelled(req[p].id) /\ req[p].key \in FileKey
      /\ pc[p] = "rename" => req[p].key \notin TakenKeys(req[p].dir)
  BY <1>1 DEF Naming
<1>4. uploadMu' = p /\ ~ Cancelled(req[p].id)'
  BY <1>1, <1>2, <1>3 DEF SameFor, Cancelled
<1>5. /\ req'[p].key \in FileKey
      /\ pc'[p] = "rename" => (req[p].key \notin TakenKeys(req[p].dir))'
  BY <1>1, <1>2, <1>3 DEF SameFor, TakenKeys
<1> QED
  BY <1>4, <1>5 DEF Naming

LEMMA LimitKept ==
  ASSUME IInv, \A d \in Dir : Active(d)' \subseteq Active(d)
  PROVE  ActiveFinite' /\ ActiveLimit'
<1> SUFFICES ASSUME NEW d \in Dir
             PROVE  IsFiniteSet(Active(d)') /\ Cardinality(Active(d)') <= MaxActive
  BY DEF ActiveFinite, ActiveLimit, Active
<1>1. IsFiniteSet(Active(d)) /\ Cardinality(Active(d)) <= MaxActive
  BY DEF IInv, ActiveFinite, ActiveLimit, Active
<1>2. IsFiniteSet(Active(d)') /\ Cardinality(Active(d)') <= Cardinality(Active(d))
  BY <1>1, FS_Subset
<1> QED
  BY <1>1, <1>2, FS_CardinalityType, UploadAssumption

LEMMA CountedKept ==
  ASSUME IInv, NEW r \in Request,
         \A p \in Request \ {r} : SameFor(p),
         pc'[r] \notin {"mkdir", "meta"},
         \A p \in Request \ {r} : uploadStateMu = p => uploadStateMu' = p,
         \A d \in Dir : Active(d)' \subseteq Active(d)
  PROVE  \A p \in Request : Counted(p)'
<1> SUFFICES ASSUME NEW p \in Request, pc'[p] \in {"mkdir", "meta"}
             PROVE  Counted(p)'
  BY DEF Counted
<1>1. p \in Request \ {r} /\ SameFor(p) /\ pc[p] \in {"mkdir", "meta"} /\ Counted(p)
  BY DEF IInv, SameFor
<1>2. uploadStateMu' = p
  BY <1>1 DEF Counted
<1>3. ASSUME pc'[p] = "mkdir"
      PROVE  Cardinality(ActiveOthers(req[p].dir, req[p].id)') < MaxActive
  <2>1. pc[p] = "mkdir" /\ req[p].dir \in Dir /\ req[p].id \in FileID
    BY <1>1, <1>3 DEF SameFor, IInv, Local, Shape
  <2>2. PICK S : S = ActiveOthers(req[p].dir, req[p].id)
    OBVIOUS
  <2>3. PICK T : T = ActiveOthers(req[p].dir, req[p].id)'
    OBVIOUS
  <2>4. IsFiniteSet(Active(req[p].dir)) /\ S \subseteq Active(req[p].dir)
    BY <2>1, <2>2 DEF IInv, ActiveFinite, ActiveOthers, Active
  <2>5. IsFiniteSet(S) /\ Cardinality(S) < MaxActive
    BY <1>1, <2>1, <2>2, <2>4, FS_Subset DEF Counted
  <2>6. T \subseteq S
    BY <1>1, <2>1, <2>2, <2>3 DEF ActiveOthers, Active, SameFor
  <2>7. IsFiniteSet(T) /\ Cardinality(T) <= Cardinality(S)
    BY <2>5, <2>6, FS_Subset
  <2> QED
    BY <2>3, <2>5, <2>7, FS_CardinalityType, UploadAssumption
<1> QED
  BY <1>1, <1>2, <1>3 DEF Counted, SameFor, ActiveOthers

-------------------------------------------------------------------------------
(* What Put does to the type of temp, to the other file_ids and to the     *)
(* number of upload directories                                            *)
LEMMA PutFacts ==
  ASSUME TypeOK, NEW d \in Dir, NEW id \in FileID, NEW t \in TempState \union {None},
         Put(d, id, t)
  PROVE  /\ temp' \in [Dir -> [FileID -> TempState \union {None}]]
         /\ temp'[d][id] = t
         /\ \A e \in Dir, x \in FileID :
              e # d \/ x # id => temp'[e][x] = temp[e][x]
         /\ (t # None => temp[d][id] # None) =>
              \A e \in Dir : Active(e)' \subseteq Active(e)
<1>1. temp \in [Dir -> [FileID -> TempState \union {None}]]
  BY DEF TypeOK
<1>2. temp' = [temp EXCEPT ![d] = [temp[d] EXCEPT ![id] = t]]
  BY <1>1 DEF Put
<1>3. [temp[d] EXCEPT ![id] = t] \in [FileID -> TempState \union {None}]
  BY <1>1
<1>4. temp' \in [Dir -> [FileID -> TempState \union {None}]]
  BY <1>1, <1>2, <1>3
<1>5. temp'[d][id] = t
  BY <1>1, <1>2
<1>6. \A e \in Dir, x \in FileID : e # d \/ x # id => temp'[e][x] = temp[e][x]
  BY <1>1, <1>2
<1>7. (t # None => temp[d][id] # None) => \A e \in Dir : Active(e)' \subseteq Active(e)
  BY <1>5, <1>6 DEF Active
<1> QED
  BY <1>4, <1>5, <1>6, <1>7

(* A request arrives with inputs of the right shape.                       *)
LEMMA BeginStep ==
  ASSUME IInv, NEW r \in Request, NEW input \in ReqState,
         input.id \in FileID, input.dir \in Dir, input.op # "none",
         Shape("lock", input),
         Begin(r, input)
  PROVE  IInv'
<1> USE DEF Begin, Goto, server, disk, history
<1>1. TypeOK'
  BY DEF IInv, TypeOK, PC
<1>2. pc'[r] \in {"mark", "lock"} /\ req'[r] = input
  BY DEF IInv, TypeOK
<1>3. \A p \in Request \ {r} : SameFor(p)
  BY DEF IInv, TypeOK, SameFor
<1>4. Holding'
  BY <1>2, <1>3 DEF IInv, Holding, Inside, SameFor
<1>5. \A p \in Request : Local(p)'
  <2>1. Local(r)'
    BY <1>2 DEF Local, Inside, Shape, ChunkPlaces, MergePlaces
  <2>2. ASSUME NEW p \in Request \ {r}
        PROVE  Local(p)'
    <3>1. Local(p) /\ SameFor(p)
      BY <1>3 DEF IInv
    <3>2. pc'[p] = pc[p] /\ req'[p] = req[p] /\ temp' = temp /\ acked' = acked
      BY <3>1 DEF SameFor
    <3>3. Shape(pc'[p], req'[p])
      BY <3>1, <3>2 DEF Local
    <3>4. Inside(p)' =>
            /\ OnDisk(pc'[p], req'[p], temp'[req'[p].dir][req'[p].id])
            /\ Uncommitted(pc'[p], req'[p], acked'[req'[p].dir][req'[p].id])
      BY <3>1, <3>2 DEF Local, Inside
    <3> QED
      BY <3>3, <3>4 DEF Local, Shape, OnDisk, Uncommitted
  <2> QED
    BY <2>1, <2>2
<1>6. \A p \in Request : Naming(p)'
  <2>1. \A id \in FileID : Cancelled(id)' => Cancelled(id)
    BY DEF Cancelled
  <2> QED
    BY <1>2, <1>3, <2>1, NamingKept
<1>7. \A d \in Dir : Active(d)' \subseteq Active(d)
  BY DEF Active
<1>8. \A p \in Request : Counted(p)'
  BY <1>2, <1>3, <1>7, CountedKept
<1>9. AckedChunkKept'
  BY DEF IInv, AckedChunkKept, HasMeta
<1> QED
  BY <1>1, <1>4, <1>5, <1>6, <1>7, <1>8, <1>9, LimitKept DEF IInv

LEMMA NoReqTyped == NoReq \in ReqState
BY UploadAssumption DEF NoReq, ReqState, Index

LEMMA ArriveStep ==
  ASSUME IInv, NEW r \in Request, Arrive(r)
  PROVE  IInv'
<1>1. ASSUME BeginChunk(r)
      PROVE  IInv'
  <2>1. PICK id \in FileID, m \in Meta, x \in Data :
          \E i \in 0..m.total - 1 :
            Begin(r, [NoReq EXCEPT !.op = "chunk", !.id = id, !.meta = m,
                                   !.idx = i, !.data = x, !.dir = uploadDir])
    BY <1>1 DEF BeginChunk
  <2>2. PICK i \in 0..m.total - 1 :
          Begin(r, [NoReq EXCEPT !.op = "chunk", !.id = id, !.meta = m,
                                 !.idx = i, !.data = x, !.dir = uploadDir])
    BY <2>1
  <2>3. PICK input : input = [NoReq EXCEPT !.op = "chunk", !.id = id, !.meta = m,
                                           !.idx = i, !.data = x, !.dir = uploadDir]
    OBVIOUS
  <2>4. i \in Index
    BY UploadAssumption DEF Index
  <2>5. input \in ReqState
    BY <2>3, <2>4, NoReqTyped DEF ReqState, IInv, TypeOK
  <2>6. /\ input.id \in FileID /\ input.dir \in Dir /\ input.op # "none"
        /\ Shape("lock", input)
    BY <2>3, <2>5, NoReqTyped
       DEF NoReq, IInv, TypeOK, Shape, ChunkPlaces, MergePlaces
  <2> QED
    BY <2>2, <2>3, <2>5, <2>6, BeginStep
<1>2. ASSUME BeginComplete(r)
      PROVE  IInv'
  <2>1. PICK id \in FileID, m \in Meta :
          Begin(r, [NoReq EXCEPT !.op = "complete", !.id = id, !.meta = m, !.dir = uploadDir])
    BY <1>2 DEF BeginComplete
  <2>2. PICK input : input = [NoReq EXCEPT !.op = "complete", !.id = id, !.meta = m,
                                           !.dir = uploadDir]
    OBVIOUS
  <2>3. input \in ReqState
    BY <2>2, NoReqTyped DEF ReqState, IInv, TypeOK
  <2>4. /\ input.id \in FileID /\ input.dir \in Dir /\ input.op # "none"
        /\ Shape("lock", input)
    BY <2>2, <2>3, NoReqTyped
       DEF NoReq, IInv, TypeOK, Shape, ChunkPlaces, MergePlaces
  <2> QED
    BY <2>1, <2>2, <2>3, <2>4, BeginStep
<1>3. ASSUME BeginCancel(r)
      PROVE  IInv'
  <2>1. PICK id \in FileID :
          Begin(r, [NoReq EXCEPT !.op = "cancel", !.id = id, !.dir = uploadDir])
    BY <1>3 DEF BeginCancel
  <2>2. PICK input : input = [NoReq EXCEPT !.op = "cancel", !.id = id, !.dir = uploadDir]
    OBVIOUS
  <2>3. input \in ReqState
    BY <2>2, NoReqTyped DEF ReqState, IInv, TypeOK
  <2>4. /\ input.id \in FileID /\ input.dir \in Dir /\ input.op # "none"
        /\ Shape("lock", input)
    BY <2>2, <2>3, NoReqTyped
       DEF NoReq, IInv, TypeOK, Shape, ChunkPlaces, MergePlaces
  <2> QED
    BY <2>1, <2>2, <2>3, <2>4, BeginStep
<1> QED
  BY <1>1, <1>2, <1>3 DEF Arrive

LEMMA SweeperStep ==
  ASSUME IInv, NEW r \in Request, Sweeper(r)
  PROVE  IInv'
<1>1. PICK d \in Dir, id \in FileID :
        Begin(r, [NoReq EXCEPT !.op = "sweep", !.id = id, !.dir = d])
  BY DEF Sweeper, BeginSweep
<1>2. PICK input : input = [NoReq EXCEPT !.op = "sweep", !.id = id, !.dir = d]
  OBVIOUS
<1>3. input \in ReqState
  BY <1>2, NoReqTyped DEF ReqState
<1>4. /\ input.id \in FileID /\ input.dir \in Dir /\ input.op # "none"
      /\ Shape("lock", input)
  BY <1>2, <1>3, NoReqTyped DEF NoReq, Shape, ChunkPlaces, MergePlaces
<1> QED
  BY <1>1, <1>2, <1>3, <1>4, BeginStep

-------------------------------------------------------------------------------
(* Without keeps the type and does not lengthen.                           *)
LEMMA WithoutFacts ==
  ASSUME NEW S, NEW seq \in Seq(S), NEW id
  PROVE  /\ Without(seq, id) \in Seq(S)
         /\ Len(Without(seq, id)) <= Len(seq)
         /\ id \in Tombstones(seq) => Len(Without(seq, id)) = Len(seq) - 1
<1>1. CASE id \notin Tombstones(seq)
  BY <1>1 DEF Without
<1>2. CASE id \in Tombstones(seq)
  <2>1. PICK k : k = CHOOSE j \in 1..Len(seq) : seq[j] = id
    OBVIOUS
  <2>2. k \in 1..Len(seq)
    BY <1>2, <2>1 DEF Tombstones
  <2>3. PICK f : f = [j \in 1..Len(seq) - 1 |-> IF j < k THEN seq[j] ELSE seq[j + 1]]
    OBVIOUS
  <2>4. Without(seq, id) = f
    BY <1>2, <2>1, <2>3 DEF Without
  <2>5. Len(seq) - 1 \in Nat
    BY <2>2
  <2>6. f \in [1..Len(seq) - 1 -> S]
    BY <2>2, <2>3
  <2>7. f \in Seq(S) /\ Len(f) = Len(seq) - 1
    BY <2>5, <2>6, SeqDef, LenProperties
  <2> QED
    BY <2>4, <2>7
<1> QED
  BY <1>1, <1>2

LEMMA MarkedFacts ==
  ASSUME TypeOK, NEW id \in FileID
  PROVE  Marked(id) \in Seq(FileID) /\ Len(Marked(id)) <= MaxTombs
<1>1. cancelledUploads \in Seq(FileID) /\ Len(cancelledUploads) <= MaxTombs
  BY DEF TypeOK
<1>2. PICK kept : kept = IF Len(cancelledUploads) < MaxTombs
                         THEN cancelledUploads ELSE Tail(cancelledUploads)
  OBVIOUS
<1>3. kept \in Seq(FileID) /\ Len(kept) < MaxTombs
  <2>1. CASE Len(cancelledUploads) < MaxTombs
    BY <1>1, <1>2, <2>1
  <2>2. CASE ~ Len(cancelledUploads) < MaxTombs
    <3>1. Len(cancelledUploads) \in Nat /\ Len(cancelledUploads) = MaxTombs
      BY <1>1, <2>2, LenProperties, UploadAssumption
    <3>2. cancelledUploads # <<>>
      BY <3>1, UploadAssumption
    <3> QED
      BY <1>1, <1>2, <2>2, <3>1, <3>2, HeadTailProperties, UploadAssumption
  <2> QED
    BY <2>1, <2>2
<1>4. PICK w : w = Without(kept, id)
  OBVIOUS
<1>5. w \in Seq(FileID) /\ Len(w) <= Len(kept) /\ Len(w) \in Nat /\ Len(kept) \in Nat
  BY <1>3, <1>4, WithoutFacts, LenProperties
<1>6. Append(w, id) \in Seq(FileID) /\ Len(Append(w, id)) = Len(w) + 1
  BY <1>5, AppendProperties
<1>7. Marked(id) = Append(w, id)
  BY <1>2, <1>4 DEF Marked
<1> QED
  BY <1>3, <1>5, <1>6, <1>7, UploadAssumption

LEMMA MarkStep ==
  ASSUME IInv, NEW r \in Request, Mark(r)
  PROVE  IInv'
<1> USE DEF Mark, Goto, disk
<1>1. req[r].id \in FileID
  BY DEF IInv, Local, Shape
<1>2. TypeOK'
  <2>1. Marked(req[r].id) \in Seq(FileID) /\ Len(Marked(req[r].id)) <= MaxTombs
    BY <1>1, MarkedFacts DEF IInv
  <2> QED
    BY <2>1 DEF IInv, TypeOK, PC
<1>3. pc'[r] = "lock" /\ req' = req
  BY DEF IInv, TypeOK
<1>4. \A p \in Request \ {r} : SameFor(p)
  BY DEF IInv, TypeOK, SameFor
<1>5. Holding'
  BY <1>3, <1>4 DEF IInv, Holding, Inside, SameFor
<1>6. \A p \in Request : Local(p)'
  <2>1. Local(r)'
    BY <1>3 DEF IInv, Local, Inside, Shape, ChunkPlaces, MergePlaces
  <2>2. ASSUME NEW p \in Request \ {r}
        PROVE  Local(p)'
    <3>1. Local(p) /\ SameFor(p)
      BY <1>4 DEF IInv
    <3> QED
      BY <3>1 DEF Local, SameFor, Inside, Shape, OnDisk, Uncommitted
  <2> QED
    BY <2>1, <2>2
<1>7. \A p \in Request : Naming(p)'
  <2> SUFFICES ASSUME NEW p \in Request, pc'[p] \in {"name", "rename"}
               PROVE  FALSE
    BY DEF Naming
  <2>1. pc[p] \in {"name", "rename"}
    BY <1>3, <1>4 DEF SameFor
  <2> QED
    BY <2>1, UploadAssumption DEF IInv, Naming, UploadMuFree
<1>8. \A d \in Dir : Active(d)' \subseteq Active(d)
  BY DEF Active
<1>9. \A p \in Request : Counted(p)'
  BY <1>3, <1>4, <1>8, CountedKept
<1>10. AckedChunkKept'
  BY DEF IInv, AckedChunkKept, HasMeta
<1> QED
  BY <1>2, <1>5, <1>6, <1>7, <1>8, <1>9, <1>10, LimitKept DEF IInv

LEMMA LockStep ==
  ASSUME IInv, NEW r \in Request, LockUpload(r)
  PROVE  IInv'
<1> USE DEF LockUpload, Goto, disk, server, history
<1>1. req[r].id \in FileID
  BY DEF IInv, Local, Shape
<1>2. TypeOK'
  BY <1>1 DEF IInv, TypeOK, PC
<1>3. pc'[r] = "admit" /\ req' = req
  BY DEF IInv, TypeOK
<1>4. \A p \in Request \ {r} : SameFor(p)
  BY DEF IInv, TypeOK, SameFor
<1>5. Holding'
  <2> SUFFICES ASSUME NEW p \in Request, Inside(p)'
               PROVE  lock'[req[p].id] = p
    BY <1>3 DEF Holding
  <2>1. CASE p = r
    BY <1>1, <2>1 DEF IInv, TypeOK
  <2>2. CASE p # r
    <3>1. Inside(p) /\ lock[req[p].id] = p
      BY <1>4, <2>2 DEF IInv, Holding, Inside, SameFor
    <3>2. req[p].id # req[r].id
      BY <3>1, UploadAssumption
    <3> QED
      BY <3>1, <3>2, <1>1 DEF IInv, TypeOK
  <2> QED
    BY <2>1, <2>2
<1>6. \A p \in Request : Local(p)'
  <2>1. Local(r)'
    BY <1>3 DEF IInv, Local, Inside, Shape, ChunkPlaces, MergePlaces, OnDisk, Uncommitted
  <2>2. ASSUME NEW p \in Request \ {r}
        PROVE  Local(p)'
    <3>1. Local(p) /\ SameFor(p)
      BY <1>4 DEF IInv
    <3> QED
      BY <3>1 DEF Local, SameFor, Inside, Shape, OnDisk, Uncommitted
  <2> QED
    BY <2>1, <2>2
<1>7. \A p \in Request : Naming(p)'
  <2>1. \A id \in FileID : Cancelled(id)' => Cancelled(id)
    BY DEF Cancelled
  <2> QED
    BY <1>3, <1>4, <2>1, NamingKept
<1>8. \A d \in Dir : Active(d)' \subseteq Active(d)
  BY DEF Active
<1>9. \A p \in Request : Counted(p)'
  BY <1>3, <1>4, <1>8, CountedKept
<1>10. AckedChunkKept'
  BY DEF IInv, AckedChunkKept, HasMeta
<1> QED
  BY <1>2, <1>5, <1>6, <1>7, <1>8, <1>9, <1>10, LimitKept DEF IInv

-------------------------------------------------------------------------------
(* What is left to prove of a step that r takes inside, when it neither    *)
(* holds a global mutex afterwards nor touches another file_id.            *)
AckedKeptFor(id) ==
  \A d \in Dir, i \in Index :
    acked[d][id][i] # None => HasMeta(d, id) /\ temp[d][id].chunks[i] = acked[d][id][i]

LEMMA AckedSplit ==
  ASSUME IInv, NEW r \in Request, Inside(r), Apart(r),
         req'[r].id = req[r].id, AckedKeptFor(req[r].id)'
  PROVE  AckedChunkKept'
<1> SUFFICES ASSUME NEW d \in Dir, NEW id \in FileID, NEW i \in Index, acked'[d][id][i] # None
             PROVE  HasMeta(d, id)' /\ temp'[d][id].chunks[i] = acked'[d][id][i]
  BY DEF AckedChunkKept
<1>1. CASE id = req[r].id
  BY <1>1 DEF AckedKeptFor
<1>2. CASE id # req[r].id
  BY <1>2 DEF Apart, IInv, AckedChunkKept, HasMeta, Present
<1> QED
  BY <1>1, <1>2

LEMMA CoreStep ==
  ASSUME IInv, NEW r \in Request, Inside(r),
         \A p \in Request \ {r} : SameFor(p),
         req'[r].id = req[r].id, Inside(r)', UNCHANGED lock,
         Apart(r), TypeOK', Local(r)', AckedKeptFor(req[r].id)',
         \A p \in Request : Naming(p)' /\ Counted(p)',
         ActiveFinite', ActiveLimit'
  PROVE  IInv'
<1>1. Holding'
  BY DEF IInv, Holding, Inside, SameFor
<1>2. OthersOut(r)
  BY Alone
<1>3. \A p \in Request : Local(p)'
  <2>1. ASSUME NEW p \in Request \ {r}
        PROVE  Local(p)'
    BY <1>2, OthersKept
  <2> QED
    BY <2>1
<1>4. AckedChunkKept'
  BY AckedSplit
<1> QED
  BY <1>1, <1>3, <1>4 DEF IInv

LEMMA InsideStep ==
  ASSUME IInv, NEW r \in Request, Inside(r),
         \A p \in Request \ {r} : SameFor(p),
         req'[r].id = req[r].id, Inside(r)', pc'[r] \notin {"mkdir", "meta", "name", "rename"},
         UNCHANGED <<cancelledUploads, lock, files>>,
         \A p \in Request \ {r} : uploadMu = p => uploadMu' = p,
         \A p \in Request \ {r} : uploadStateMu = p => uploadStateMu' = p,
         Apart(r),
         \A d \in Dir : Active(d)' \subseteq Active(d),
         TypeOK', Local(r)', AckedKeptFor(req[r].id)'
  PROVE  IInv'
<1>1. \A p \in Request : Naming(p)'
  <2>1. \A id \in FileID : Cancelled(id)' => Cancelled(id)
    BY DEF Cancelled
  <2> QED
    BY <2>1, NamingKept
<1>2. \A p \in Request : Counted(p)'
  BY CountedKept
<1>3. ActiveFinite' /\ ActiveLimit'
  BY LimitKept
<1> QED
  BY <1>1, <1>2, <1>3, CoreStep

(* The same for a step that also leaves the disk alone                     *)
LEMMA QuietStep ==
  ASSUME IInv, NEW r \in Request, Inside(r),
         \A p \in Request \ {r} : SameFor(p),
         req'[r].id = req[r].id, Inside(r)', pc'[r] \notin {"mkdir", "meta", "name", "rename"},
         UNCHANGED <<cancelledUploads, uploadMu, uploadStateMu, lock, files, temp, acked>>,
         TypeOK', Local(r)'
  PROVE  IInv'
<1>1. Apart(r) /\ \A d \in Dir : Active(d)' \subseteq Active(d)
  BY DEF Apart, Active
<1>2. req[r].id \in FileID
  BY DEF IInv, Local, Shape, Inside
<1>3. AckedKeptFor(req[r].id)'
  BY <1>2 DEF IInv, AckedChunkKept, AckedKeptFor, HasMeta
<1> QED
  BY <1>1, <1>3, InsideStep

(* The directory of r's upload becomes t; nothing acknowledged is lost.    *)
LEMMA PutKept ==
  ASSUME IInv, NEW d \in Dir, NEW id \in FileID, NEW t \in TempState \union {None},
         Put(d, id, t), UNCHANGED acked,
         \A i \in Index : acked[d][id][i] # None =>
           Present(t) /\ t.chunks[i] = acked[d][id][i]
  PROVE  AckedKeptFor(id)'
<1> SUFFICES ASSUME NEW e \in Dir, NEW i \in Index, acked[e][id][i] # None
             PROVE  Present(temp'[e][id]) /\ temp'[e][id].chunks[i] = acked[e][id][i]
  BY DEF AckedKeptFor, HasMeta
<1>1. temp'[d][id] = t /\ (e # d => temp'[e][id] = temp[e][id])
  BY PutFacts DEF IInv
<1> QED
  BY <1>1 DEF IInv, AckedChunkKept, HasMeta

LEMMA DiskStep ==
  ASSUME IInv, NEW r \in Request, Inside(r),
         req[r].dir \in Dir, req[r].id \in FileID,
         NEW t \in TempState \union {None}, Put(req[r].dir, req[r].id, t),
         t # None => temp[req[r].dir][req[r].id] # None,
         \A i \in Index : acked[req[r].dir][req[r].id][i] # None =>
           Present(t) /\ t.chunks[i] = acked[req[r].dir][req[r].id][i],
         \A p \in Request \ {r} : SameFor(p),
         req'[r].id = req[r].id, req'[r].dir = req[r].dir,
         Inside(r)', pc'[r] \notin {"mkdir", "meta", "name", "rename"},
         UNCHANGED <<cancelledUploads, lock, files, acked>>,
         \A p \in Request \ {r} : uploadMu = p => uploadMu' = p,
         \A p \in Request \ {r} : uploadStateMu = p => uploadStateMu' = p,
         TypeOK', Shape(pc'[r], req'[r]), OnDisk(pc'[r], req'[r], t),
         Uncommitted(pc'[r], req'[r], acked[req[r].dir][req[r].id])
  PROVE  IInv'
<1>1. AckedKeptFor(req[r].id)'
  <2>1. PICK id \in FileID : id = req[r].id
    OBVIOUS
  <2>2. AckedKeptFor(id)'
    BY <2>1, PutKept
  <2> QED
    BY <2>1, <2>2 DEF AckedKeptFor
<1>2. Apart(r)
  BY PutFacts DEF IInv, Apart
<1>3. \A d \in Dir : Active(d)' \subseteq Active(d)
  BY PutFacts DEF IInv
<1>4. Local(r)'
  <2>1. temp'[req[r].dir][req[r].id] = t
    BY PutFacts DEF IInv
  <2> QED
    BY <2>1 DEF Local
<1> QED
  BY <1>1, <1>2, <1>3, <1>4, InsideStep

(* The facts about r's own upload that every step inside starts from       *)
LEMMA Own ==
  ASSUME IInv, NEW r \in Request, pc[r] # "idle"
  PROVE  /\ req[r] \in ReqState
         /\ req[r].id \in FileID /\ req[r].dir \in Dir
         /\ temp[req[r].dir][req[r].id] \in TempState \union {None}
         /\ UploadDirectoryFor(req[r].id, req[r].dir) \in Dir
         /\ Shape(pc[r], req[r])
         /\ Inside(r) => OnDisk(pc[r], req[r], temp[req[r].dir][req[r].id])
         /\ Inside(r) => Uncommitted(pc[r], req[r], acked[req[r].dir][req[r].id])
BY DEF IInv, TypeOK, Local, Shape, UploadDirectoryFor

-------------------------------------------------------------------------------
(* The chunk handler *)

LEMMA ReqOthers ==
  ASSUME TypeOK, NEW r \in Request, NEW q \in ReqState, NEW s \in PC,
         pc' = [pc EXCEPT ![r] = s], req' = [req EXCEPT ![r] = q]
  PROVE  /\ pc' \in [Request -> PC] /\ req' \in [Request -> ReqState]
         /\ pc'[r] = s /\ req'[r] = q
         /\ \A p \in Request \ {r} : SameFor(p)
BY DEF TypeOK, SameFor

LEMMA AdmitChunkStep ==
  ASSUME IInv, NEW r \in Request, AdmitChunk(r)
  PROVE  IInv'
<1>1. pc[r] = "admit" /\ req[r].op = "chunk" /\ Inside(r)
  BY DEF AdmitChunk, Inside
<1>2. PICK d : d = UploadDirectoryFor(req[r].id, req[r].dir)
  OBVIOUS
<1>3. /\ req[r] \in ReqState /\ req[r].id \in FileID /\ req[r].dir \in Dir /\ d \in Dir
      /\ Shape(pc[r], req[r])
  BY <1>1, <1>2, Own
<1>4. PICK t : t = temp[d][req[r].id]
  OBVIOUS
<1>5. t \in TempState \union {None}
  BY <1>3, <1>4 DEF IInv, TypeOK
<1>6. PICK s \in PC, q \in ReqState :
        /\ pc' = [pc EXCEPT ![r] = s] /\ req' = [req EXCEPT ![r] = q]
        /\ q.id = req[r].id /\ q.dir \in Dir /\ q.op = "chunk"
        /\ q.meta = req[r].meta /\ q.data = req[r].data /\ q.idx = req[r].idx
        /\ \/ s = "reply" /\ q.reply # "ok"
           \/ /\ s = "reserve" /\ q.dir = d
              /\ ~ q.fresh => Present(t) /\ t.meta = q.meta
              /\ q.fresh => ~ Present(t)
  <2>1. CASE TurnedAway(r)
    <3>1. pc' = [pc EXCEPT ![r] = "reply"]
          /\ req' = [req EXCEPT ![r] = [req[r] EXCEPT !.reply = "cancelled"]]
      BY <2>1 DEF AdmitChunk, Finish, Goto, IInv, TypeOK
    <3>2. PICK q : q = [req[r] EXCEPT !.reply = "cancelled"]
      OBVIOUS
    <3>3. q \in ReqState /\ q.reply = "cancelled"
          /\ q.id = req[r].id /\ q.dir = req[r].dir /\ q.op = "chunk"
          /\ q.meta = req[r].meta /\ q.data = req[r].data /\ q.idx = req[r].idx
      BY <1>1, <1>3, <3>2 DEF ReqState
    <3> QED
      BY <1>3, <3>1, <3>2, <3>3 DEF PC
  <2>2. CASE /\ req' = [req EXCEPT ![r].dir = d, ![r].reply = "conflict"]
             /\ Goto(r, "reply")
    <3>1. pc' = [pc EXCEPT ![r] = "reply"]
          /\ req' = [req EXCEPT ![r] = [req[r] EXCEPT !.dir = d, !.reply = "conflict"]]
      BY <2>2 DEF Goto, IInv, TypeOK
    <3>2. PICK q : q = [req[r] EXCEPT !.dir = d, !.reply = "conflict"]
      OBVIOUS
    <3>3. q \in ReqState /\ q.reply = "conflict"
          /\ q.id = req[r].id /\ q.dir = d /\ q.op = "chunk"
          /\ q.meta = req[r].meta /\ q.data = req[r].data /\ q.idx = req[r].idx
      BY <1>1, <1>3, <3>2 DEF ReqState
    <3> QED
      BY <1>3, <3>1, <3>2, <3>3 DEF PC
  <2>3. CASE /\ ~ Conflicting(d, req[r])
             /\ req' = [req EXCEPT ![r].dir = d, ![r].fresh = ~ HasMeta(d, req[r].id)]
             /\ Goto(r, "reserve")
    <3>1. PICK b \in BOOLEAN : b = ~ HasMeta(d, req[r].id)
      BY DEF HasMeta, Present
    <3>2. pc' = [pc EXCEPT ![r] = "reserve"]
          /\ req' = [req EXCEPT ![r] = [req[r] EXCEPT !.dir = d, !.fresh = b]]
      BY <2>3, <3>1 DEF Goto, IInv, TypeOK
    <3>3. PICK q : q = [req[r] EXCEPT !.dir = d, !.fresh = b]
      OBVIOUS
    <3>4. q \in ReqState /\ q.fresh = b
          /\ q.id = req[r].id /\ q.dir = d /\ q.op = "chunk"
          /\ q.meta = req[r].meta /\ q.data = req[r].data /\ q.idx = req[r].idx
      BY <1>1, <1>3, <3>3 DEF ReqState
    <3>5. /\ ~ q.fresh => Present(t) /\ t.meta = q.meta
          /\ q.fresh => ~ Present(t)
      BY <1>4, <2>3, <3>1, <3>4 DEF HasMeta, Conflicting
    <3>6. "reserve" \in PC
      BY DEF PC
    <3> QED
      BY <1>3, <3>2, <3>3, <3>4, <3>5, <3>6
  <2> QED
    BY <1>2, <2>1, <2>2, <2>3 DEF AdmitChunk
<1>7. /\ pc' \in [Request -> PC] /\ req' \in [Request -> ReqState]
      /\ pc'[r] = s /\ req'[r] = q /\ \A p \in Request \ {r} : SameFor(p)
  BY <1>6, ReqOthers DEF IInv
<1>8. TypeOK'
  <2>1. uploadDirectories' \in [FileID -> Dir \union {None}]
    BY <1>2, <1>3 DEF AdmitChunk, IInv, TypeOK
  <2> QED
    BY <1>7, <2>1 DEF AdmitChunk, IInv, TypeOK, disk, history
<1>9. Inside(r)' /\ pc'[r] \in {"reply", "reserve"}
  BY <1>6, <1>7 DEF Inside
<1>10. Local(r)'
  <2>1. Shape(s, q)
    BY <1>1, <1>3, <1>6 DEF Shape, ChunkPlaces, MergePlaces
  <2>2. OnDisk(s, q, temp[q.dir][q.id])
    BY <1>4, <1>6 DEF OnDisk, MergePlaces
  <2>3. Uncommitted(s, q, acked[q.dir][q.id])
    <3> SUFFICES ASSUME s = "reserve", q.fresh
                 PROVE  acked[q.dir][q.id] = NoChunks
      BY <1>6 DEF Uncommitted, ChunkPlaces
    <3>1. ~ HasMeta(d, req[r].id)
      BY <1>4, <1>6 DEF HasMeta
    <3>2. acked[d][req[r].id] \in [Index -> Data \union {None}]
      BY <1>3 DEF IInv, TypeOK
    <3>3. \A i \in Index : acked[d][req[r].id][i] = None
      BY <1>3, <3>1 DEF IInv, AckedChunkKept
    <3> QED
      BY <1>6, <3>2, <3>3 DEF NoChunks
  <2>4. UNCHANGED <<temp, acked>>
    BY DEF AdmitChunk, disk, history
  <2> QED
    BY <1>7, <2>1, <2>2, <2>3, <2>4 DEF Local
<1> QED
  BY <1>1, <1>6, <1>7, <1>8, <1>9, <1>10, QuietStep DEF AdmitChunk, disk, history

(* Only the answer, and perhaps the merge index, of q differs from o. *)
SameInputs(q, o) ==
  /\ q.id = o.id /\ q.dir = o.dir /\ q.op = o.op /\ q.meta = o.meta
  /\ q.data = o.data /\ q.idx = o.idx /\ q.fresh = o.fresh /\ q.made = o.made

Answers == {"none", "ok", "cancelled", "conflict", "nospace", "toomany",
            "error", "notfound", "missing"}

LEMMA AnswerFacts ==
  ASSUME TypeOK, NEW r \in Request, NEW a \in Answers
  PROVE  \E q \in ReqState : /\ [req EXCEPT ![r].reply = a] = [req EXCEPT ![r] = q]
                             /\ SameInputs(q, req[r]) /\ q.reply = a /\ q.next = req[r].next
<1>1. PICK q : q = [req[r] EXCEPT !.reply = a]
  OBVIOUS
<1>2. q \in ReqState /\ SameInputs(q, req[r]) /\ q.reply = a /\ q.next = req[r].next
  <2>1. req[r] \in ReqState
    BY DEF TypeOK
  <2>2. q \in ReqState
    BY <1>1, <2>1 DEF ReqState, Answers
  <2>3. SameInputs(q, req[r]) /\ q.reply = a /\ q.next = req[r].next
    BY <1>1, <2>1 DEF ReqState, SameInputs
  <2> QED
    BY <2>2, <2>3
<1>3. [req EXCEPT ![r].reply = a] = [req EXCEPT ![r] = q]
  BY <1>1 DEF TypeOK
<1> QED
  BY <1>2, <1>3

LEMMA RollbackFacts ==
  ASSUME TypeOK, NEW r \in Request, NEW a \in Answers, Rollback(r, a)
  PROVE  /\ pc' \in [Request -> PC] /\ req' \in [Request -> ReqState]
         /\ \A p \in Request \ {r} : SameFor(p)
         /\ SameInputs(req'[r], req[r]) /\ req'[r].reply = a
         /\ pc'[r] = RollbackFrom(r) /\ pc'[r] \in {"reply", "undo", "forget"}
<1>1. PICK q \in ReqState : /\ [req EXCEPT ![r].reply = a] = [req EXCEPT ![r] = q]
                            /\ SameInputs(q, req[r]) /\ q.reply = a
  BY AnswerFacts
<1>2. RollbackFrom(r) \in {"reply", "undo", "forget"} /\ RollbackFrom(r) \in PC
  BY DEF RollbackFrom, PC
<1>3. /\ pc' = [pc EXCEPT ![r] = RollbackFrom(r)] /\ req' = [req EXCEPT ![r] = q]
  BY <1>1 DEF Rollback, Goto
<1> QED
  BY <1>1, <1>2, <1>3, ReqOthers

LEMMA FinishFacts ==
  ASSUME TypeOK, NEW r \in Request, NEW a \in Answers, Finish(r, a)
  PROVE  /\ pc' \in [Request -> PC] /\ req' \in [Request -> ReqState]
         /\ \A p \in Request \ {r} : SameFor(p)
         /\ SameInputs(req'[r], req[r]) /\ req'[r].reply = a
         /\ pc'[r] = "reply"
<1>1. PICK q \in ReqState : /\ [req EXCEPT ![r].reply = a] = [req EXCEPT ![r] = q]
                            /\ SameInputs(q, req[r]) /\ q.reply = a
  BY AnswerFacts
<1>2. "reply" \in PC
  BY DEF PC
<1>3. /\ pc' = [pc EXCEPT ![r] = "reply"] /\ req' = [req EXCEPT ![r] = q]
  BY <1>1 DEF Finish, Goto
<1> QED
  BY <1>1, <1>2, <1>3, ReqOthers

LEMMA GotoFacts ==
  ASSUME TypeOK, NEW r \in Request, NEW s \in PC, Goto(r, s), UNCHANGED req
  PROVE  /\ pc' \in [Request -> PC] /\ req' \in [Request -> ReqState]
         /\ \A p \in Request \ {r} : SameFor(p)
         /\ SameInputs(req'[r], req[r]) /\ req'[r] = req[r]
         /\ pc'[r] = s
BY DEF TypeOK, Goto, SameFor, SameInputs

(* The shape of a request depends on its place and its inputs only. *)
LEMMA ShapeKept ==
  ASSUME NEW p, NEW q, NEW o, NEW s,
         Shape(p, o), p # "idle", SameInputs(q, o),
         s \in ChunkPlaces => o.op = "chunk",
         s \in MergePlaces \union {"clean"} => o.op = "complete"
  PROVE  Shape(s, q)
BY DEF Shape, SameInputs

LEMMA ReserveStep ==
  ASSUME IInv, NEW r \in Request, ReserveChunk(r)
  PROVE  IInv'
<1>1. pc[r] = "reserve" /\ Inside(r)
  BY DEF ReserveChunk, Inside
<1>2. /\ Shape(pc[r], req[r])
      /\ OnDisk(pc[r], req[r], temp[req[r].dir][req[r].id])
      /\ Uncommitted(pc[r], req[r], acked[req[r].dir][req[r].id])
      /\ req[r].op = "chunk"
  BY <1>1, Own DEF Shape, ChunkPlaces
<1>3. /\ pc' \in [Request -> PC] /\ req' \in [Request -> ReqState]
      /\ \A p \in Request \ {r} : SameFor(p)
      /\ SameInputs(req'[r], req[r])
      /\ \/ pc'[r] = "count" /\ req[r].fresh
         \/ pc'[r] = "store" /\ ~ req[r].fresh
         \/ pc'[r] = "reply" /\ req'[r].reply = "nospace"
         \/ pc'[r] \in {"undo", "forget"} /\ req[r].fresh /\ req'[r].reply = "nospace"
  <2>1. CASE Goto(r, IF req[r].fresh THEN "count" ELSE "store") /\ UNCHANGED req
    <3>1. (IF req[r].fresh THEN "count" ELSE "store") \in PC
      BY DEF PC
    <3> QED
      BY <2>1, <3>1, GotoFacts DEF IInv
  <2>2. CASE Rollback(r, "nospace")
    BY <2>2, RollbackFacts DEF IInv, Answers, RollbackFrom
  <2> QED
    BY <2>1, <2>2 DEF ReserveChunk
<1>4. TypeOK'
  BY <1>3 DEF ReserveChunk, IInv, TypeOK, server, disk, history
<1>5. Local(r)'
  <2>1. Shape(pc'[r], req'[r])
    BY <1>1, <1>2, <1>3, ShapeKept DEF ChunkPlaces, MergePlaces
  <2>2. OnDisk(pc'[r], req'[r], temp[req[r].dir][req[r].id])
    BY <1>1, <1>2, <1>3 DEF OnDisk, MergePlaces, SameInputs
  <2>3. Uncommitted(pc'[r], req'[r], acked[req[r].dir][req[r].id])
    BY <1>1, <1>2, <1>3 DEF Uncommitted, ChunkPlaces, SameInputs
  <2>4. UNCHANGED <<temp, acked>> /\ req'[r].dir = req[r].dir /\ req'[r].id = req[r].id
    BY <1>3 DEF ReserveChunk, disk, history, SameInputs
  <2> QED
    BY <2>1, <2>2, <2>3, <2>4 DEF Local
<1>6. Inside(r)' /\ pc'[r] \notin {"mkdir", "meta", "name", "rename"} /\ req'[r].id = req[r].id
  BY <1>3 DEF Inside, SameInputs
<1> QED
  BY <1>1, <1>3, <1>4, <1>5, <1>6, QuietStep DEF ReserveChunk, server, disk, history

(* What an interrupted removal leaves is still a directory state. *)
LEMMA LeftoverTyped ==
  ASSUME TypeOK, NEW d \in Dir, NEW id \in FileID, NEW t \in Leftovers(d, id)
  PROVE  t \in TempState /\ temp[d][id] # None
<1>1. temp[d][id] # None /\ t \in Remnants(temp[d][id])
  BY DEF Leftovers
<1>2. PICK o \in TempState : o = temp[d][id]
  BY <1>1 DEF TypeOK
<1>3. CASE t = o
  BY <1>1, <1>2, <1>3
<1>4. ASSUME NEW m \in {o.meta, None}, NEW keep \in SUBSET Index, NEW p \in {o.part, None},
             t = [meta |-> m,
                  chunks |-> [i \in Index |-> IF i \in keep THEN o.chunks[i] ELSE None],
                  part |-> p, old |-> FALSE]
      PROVE  t \in TempState
  <2>1. [i \in Index |-> IF i \in keep THEN o.chunks[i] ELSE None]
          \in [Index -> Data \union {None}]
    BY <1>2 DEF TempState
  <2> QED
    BY <1>2, <1>4, <2>1 DEF TempState
<1> QED
  BY <1>1, <1>2, <1>3, <1>4 DEF Remnants

LEMMA EmptyTyped == EmptyTemp \in TempState /\ NoChunks \in [Index -> Data \union {None}]
BY DEF EmptyTemp, NoChunks, TempState

LEMMA CountStep ==
  ASSUME IInv, NEW r \in Request, CountActive(r)
  PROVE  IInv'
<1>1. pc[r] = "count" /\ Inside(r) /\ UploadStateMuFree
  BY DEF CountActive, Inside
<1>2. /\ Shape(pc[r], req[r]) /\ req[r].fresh /\ req[r].op = "chunk"
      /\ Uncommitted(pc[r], req[r], acked[req[r].dir][req[r].id])
      /\ req[r].dir \in Dir /\ req[r].id \in FileID
  BY <1>1, Own DEF Shape, ChunkPlaces, OnDisk
<1>3. CASE (Rollback(r, "toomany") \/ Rollback(r, "error")) /\ UNCHANGED uploadStateMu
  <2>1. /\ pc' \in [Request -> PC] /\ req' \in [Request -> ReqState]
        /\ \A p \in Request \ {r} : SameFor(p)
        /\ SameInputs(req'[r], req[r]) /\ req'[r].reply \in {"toomany", "error"}
        /\ pc'[r] \in {"reply", "undo", "forget"}
    BY <1>3, RollbackFacts DEF IInv, Answers
  <2>2. TypeOK'
    BY <1>3, <2>1 DEF CountActive, IInv, TypeOK, disk, history
  <2>3. Shape(pc'[r], req'[r])
    BY <1>1, <1>2, <2>1, ShapeKept DEF ChunkPlaces, MergePlaces
  <2>4. OnDisk(pc'[r], req'[r], temp[req[r].dir][req[r].id])
    BY <1>2, <2>1 DEF OnDisk, MergePlaces, SameInputs
  <2>5. Uncommitted(pc'[r], req'[r], acked[req[r].dir][req[r].id])
    BY <1>1, <1>2, <2>1 DEF Uncommitted, ChunkPlaces, SameInputs
  <2>6. Local(r)'
    BY <2>1, <2>3, <2>4, <2>5 DEF Local, CountActive, disk, history, SameInputs
  <2>7. Inside(r)' /\ pc'[r] \notin {"mkdir", "meta", "name", "rename"} /\ req'[r].id = req[r].id
    BY <2>1 DEF Inside, SameInputs
  <2> QED
    BY <1>1, <1>3, <2>1, <2>2, <2>6, <2>7, QuietStep DEF CountActive, disk, history
<1>4. CASE /\ ~ (Cardinality(ActiveOthers(req[r].dir, req[r].id)) >= MaxActive)
           /\ uploadStateMu' = r /\ Goto(r, "mkdir") /\ UNCHANGED req
  <2> USE DEF disk, history
  <2>1. "mkdir" \in PC
    BY DEF PC
  <2>2. /\ pc' \in [Request -> PC] /\ req' \in [Request -> ReqState]
        /\ \A p \in Request \ {r} : SameFor(p)
        /\ req'[r] = req[r] /\ pc'[r] = "mkdir"
    BY <1>4, <2>1, GotoFacts DEF IInv
  <2>3. TypeOK'
    BY <1>4, <2>2 DEF CountActive, IInv, TypeOK
  <2>4. Local(r)'
    <3>1. Shape("mkdir", req[r])
      BY <1>1, <1>2 DEF Shape, ChunkPlaces, MergePlaces
    <3>2. OnDisk("mkdir", req[r], temp[req[r].dir][req[r].id])
      BY <1>2 DEF OnDisk, MergePlaces
    <3>3. Uncommitted("mkdir", req[r], acked[req[r].dir][req[r].id])
      BY <1>1, <1>2 DEF Uncommitted, ChunkPlaces
    <3> QED
      BY <2>2, <3>1, <3>2, <3>3 DEF Local, CountActive
  <2>5. \A p \in Request : Naming(p)'
    <3>1. \A id \in FileID : Cancelled(id)' => Cancelled(id)
      BY DEF CountActive, Cancelled
    <3> QED
      BY <2>2, <3>1, NamingKept DEF CountActive
  <2>6. \A p \in Request : Counted(p)'
    <3>1. ASSUME NEW p \in Request \ {r}
          PROVE  Counted(p)'
      <4>1. pc[p] \notin {"mkdir", "meta"}
        BY <1>1, UploadAssumption DEF IInv, Counted, UploadStateMuFree
      <4> QED
        BY <2>2, <4>1 DEF Counted, SameFor
    <3>2. Counted(r)'
      <4>1. PICK S : S = ActiveOthers(req[r].dir, req[r].id)
        OBVIOUS
      <4>2. IsFiniteSet(Active(req[r].dir)) /\ S \subseteq Active(req[r].dir)
        BY <1>2, <4>1 DEF IInv, ActiveFinite, ActiveOthers, Active
      <4>3. Cardinality(S) \in Nat
        BY <4>2, FS_Subset, FS_CardinalityType
      <4>4. Cardinality(S) < MaxActive
        BY <1>4, <4>1, <4>3, UploadAssumption
      <4>5. S = ActiveOthers(req[r].dir, req[r].id)'
        BY <2>2, <4>1 DEF ActiveOthers, CountActive
      <4> QED
        BY <1>4, <2>2, <4>4, <4>5 DEF Counted
    <3> QED
      BY <3>1, <3>2
  <2>7. \A d \in Dir : Active(d)' \subseteq Active(d)
    BY DEF Active, CountActive
  <2>8. Apart(r) /\ AckedKeptFor(req[r].id)' /\ Inside(r)'
    BY <1>2, <2>2 DEF Apart, CountActive, IInv, AckedChunkKept, AckedKeptFor, HasMeta, Inside
  <2>9. ActiveFinite' /\ ActiveLimit'
    BY <2>7, LimitKept
  <2> QED
    BY <1>1, <2>2, <2>3, <2>4, <2>5, <2>6, <2>8, <2>9, CoreStep DEF CountActive
<1> QED
  BY <1>3, <1>4 DEF CountActive

LEMMA MakeTempStep ==
  ASSUME IInv, NEW r \in Request, MakeTemp(r)
  PROVE  IInv'
<1>1. pc[r] = "mkdir" /\ Inside(r)
  BY DEF MakeTemp, Inside
<1>2. /\ Shape(pc[r], req[r]) /\ req[r].fresh /\ req[r].op = "chunk"
      /\ Uncommitted(pc[r], req[r], acked[req[r].dir][req[r].id])
      /\ req[r].dir \in Dir /\ req[r].id \in FileID /\ req[r] \in ReqState
  BY <1>1, Own DEF Shape, ChunkPlaces, OnDisk
<1>3. uploadStateMu = r /\ \A p \in Request \ {r} : pc[p] \notin {"mkdir", "meta"}
  BY <1>1 DEF IInv, Counted
<1>4. acked[req[r].dir][req[r].id] = NoChunks
  BY <1>1, <1>2 DEF Uncommitted, ChunkPlaces
<1>5. CASE /\ Put(req[r].dir, req[r].id, EmptyTemp)
           /\ req' = [req EXCEPT ![r].made = TRUE] /\ Goto(r, "meta")
           /\ UNCHANGED uploadStateMu
  <2>1. PICK q : q = [req[r] EXCEPT !.made = TRUE]
    OBVIOUS
  <2>2. /\ q \in ReqState /\ q.id = req[r].id /\ q.dir = req[r].dir /\ q.op = "chunk"
        /\ q.meta = req[r].meta /\ q.data = req[r].data /\ q.idx = req[r].idx /\ q.fresh /\ q.made
    BY <1>2, <2>1 DEF ReqState
  <2>3. req' = [req EXCEPT ![r] = q] /\ pc' = [pc EXCEPT ![r] = "meta"]
    BY <1>5, <2>1 DEF Goto, IInv, TypeOK
  <2>4. "meta" \in PC
    BY DEF PC
  <2>5. /\ pc' \in [Request -> PC] /\ req' \in [Request -> ReqState]
        /\ \A p \in Request \ {r} : SameFor(p)
        /\ req'[r] = q /\ pc'[r] = "meta"
    BY <2>2, <2>3, <2>4, ReqOthers DEF IInv
  <2>6. /\ temp' \in [Dir -> [FileID -> TempState \union {None}]]
        /\ temp'[req[r].dir][req[r].id] = EmptyTemp
        /\ \A e \in Dir, x \in FileID :
             e # req[r].dir \/ x # req[r].id => temp'[e][x] = temp[e][x]
    BY <1>2, <1>5, EmptyTyped, PutFacts DEF IInv
  <2>7. TypeOK'
    BY <1>5, <2>5, <2>6 DEF MakeTemp, IInv, TypeOK, history
  <2>8. Local(r)'
    <3>1. Shape("meta", q)
      BY <1>2, <2>2 DEF Shape, ChunkPlaces, MergePlaces
    <3>2. OnDisk("meta", q, EmptyTemp)
      BY <2>2, EmptyTyped, UploadAssumption DEF OnDisk, MergePlaces, EmptyTemp
    <3>3. Uncommitted("meta", q, acked[req[r].dir][req[r].id])
      BY <1>4 DEF Uncommitted
    <3>4. UNCHANGED acked
      BY DEF MakeTemp, history
    <3> QED
      BY <2>2, <2>5, <2>6, <3>1, <3>2, <3>3, <3>4 DEF Local
  <2>9. \A p \in Request : Naming(p)'
    <3>1. \A id \in FileID : Cancelled(id)' => Cancelled(id)
      BY DEF MakeTemp, Cancelled
    <3> QED
      BY <2>5, <3>1, NamingKept DEF MakeTemp
  <2>10. \A p \in Request : Counted(p)'
    BY <1>3, <1>5, <2>5 DEF Counted, SameFor
  <2>11. Apart(r) /\ Inside(r)'
    BY <2>5, <2>6 DEF Apart, Inside, MakeTemp, history
  <2>12. AckedKeptFor(req[r].id)'
    <3>1. PICK id \in FileID : id = req[r].id
      BY <1>2
    <3>2. \A i \in Index : acked[req[r].dir][id][i] = None
      BY <1>4, <3>1 DEF NoChunks
    <3>3. AckedKeptFor(id)'
      BY <1>2, <1>5, <3>1, <3>2, EmptyTyped, PutKept DEF MakeTemp, history
    <3> QED
      BY <2>2, <2>5, <3>1, <3>3 DEF AckedKeptFor
  <2>13. ActiveFinite' /\ ActiveLimit'
    <3> SUFFICES ASSUME NEW d \in Dir
                 PROVE  IsFiniteSet(Active(d)') /\ Cardinality(Active(d)') <= MaxActive
      BY DEF ActiveFinite, ActiveLimit, Active
    <3>1. IsFiniteSet(Active(d)) /\ Cardinality(Active(d)) <= MaxActive
      BY DEF IInv, ActiveFinite, ActiveLimit, Active
    <3>2. CASE d # req[r].dir
      <4>1. Active(d)' = Active(d)
        BY <2>6, <3>2 DEF Active
      <4> QED
        BY <3>1, <4>1
    <3>3. CASE d = req[r].dir
      <4>1. PICK S : S = ActiveOthers(d, req[r].id)
        OBVIOUS
      <4>2. S \subseteq Active(d) /\ Active(d)' \subseteq S \union {req[r].id}
        BY <2>6, <3>3, <4>1 DEF Active, ActiveOthers
      <4>3. IsFiniteSet(S) /\ Cardinality(S) < MaxActive
        BY <1>1, <3>1, <3>3, <4>1, <4>2, FS_Subset DEF IInv, Counted
      <4>4. PICK T : T = S \union {req[r].id}
        OBVIOUS
      <4>5. /\ IsFiniteSet(T) /\ Cardinality(T) \in Nat /\ Cardinality(S) \in Nat
            /\ Cardinality(T) <= Cardinality(S) + 1
        <5>1. Cardinality(S) \in Nat
          BY <4>3, FS_CardinalityType
        <5>2. /\ IsFiniteSet(T)
              /\ Cardinality(T) = Cardinality(S) \/ Cardinality(T) = Cardinality(S) + 1
          BY <4>3, <4>4, FS_AddElement
        <5> QED
          BY <5>1, <5>2
      <4>6. /\ IsFiniteSet(Active(d)') /\ Cardinality(Active(d)') <= Cardinality(T)
            /\ Cardinality(Active(d)') \in Nat
        BY <4>2, <4>4, <4>5, FS_Subset, FS_CardinalityType
      <4> QED
        BY <4>3, <4>5, <4>6, UploadAssumption
    <3> QED
      BY <3>2, <3>3
  <2> QED
    BY <1>1, <2>2, <2>5, <2>7, <2>8, <2>9, <2>10, <2>11, <2>12, <2>13, CoreStep DEF MakeTemp
<1>6. CASE /\ uploadStateMu' = None /\ Rollback(r, "error")
           /\ \E t \in {None} \union Leftovers(req[r].dir, req[r].id) :
                Put(req[r].dir, req[r].id, t)
  <2>1. PICK t \in {None} \union Leftovers(req[r].dir, req[r].id) :
          Put(req[r].dir, req[r].id, t)
    BY <1>6
  <2>2. t \in TempState \union {None} /\ (t # None => temp[req[r].dir][req[r].id] # None)
    BY <1>2, <2>1, LeftoverTyped DEF IInv
  <2>3. /\ pc' \in [Request -> PC] /\ req' \in [Request -> ReqState]
        /\ \A p \in Request \ {r} : SameFor(p)
        /\ SameInputs(req'[r], req[r]) /\ req'[r].reply = "error"
        /\ pc'[r] \in {"reply", "undo", "forget"}
    BY <1>6, RollbackFacts DEF IInv, Answers
  <2>4. TypeOK'
    <3>1. temp' \in [Dir -> [FileID -> TempState \union {None}]]
      BY <1>2, <2>1, <2>2, PutFacts DEF IInv
    <3> QED
      BY <1>6, <2>3, <3>1 DEF MakeTemp, IInv, TypeOK, history
  <2>5. Shape(pc'[r], req'[r])
    BY <1>1, <1>2, <2>3, ShapeKept DEF ChunkPlaces, MergePlaces
  <2>6. OnDisk(pc'[r], req'[r], t)
    BY <1>2, <2>3 DEF OnDisk, MergePlaces, SameInputs
  <2>7. Uncommitted(pc'[r], req'[r], acked[req[r].dir][req[r].id])
    BY <1>4 DEF Uncommitted
  <2>8. Inside(r)' /\ pc'[r] \notin {"mkdir", "meta", "name", "rename"}
        /\ req'[r].id = req[r].id /\ req'[r].dir = req[r].dir
    BY <2>3 DEF Inside, SameInputs
  <2>9. \A i \in Index : acked[req[r].dir][req[r].id][i] = None
    BY <1>4 DEF NoChunks
  <2>10. \A p \in Request \ {r} : uploadStateMu = p => uploadStateMu' = p
    BY <1>3
  <2> QED
    BY <1>1, <1>2, <2>1, <2>2, <2>3, <2>4, <2>5, <2>6, <2>7, <2>8, <2>9, <2>10, DiskStep
       DEF MakeTemp, history
<1> QED
  BY <1>5, <1>6 DEF MakeTemp

(* A directory that is left as it is has been put back. *)
LEMMA PutSame ==
  ASSUME TypeOK, NEW d \in Dir, NEW id \in FileID, UNCHANGED temp
  PROVE  Put(d, id, temp[d][id])
BY DEF TypeOK, Put

LEMMA KeptFacts ==
  ASSUME IInv, NEW d \in Dir, NEW id \in FileID, NEW i \in Index, acked[d][id][i] # None
  PROVE  Present(temp[d][id]) /\ temp[d][id].chunks[i] = acked[d][id][i]
BY DEF IInv, AckedChunkKept, HasMeta

LEMMA WriteMetaStep ==
  ASSUME IInv, NEW r \in Request, WriteMeta(r)
  PROVE  IInv'
<1> DEFINE o == temp[req[r].dir][req[r].id]
<1>1. pc[r] = "meta" /\ Inside(r)
  BY DEF WriteMeta, Inside
<1>2. /\ Shape(pc[r], req[r]) /\ req[r].fresh /\ req[r].op = "chunk" /\ req[r].meta \in Meta
      /\ Uncommitted(pc[r], req[r], acked[req[r].dir][req[r].id])
      /\ req[r].dir \in Dir /\ req[r].id \in FileID /\ req[r] \in ReqState
      /\ o \in TempState /\ o.chunks = NoChunks /\ req[r].made
  BY <1>1, Own DEF Shape, ChunkPlaces, OnDisk
<1>3. \A p \in Request \ {r} : uploadStateMu = p => uploadStateMu' = p
  BY <1>1 DEF IInv, Counted
<1>4. acked[req[r].dir][req[r].id] = NoChunks
  BY <1>1, <1>2 DEF Uncommitted, ChunkPlaces
<1>5. \A i \in Index : acked[req[r].dir][req[r].id][i] = None
  BY <1>4 DEF NoChunks
<1>6. CASE /\ Put(req[r].dir, req[r].id, [o EXCEPT !.meta = req[r].meta, !.old = FALSE])
           /\ Goto(r, "store") /\ UNCHANGED req
  <2>1. PICK t : t = [o EXCEPT !.meta = req[r].meta, !.old = FALSE]
    OBVIOUS
  <2>2. t \in TempState /\ t.meta = req[r].meta /\ t.chunks = NoChunks
    BY <1>2, <2>1 DEF TempState
  <2>3. "store" \in PC
    BY DEF PC
  <2>4. /\ pc' \in [Request -> PC] /\ req' \in [Request -> ReqState]
        /\ \A p \in Request \ {r} : SameFor(p)
        /\ req'[r] = req[r] /\ pc'[r] = "store"
    BY <1>6, <2>3, GotoFacts DEF IInv
  <2>5. TypeOK'
    <3>1. temp' \in [Dir -> [FileID -> TempState \union {None}]]
      BY <1>2, <1>6, <2>1, <2>2, PutFacts DEF IInv
    <3> QED
      BY <2>4, <3>1 DEF WriteMeta, IInv, TypeOK, history
  <2>6. Shape("store", req[r])
    BY <1>2 DEF Shape, ChunkPlaces, MergePlaces
  <2>7. OnDisk("store", req[r], t)
    BY <1>2, <2>2, UploadAssumption DEF OnDisk, MergePlaces, Present
  <2>8. Uncommitted("store", req[r], acked[req[r].dir][req[r].id])
    BY <1>4 DEF Uncommitted
  <2>9. Inside(r)' /\ pc'[r] \notin {"mkdir", "meta", "name", "rename"}
    BY <2>4 DEF Inside
  <2>10. t # None => temp[req[r].dir][req[r].id] # None
    BY <1>2, UploadAssumption
  <2> QED
    BY <1>1, <1>2, <1>3, <1>5, <1>6, <2>1, <2>2, <2>4, <2>5, <2>6, <2>7, <2>8, <2>9, <2>10,
       DiskStep DEF WriteMeta, history
<1>7. CASE Rollback(r, "error") /\ UNCHANGED temp
  <2>1. /\ pc' \in [Request -> PC] /\ req' \in [Request -> ReqState]
        /\ \A p \in Request \ {r} : SameFor(p)
        /\ SameInputs(req'[r], req[r]) /\ req'[r].reply = "error"
        /\ pc'[r] \in {"reply", "undo", "forget"}
    BY <1>7, RollbackFacts DEF IInv, Answers
  <2>2. TypeOK'
    BY <1>7, <2>1 DEF WriteMeta, IInv, TypeOK, history
  <2>3. Shape(pc'[r], req'[r])
    BY <1>1, <1>2, <2>1, ShapeKept DEF ChunkPlaces, MergePlaces
  <2>4. OnDisk(pc'[r], req'[r], o)
    BY <1>2, <2>1 DEF OnDisk, MergePlaces, SameInputs
  <2>5. Uncommitted(pc'[r], req'[r], acked[req[r].dir][req[r].id])
    BY <1>4 DEF Uncommitted
  <2>6. Inside(r)' /\ pc'[r] \notin {"mkdir", "meta", "name", "rename"}
        /\ req'[r].id = req[r].id /\ req'[r].dir = req[r].dir
    BY <2>1 DEF Inside, SameInputs
  <2>7. Put(req[r].dir, req[r].id, o)
    BY <1>2, <1>7, PutSame DEF IInv
  <2> QED
    BY <1>1, <1>2, <1>3, <1>5, <2>1, <2>2, <2>3, <2>4, <2>5, <2>6, <2>7, DiskStep
       DEF WriteMeta, history
<1> QED
  BY <1>6, <1>7 DEF WriteMeta

LEMMA StoreStep ==
  ASSUME IInv, NEW r \in Request, StoreChunk(r)
  PROVE  IInv'
<1> DEFINE q == req[r]
           o == temp[q.dir][q.id]
<1>1. pc[r] = "store" /\ Inside(r)
  BY DEF StoreChunk, Inside
<1>2. /\ Shape(pc[r], q) /\ q.op = "chunk" /\ q.meta \in Meta
      /\ q.data \in Data /\ q.idx \in 0..q.meta.total - 1
      /\ Uncommitted(pc[r], q, acked[q.dir][q.id])
      /\ q.dir \in Dir /\ q.id \in FileID /\ q \in ReqState
      /\ OnDisk(pc[r], q, o) /\ o \in TempState \union {None}
  BY <1>1, Own DEF Shape, ChunkPlaces
<1>3. /\ o \in TempState /\ Present(o) /\ o.meta = q.meta
      /\ q.fresh => o.chunks = NoChunks /\ acked[q.dir][q.id] = NoChunks
  BY <1>1, <1>2 DEF OnDisk, Present, Uncommitted, ChunkPlaces
<1>4. q.idx \in Index
  BY <1>2, UploadAssumption DEF Index
<1>5. PICK t \in TempState, a \in Answers :
        /\ Put(q.dir, q.id, t) /\ t.meta = o.meta
        /\ \/ /\ t.chunks = [o.chunks EXCEPT ![q.idx] = q.data] /\ a = "ok"
              /\ o.chunks[q.idx] = None /\ Finish(r, a)
           \/ /\ t.chunks = o.chunks /\ a \in {"ok", "conflict", "error"} /\ Rollback(r, a)
              /\ a = "ok" => o.chunks[q.idx] = q.data
  <2>1. CASE /\ o.chunks[q.idx] = None
             /\ Put(q.dir, q.id, [o EXCEPT !.chunks[q.idx] = q.data, !.old = FALSE])
             /\ Finish(r, "ok")
    <3>1. PICK t : t = [o EXCEPT !.chunks[q.idx] = q.data, !.old = FALSE]
      OBVIOUS
    <3>2. t \in TempState /\ t.meta = o.meta /\ t.chunks = [o.chunks EXCEPT ![q.idx] = q.data]
      BY <1>2, <1>3, <1>4, <3>1 DEF TempState
    <3>3. "ok" \in Answers
      BY DEF Answers
    <3> QED
      BY <2>1, <3>1, <3>2, <3>3
  <2>2. CASE \E a \in {"ok", "conflict", "error"} :
               /\ Put(q.dir, q.id, [o EXCEPT !.old = FALSE]) /\ Rollback(r, a)
               /\ a = "ok" => o.chunks[q.idx] = q.data
    <3>1. PICK a \in {"ok", "conflict", "error"} :
               /\ Put(q.dir, q.id, [o EXCEPT !.old = FALSE]) /\ Rollback(r, a)
               /\ a = "ok" => o.chunks[q.idx] = q.data
      BY <2>2
    <3>2. PICK t : t = [o EXCEPT !.old = FALSE]
      OBVIOUS
    <3>3. t \in TempState /\ t.meta = o.meta /\ t.chunks = o.chunks
      BY <1>3, <3>2 DEF TempState
    <3>4. a \in Answers
      BY DEF Answers
    <3> QED
      BY <3>1, <3>2, <3>3, <3>4
  <2> QED
    BY <2>1, <2>2 DEF StoreChunk
<1>6. /\ pc' \in [Request -> PC] /\ req' \in [Request -> ReqState]
      /\ \A p \in Request \ {r} : SameFor(p)
      /\ SameInputs(req'[r], q) /\ req'[r].reply = a
      /\ \/ pc'[r] = "reply"
         \/ pc'[r] \in {"undo", "forget"} /\ q.fresh /\ t.chunks = o.chunks
  BY <1>5, FinishFacts, RollbackFacts DEF IInv, RollbackFrom
<1>7. TypeOK'
  <2>1. temp' \in [Dir -> [FileID -> TempState \union {None}]]
    BY <1>2, <1>5, PutFacts DEF IInv
  <2> QED
    BY <1>6, <2>1 DEF StoreChunk, IInv, TypeOK, history, server
<1>8. Shape(pc'[r], req'[r])
  BY <1>1, <1>2, <1>6, ShapeKept DEF ChunkPlaces, MergePlaces
<1>9. OnDisk(pc'[r], req'[r], t)
  <2>1. pc'[r] = "reply" /\ req'[r].reply = "ok" =>
          Present(t) /\ t.chunks[q.idx] = q.data
    BY <1>2, <1>3, <1>4, <1>5, <1>6, UploadAssumption DEF Present, TempState
  <2>2. pc'[r] \in {"undo", "forget"} => req'[r].reply # "ok"
    <3> SUFFICES ASSUME pc'[r] \in {"undo", "forget"}, a = "ok"
                 PROVE  FALSE
      BY <1>6
    <3>1. q.fresh /\ o.chunks = NoChunks /\ t.chunks = o.chunks
      BY <1>3, <1>6
    <3>2. NoChunks[q.idx] = None
      BY <1>4 DEF NoChunks
    <3>3. [NoChunks EXCEPT ![q.idx] = q.data] # NoChunks
      BY <1>2, <1>4, <3>2, UploadAssumption, EmptyTyped
    <3> QED
      BY <1>2, <1>5, <3>1, <3>2, <3>3, UploadAssumption
  <2> QED
    BY <1>6, <2>1, <2>2 DEF OnDisk, MergePlaces, SameInputs
<1>10. Uncommitted(pc'[r], req'[r], acked[q.dir][q.id])
  BY <1>3, <1>6 DEF Uncommitted, SameInputs, ChunkPlaces
<1>11. \A i \in Index : acked[q.dir][q.id][i] # None =>
         Present(t) /\ t.chunks[i] = acked[q.dir][q.id][i]
  <2> SUFFICES ASSUME NEW i \in Index, acked[q.dir][q.id][i] # None
               PROVE  Present(t) /\ t.chunks[i] = acked[q.dir][q.id][i]
    OBVIOUS
  <2>1. o.chunks[i] = acked[q.dir][q.id][i]
    BY <1>2, KeptFacts
  <2>2. Present(t)
    BY <1>2, <1>3, <1>5, UploadAssumption DEF Present
  <2>3. o.chunks \in [Index -> Data \union {None}]
    BY <1>3 DEF TempState
  <2> QED
    BY <1>4, <1>5, <2>1, <2>2, <2>3
<1>12. Inside(r)' /\ pc'[r] \notin {"mkdir", "meta", "name", "rename"}
       /\ req'[r].id = q.id /\ req'[r].dir = q.dir
  BY <1>6 DEF Inside, SameInputs
<1>13. t # None => temp[q.dir][q.id] # None
  BY <1>3, UploadAssumption
<1> QED
  BY <1>1, <1>2, <1>5, <1>6, <1>7, <1>8, <1>9, <1>10, <1>11, <1>12, <1>13, DiskStep
     DEF StoreChunk, history, server

LEMMA UndoStep ==
  ASSUME IInv, NEW r \in Request, Undo(r)
  PROVE  IInv'
<1> DEFINE q == req[r]
           o == temp[q.dir][q.id]
<1>1. pc[r] = "undo" /\ Inside(r)
  BY DEF Undo, Inside
<1>2. /\ Shape(pc[r], q) /\ q.op = "chunk" /\ q.fresh
      /\ q.dir \in Dir /\ q.id \in FileID
      /\ OnDisk(pc[r], q, o) /\ o \in TempState \union {None}
      /\ q.reply # "ok" /\ acked[q.dir][q.id] = NoChunks
  BY <1>1, Own DEF Shape, ChunkPlaces, OnDisk, Uncommitted
<1>3. PICK t \in {None} \union Leftovers(q.dir, q.id) : Put(q.dir, q.id, t)
  BY DEF Undo
<1>4. t \in TempState \union {None} /\ (t # None => temp[q.dir][q.id] # None)
  BY <1>2, <1>3, LeftoverTyped DEF IInv
<1>5. "forget" \in PC
  BY DEF PC
<1>6. /\ pc' \in [Request -> PC] /\ req' \in [Request -> ReqState]
      /\ \A p \in Request \ {r} : SameFor(p)
      /\ req'[r] = q /\ pc'[r] = "forget"
  BY <1>5, GotoFacts DEF IInv, Undo
<1>7. TypeOK'
  <2>1. temp' \in [Dir -> [FileID -> TempState \union {None}]]
    BY <1>2, <1>3, <1>4, PutFacts DEF IInv
  <2> QED
    BY <1>6, <2>1 DEF Undo, IInv, TypeOK, history, server
<1>8. Shape("forget", q) /\ OnDisk("forget", q, t)
      /\ Uncommitted("forget", q, acked[q.dir][q.id])
  BY <1>2 DEF Shape, OnDisk, Uncommitted, ChunkPlaces, MergePlaces
<1>9. \A i \in Index : acked[q.dir][q.id][i] = None
  BY <1>2 DEF NoChunks
<1>10. Inside(r)' /\ pc'[r] \notin {"mkdir", "meta", "name", "rename"}
  BY <1>6 DEF Inside
<1> QED
  BY <1>1, <1>2, <1>3, <1>4, <1>6, <1>7, <1>8, <1>9, <1>10, DiskStep DEF Undo, history, server

LEMMA ForgetStep ==
  ASSUME IInv, NEW r \in Request, Forget(r)
  PROVE  IInv'
<1>1. pc[r] = "forget" /\ Inside(r)
  BY DEF Forget, Inside
<1>2. /\ Shape("forget", req[r]) /\ req[r].dir \in Dir /\ req[r].id \in FileID
      /\ OnDisk("forget", req[r], temp[req[r].dir][req[r].id])
  BY <1>1, Own
<1>3. "reply" \in PC
  BY DEF PC
<1>4. /\ pc' \in [Request -> PC] /\ req' \in [Request -> ReqState]
      /\ \A p \in Request \ {r} : SameFor(p)
      /\ req'[r] = req[r] /\ pc'[r] = "reply"
  BY <1>3, GotoFacts DEF IInv, Forget
<1>5. TypeOK'
  <2>1. uploadDirectories' \in [FileID -> Dir \union {None}]
    BY DEF Forget, Forgotten, IInv, TypeOK
  <2> QED
    BY <1>4, <2>1 DEF Forget, IInv, TypeOK, disk, history
<1>6. Local(r)'
  <2>1. Shape("reply", req[r])
    BY <1>2 DEF Shape, ChunkPlaces, MergePlaces
  <2>2. OnDisk("reply", req[r], temp[req[r].dir][req[r].id])
    BY <1>2 DEF OnDisk, MergePlaces
  <2>3. Uncommitted("reply", req[r], acked[req[r].dir][req[r].id])
    BY DEF Uncommitted, ChunkPlaces
  <2> QED
    BY <1>4, <2>1, <2>2, <2>3 DEF Local, Forget, disk, history
<1>7. Inside(r)' /\ pc'[r] \notin {"mkdir", "meta", "name", "rename"}
  BY <1>4 DEF Inside
<1> QED
  BY <1>1, <1>4, <1>5, <1>6, <1>7, QuietStep DEF Forget, disk, history

-------------------------------------------------------------------------------
(* The end of every request: the mutex is given back, and what was         *)
(* answered becomes history.                                               *)
LEMMA ReplyStep ==
  ASSUME IInv, NEW r \in Request, Reply(r)
  PROVE  IInv'
<1> DEFINE q == req[r]
<1>1. pc[r] = "reply" /\ Inside(r) /\ lock[q.id] = r
  BY DEF Reply, Inside, IInv, Holding
<1>2. /\ Shape(pc[r], q) /\ q.dir \in Dir /\ q.id \in FileID
      /\ OnDisk(pc[r], q, temp[q.dir][q.id])
  BY <1>1, Own
<1>3. q.op = "chunk" => q.data \in Data /\ q.idx \in Index
  BY <1>2, UploadAssumption DEF Shape, Index
<1>4. /\ pc' = [pc EXCEPT ![r] = "idle"] /\ req' = [req EXCEPT ![r] = NoReq]
      /\ lock' = [lock EXCEPT ![q.id] = None]
      /\ UNCHANGED <<uploadDir, server, disk, spent, pubs, crashes>>
  BY DEF Reply, Goto
<1>5. /\ pc' \in [Request -> PC] /\ req' \in [Request -> ReqState]
      /\ \A p \in Request \ {r} : SameFor(p)
      /\ pc'[r] = "idle" /\ req'[r] = NoReq
  <2>1. "idle" \in PC
    BY DEF PC
  <2> QED
    BY <1>4, <2>1, NoReqTyped, ReqOthers DEF IInv
<1>6. /\ acked' \in [Dir -> [FileID -> [Index -> Data \union {None}]]]
      /\ \A d \in Dir, id \in FileID : id # q.id => acked'[d][id] = acked[d][id]
      /\ AckedChunkKept'
  <2>1. acked \in [Dir -> [FileID -> [Index -> Data \union {None}]]]
    BY DEF IInv, TypeOK
  <2>2. CASE ~ (q.op = "chunk" /\ q.reply = "ok")
    <3>1. acked' = acked
      BY <2>2 DEF Reply
    <3> QED
      BY <1>4, <2>1, <3>1 DEF IInv, AckedChunkKept, HasMeta, disk
  <2>3. CASE q.op = "chunk" /\ q.reply = "ok"
    <3>1. Present(temp[q.dir][q.id]) /\ temp[q.dir][q.id].chunks[q.idx] = q.data
      BY <1>1, <1>2, <2>3 DEF OnDisk
    <3>2. acked' = [acked EXCEPT ![q.dir] = [acked[q.dir] EXCEPT ![q.id] =
                      [acked[q.dir][q.id] EXCEPT ![q.idx] = q.data]]]
      BY <1>2, <2>1, <2>3 DEF Reply
    <3>3. [acked[q.dir][q.id] EXCEPT ![q.idx] = q.data] \in [Index -> Data \union {None}]
      BY <1>2, <1>3, <2>1, <2>3
    <3>4. acked' \in [Dir -> [FileID -> [Index -> Data \union {None}]]]
      BY <1>2, <2>1, <3>2, <3>3
    <3>5. \A d \in Dir, id \in FileID, i \in Index :
            acked'[d][id][i] = IF d = q.dir /\ id = q.id /\ i = q.idx THEN q.data
                               ELSE acked[d][id][i]
      BY <1>2, <1>3, <2>1, <2>3, <3>2
    <3>6. \A d \in Dir, id \in FileID : id # q.id => acked'[d][id] = acked[d][id]
      BY <1>2, <2>1, <3>2
    <3>7. AckedChunkKept'
      BY <1>4, <3>1, <3>5 DEF IInv, AckedChunkKept, HasMeta, disk
    <3> QED
      BY <3>4, <3>6, <3>7
  <2> QED
    BY <2>2, <2>3
<1>7. TypeOK'
  <2>1. /\ lock' \in [FileID -> Request \union {None}]
        /\ stale' \subseteq Request /\ cancelAck' \subseteq FileID
    BY <1>2, <1>4 DEF IInv, TypeOK, Reply, ChunkRequests
  <2> QED
    BY <1>4, <1>5, <1>6, <2>1 DEF IInv, TypeOK, server, disk
<1>8. OthersOut(r)
  BY <1>1, Alone
<1>9. Holding'
  <2> SUFFICES ASSUME NEW p \in Request, Inside(p)'
               PROVE  lock'[req'[p].id] = p
    BY DEF Holding
  <2>1. p \in Request \ {r} /\ Inside(p) /\ req'[p].id = req[p].id
    BY <1>5 DEF Inside, SameFor
  <2>2. req[p].id # q.id /\ req[p].id \in FileID /\ lock[req[p].id] = p
    BY <1>8, <2>1 DEF OthersOut, IInv, Holding, Local, Shape, Inside
  <2> QED
    BY <1>2, <1>4, <2>1, <2>2 DEF IInv, TypeOK
<1>10. \A p \in Request : Local(p)'
  <2>1. Apart(r)
    BY <1>4, <1>6 DEF Apart, disk
  <2>2. ASSUME NEW p \in Request \ {r}
        PROVE  Local(p)'
    BY <1>5, <1>8, <2>1, OthersKept
  <2>3. Local(r)'
    BY <1>5 DEF Local, Inside, Shape, NoReq, ChunkPlaces, MergePlaces
  <2> QED
    BY <2>2, <2>3
<1>11. \A p \in Request : Naming(p)'
  <2>1. \A id \in FileID : Cancelled(id)' => Cancelled(id)
    BY <1>4 DEF Cancelled, server
  <2> QED
    BY <1>4, <1>5, <2>1, NamingKept DEF server, disk
<1>12. \A d \in Dir : Active(d)' \subseteq Active(d)
  BY <1>4 DEF Active, disk
<1>13. \A p \in Request : Counted(p)'
  BY <1>4, <1>5, <1>12, CountedKept DEF server
<1> QED
  BY <1>6, <1>7, <1>9, <1>10, <1>11, <1>12, <1>13, LimitKept DEF IInv

-------------------------------------------------------------------------------
(* The completion handler *)

LEMMA AdmitCompleteStep ==
  ASSUME IInv, NEW r \in Request, AdmitComplete(r)
  PROVE  IInv'
<1> DEFINE o == req[r]
           d == UploadDirectoryFor(o.id, o.dir)
<1>1. pc[r] = "admit" /\ o.op = "complete" /\ Inside(r)
  BY DEF AdmitComplete, Inside
<1>2. /\ Shape(pc[r], o) /\ o.dir \in Dir /\ o.id \in FileID /\ d \in Dir
      /\ o \in ReqState /\ o.meta \in Meta
  BY <1>1, Own DEF Shape
<1>3. PICK s \in {"reply", "part"}, q \in ReqState :
        /\ pc' = [pc EXCEPT ![r] = s] /\ req' = [req EXCEPT ![r] = q]
        /\ q.id = o.id /\ q.dir \in Dir /\ q.op = "complete" /\ q.meta = o.meta
        /\ s = "part" => q.dir = d /\ Ready(temp[d][o.id], o.meta)
  <2>1. CASE \E a \in Answers : Finish(r, a)
    <3>1. PICK a \in Answers : Finish(r, a)
      BY <2>1
    <3>2. PICK q \in ReqState : /\ [req EXCEPT ![r].reply = a] = [req EXCEPT ![r] = q]
                                /\ SameInputs(q, req[r])
      BY AnswerFacts DEF IInv
    <3> QED
      BY <1>1, <1>2, <3>1, <3>2 DEF Finish, Goto, SameInputs
  <2>2. CASE /\ Ready(temp[d][o.id], o.meta)
             /\ req' = [req EXCEPT ![r].dir = d] /\ Goto(r, "part")
    <3>1. PICK q : q = [o EXCEPT !.dir = d]
      OBVIOUS
    <3>2. q \in ReqState /\ q.id = o.id /\ q.dir = d /\ q.op = "complete" /\ q.meta = o.meta
      BY <1>1, <1>2, <3>1 DEF ReqState
    <3>3. req' = [req EXCEPT ![r] = q] /\ pc' = [pc EXCEPT ![r] = "part"]
      BY <2>2, <3>1 DEF Goto, IInv, TypeOK
    <3> QED
      BY <1>2, <2>2, <3>2, <3>3
  <2>3. Refusal(temp[d][o.id], o.meta) \in Answers /\ {"cancelled", "conflict"} \subseteq Answers
    BY DEF Refusal, Answers
  <2> QED
    BY <2>1, <2>2, <2>3 DEF AdmitComplete
<1>4. s \in PC
  BY DEF PC
<1>5. /\ pc' \in [Request -> PC] /\ req' \in [Request -> ReqState]
      /\ pc'[r] = s /\ req'[r] = q /\ \A p \in Request \ {r} : SameFor(p)
  BY <1>3, <1>4, ReqOthers DEF IInv
<1>6. TypeOK'
  BY <1>5 DEF AdmitComplete, IInv, TypeOK, server, disk, history
<1>7. Local(r)'
  <2>1. Shape(s, q)
    BY <1>2, <1>3 DEF Shape, ChunkPlaces, MergePlaces
  <2>2. OnDisk(s, q, temp[q.dir][q.id])
    BY <1>3 DEF OnDisk, MergePlaces, Ready
  <2>3. Uncommitted(s, q, acked[q.dir][q.id])
    BY DEF Uncommitted, ChunkPlaces
  <2>4. UNCHANGED <<temp, acked>>
    BY DEF AdmitComplete, disk, history
  <2> QED
    BY <1>5, <2>1, <2>2, <2>3, <2>4 DEF Local
<1>8. Inside(r)' /\ pc'[r] \notin {"mkdir", "meta", "name", "rename"} /\ req'[r].id = o.id
  BY <1>3, <1>5 DEF Inside
<1> QED
  BY <1>1, <1>5, <1>6, <1>7, <1>8, QuietStep DEF AdmitComplete, server, disk, history

(* The facts a merge starts each of its steps from *)
LEMMA MergeFacts ==
  ASSUME IInv, NEW r \in Request, pc[r] \in MergePlaces
  PROVE  LET q == req[r]
             o == temp[q.dir][q.id]
         IN  /\ Inside(r) /\ Shape(pc[r], q) /\ q.op = "complete" /\ q.meta \in Meta
             /\ q.dir \in Dir /\ q.id \in FileID /\ q \in ReqState
             /\ OnDisk(pc[r], q, o) /\ o \in TempState /\ o # None
             /\ o.meta = q.meta /\ AllChunks(o)
<1>1. Inside(r) /\ pc[r] # "idle"
  BY DEF Inside, MergePlaces
<1> QED
  BY <1>1, Own DEF Shape, MergePlaces, OnDisk, Present

LEMMA PartStep ==
  ASSUME IInv, NEW r \in Request, pc[r] \in MergePlaces,
         NEW t \in TempState, Put(req[r].dir, req[r].id, t),
         t.meta = temp[req[r].dir][req[r].id].meta,
         t.chunks = temp[req[r].dir][req[r].id].chunks,
         pc' \in [Request -> PC], req' \in [Request -> ReqState],
         \A p \in Request \ {r} : SameFor(p),
         SameInputs(req'[r], req[r]), pc'[r] \in {"merge", "publish", "reply"},
         uploadMu' \in Request \union {None},
         \A p \in Request \ {r} : uploadMu = p => uploadMu' = p,
         OnDisk(pc'[r], req'[r], t),
         UNCHANGED <<uploadDir, uploadDirectories, cancelledUploads, uploadStateMu, lock,
                     files, history, crashes>>
  PROVE  IInv'
<1> DEFINE q == req[r]
           o == temp[q.dir][q.id]
<1>1. /\ Inside(r) /\ Shape(pc[r], q) /\ q.op = "complete"
      /\ q.dir \in Dir /\ q.id \in FileID
      /\ o \in TempState /\ o # None
  BY MergeFacts
<1>2. TypeOK'
  <2>1. temp' \in [Dir -> [FileID -> TempState \union {None}]]
    BY <1>1, PutFacts DEF IInv
  <2> QED
    BY <2>1 DEF IInv, TypeOK, history
<1>3. Shape(pc'[r], req'[r])
  BY <1>1, ShapeKept DEF ChunkPlaces, MergePlaces
<1>4. Uncommitted(pc'[r], req'[r], acked[q.dir][q.id])
  BY DEF Uncommitted, ChunkPlaces
<1>5. \A i \in Index : acked[q.dir][q.id][i] # None =>
        Present(t) /\ t.chunks[i] = acked[q.dir][q.id][i]
  BY <1>1, KeptFacts, UploadAssumption DEF Present
<1>6. Inside(r)' /\ pc'[r] \notin {"mkdir", "meta", "name", "rename"}
      /\ req'[r].id = q.id /\ req'[r].dir = q.dir
  BY DEF Inside, SameInputs
<1> QED
  BY <1>1, <1>2, <1>3, <1>4, <1>5, <1>6, DiskStep DEF history

LEMMA AbortStep ==
  ASSUME IInv, NEW r \in Request, pc[r] \in MergePlaces, NEW a \in Answers,
         AbortMerge(r, a),
         uploadMu' \in Request \union {None},
         \A p \in Request \ {r} : uploadMu = p => uploadMu' = p,
         UNCHANGED <<uploadDir, uploadDirectories, cancelledUploads, uploadStateMu, lock,
                     files, history, crashes>>
  PROVE  IInv'
<1> DEFINE q == req[r]
           o == temp[q.dir][q.id]
<1>1. o \in TempState /\ q.dir \in Dir /\ q.id \in FileID /\ q.op = "complete"
  BY MergeFacts
<1>2. /\ pc' \in [Request -> PC] /\ req' \in [Request -> ReqState]
      /\ \A p \in Request \ {r} : SameFor(p)
      /\ SameInputs(req'[r], q) /\ pc'[r] = "reply"
  BY FinishFacts DEF AbortMerge, IInv
<1>3. PICK t \in TempState : /\ Put(q.dir, q.id, t)
                             /\ t.meta = o.meta /\ t.chunks = o.chunks
  <2>1. CASE SetPart(q, None)
    <3>1. PICK t : t = [o EXCEPT !.part = None, !.old = FALSE]
      OBVIOUS
    <3>2. t \in TempState /\ t.meta = o.meta /\ t.chunks = o.chunks
      BY <1>1, <3>1 DEF TempState
    <3> QED
      BY <2>1, <3>1, <3>2 DEF SetPart
  <2>2. CASE UNCHANGED temp
    BY <1>1, <2>2, PutSame DEF IInv
  <2> QED
    BY <2>1, <2>2 DEF AbortMerge
<1>4. OnDisk(pc'[r], req'[r], t)
  BY <1>1, <1>2 DEF OnDisk, MergePlaces, SameInputs
<1> QED
  BY <1>2, <1>3, <1>4, PartStep

(* Setting the merge index touches nothing else. *)
LEMMA NextFacts ==
  ASSUME TypeOK, NEW r \in Request, NEW n \in 0..MaxChunks, NEW s \in PC,
         pc' = [pc EXCEPT ![r] = s], req' = [req EXCEPT ![r].next = n]
  PROVE  /\ pc' \in [Request -> PC] /\ req' \in [Request -> ReqState]
         /\ \A p \in Request \ {r} : SameFor(p)
         /\ SameInputs(req'[r], req[r]) /\ req'[r].next = n /\ pc'[r] = s
<1>1. req[r] \in ReqState
  BY DEF TypeOK
<1>2. PICK q : q = [req[r] EXCEPT !.next = n]
  OBVIOUS
<1>3. q \in ReqState /\ SameInputs(q, req[r]) /\ q.next = n
  BY <1>1, <1>2 DEF ReqState, SameInputs
<1>4. req' = [req EXCEPT ![r] = q]
  BY <1>2 DEF TypeOK
<1> QED
  BY <1>3, <1>4, ReqOthers

LEMMA CreatePartStep ==
  ASSUME IInv, NEW r \in Request, CreatePart(r)
  PROVE  IInv'
<1> DEFINE q == req[r]
           o == temp[q.dir][q.id]
<1>1. pc[r] = "part" /\ pc[r] \in MergePlaces
  BY DEF CreatePart, MergePlaces
<1>2. /\ o \in TempState /\ o # None /\ o.meta = q.meta /\ AllChunks(o)
      /\ q.meta \in Meta /\ q.op = "complete"
  BY <1>1, MergeFacts
<1>3. UNCHANGED uploadMu /\ uploadMu' \in Request \union {None}
  BY DEF CreatePart, server, IInv, TypeOK
<1>4. CASE SetPart(q, <<>>) /\ req' = [req EXCEPT ![r].next = 0] /\ Goto(r, "merge")
  <2>1. <<>> \in Seq(Data) /\ Len(<<>>) = 0
    OBVIOUS
  <2>2. PICK t : t = [o EXCEPT !.part = <<>>, !.old = FALSE]
    OBVIOUS
  <2>3. t \in TempState /\ t.meta = o.meta /\ t.chunks = o.chunks /\ t.part = <<>>
    BY <1>2, <2>1, <2>2 DEF TempState
  <2>4. 0 \in 0..MaxChunks /\ "merge" \in PC
    BY UploadAssumption DEF PC
  <2>5. /\ pc' \in [Request -> PC] /\ req' \in [Request -> ReqState]
        /\ \A p \in Request \ {r} : SameFor(p)
        /\ SameInputs(req'[r], q) /\ req'[r].next = 0 /\ pc'[r] = "merge"
    BY <1>4, <2>4, NextFacts DEF IInv, Goto
  <2>6. q.meta.total \in Nat
    BY <1>2, UploadAssumption
  <2>7. OnDisk("merge", req'[r], t)
    <3>1. Present(t) /\ t.meta = req'[r].meta /\ AllChunks(t)
      BY <1>2, <2>3, <2>5, UploadAssumption DEF Present, AllChunks, SameInputs
    <3>2. Copied(t)
      BY <2>1, <2>3 DEF Copied
    <3>3. req'[r].next <= req'[r].meta.total /\ Len(t.part) = req'[r].next
      BY <2>1, <2>3, <2>5, <2>6 DEF SameInputs
    <3> QED
      BY <3>1, <3>2, <3>3 DEF OnDisk, MergePlaces
  <2>8. Put(q.dir, q.id, t)
    BY <1>4, <2>2 DEF SetPart
  <2> QED
    BY <1>1, <1>3, <2>3, <2>5, <2>7, <2>8, PartStep DEF CreatePart, server
<1>5. CASE AbortMerge(r, "nospace")
  BY <1>1, <1>3, <1>5, AbortStep DEF CreatePart, server, Answers
<1> QED
  BY <1>4, <1>5 DEF CreatePart

LEMMA MergeChunkStep ==
  ASSUME IInv, NEW r \in Request, MergeChunk(r)
  PROVE  IInv'
<1> DEFINE q == req[r]
           o == temp[q.dir][q.id]
<1>1. pc[r] = "merge" /\ pc[r] \in MergePlaces /\ q.next < o.meta.total
  BY DEF MergeChunk, MergePlaces
<1>2. /\ o \in TempState /\ o # None /\ o.meta = q.meta /\ AllChunks(o)
      /\ q.meta \in Meta /\ q.op = "complete" /\ q \in ReqState
      /\ Copied(o) /\ Len(o.part) = q.next
  BY <1>1, MergeFacts DEF OnDisk
<1>3. UNCHANGED uploadMu /\ uploadMu' \in Request \union {None}
  BY DEF MergeChunk, server, IInv, TypeOK
<1>4. CASE /\ SetPart(q, Merged(o, q.next))
           /\ req' = [req EXCEPT ![r].next = q.next + 1] /\ UNCHANGED pc
  <2>1. /\ q.next \in Nat /\ q.meta.total \in 1..MaxChunks /\ q.next < q.meta.total
        /\ q.next + 1 \in 0..MaxChunks /\ q.next \in Index
    <3>1. q.next \in 0..MaxChunks /\ q.next < q.meta.total
      BY <1>1, <1>2 DEF ReqState
    <3>2. MaxChunks \in Nat /\ q.meta.total \in 1..MaxChunks
      BY <1>2, UploadAssumption
    <3> QED
      BY <3>1, <3>2 DEF Index
  <2>2. o.chunks[q.next] \in Data
    <3>1. o.chunks \in [Index -> Data \union {None}]
      BY <1>2 DEF TempState
    <3>2. q.next \in 0..o.meta.total - 1
      BY <1>2, <2>1
    <3>3. o.chunks[q.next] # None
      BY <1>2, <3>2 DEF AllChunks
    <3> QED
      BY <2>1, <3>1, <3>3
  <2>3. PICK w : w = Merged(o, q.next)
    OBVIOUS
  <2>4. /\ w \in Seq(Data) /\ Len(w) = q.next + 1
        /\ \A k \in 1..q.next : w[k] = o.part[k]
        /\ w[q.next + 1] = o.chunks[q.next]
    <3>1. PICK c \in Seq(Data), e \in Data : c = o.part /\ e = o.chunks[q.next]
      BY <1>2, <2>2 DEF Copied
    <3>2. w = Append(c, e) /\ Len(c) = q.next
      BY <1>2, <2>3, <3>1 DEF Merged
    <3>3. /\ Append(c, e) \in Seq(Data) /\ Len(Append(c, e)) = Len(c) + 1
          /\ \A k \in 1..Len(c) : Append(c, e)[k] = c[k]
          /\ Append(c, e)[Len(c) + 1] = e
      BY AppendProperties
    <3> QED
      BY <3>1, <3>2, <3>3
  <2>5. PICK t : t = [o EXCEPT !.part = w, !.old = FALSE]
    OBVIOUS
  <2>6. t \in TempState /\ t.meta = o.meta /\ t.chunks = o.chunks /\ t.part = w
    BY <1>2, <2>4, <2>5 DEF TempState
  <2>7. /\ pc' \in [Request -> PC] /\ req' \in [Request -> ReqState]
        /\ \A p \in Request \ {r} : SameFor(p)
        /\ SameInputs(req'[r], q) /\ req'[r].next = q.next + 1 /\ pc'[r] = "merge"
    <3>1. pc' = [pc EXCEPT ![r] = "merge"] /\ "merge" \in PC
      BY <1>1, <1>4 DEF IInv, TypeOK, PC
    <3> QED
      BY <1>4, <2>1, <3>1, NextFacts DEF IInv
  <2>8. OnDisk("merge", req'[r], t)
    <3>1. Present(t) /\ t.meta = req'[r].meta /\ AllChunks(t)
      BY <1>2, <2>6, <2>7, UploadAssumption DEF Present, AllChunks, SameInputs
    <3>2. Copied(t)
      <4>1. \A k \in 1..Len(o.part) : k - 1 \in Index /\ o.part[k] = o.chunks[k - 1]
        BY <1>2 DEF Copied
      <4>2. \A k \in 1..q.next + 1 : k - 1 \in Index /\ w[k] = o.chunks[k - 1]
        <5> SUFFICES ASSUME NEW k \in 1..q.next + 1
                     PROVE  k - 1 \in Index /\ w[k] = o.chunks[k - 1]
          OBVIOUS
        <5>1. CASE k \in 1..q.next
          BY <1>2, <2>4, <4>1, <5>1
        <5>2. CASE k = q.next + 1
          <6>1. k - 1 = q.next
            BY <2>1, <5>2
          <6> QED
            BY <2>1, <2>4, <5>2, <6>1
        <5> QED
          BY <2>1, <5>1, <5>2
      <4> QED
        BY <2>4, <2>6, <4>2 DEF Copied
    <3>3. req'[r].next <= req'[r].meta.total /\ Len(t.part) = req'[r].next
      <4>1. req'[r].next = q.next + 1 /\ req'[r].meta = q.meta /\ t.part = w
        BY <2>6, <2>7 DEF SameInputs
      <4>2. q.next + 1 <= q.meta.total /\ Len(w) = q.next + 1
        BY <2>1, <2>4
      <4> QED
        BY <4>1, <4>2
    <3> QED
      BY <3>1, <3>2, <3>3 DEF OnDisk, MergePlaces
  <2>9. Put(q.dir, q.id, t)
    BY <1>4, <2>3, <2>5 DEF SetPart
  <2> QED
    BY <1>1, <1>3, <2>6, <2>7, <2>8, <2>9, PartStep DEF MergeChunk, server
<1>5. CASE AbortMerge(r, "cancelled") \/ AbortMerge(r, "error")
  BY <1>1, <1>3, <1>5, AbortStep DEF MergeChunk, server, Answers
<1> QED
  BY <1>4, <1>5 DEF MergeChunk

LEMMA SealStep ==
  ASSUME IInv, NEW r \in Request, Seal(r)
  PROVE  IInv'
<1> DEFINE q == req[r]
           o == temp[q.dir][q.id]
<1>1. pc[r] = "merge" /\ pc[r] \in MergePlaces /\ q.next = o.meta.total
  BY DEF Seal, MergePlaces
<1>2. /\ o \in TempState /\ o # None /\ o.meta = q.meta /\ AllChunks(o) /\ Present(o)
      /\ q.meta \in Meta /\ q.op = "complete" /\ q.dir \in Dir /\ q.id \in FileID
      /\ Copied(o) /\ Len(o.part) = q.next
  BY <1>1, MergeFacts DEF OnDisk, Present
<1>3. UNCHANGED uploadMu /\ uploadMu' \in Request \union {None}
  BY DEF Seal, server, IInv, TypeOK
<1>4. CASE ContentSize(o.part) = o.meta.size /\ Goto(r, "publish") /\ UNCHANGED <<req, temp>>
  <2>1. "publish" \in PC
    BY DEF PC
  <2>2. /\ pc' \in [Request -> PC] /\ req' \in [Request -> ReqState]
        /\ \A p \in Request \ {r} : SameFor(p)
        /\ SameInputs(req'[r], q) /\ req'[r] = q /\ pc'[r] = "publish"
    BY <1>4, <2>1, GotoFacts DEF IInv
  <2>3. OnDisk("publish", q, o)
    BY <1>1, <1>2, <1>4 DEF OnDisk, MergePlaces
  <2>4. Put(q.dir, q.id, o)
    BY <1>2, <1>4, PutSame DEF IInv
  <2> QED
    BY <1>1, <1>2, <1>3, <2>2, <2>3, <2>4, PartStep DEF Seal, server
<1>5. CASE AbortMerge(r, "cancelled") \/ AbortMerge(r, "error")
  BY <1>1, <1>3, <1>5, AbortStep DEF Seal, server, Answers
<1> QED
  BY <1>4, <1>5 DEF Seal

LEMMA TakeUploadMuStep ==
  ASSUME IInv, NEW r \in Request, TakeUploadMu(r)
  PROVE  IInv'
<1> DEFINE q == req[r]
           o == temp[q.dir][q.id]
<1>1. pc[r] = "publish" /\ pc[r] \in MergePlaces /\ Inside(r)
  BY DEF TakeUploadMu, MergePlaces, Inside
<1>2. /\ o \in TempState /\ Shape(pc[r], q) /\ OnDisk(pc[r], q, o)
      /\ q.meta \in Meta /\ q.op = "complete" /\ q.dir \in Dir /\ q.id \in FileID
      /\ q \in ReqState
  BY <1>1, MergeFacts
<1>3. uploadMu = None
  BY DEF TakeUploadMu, UploadMuFree
<1>4. CASE Cancelled(q.id) /\ AbortMerge(r, "cancelled") /\ UNCHANGED uploadMu
  <2>1. uploadMu' \in Request \union {None}
    BY <1>4 DEF IInv, TypeOK
  <2> QED
    BY <1>1, <1>4, <2>1, AbortStep DEF TakeUploadMu, Answers
<1>5. CASE /\ ~ Cancelled(q.id) /\ uploadMu' = r
           /\ req' = [req EXCEPT ![r].key = <<q.meta.name, 0>>]
           /\ Goto(r, "name") /\ UNCHANGED temp
  <2>1. PICK key : key = <<q.meta.name, 0>>
    OBVIOUS
  <2>2. key \in FileKey
    BY <1>2, <2>1 DEF FileKey
  <2>3. PICK n : n = [q EXCEPT !.key = key]
    OBVIOUS
  <2>4. n \in ReqState /\ SameInputs(n, q) /\ n.key = key
    BY <1>2, <2>2, <2>3 DEF ReqState, SameInputs
  <2>5. pc' = [pc EXCEPT ![r] = "name"] /\ req' = [req EXCEPT ![r] = n] /\ "name" \in PC
    BY <1>5, <2>1, <2>3 DEF Goto, IInv, TypeOK, PC
  <2>6. /\ pc' \in [Request -> PC] /\ req' \in [Request -> ReqState]
        /\ \A p \in Request \ {r} : SameFor(p)
        /\ req'[r] = n /\ pc'[r] = "name"
    BY <2>4, <2>5, ReqOthers DEF IInv
  <2>7. TypeOK'
    BY <1>5, <2>6 DEF TakeUploadMu, IInv, TypeOK, history
  <2>8. Local(r)'
    <3>1. Shape("name", n)
      BY <1>1, <1>2, <2>4, ShapeKept DEF ChunkPlaces, MergePlaces
    <3>2. OnDisk("name", n, o)
      BY <1>1, <1>2, <2>4 DEF OnDisk, MergePlaces, SameInputs
    <3>3. Uncommitted("name", n, acked[q.dir][q.id])
      BY DEF Uncommitted, ChunkPlaces
    <3> QED
      BY <1>5, <2>4, <2>6, <3>1, <3>2, <3>3 DEF Local, TakeUploadMu, history, SameInputs
  <2>9. \A p \in Request : Naming(p)'
    <3>1. ASSUME NEW p \in Request \ {r}
          PROVE  pc'[p] \notin {"name", "rename"}
      BY <1>3, <2>6, UploadAssumption DEF IInv, Naming, SameFor
    <3>2. Naming(r)'
      <4>1. ~ Cancelled(n.id)'
        BY <1>5, <2>4 DEF Cancelled, TakeUploadMu, SameInputs
      <4> QED
        BY <1>5, <2>2, <2>4, <2>6, <4>1 DEF Naming, Cancelled
    <3> QED
      BY <3>1, <3>2 DEF Naming
  <2>10. \A d \in Dir : Active(d)' \subseteq Active(d)
    BY <1>5 DEF Active
  <2>11. \A p \in Request : Counted(p)'
    BY <2>6, <2>10, CountedKept DEF TakeUploadMu
  <2>12. ActiveFinite' /\ ActiveLimit'
    BY <2>10, LimitKept
  <2>13. Apart(r) /\ AckedKeptFor(q.id)' /\ Inside(r)' /\ req'[r].id = q.id
    <3>1. UNCHANGED <<temp, acked>>
      BY <1>5 DEF TakeUploadMu, history
    <3> QED
      BY <1>2, <2>4, <2>6, <3>1
         DEF Apart, IInv, AckedChunkKept, AckedKeptFor, HasMeta, Inside, SameInputs
  <2> QED
    BY <1>1, <2>6, <2>7, <2>8, <2>9, <2>11, <2>12, <2>13, CoreStep DEF TakeUploadMu
<1> QED
  BY <1>4, <1>5 DEF TakeUploadMu

LEMMA PickNameStep ==
  ASSUME IInv, NEW r \in Request, PickName(r)
  PROVE  IInv'
<1> DEFINE q == req[r]
           o == temp[q.dir][q.id]
<1>1. pc[r] = "name" /\ pc[r] \in MergePlaces /\ Inside(r)
  BY DEF PickName, MergePlaces, Inside
<1>2. /\ Shape(pc[r], q) /\ OnDisk(pc[r], q, o) /\ q \in ReqState
      /\ q.op = "complete" /\ q.dir \in Dir /\ q.id \in FileID
  BY <1>1, MergeFacts
<1>3. uploadMu = r /\ ~ Cancelled(q.id) /\ q.key \in FileKey
  BY <1>1 DEF IInv, Naming
<1>4. UNCHANGED <<cancelledUploads, uploadMu, uploadStateMu, lock, files, temp, acked>>
  BY DEF PickName, server, disk, history
<1>5. PICK s \in {"name", "rename"}, n \in ReqState :
        /\ pc' = [pc EXCEPT ![r] = s] /\ req' = [req EXCEPT ![r] = n]
        /\ SameInputs(n, q) /\ n.key \in FileKey
        /\ s = "rename" => n.key \notin TakenKeys(q.dir)
  <2>1. CASE q.key \notin TakenKeys(q.dir) /\ Goto(r, "rename") /\ UNCHANGED req
    <3>1. req' = [req EXCEPT ![r] = q] /\ pc' = [pc EXCEPT ![r] = "rename"]
      BY <2>1 DEF Goto, IInv, TypeOK
    <3> QED
      BY <1>2, <1>3, <2>1, <3>1 DEF SameInputs
  <2>2. CASE req' = [req EXCEPT ![r].key = <<q.key[1], q.key[2] + 1>>] /\ UNCHANGED pc
    <3>1. PICK key : key = <<q.key[1], q.key[2] + 1>>
      OBVIOUS
    <3>2. key \in FileKey
      BY <1>3, <3>1 DEF FileKey
    <3>3. PICK n : n = [q EXCEPT !.key = key]
      OBVIOUS
    <3>4. n \in ReqState /\ SameInputs(n, q) /\ n.key = key
      BY <1>2, <3>2, <3>3 DEF ReqState, SameInputs
    <3>5. req' = [req EXCEPT ![r] = n] /\ pc' = [pc EXCEPT ![r] = "name"]
      BY <1>1, <2>2, <3>1, <3>3 DEF IInv, TypeOK
    <3>6. "name" \in {"name", "rename"} /\ "name" # "rename"
      OBVIOUS
    <3> QED
      BY <3>2, <3>4, <3>5, <3>6
  <2> QED
    BY <2>1, <2>2 DEF PickName
<1>6. s \in PC
  BY DEF PC
<1>7. /\ pc' \in [Request -> PC] /\ req' \in [Request -> ReqState]
      /\ pc'[r] = s /\ req'[r] = n /\ \A p \in Request \ {r} : SameFor(p)
  BY <1>5, <1>6, ReqOthers DEF IInv
<1>8. TypeOK'
  BY <1>7 DEF PickName, IInv, TypeOK, server, disk, history
<1>9. Local(r)'
  <2>1. Shape(s, n)
    BY <1>1, <1>2, <1>5, ShapeKept DEF ChunkPlaces, MergePlaces
  <2>2. OnDisk(s, n, o)
    BY <1>1, <1>2, <1>5 DEF OnDisk, MergePlaces, SameInputs
  <2>3. Uncommitted(s, n, acked[q.dir][q.id])
    BY DEF Uncommitted, ChunkPlaces
  <2> QED
    BY <1>4, <1>5, <1>7, <2>1, <2>2, <2>3 DEF Local, SameInputs
<1>10. \A p \in Request : Naming(p)'
  <2>1. ASSUME NEW p \in Request \ {r}
        PROVE  pc'[p] \notin {"name", "rename"}
    BY <1>3, <1>7 DEF IInv, Naming, SameFor
  <2>2. Naming(r)'
    BY <1>3, <1>4, <1>5, <1>7 DEF Naming, Cancelled, TakenKeys, SameInputs
  <2> QED
    BY <2>1, <2>2 DEF Naming
<1>11. \A d \in Dir : Active(d)' \subseteq Active(d)
  BY <1>4 DEF Active
<1>12. \A p \in Request : Counted(p)'
  <2>1. pc'[r] \notin {"mkdir", "meta"}
    BY <1>5, <1>7
  <2> QED
    BY <1>4, <1>7, <1>11, <2>1, CountedKept
<1>13. ActiveFinite' /\ ActiveLimit'
  BY <1>11, LimitKept
<1>14. Apart(r) /\ AckedKeptFor(q.id)'
  <2>1. Apart(r)
    BY <1>4 DEF Apart
  <2>2. AckedKeptFor(q.id)
    BY <1>2 DEF IInv, AckedChunkKept, AckedKeptFor
  <2>3. ASSUME NEW d \in Dir, NEW i \in Index
        PROVE  acked'[d][req'[r].id][i] # None =>
                 HasMeta(d, q.id)' /\ temp'[d][q.id].chunks[i] = acked'[d][q.id][i]
    BY <1>4, <1>5, <1>7, <2>2 DEF AckedKeptFor, HasMeta, Present, SameInputs
  <2>4. AckedKeptFor(q.id)'
    BY <1>5, <1>7, <2>3 DEF AckedKeptFor, SameInputs
  <2> QED
    BY <2>1, <2>4
<1>15. Inside(r)' /\ req'[r].id = q.id
  BY <1>5, <1>7 DEF Inside, SameInputs
<1> QED
  BY <1>1, <1>4, <1>7, <1>8, <1>9, <1>10, <1>12, <1>13, <1>14, <1>15, CoreStep

LEMMA PublishFileStep ==
  ASSUME IInv, NEW r \in Request, PublishFile(r)
  PROVE  IInv'
<1> DEFINE q == req[r]
           o == temp[q.dir][q.id]
           f == [key |-> q.key, id |-> q.id, meta |-> q.meta, content |-> o.part]
<1>1. pc[r] = "rename" /\ pc[r] \in MergePlaces /\ Inside(r)
  BY DEF PublishFile, MergePlaces, Inside
<1>2. /\ o \in TempState /\ Shape(pc[r], q) /\ OnDisk(pc[r], q, o) /\ o # None
      /\ q.meta \in Meta /\ q.op = "complete" /\ q.dir \in Dir /\ q.id \in FileID
      /\ Copied(o)
  BY <1>1, MergeFacts DEF OnDisk
<1>3. uploadMu = r /\ q.key \in FileKey /\ \A p \in Request \ {r} : pc[p] \notin {"name", "rename"}
  BY <1>1 DEF IInv, Naming
<1>4. uploadMu' = None /\ \A p \in Request \ {r} : uploadMu = p => uploadMu' = p
  BY <1>3 DEF PublishFile
<1>5. CASE AbortMerge(r, "error") /\ UNCHANGED <<files, pubs, spent>>
  BY <1>1, <1>4, <1>5, AbortStep DEF PublishFile, Answers, history
<1>6. CASE /\ files' = Renamed(q.dir, f) /\ SetPart(q, None)
           /\ pubs' = [pubs EXCEPT ![q.id] = @ + 1]
           /\ spent' = spent \union {<<q.dir, q.id>>}
           /\ Goto(r, "clean") /\ UNCHANGED req
  <2>1. PICK t : t = [o EXCEPT !.part = None, !.old = FALSE]
    OBVIOUS
  <2>2. t \in TempState /\ t.meta = o.meta /\ t.chunks = o.chunks
    BY <1>2, <2>1 DEF TempState
  <2>3. Put(q.dir, q.id, t)
    BY <1>6, <2>1 DEF SetPart
  <2>4. "clean" \in PC
    BY DEF PC
  <2>5. /\ pc' \in [Request -> PC] /\ req' \in [Request -> ReqState]
        /\ \A p \in Request \ {r} : SameFor(p)
        /\ req'[r] = q /\ pc'[r] = "clean"
    BY <1>6, <2>4, GotoFacts DEF IInv
  <2>6. /\ temp' \in [Dir -> [FileID -> TempState \union {None}]]
        /\ temp'[q.dir][q.id] = t
        /\ \A e \in Dir, x \in FileID : e # q.dir \/ x # q.id => temp'[e][x] = temp[e][x]
        /\ \A e \in Dir : Active(e)' \subseteq Active(e)
    BY <1>2, <2>2, <2>3, PutFacts DEF IInv
  <2>7. TypeOK'
    <3>1. f \in FileState
      BY <1>2, <1>3 DEF FileState, Copied
    <3>2. files' \in [Dir -> SUBSET FileState]
      BY <1>2, <1>6, <3>1 DEF Renamed, IInv, TypeOK
    <3>3. pubs' \in [FileID -> Nat] /\ spent' \subseteq Dir \X FileID
      BY <1>2, <1>6 DEF IInv, TypeOK
    <3> QED
      BY <1>4, <2>5, <2>6, <3>2, <3>3 DEF PublishFile, IInv, TypeOK
  <2>8. UNCHANGED acked
    BY DEF PublishFile
  <2>9. Local(r)'
    <3>1. Shape("clean", q)
      BY <1>2 DEF Shape, ChunkPlaces, MergePlaces
    <3>2. OnDisk("clean", q, t)
      BY DEF OnDisk, MergePlaces
    <3>3. Uncommitted("clean", q, acked[q.dir][q.id])
      BY DEF Uncommitted, ChunkPlaces
    <3> QED
      BY <2>5, <2>6, <2>8, <3>1, <3>2, <3>3 DEF Local
  <2>10. \A p \in Request : Naming(p)'
    BY <1>3, <2>5 DEF Naming, SameFor
  <2>11. \A p \in Request : Counted(p)'
    BY <2>5, <2>6, CountedKept DEF PublishFile
  <2>12. ActiveFinite' /\ ActiveLimit'
    BY <2>6, LimitKept
  <2>13. AckedKeptFor(q.id)'
    <3>1. \A i \in Index : acked[q.dir][q.id][i] # None =>
            Present(t) /\ t.chunks[i] = acked[q.dir][q.id][i]
      BY <1>2, <2>2, KeptFacts, UploadAssumption DEF Present
    <3>2. PICK id \in FileID : id = q.id
      BY <1>2
    <3>3. AckedKeptFor(id)'
      BY <1>2, <2>2, <2>3, <2>8, <3>1, <3>2, PutKept
    <3> QED
      BY <2>5, <3>2, <3>3 DEF AckedKeptFor
  <2>14. Apart(r) /\ Inside(r)'
    BY <2>5, <2>6, <2>8 DEF Apart, Inside
  <2> QED
    BY <1>1, <2>5, <2>7, <2>9, <2>10, <2>11, <2>12, <2>13, <2>14, CoreStep DEF PublishFile
<1> QED
  BY <1>5, <1>6 DEF PublishFile

-------------------------------------------------------------------------------
(* The three removals on purpose: what was acknowledged is given up. *)
LEMMA RemoveStep ==
  ASSUME IInv, NEW r \in Request, Inside(r), req[r].op # "chunk",
         NEW d \in Dir, NEW ok \in BOOLEAN, RemoveAll(d, req[r].id, ok),
         acked' = [acked EXCEPT ![d][req[r].id] = NoChunks],
         pc' \in [Request -> PC], req' \in [Request -> ReqState],
         \A p \in Request \ {r} : SameFor(p),
         req'[r].id = req[r].id, req'[r].op = req[r].op,
         Shape(pc'[r], req'[r]), pc'[r] \in {"forget", "reply"},
         UNCHANGED <<uploadDir, server, lock, files, cancelAck, stale, pubs, crashes>>
  PROVE  IInv'
<1>1. PICK id \in FileID : id = req[r].id
  BY Own DEF Inside
<1>2. PICK t \in TempState \union {None} :
        Put(d, id, t) /\ (t # None => temp[d][id] # None)
  <2>1. CASE ok
    BY <1>1, <2>1 DEF RemoveAll
  <2>2. CASE ~ ok
    <3>1. PICK t \in Leftovers(d, id) : Put(d, id, t)
      BY <1>1, <2>2 DEF RemoveAll
    <3> QED
      BY <3>1, LeftoverTyped DEF IInv
  <2> QED
    BY <2>1, <2>2
<1>3. /\ temp' \in [Dir -> [FileID -> TempState \union {None}]]
      /\ \A e \in Dir, x \in FileID : e # d \/ x # id => temp'[e][x] = temp[e][x]
      /\ \A e \in Dir : Active(e)' \subseteq Active(e)
  BY <1>2, PutFacts DEF IInv
<1>4. acked \in [Dir -> [FileID -> [Index -> Data \union {None}]]]
  BY DEF IInv, TypeOK
<1>5. PICK a : a = [acked[d] EXCEPT ![id] = NoChunks]
  OBVIOUS
<1>6. acked' = [acked EXCEPT ![d] = a] /\ a \in [FileID -> [Index -> Data \union {None}]]
  BY <1>1, <1>4, <1>5, EmptyTyped
<1>7. /\ acked' \in [Dir -> [FileID -> [Index -> Data \union {None}]]]
      /\ acked'[d][id] = NoChunks
      /\ \A e \in Dir, x \in FileID : e # d \/ x # id => acked'[e][x] = acked[e][x]
  <2>1. acked' \in [Dir -> [FileID -> [Index -> Data \union {None}]]]
    BY <1>4, <1>6
  <2>2. acked'[d] = a /\ a[id] = NoChunks
    BY <1>4, <1>5, <1>6
  <2>3. \A e \in Dir : e # d => acked'[e] = acked[e]
    BY <1>4, <1>6
  <2>4. \A x \in FileID : x # id => a[x] = acked[d][x]
    BY <1>4, <1>5
  <2> QED
    BY <2>1, <2>2, <2>3, <2>4
<1>8. TypeOK'
  <2>1. spent' \subseteq Dir \X FileID
    BY DEF RemoveAll, IInv, TypeOK
  <2> QED
    BY <1>3, <1>7, <2>1 DEF IInv, TypeOK, server
<1>9. Apart(r)
  BY <1>1, <1>3, <1>7 DEF Apart
<1>10. AckedKeptFor(id)'
  <2> SUFFICES ASSUME NEW e \in Dir, NEW i \in Index, acked'[e][id][i] # None
               PROVE  Present(temp'[e][id]) /\ temp'[e][id].chunks[i] = acked'[e][id][i]
    BY DEF AckedKeptFor, HasMeta
  <2>1. e # d
    BY <1>7 DEF NoChunks
  <2>2. acked'[e][id] = acked[e][id] /\ temp'[e][id] = temp[e][id]
    BY <1>3, <1>7, <2>1
  <2> QED
    BY <2>2, KeptFacts
<1>11. Local(r)'
  <2>1. /\ OnDisk(pc'[r], req'[r], temp'[req'[r].dir][req'[r].id])
        /\ Uncommitted(pc'[r], req'[r], acked'[req'[r].dir][req'[r].id])
    BY DEF OnDisk, Uncommitted, ChunkPlaces, MergePlaces
  <2> QED
    BY <2>1 DEF Local
<1>12. AckedKeptFor(req[r].id)'
  BY <1>1, <1>10 DEF AckedKeptFor
<1>13. Inside(r)' /\ pc'[r] \notin {"mkdir", "meta", "name", "rename"}
  BY DEF Inside
<1> QED
  BY <1>3, <1>8, <1>9, <1>11, <1>12, <1>13, InsideStep DEF server

LEMMA CleanStep ==
  ASSUME IInv, NEW r \in Request, Clean(r)
  PROVE  IInv'
<1>1. pc[r] = "clean" /\ Inside(r)
  BY DEF Clean, Inside
<1>2. req[r].op = "complete" /\ req[r].dir \in Dir /\ Shape(pc[r], req[r])
  BY <1>1, Own DEF Shape, MergePlaces
<1>3. PICK ok \in BOOLEAN : RemoveAll(req[r].dir, req[r].id, ok)
  BY DEF Clean
<1>4. PICK q \in ReqState : /\ [req EXCEPT ![r].reply = "ok"] = [req EXCEPT ![r] = q]
                            /\ SameInputs(q, req[r])
  BY AnswerFacts DEF Answers, IInv
<1>5. pc' = [pc EXCEPT ![r] = "forget"] /\ req' = [req EXCEPT ![r] = q] /\ "forget" \in PC
  BY <1>4 DEF Clean, Goto, PC
<1>6. /\ pc' \in [Request -> PC] /\ req' \in [Request -> ReqState]
      /\ pc'[r] = "forget" /\ req'[r] = q
      /\ \A p \in Request \ {r} : SameFor(p)
  BY <1>5, ReqOthers DEF IInv
<1>7. Shape("forget", q)
  BY <1>1, <1>2, <1>4, ShapeKept DEF ChunkPlaces, MergePlaces
<1>8. /\ req'[r].id = req[r].id /\ req'[r].op = req[r].op /\ req[r].op # "chunk"
      /\ Shape(pc'[r], req'[r]) /\ pc'[r] \in {"forget", "reply"}
  BY <1>2, <1>4, <1>6, <1>7 DEF SameInputs
<1>9. /\ acked' = [acked EXCEPT ![req[r].dir][req[r].id] = NoChunks]
      /\ UNCHANGED <<uploadDir, server, lock, files, cancelAck, stale, pubs, crashes>>
  BY DEF Clean
<1> QED
  BY <1>1, <1>2, <1>3, <1>6, <1>8, <1>9, RemoveStep

LEMMA AdmitCancelStep ==
  ASSUME IInv, NEW r \in Request, AdmitCancel(r)
  PROVE  IInv'
<1>1. pc[r] = "admit" /\ req[r].op = "cancel" /\ Inside(r)
  BY DEF AdmitCancel, Inside
<1>2. PICK d \in Dir : d = UploadDirectoryFor(req[r].id, req[r].dir)
  BY <1>1, Own
<1>3. PICK ok \in BOOLEAN :
        /\ RemoveAll(d, req[r].id, ok)
        /\ acked' = [acked EXCEPT ![d][req[r].id] = NoChunks]
        /\ req' = [req EXCEPT ![r].dir = d, ![r].reply = IF ok THEN "ok" ELSE "error"]
        /\ Goto(r, IF ok THEN "forget" ELSE "reply")
  BY <1>2 DEF AdmitCancel
<1>4. PICK s \in {"forget", "reply"} : s = IF ok THEN "forget" ELSE "reply"
  OBVIOUS
<1>5. PICK a \in Answers : a = IF ok THEN "ok" ELSE "error"
  BY DEF Answers
<1>6. PICK q : q = [req[r] EXCEPT !.dir = d, !.reply = a]
  OBVIOUS
<1>7. req[r] \in ReqState /\ Shape(pc[r], req[r])
  BY <1>1, Own
<1>8. q \in ReqState /\ q.id = req[r].id /\ q.op = "cancel" /\ q.dir = d
  BY <1>1, <1>6, <1>7 DEF ReqState, Answers
<1>9. pc' = [pc EXCEPT ![r] = s] /\ req' = [req EXCEPT ![r] = q] /\ s \in PC
  BY <1>3, <1>4, <1>5, <1>6 DEF Goto, IInv, TypeOK, PC
<1>10. /\ pc' \in [Request -> PC] /\ req' \in [Request -> ReqState]
       /\ pc'[r] = s /\ req'[r] = q
       /\ \A p \in Request \ {r} : SameFor(p)
  BY <1>8, <1>9, ReqOthers DEF IInv
<1>11. Shape(s, q)
  BY <1>1, <1>7, <1>8 DEF Shape, ChunkPlaces, MergePlaces
<1>12. /\ req'[r].id = req[r].id /\ req'[r].op = req[r].op /\ req[r].op # "chunk"
       /\ Shape(pc'[r], req'[r]) /\ pc'[r] \in {"forget", "reply"}
  BY <1>1, <1>8, <1>10, <1>11
<1>13. UNCHANGED <<uploadDir, server, lock, files, cancelAck, stale, pubs, crashes>>
  BY DEF AdmitCancel
<1>14. /\ RemoveAll(d, req[r].id, ok)
       /\ acked' = [acked EXCEPT ![d][req[r].id] = NoChunks]
  BY <1>3
<1>15. /\ pc' \in [Request -> PC] /\ req' \in [Request -> ReqState]
       /\ \A p \in Request \ {r} : SameFor(p)
  BY <1>10
<1> QED
  BY <1>1, <1>12, <1>13, <1>14, <1>15, RemoveStep

LEMMA AdmitSweepStep ==
  ASSUME IInv, NEW r \in Request, AdmitSweep(r)
  PROVE  IInv'
<1>1. pc[r] = "admit" /\ req[r].op = "sweep" /\ Inside(r) /\ UNCHANGED req
  BY DEF AdmitSweep, Inside
<1>2. req[r].dir \in Dir /\ Shape(pc[r], req[r])
  BY <1>1, Own
<1>3. ASSUME NEW s \in {"forget", "reply"}, Goto(r, s)
      PROVE  /\ pc' \in [Request -> PC] /\ req' \in [Request -> ReqState]
             /\ \A p \in Request \ {r} : SameFor(p)
             /\ req'[r] = req[r] /\ pc'[r] = s /\ Shape(s, req[r])
  <2>1. s \in PC
    BY DEF PC
  <2>2. Shape(s, req[r])
    BY <1>1, <1>2 DEF Shape, ChunkPlaces, MergePlaces
  <2> QED
    BY <1>1, <1>3, <2>1, <2>2, GotoFacts DEF IInv
<1>4. ASSUME Abandoned(req[r].dir, req[r].id), NEW ok \in BOOLEAN,
             RemoveAll(req[r].dir, req[r].id, ok),
             acked' = GivenUp(req[r].dir, req[r].id),
             Goto(r, IF ok THEN "forget" ELSE "reply")
      PROVE  IInv'
  <2>1. acked' = [acked EXCEPT ![req[r].dir][req[r].id] = NoChunks]
    BY <1>4 DEF Abandoned, GivenUp
  <2>2. PICK s \in {"forget", "reply"} : Goto(r, s)
    BY <1>4
  <2> QED
    BY <1>1, <1>2, <1>3, <1>4, <2>1, <2>2, RemoveStep DEF AdmitSweep
<1>5. ASSUME Goto(r, "reply"), UNCHANGED <<temp, acked, spent>>
      PROVE  IInv'
  <2>1. /\ pc' \in [Request -> PC] /\ req' \in [Request -> ReqState]
        /\ \A p \in Request \ {r} : SameFor(p)
        /\ req'[r] = req[r] /\ pc'[r] = "reply" /\ Shape("reply", req[r])
    BY <1>3, <1>5
  <2>2. TypeOK'
    BY <1>5, <2>1 DEF AdmitSweep, IInv, TypeOK, server
  <2>3. Local(r)'
    BY <1>1, <2>1 DEF Local, OnDisk, Uncommitted, ChunkPlaces, MergePlaces
  <2> QED
    BY <1>1, <1>5, <2>1, <2>2, <2>3, QuietStep DEF AdmitSweep, server, Inside
<1> QED
  BY <1>4, <1>5 DEF AdmitSweep

-------------------------------------------------------------------------------
(* A step that leaves the goroutines, the mutexes and the directories of   *)
(* the uploads alone                                                       *)
LEMMA StableStep ==
  ASSUME IInv, TypeOK',
         UNCHANGED <<lock, uploadMu, uploadStateMu, temp, pc, req, acked>>,
         \A id \in FileID : Cancelled(id)' => Cancelled(id),
         \A d \in Dir : files'[d] \subseteq files[d]
  PROVE  IInv'
<1>1. Holding'
  BY DEF IInv, Holding, Inside
<1>2. ASSUME NEW r \in Request
      PROVE  Local(r)'
  <2>1. Local(r)
    BY DEF IInv
  <2> QED
    BY <2>1 DEF Local, Inside
<1>3. ASSUME NEW r \in Request
      PROVE  Naming(r)'
  <2> SUFFICES ASSUME pc[r] \in {"name", "rename"}
               PROVE  Naming(r)'
    BY DEF Naming
  <2>1. Naming(r) /\ req[r].id \in FileID /\ req[r].dir \in Dir
    BY Own DEF IInv
  <2>2. TakenKeys(req[r].dir)' \subseteq TakenKeys(req[r].dir)
    BY <2>1 DEF TakenKeys
  <2> QED
    BY <2>1, <2>2 DEF Naming
<1>4. \A d \in Dir : Active(d)' = Active(d)
  BY DEF Active
<1>5. ASSUME NEW r \in Request
      PROVE  Counted(r)'
  <2>1. Counted(r)
    BY DEF IInv
  <2> QED
    BY <2>1 DEF Counted, ActiveOthers
<1>6. AckedChunkKept'
  BY DEF IInv, AckedChunkKept, HasMeta
<1> QED
  BY <1>1, <1>2, <1>3, <1>4, <1>5, <1>6, LimitKept DEF IInv

LEMMA ExpireStep ==
  ASSUME IInv, ExpireTombstone
  PROVE  IInv'
<1>1. PICK seq \in Seq(FileID) : seq = cancelledUploads /\ seq # <<>>
  BY DEF IInv, TypeOK, ExpireTombstone
<1>2. /\ Tail(seq) \in Seq(FileID) /\ Len(Tail(seq)) = Len(seq) - 1
      /\ \A k \in 1..Len(Tail(seq)) : Tail(seq)[k] = seq[k + 1]
      /\ Len(seq) \in Nat
  BY <1>1, HeadTailProperties, LenProperties
<1>3. cancelledUploads' = Tail(seq)
  BY <1>1 DEF ExpireTombstone
<1>4. TypeOK'
  <2>1. Len(seq) <= MaxTombs
    BY <1>1 DEF IInv, TypeOK
  <2>2. cancelledUploads' \in Seq(FileID) /\ Len(cancelledUploads') <= MaxTombs
    BY <1>2, <1>3, <2>1, UploadAssumption
  <2> QED
    BY <2>2 DEF ExpireTombstone, IInv, TypeOK, disk
<1>5. \A id \in FileID : Cancelled(id)' => Cancelled(id)
  <2> SUFFICES ASSUME NEW id \in FileID, Cancelled(id)'
               PROVE  Cancelled(id)
    OBVIOUS
  <2>1. PICK k \in 1..Len(Tail(seq)) : id = Tail(seq)[k]
    BY <1>3 DEF Cancelled, Tombstones
  <2>2. k + 1 \in 1..Len(seq) /\ id = seq[k + 1]
    BY <1>2, <2>1
  <2> QED
    BY <1>1, <2>2 DEF Cancelled, Tombstones
<1> QED
  BY <1>4, <1>5, StableStep DEF ExpireTombstone, disk

LEMMA DeleteStep ==
  ASSUME IInv, DeleteFile
  PROVE  IInv'
<1>1. PICK d \in Dir : \E f \in files[d] : files' = [files EXCEPT ![d] = @ \ {f}]
  BY DEF DeleteFile
<1>2. files \in [Dir -> SUBSET FileState]
  BY DEF IInv, TypeOK
<1>3. files' \in [Dir -> SUBSET FileState] /\ \A e \in Dir : files'[e] \subseteq files[e]
  BY <1>1, <1>2
<1>4. TypeOK'
  BY <1>3 DEF DeleteFile, IInv, TypeOK, server, history
<1>5. \A id \in FileID : Cancelled(id)' => Cancelled(id)
  BY DEF DeleteFile, server, Cancelled
<1> QED
  BY <1>3, <1>4, <1>5, StableStep DEF DeleteFile, server, history

LEMMA SwitchStep ==
  ASSUME IInv, SetUploadDir
  PROVE  IInv'
<1>1. TypeOK'
  BY DEF SetUploadDir, IInv, TypeOK, server, disk, history
<1>2. \A id \in FileID : Cancelled(id)' => Cancelled(id)
  BY DEF SetUploadDir, server, Cancelled
<1> QED
  BY <1>1, <1>2, StableStep DEF SetUploadDir, server, disk, history

LEMMA IdleStep ==
  ASSUME IInv, UNCHANGED vars
  PROVE  IInv'
<1>1. TypeOK'
  BY DEF vars, IInv, TypeOK, server, disk, history
<1>2. \A id \in FileID : Cancelled(id)' => Cancelled(id)
  BY DEF vars, server, Cancelled
<1> QED
  BY <1>1, <1>2, StableStep DEF vars, server, disk, history

LEMMA AgeStep ==
  ASSUME IInv, Age
  PROVE  IInv'
<1>1. PICK d \in Dir, id \in FileID :
        temp[d][id] # None /\ Put(d, id, [temp[d][id] EXCEPT !.old = TRUE])
  BY DEF Age
<1>2. PICK o \in TempState : o = temp[d][id]
  BY <1>1 DEF IInv, TypeOK
<1>3. PICK t : t = [o EXCEPT !.old = TRUE]
  OBVIOUS
<1>4. t \in TempState /\ t.meta = o.meta /\ t.chunks = o.chunks /\ t.part = o.part
  BY <1>2, <1>3 DEF TempState
<1>5. t # None /\ o # None /\ Put(d, id, t)
  BY <1>1, <1>2, <1>3, <1>4, UploadAssumption
<1>6. /\ temp' \in [Dir -> [FileID -> TempState \union {None}]]
      /\ temp'[d][id] = t
      /\ \A e \in Dir, x \in FileID : e # d \/ x # id => temp'[e][x] = temp[e][x]
      /\ \A e \in Dir : Active(e)' \subseteq Active(e)
  BY <1>2, <1>4, <1>5, PutFacts DEF IInv
<1>7. UNCHANGED <<uploadDir, server, lock, files, pc, req, history, crashes>>
  BY DEF Age
<1>8. TypeOK'
  BY <1>6, <1>7 DEF IInv, TypeOK, server, history
<1>9. Holding'
  BY <1>7 DEF IInv, Holding, Inside
<1>10. ASSUME NEW r \in Request
       PROVE  Local(r)'
  <2>1. Local(r)
    BY DEF IInv
  <2>2. CASE ~ Inside(r)
    BY <1>7, <2>1, <2>2 DEF Local, Inside
  <2>3. CASE Inside(r)
    <3>1. PICK e \in Dir, x \in FileID : e = req[r].dir /\ x = req[r].id
      BY <2>3, Own DEF Inside
    <3>2. OnDisk(pc[r], req[r], temp[e][x]) => OnDisk(pc[r], req[r], temp'[e][x])
      <4>1. CASE e = d /\ x = id
        <5>1. OnDisk(pc[r], req[r], o) => OnDisk(pc[r], req[r], t)
          BY <1>4, <1>5 DEF OnDisk, Present, AllChunks, Copied
        <5> QED
          BY <1>2, <1>6, <4>1, <5>1
      <4>2. CASE e # d \/ x # id
        BY <1>6, <4>2
      <4> QED
        BY <4>1, <4>2
    <3> QED
      BY <1>7, <2>1, <2>3, <3>1, <3>2 DEF Local, Inside, history
  <2> QED
    BY <2>2, <2>3
<1>11. ASSUME NEW r \in Request
       PROVE  Naming(r)'
  <2>1. Naming(r)
    BY DEF IInv
  <2> QED
    BY <1>7, <2>1 DEF Naming, Cancelled, TakenKeys, server
<1>12. ASSUME NEW r \in Request
       PROVE  Counted(r)'
  <2>1. Counted(r)
    BY DEF IInv
  <2>2. ASSUME pc[r] = "mkdir"
        PROVE  ActiveOthers(req[r].dir, req[r].id)' = ActiveOthers(req[r].dir, req[r].id)
    <3>1. req[r].dir \in Dir
      BY <2>2, Own
    <3>2. \A x \in FileID : temp'[req[r].dir][x] # None <=> temp[req[r].dir][x] # None
      BY <1>2, <1>5, <1>6, <3>1
    <3> QED
      BY <1>7, <3>2 DEF ActiveOthers
  <2> QED
    BY <1>7, <2>1, <2>2 DEF Counted, server
<1>13. AckedChunkKept'
  <2> SUFFICES ASSUME NEW e \in Dir, NEW x \in FileID, NEW i \in Index, acked[e][x][i] # None
               PROVE  Present(temp'[e][x]) /\ temp'[e][x].chunks[i] = acked[e][x][i]
    BY <1>7 DEF AckedChunkKept, HasMeta, history
  <2>1. Present(temp[e][x]) /\ temp[e][x].chunks[i] = acked[e][x][i]
    BY KeptFacts
  <2>2. CASE e = d /\ x = id
    BY <1>2, <1>4, <1>5, <1>6, <2>1, <2>2 DEF Present
  <2>3. CASE e # d \/ x # id
    BY <1>6, <2>1, <2>3
  <2> QED
    BY <2>2, <2>3
<1> QED
  BY <1>6, <1>8, <1>9, <1>10, <1>11, <1>12, <1>13, LimitKept DEF IInv

(* All goroutines are idle. *)
LEMMA NobodyIn ==
  ASSUME pc = [r \in Request |-> "idle"], req = [r \in Request |-> NoReq]
  PROVE  Holding /\ \A r \in Request : Local(r) /\ Naming(r) /\ Counted(r)
BY DEF Holding, Local, Naming, Counted, Inside, Shape, NoReq, ChunkPlaces, MergePlaces

LEMMA CrashStep ==
  ASSUME IInv, Crash
  PROVE  IInv'
<1>1. TypeOK'
  <2>1. <<>> \in Seq(FileID) /\ Len(<<>>) <= MaxTombs
    BY UploadAssumption
  <2>2. crashes' \in 0..MaxCrashes
    BY UploadAssumption DEF Crash, IInv, TypeOK
  <2>3. /\ lock' \in [FileID -> Request \union {None}]
        /\ uploadDirectories' \in [FileID -> Dir \union {None}]
        /\ pc' \in [Request -> PC] /\ req' \in [Request -> ReqState]
    BY NoReqTyped DEF Crash, PC
  <2> QED
    BY <2>1, <2>2, <2>3 DEF Crash, IInv, TypeOK, disk
<1>2. (Holding /\ \A r \in Request : Local(r) /\ Naming(r) /\ Counted(r))'
  BY NobodyIn DEF Crash, Holding, Local, Naming, Counted, Inside, Shape, NoReq,
     ChunkPlaces, MergePlaces
<1>3. UNCHANGED <<temp, acked>>
  BY DEF Crash, disk
<1>4. AckedChunkKept'
  BY <1>3 DEF IInv, AckedChunkKept, HasMeta
<1>5. \A d \in Dir : Active(d)' \subseteq Active(d)
  BY <1>3 DEF Active
<1> QED
  BY <1>1, <1>2, <1>4, <1>5, LimitKept DEF IInv

LEMMA InitStep == Init => IInv
<1> SUFFICES ASSUME Init
             PROVE  IInv
  OBVIOUS
<1>1. TypeOK
  <2>1. <<>> \in Seq(FileID) /\ Len(<<>>) <= MaxTombs
    BY UploadAssumption
  <2>2. /\ lock \in [FileID -> Request \union {None}]
        /\ uploadDirectories \in [FileID -> Dir \union {None}]
        /\ pc \in [Request -> PC] /\ req \in [Request -> ReqState]
    BY NoReqTyped DEF Init, PC
  <2>3. /\ temp \in [Dir -> [FileID -> TempState \union {None}]]
        /\ acked \in [Dir -> [FileID -> [Index -> Data \union {None}]]]
        /\ files \in [Dir -> SUBSET FileState] /\ pubs \in [FileID -> Nat]
    BY EmptyTyped DEF Init
  <2> QED
    BY <2>1, <2>2, <2>3, UploadAssumption DEF Init, TypeOK
<1>2. Holding /\ \A r \in Request : Local(r) /\ Naming(r) /\ Counted(r)
  BY NobodyIn DEF Init
<1>3. AckedChunkKept
  BY DEF Init, AckedChunkKept, NoChunks
<1>4. \A d \in Dir : Active(d) = {}
  BY DEF Init, Active
<1>5. ActiveFinite /\ ActiveLimit
  <2>1. \A d \in Dir : IsFiniteSet(Active(d)) /\ Cardinality(Active(d)) = 0
    BY <1>4, FS_EmptySet
  <2>2. \A d \in Dir : Cardinality(Active(d)) <= MaxActive
    BY <2>1, UploadAssumption
  <2> QED
    BY <2>1, <2>2 DEF ActiveFinite, ActiveLimit, Active
<1> QED
  BY <1>1, <1>2, <1>3, <1>5 DEF IInv

-------------------------------------------------------------------------------
LEMMA ServeStep ==
  ASSUME IInv, NEW r \in Request, Serve(r)
  PROVE  IInv'
<1>1. CASE ChunkStep(r)
  BY <1>1, AdmitChunkStep, ReserveStep, CountStep, MakeTempStep, WriteMetaStep, StoreStep,
     UndoStep DEF ChunkStep
<1>2. CASE CompleteStep(r)
  BY <1>2, AdmitCompleteStep, CreatePartStep, MergeChunkStep, SealStep, TakeUploadMuStep, PickNameStep,
     PublishFileStep, CleanStep DEF CompleteStep
<1>3. CASE Mark(r) \/ LockUpload(r) \/ AdmitCancel(r) \/ AdmitSweep(r) \/ Forget(r) \/ Reply(r)
  BY <1>3, MarkStep, LockStep, AdmitCancelStep, AdmitSweepStep, ForgetStep, ReplyStep
<1> QED
  BY <1>1, <1>2, <1>3 DEF Serve

LEMMA NextStep == IInv /\ [Next]_vars => IInv'
<1> SUFFICES ASSUME IInv, [Next]_vars
             PROVE  IInv'
  OBVIOUS
<1>1. ASSUME NEW r \in Request, Arrive(r) \/ Sweeper(r) \/ Serve(r)
      PROVE  IInv'
  BY <1>1, ArriveStep, SweeperStep, ServeStep
<1>2. CASE World
  BY <1>2, SwitchStep, ExpireStep, AgeStep, DeleteStep, CrashStep DEF World
<1>3. CASE UNCHANGED vars
  BY <1>3, IdleStep
<1> QED
  BY <1>1, <1>2, <1>3 DEF Next

(* IInv is inductive: in every reachable state the goroutine that holds a  *)
(* file_id's mutex alone knows its upload's directory, what it found there *)
(* is still so, and the two global mutexes protect what was checked under  *)
(* them (upload.go:230-266, 499-684, 766-948).                             *)
THEOREM Invariance == Spec => []IInv
<1>1. Init => IInv
  BY InitStep
<1>2. IInv /\ [Next]_vars => IInv'
  BY NextStep
<1> QED
  BY <1>1, <1>2, PTL DEF Spec

(* Every registry, program counter, request and directory keeps its type;  *)
(* the tombstones never exceed maxCancelledUploadTombstones                *)
(* (upload.go:111-158).                                                    *)
THEOREM Typing == Spec => []TypeOK
<1>1. IInv => TypeOK
  BY DEF IInv
<1> QED
  BY <1>1, Invariance, PTL

(* No rollback, duplicate, conflicting request, failed merge or restart    *)
(* loses or replaces a chunk that was answered with "ok"                   *)
(* (upload.go:557-567, 652-684, 921-929).                                  *)
THEOREM AckedKept == Spec => []AckedChunkKept
<1>1. IInv => AckedChunkKept
  BY DEF IInv
<1> QED
  BY <1>1, Invariance, PTL

(* No interleaving of first chunks creates more than maxActiveUploads      *)
(* upload directories in a directory (upload.go:589-620).                  *)
THEOREM Limited == Spec => []ActiveLimit
<1>1. IInv => ActiveLimit
  BY DEF IInv
<1> QED
  BY <1>1, Invariance, PTL

-------------------------------------------------------------------------------
(* Only PublishFile and DeleteFile touch the finished files, and only      *)
(* PublishFile counts a publication.                                       *)
LEMMA OnlyPublish ==
  ASSUME [Next]_vars
  PROVE  \/ UNCHANGED <<files, pubs>>
         \/ DeleteFile
         \/ \E r \in Request : PublishFile(r)
<1>1. ASSUME NEW r \in Request, Arrive(r) \/ Sweeper(r)
      PROVE  UNCHANGED <<files, pubs>>
  BY <1>1 DEF Arrive, Sweeper, BeginChunk, BeginComplete, BeginCancel, BeginSweep, Begin,
     disk, history
<1>2. ASSUME NEW r \in Request, ChunkStep(r)
      PROVE  UNCHANGED <<files, pubs>>
  BY <1>2 DEF ChunkStep, AdmitChunk, ReserveChunk, CountActive, MakeTemp, WriteMeta,
     StoreChunk, Undo, disk, history
<1>3. ASSUME NEW r \in Request, CompleteStep(r), ~ PublishFile(r)
      PROVE  UNCHANGED <<files, pubs>>
  BY <1>3 DEF CompleteStep, AdmitComplete, CreatePart, MergeChunk, Seal, TakeUploadMu, PickName, Clean,
     disk, history
<1>4. ASSUME NEW r \in Request,
             Mark(r) \/ LockUpload(r) \/ AdmitCancel(r) \/ AdmitSweep(r) \/ Forget(r) \/ Reply(r)
      PROVE  UNCHANGED <<files, pubs>>
  BY <1>4 DEF Mark, LockUpload, AdmitCancel, AdmitSweep, Forget, Reply, disk, history
<1>5. ASSUME World, ~ DeleteFile
      PROVE  UNCHANGED <<files, pubs>>
  BY <1>5 DEF World, SetUploadDir, ExpireTombstone, Age, Crash, disk, history
<1>6. ASSUME UNCHANGED vars
      PROVE  UNCHANGED <<files, pubs>>
  BY <1>6 DEF vars, disk, history
<1> QED
  BY <1>1, <1>2, <1>3, <1>4, <1>5, <1>6 DEF Next, Serve

(* What a goroutine that is about to rename knows: the name is free, no    *)
(* tombstone is there and the merge is complete.                           *)
LEMMA PublishFacts ==
  ASSUME IInv, NEW r \in Request, PublishFile(r), ~ UNCHANGED <<files, pubs>>
  PROVE  LET q == req[r]
             o == temp[q.dir][q.id]
             f == [key |-> q.key, id |-> q.id, meta |-> q.meta, content |-> o.part]
         IN  /\ q.dir \in Dir /\ q.id \in FileID /\ q.meta \in Meta
             /\ o \in TempState /\ Copied(o) /\ Present(o)
             /\ Len(o.part) = q.meta.total /\ ContentSize(o.part) = q.meta.size
             /\ ~ Cancelled(q.id) /\ q.key \notin TakenKeys(q.dir)
             /\ files' = Renamed(q.dir, f)
             /\ pubs' = [pubs EXCEPT ![q.id] = @ + 1]
             /\ UNCHANGED <<acked, cancelledUploads>>
<1>1. pc[r] = "rename" /\ pc[r] \in MergePlaces
  BY DEF PublishFile, MergePlaces
<1>2. Naming(r)
  BY DEF IInv
<1> QED
  BY <1>1, <1>2, MergeFacts DEF PublishFile, Naming, OnDisk

(* Renaming to a free name adds one file and keeps the others.             *)
LEMMA RenamedFacts ==
  ASSUME TypeOK, NEW d \in Dir, NEW f, f.key \notin TakenKeys(d), files' = Renamed(d, f)
  PROVE  /\ files'[d] = files[d] \union {f}
         /\ \A e \in Dir \ {d} : files'[e] = files[e]
<1>1. {g \in files[d] : g.key # f.key} = files[d]
  BY DEF TakenKeys
<1>2. files \in [Dir -> SUBSET FileState]
  BY DEF TypeOK
<1> QED
  BY <1>1, <1>2 DEF Renamed

(* A finished file only goes by being deleted: two uploads that finish     *)
(* under one name at the same time get different names                     *)
(* (upload.go:243-266, 1265).                                              *)
THEOREM NeverOverwritten == Spec => NoOverwrite
<1>1. ASSUME IInv, [Next]_vars
      PROVE  \A d \in Dir : files[d] \subseteq files'[d]
                \/ \E f \in files[d] : files'[d] = files[d] \ {f}
  <2>1. CASE UNCHANGED <<files, pubs>>
    BY <2>1
  <2>2. CASE DeleteFile
    <3>1. PICK d \in Dir : \E f \in files[d] : files' = [files EXCEPT ![d] = @ \ {f}]
      BY <2>2 DEF DeleteFile
    <3>2. files \in [Dir -> SUBSET FileState]
      BY <1>1 DEF IInv, TypeOK
    <3> QED
      BY <3>1, <3>2
  <2>3. ASSUME NEW r \in Request, PublishFile(r), ~ UNCHANGED <<files, pubs>>
        PROVE  \A d \in Dir : files[d] \subseteq files'[d]
    <3>1. PICK f : /\ req[r].dir \in Dir /\ f.key \notin TakenKeys(req[r].dir)
                   /\ files' = Renamed(req[r].dir, f)
      BY <1>1, <2>3, PublishFacts
    <3> QED
      BY <1>1, <3>1, RenamedFacts DEF IInv
  <2> QED
    BY <1>1, <2>1, <2>2, <2>3, OnlyPublish
<1>2. IInv /\ [Next]_vars =>
        [\A d \in Dir : files[d] \subseteq files'[d]
            \/ \E f \in files[d] : files'[d] = files[d] \ {f}]_vars
  BY <1>1
<1> QED
  BY <1>2, Invariance, PTL DEF Spec, NoOverwrite

(* Nothing is published while the tombstone of its file_id is there: the   *)
(* check and the rename are one with respect to a cancellation             *)
(* (upload.go:243-266).                                                    *)
THEOREM CancelOrdered == Spec => CancelOrdersPublish
<1>1. ASSUME IInv, [Next]_vars, NEW id \in FileID, pubs'[id] # pubs[id]
      PROVE  ~ Cancelled(id)
  <2>1. PICK r \in Request : PublishFile(r) /\ ~ UNCHANGED <<files, pubs>>
    BY <1>1, OnlyPublish DEF DeleteFile, history
  <2>2. /\ req[r].id \in FileID /\ ~ Cancelled(req[r].id)
        /\ pubs' = [pubs EXCEPT ![req[r].id] = @ + 1]
    BY <1>1, <2>1, PublishFacts
  <2>3. id = req[r].id
    BY <1>1, <2>2 DEF IInv, TypeOK
  <2> QED
    BY <2>2, <2>3
<1>2. IInv /\ [Next]_vars =>
        [\A id \in FileID : pubs'[id] # pubs[id] => ~ Cancelled(id)]_vars
  BY <1>1
<1> QED
  BY <1>2, Invariance, PTL DEF Spec, CancelOrdersPublish

(* A published file is exactly the declared chunks, of the declared size,  *)
(* each the chunk that was acknowledged for its index                      *)
(* (upload.go:837-859, 872-919).                                           *)
THEOREM PublishedComplete == Spec => PublishedWhole
<1>1. ASSUME IInv, [Next]_vars, NEW d \in Dir, NEW f \in files'[d] \ files[d]
      PROVE  Whole(d, f)
  <2>1. PICK r \in Request : PublishFile(r) /\ ~ UNCHANGED <<files, pubs>>
    <3>1. ~ UNCHANGED <<files, pubs>> /\ ~ DeleteFile
      BY <1>1 DEF DeleteFile, IInv, TypeOK
    <3> QED
      BY <1>1, <3>1, OnlyPublish
  <2> DEFINE q == req[r]
             o == temp[q.dir][q.id]
  <2>2. PICK g : g = [key |-> q.key, id |-> q.id, meta |-> q.meta, content |-> o.part]
    OBVIOUS
  <2>3. /\ q.dir \in Dir /\ q.id \in FileID /\ q.meta \in Meta
        /\ Copied(o) /\ Present(o) /\ o \in TempState
        /\ Len(o.part) = q.meta.total /\ ContentSize(o.part) = q.meta.size
        /\ q.key \notin TakenKeys(q.dir) /\ files' = Renamed(q.dir, g)
    BY <1>1, <2>1, <2>2, PublishFacts
  <2>4. d = q.dir /\ f = g
    <3>1. g.key \notin TakenKeys(q.dir)
      BY <2>2, <2>3
    <3>2. /\ files'[q.dir] = files[q.dir] \union {g}
          /\ \A e \in Dir \ {q.dir} : files'[e] = files[e]
      BY <1>1, <2>3, <3>1, RenamedFacts DEF IInv
    <3> QED
      BY <1>1, <3>2
  <2>5. ASSUME NEW k \in 1..f.meta.total
        PROVE  acked[d][f.id][k - 1] \in {None, f.content[k]}
    <3>1. k \in 1..Len(o.part) /\ f.id = q.id /\ f.content = o.part
      BY <2>2, <2>3, <2>4, <2>5
    <3>2. k - 1 \in Index /\ o.part[k] = o.chunks[k - 1]
      BY <2>3, <3>1 DEF Copied
    <3>3. acked[d][q.id][k - 1] # None => o.chunks[k - 1] = acked[d][q.id][k - 1]
      BY <1>1, <2>3, <2>4, <3>2, KeptFacts
    <3> QED
      BY <3>1, <3>2, <3>3
  <2> QED
    BY <2>2, <2>3, <2>4, <2>5 DEF Whole
<1>2. IInv /\ [Next]_vars =>
        [\A d \in Dir : \A f \in files'[d] \ files[d] : Whole(d, f)]_vars
  BY <1>1
<1> QED
  BY <1>2, Invariance, PTL DEF Spec, PublishedWhole

-------------------------------------------------------------------------------
(* Who waits for whom                                                      *)

(* The holder of the mutex that r's next step takes, or None if r need not *)
(* wait: that of the file_id, uploadStateMu, or uploadMu, under which all  *)
(* sections of the registries are.                                         *)
WaitsFor(r) ==
  CASE pc[r] = "lock" -> lock[req[r].id]
    [] pc[r] = "count" -> uploadStateMu
    [] \/ pc[r] \in {"mark", "forget", "merge", "publish"}
       \/ pc[r] = "admit" /\ req[r].op # "sweep" -> uploadMu
    [] OTHER -> None

(* A goroutine that serves a request and waits for nobody                  *)
Proceeds(r) == r \in Request /\ pc[r] # "idle" /\ WaitsFor(r) = None

(* Who waits for the mutex of a file_id may wait for a goroutine that      *)
(* waits itself, but never for one of a longer queue.                      *)
NoCircularWait ==
  \A r \in Request :
    pc[r] # "idle" =>
      Proceeds(r) \/ Proceeds(WaitsFor(r)) \/ Proceeds(WaitsFor(WaitsFor(r)))

(* Each mutex is held by a goroutine that is where it is held.             *)
KeptBy(id) == lock[id] # None => Inside(lock[id]) /\ req[lock[id]].id = id

Keepers ==
  /\ \A id \in FileID : KeptBy(id)
  /\ uploadMu # None => pc[uploadMu] \in {"name", "rename"}
  /\ uploadStateMu # None => pc[uploadStateMu] \in {"mkdir", "meta"}

(* A step inside: r stays inside with its file_id, and where it was        *)
(* between the lock and the unlock of one of the two global mutexes it     *)
(* gives that back.                                                        *)
Onward(r) ==
  /\ UNCHANGED lock
  /\ \A p \in Request \ {r} : SameFor(p)
  /\ Inside(r)' /\ req'[r].id = req[r].id
  /\ \/ uploadMu' = None
     \/ uploadMu' = uploadMu /\ pc[r] \notin {"name", "rename"}
     \/ (uploadMu' = r \/ uploadMu' = uploadMu) /\ pc'[r] \in {"name", "rename"}
  /\ \/ uploadStateMu' = None
     \/ uploadStateMu' = uploadStateMu /\ pc[r] \notin {"mkdir", "meta"}
     \/ (uploadStateMu' = r \/ uploadStateMu' = uploadStateMu) /\ pc'[r] \in {"mkdir", "meta"}

LEMMA OnwardKeeps ==
  ASSUME IInv, Keepers, NEW r \in Request, Inside(r), Onward(r)
  PROVE  Keepers'
<1>1. ASSUME NEW id \in FileID
      PROVE  KeptBy(id)'
  BY DEF Keepers, KeptBy, Onward, SameFor, Inside, IInv, TypeOK
<1>2. uploadMu' # None => pc'[uploadMu'] \in {"name", "rename"}
  BY DEF Keepers, Onward, SameFor, IInv, TypeOK
<1>3. uploadStateMu' # None => pc'[uploadStateMu'] \in {"mkdir", "meta"}
  BY DEF Keepers, Onward, SameFor, IInv, TypeOK
<1>. QED BY <1>1, <1>2, <1>3 DEF Keepers

(* Every step inside but the last goes on.                                 *)
LEMMA ChunkOnward ==
  ASSUME IInv, NEW r \in Request, ChunkStep(r)
  PROVE  Inside(r) /\ Onward(r)
<1>. TypeOK /\ req[r] \in ReqState
  BY DEF IInv, TypeOK
<1>1. CASE AdmitChunk(r)
  <2>1. PICK d : d = UploadDirectoryFor(req[r].id, req[r].dir)
    OBVIOUS
  <2>2. PICK b : b = ~ HasMeta(d, req[r].id)
    OBVIOUS
  <2>3. pc[r] = "admit" /\ UNCHANGED <<lock, uploadMu, uploadStateMu>>
    BY <1>1 DEF AdmitChunk
  <2>4. CASE Finish(r, "cancelled")
    BY <2>3, <2>4, FinishFacts DEF Onward, Inside, SameInputs, Answers
  <2>5. CASE /\ req' = [req EXCEPT ![r].dir = d, ![r].reply = "conflict"]
             /\ Goto(r, "reply")
    BY <2>3, <2>5 DEF Goto, Onward, Inside, SameFor, TypeOK, ReqState
  <2>6. CASE /\ req' = [req EXCEPT ![r].dir = d, ![r].fresh = b]
             /\ Goto(r, "reserve")
    BY <2>3, <2>6 DEF Goto, Onward, Inside, SameFor, TypeOK, ReqState
  <2>. QED BY <1>1, <2>1, <2>2, <2>3, <2>4, <2>5, <2>6 DEF AdmitChunk, Inside
<1>2. CASE ReserveChunk(r)
  <2>1. CASE Goto(r, IF req[r].fresh THEN "count" ELSE "store") /\ UNCHANGED req
    BY <1>2, <2>1 DEF ReserveChunk, Goto, Onward, Inside, SameFor, server, TypeOK
  <2>2. CASE Rollback(r, "nospace")
    BY <1>2, <2>2, RollbackFacts DEF ReserveChunk, Onward, Inside, server, SameInputs, Answers
  <2>. QED BY <1>2, <2>1, <2>2 DEF ReserveChunk
<1>3. CASE CountActive(r)
  <2>1. CASE Goto(r, "mkdir") /\ UNCHANGED req /\ uploadStateMu' = r
    BY <1>3, <2>1 DEF CountActive, Goto, Onward, Inside, SameFor, TypeOK
  <2>2. CASE (\E a \in {"toomany", "error"} : Rollback(r, a)) /\ UNCHANGED uploadStateMu
    BY <1>3, <2>2, RollbackFacts DEF CountActive, Onward, Inside, SameInputs, Answers
  <2>. QED BY <1>3, <2>1, <2>2 DEF CountActive
<1>4. CASE MakeTemp(r)
  <2>1. CASE /\ req' = [req EXCEPT ![r].made = TRUE]
             /\ Goto(r, "meta") /\ UNCHANGED uploadStateMu
    BY <1>4, <2>1 DEF MakeTemp, Goto, Onward, Inside, SameFor, TypeOK, ReqState
  <2>2. CASE Rollback(r, "error") /\ uploadStateMu' = None
    BY <1>4, <2>2, RollbackFacts DEF MakeTemp, Onward, Inside, SameInputs, Answers
  <2>. QED BY <1>4, <2>1, <2>2 DEF MakeTemp
<1>5. CASE WriteMeta(r)
  <2>1. CASE Goto(r, "store") /\ UNCHANGED req
    BY <1>5, <2>1 DEF WriteMeta, Goto, Onward, Inside, SameFor, TypeOK
  <2>2. CASE Rollback(r, "error")
    BY <1>5, <2>2, RollbackFacts DEF WriteMeta, Onward, Inside, SameInputs, Answers
  <2>. QED BY <1>5, <2>1, <2>2 DEF WriteMeta
<1>6. CASE StoreChunk(r)
  <2>1. CASE Finish(r, "ok")
    BY <1>6, <2>1, FinishFacts DEF StoreChunk, Onward, Inside, server, SameInputs, Answers
  <2>2. CASE \E a \in {"ok", "conflict", "error"} : Rollback(r, a)
    BY <1>6, <2>2, RollbackFacts DEF StoreChunk, Onward, Inside, server, SameInputs, Answers
  <2>. QED BY <1>6, <2>1, <2>2 DEF StoreChunk
<1>7. CASE Undo(r)
  BY <1>7 DEF Undo, Goto, Onward, Inside, SameFor, TypeOK, server
<1>. QED BY <1>1, <1>2, <1>3, <1>4, <1>5, <1>6, <1>7 DEF ChunkStep

LEMMA AbortOnward ==
  ASSUME IInv, NEW r \in Request, Inside(r), NEW a \in Answers, AbortMerge(r, a),
         UNCHANGED <<lock, uploadStateMu>>, pc[r] \notin {"mkdir", "meta"},
         uploadMu' = None \/ (uploadMu' = uploadMu /\ pc[r] \notin {"name", "rename"})
  PROVE  Onward(r)
BY FinishFacts DEF AbortMerge, IInv, Onward, Inside, SameInputs

LEMMA CompleteOnward ==
  ASSUME IInv, NEW r \in Request, CompleteStep(r)
  PROVE  Inside(r) /\ Onward(r)
<1>. TypeOK /\ req[r] \in ReqState
  BY DEF IInv, TypeOK
<1>1. CASE AdmitComplete(r)
  <2>1. PICK d, t : /\ d = UploadDirectoryFor(req[r].id, req[r].dir)
                    /\ t = temp[d][req[r].id]
    OBVIOUS
  <2>2. CASE \E a \in Answers : Finish(r, a)
    BY <1>1, <2>2, FinishFacts DEF AdmitComplete, Onward, Inside, SameInputs, server
  <2>3. CASE req' = [req EXCEPT ![r].dir = d] /\ Goto(r, "part")
    BY <1>1, <2>3 DEF AdmitComplete, Goto, Onward, Inside, SameFor, TypeOK, ReqState, server
  <2>4. {"cancelled", "conflict"} \subseteq Answers /\ Refusal(t, req[r].meta) \in Answers
    BY DEF Answers, Refusal
  <2>. QED BY <1>1, <2>1, <2>2, <2>3, <2>4 DEF AdmitComplete
<1>2. CASE CreatePart(r)
  <2>1. CASE req' = [req EXCEPT ![r].next = 0] /\ Goto(r, "merge")
    BY <1>2, <2>1 DEF CreatePart, Goto, Onward, Inside, SameFor, TypeOK, ReqState, server
  <2>2. CASE AbortMerge(r, "nospace")
    BY <1>2, <2>2, AbortOnward DEF CreatePart, Inside, server, Answers
  <2>. QED BY <1>2, <2>1, <2>2 DEF CreatePart
<1>3. CASE MergeChunk(r)
  <2>1. CASE req' = [req EXCEPT ![r].next = req[r].next + 1] /\ UNCHANGED pc
    BY <1>3, <2>1 DEF MergeChunk, Onward, Inside, SameFor, TypeOK, ReqState, server
  <2>2. CASE \E a \in {"cancelled", "error"} : AbortMerge(r, a)
    BY <1>3, <2>2, AbortOnward DEF MergeChunk, Inside, server, Answers
  <2>. QED BY <1>3, <2>1, <2>2 DEF MergeChunk
<1>4. CASE Seal(r)
  <2>1. CASE Goto(r, "publish") /\ UNCHANGED req
    BY <1>4, <2>1 DEF Seal, Goto, Onward, Inside, SameFor, TypeOK, server
  <2>2. CASE \E a \in {"cancelled", "error"} : AbortMerge(r, a)
    BY <1>4, <2>2, AbortOnward DEF Seal, Inside, server, Answers
  <2>. QED BY <1>4, <2>1, <2>2 DEF Seal
<1>5. CASE TakeUploadMu(r)
  <2>1. CASE /\ uploadMu' = r /\ Goto(r, "name")
             /\ \E key : req' = [req EXCEPT ![r].key = key]
    BY <1>5, <2>1 DEF TakeUploadMu, Goto, Onward, Inside, SameFor, TypeOK, ReqState
  <2>2. CASE AbortMerge(r, "cancelled") /\ UNCHANGED uploadMu
    BY <1>5, <2>2, AbortOnward DEF TakeUploadMu, Inside, Answers
  <2>. QED BY <1>5, <2>1, <2>2 DEF TakeUploadMu
<1>8. CASE PickName(r)
  <2>1. pc[r] = "name" /\ UNCHANGED <<lock, uploadMu, uploadStateMu>>
    BY <1>8 DEF PickName, server
  <2>2. CASE Goto(r, "rename") /\ UNCHANGED req
    BY <2>1, <2>2 DEF Goto, Onward, Inside, SameFor, TypeOK
  <2>3. CASE (\E key : req' = [req EXCEPT ![r].key = key]) /\ UNCHANGED pc
    BY <2>1, <2>3 DEF Onward, Inside, SameFor, TypeOK, ReqState
  <2>. QED BY <1>8, <2>1, <2>2, <2>3 DEF PickName, Inside
<1>6. CASE PublishFile(r)
  <2>1. CASE Goto(r, "clean") /\ UNCHANGED req
    BY <1>6, <2>1 DEF PublishFile, Goto, Onward, Inside, SameFor, TypeOK
  <2>2. CASE AbortMerge(r, "error")
    <3>1. /\ pc[r] = "rename" /\ uploadMu' = None /\ UNCHANGED <<lock, uploadStateMu>>
          /\ pc[r] \notin {"mkdir", "meta"} /\ Inside(r)
      BY <1>6 DEF PublishFile, Inside
    <3>2. PICK a \in Answers : AbortMerge(r, a)
      BY <2>2 DEF Answers
    <3>. QED BY <3>1, <3>2, AbortOnward
  <2>. QED BY <1>6, <2>1, <2>2 DEF PublishFile
<1>7. CASE Clean(r)
  BY <1>7 DEF Clean, Goto, Onward, Inside, SameFor, TypeOK, ReqState, server
<1>. QED BY <1>1, <1>2, <1>3, <1>4, <1>5, <1>6, <1>7, <1>8 DEF CompleteStep

LEMMA OtherOnward ==
  ASSUME IInv, NEW r \in Request, AdmitCancel(r) \/ AdmitSweep(r) \/ Forget(r)
  PROVE  Inside(r) /\ Onward(r)
<1>. TypeOK /\ req[r] \in ReqState
  BY DEF IInv, TypeOK
<1>1. CASE AdmitCancel(r)
  <2>1. PICK d : d = UploadDirectoryFor(req[r].id, req[r].dir)
    OBVIOUS
  <2>2. pc[r] = "admit" /\ UNCHANGED <<lock, uploadMu, uploadStateMu>>
    BY <1>1 DEF AdmitCancel, server
  <2>3. PICK a, s : /\ s \in {"forget", "reply"} /\ Goto(r, s)
                     /\ req' = [req EXCEPT ![r].dir = d, ![r].reply = a]
    <3>1. PICK ok \in BOOLEAN :
            /\ req' = [req EXCEPT ![r].dir = d, ![r].reply = IF ok THEN "ok" ELSE "error"]
            /\ Goto(r, IF ok THEN "forget" ELSE "reply")
      BY <1>1, <2>1 DEF AdmitCancel
    <3>. QED BY <3>1
  <2>. QED BY <2>2, <2>3 DEF Goto, Onward, Inside, SameFor, TypeOK, ReqState
<1>2. CASE AdmitSweep(r)
  <2>1. PICK s \in {"forget", "reply"} : Goto(r, s)
    BY <1>2 DEF AdmitSweep
  <2>. QED BY <1>2, <2>1 DEF AdmitSweep, Goto, Onward, Inside, SameFor, TypeOK, server
<1>3. CASE Forget(r)
  BY <1>3 DEF Forget, Goto, Onward, Inside, SameFor, TypeOK
<1>. QED BY <1>1, <1>2, <1>3

(* The steps before the mutex of the file_id, those that take it and give  *)
(* it back, and those of nobody in particular                              *)
LEMMA OutsideKeeps ==
  ASSUME IInv, Keepers, NEW r \in Request, ~ Inside(r), ~ Inside(r)',
         UNCHANGED <<lock, uploadMu, uploadStateMu>>, \A p \in Request \ {r} : SameFor(p)
  PROVE  Keepers'
<1>. /\ \A id \in FileID : lock[id] \in Request \union {None}
     /\ uploadMu \in Request \union {None} /\ uploadStateMu \in Request \union {None}
  BY DEF IInv, TypeOK
<1>1. ASSUME NEW id \in FileID
      PROVE  KeptBy(id)'
  BY DEF Keepers, KeptBy, Inside, SameFor
<1>2. uploadMu' # None => pc'[uploadMu'] \in {"name", "rename"}
  BY DEF Keepers, Inside, SameFor
<1>3. uploadStateMu' # None => pc'[uploadStateMu'] \in {"mkdir", "meta"}
  BY DEF Keepers, Inside, SameFor
<1>. QED BY <1>1, <1>2, <1>3 DEF Keepers

LEMMA ArriveKeeps ==
  ASSUME IInv, Keepers, NEW r \in Request, Arrive(r) \/ Sweeper(r) \/ Mark(r)
  PROVE  Keepers'
<1>1. CASE Mark(r)
  <2>1. /\ ~ Inside(r) /\ ~ Inside(r)' /\ UNCHANGED <<lock, uploadMu, uploadStateMu>>
        /\ \A p \in Request \ {r} : SameFor(p)
    BY <1>1 DEF Mark, Goto, Inside, SameFor, IInv, TypeOK
  <2>. QED BY <2>1, OutsideKeeps
<1>2. ASSUME NEW q, Begin(r, q)
      PROVE  Keepers'
  <2>1. PICK s \in {"mark", "lock"} : Goto(r, s)
    BY <1>2 DEF Begin
  <2>2. /\ ~ Inside(r) /\ ~ Inside(r)' /\ UNCHANGED <<lock, uploadMu, uploadStateMu>>
        /\ \A p \in Request \ {r} : SameFor(p)
    BY <1>2, <2>1 DEF Begin, Goto, Inside, SameFor, IInv, TypeOK, server
  <2>. QED BY <2>2, OutsideKeeps
<1>3. CASE Arrive(r)
  BY <1>2, <1>3 DEF Arrive, BeginChunk, BeginComplete, BeginCancel
<1>4. CASE Sweeper(r)
  BY <1>2, <1>4 DEF Sweeper, BeginSweep
<1>. QED BY <1>1, <1>3, <1>4

LEMMA LockKeeps ==
  ASSUME IInv, Keepers, NEW r \in Request, LockUpload(r)
  PROVE  Keepers'
<1>. /\ \A id \in FileID : lock[id] \in Request \union {None}
     /\ uploadMu \in Request \union {None} /\ uploadStateMu \in Request \union {None}
  BY DEF IInv, TypeOK
<1>1. /\ pc[r] = "lock" /\ pc'[r] = "admit" /\ req' = req
      /\ \A p \in Request \ {r} : SameFor(p)
      /\ UNCHANGED <<uploadMu, uploadStateMu>>
      /\ \A id \in FileID : lock'[id] = IF id = req[r].id THEN r ELSE lock[id]
  BY DEF LockUpload, Goto, SameFor, server, IInv, TypeOK
<1>2. ASSUME NEW id \in FileID
      PROVE  KeptBy(id)'
  BY <1>1 DEF Keepers, KeptBy, Inside, SameFor
<1>3. uploadMu' # None => pc'[uploadMu'] \in {"name", "rename"}
  BY <1>1 DEF Keepers, SameFor
<1>4. uploadStateMu' # None => pc'[uploadStateMu'] \in {"mkdir", "meta"}
  BY <1>1 DEF Keepers, SameFor
<1>. QED BY <1>2, <1>3, <1>4 DEF Keepers

LEMMA ReplyKeeps ==
  ASSUME IInv, Keepers, NEW r \in Request, Reply(r)
  PROVE  Keepers'
<1>. /\ \A id \in FileID : lock[id] \in Request \union {None}
     /\ uploadMu \in Request \union {None} /\ uploadStateMu \in Request \union {None}
  BY DEF IInv, TypeOK
<1>1. /\ pc[r] = "reply" /\ req[r].id \in FileID
      /\ \A p \in Request \ {r} : SameFor(p)
      /\ UNCHANGED <<uploadMu, uploadStateMu>>
      /\ \A id \in FileID : lock'[id] = IF id = req[r].id THEN None ELSE lock[id]
  BY Own DEF Reply, Goto, SameFor, server, IInv, TypeOK
<1>2. ASSUME NEW id \in FileID
      PROVE  KeptBy(id)'
  BY <1>1 DEF Keepers, KeptBy, Inside, SameFor
<1>3. uploadMu' # None => pc'[uploadMu'] \in {"name", "rename"}
  BY <1>1 DEF Keepers, SameFor
<1>4. uploadStateMu' # None => pc'[uploadStateMu'] \in {"mkdir", "meta"}
  BY <1>1 DEF Keepers, SameFor
<1>. QED BY <1>2, <1>3, <1>4 DEF Keepers

LEMMA WorldKeeps ==
  ASSUME IInv, Keepers, World \/ UNCHANGED vars
  PROVE  Keepers'
<1>1. CASE Crash
  BY <1>1 DEF Crash, Keepers, KeptBy
<1>2. CASE SetUploadDir \/ ExpireTombstone \/ Age \/ DeleteFile \/ UNCHANGED vars
  <2>1. UNCHANGED <<lock, uploadMu, uploadStateMu, pc, req>>
    BY <1>2 DEF SetUploadDir, ExpireTombstone, Age, DeleteFile, server, vars
  <2>. QED BY <2>1 DEF Keepers, KeptBy, Inside
<1>. QED BY <1>1, <1>2 DEF World

LEMMA KeepersStep == IInv /\ Keepers /\ [Next]_vars => Keepers'
<1>1. ASSUME IInv, Keepers, NEW r \in Request, Serve(r)
      PROVE  Keepers'
  <2>1. CASE ChunkStep(r) \/ CompleteStep(r) \/ AdmitCancel(r) \/ AdmitSweep(r) \/ Forget(r)
    BY <1>1, <2>1, ChunkOnward, CompleteOnward, OtherOnward, OnwardKeeps
  <2>. QED BY <1>1, <2>1, ArriveKeeps, LockKeeps, ReplyKeeps DEF Serve
<1>. QED BY <1>1, ArriveKeeps, WorldKeeps DEF Next

(* Who waits, waits for a goroutine that is inside: with the file_id, or   *)
(* where it waits for nobody.                                              *)
LEMMA Waiting ==
  ASSUME IInv, Keepers
  PROVE  NoCircularWait
<1>1. ASSUME NEW p \in Request, pc[p] \in {"mkdir", "meta", "name", "rename"}
      PROVE  Proceeds(p)
  BY <1>1 DEF Proceeds, WaitsFor
<1>2. ASSUME NEW p \in Request, pc[p] \notin {"idle", "lock"}
      PROVE  Proceeds(p) \/ Proceeds(WaitsFor(p))
  <2>1. WaitsFor(p) \in {None, uploadMu, uploadStateMu}
    BY <1>2 DEF WaitsFor
  <2>2. CASE WaitsFor(p) = None
    BY <1>2, <2>2 DEF Proceeds
  <2>3. CASE WaitsFor(p) # None
    BY <1>1, <2>1, <2>3 DEF Keepers, IInv, TypeOK
  <2>. QED BY <2>2, <2>3
<1>3. ASSUME NEW p \in Request, pc[p] = "lock", WaitsFor(p) # None
      PROVE  Proceeds(WaitsFor(p)) \/ Proceeds(WaitsFor(WaitsFor(p)))
  <2>1. WaitsFor(p) = lock[req[p].id] /\ req[p].id \in FileID
    BY <1>3, Own DEF WaitsFor
  <2>2. WaitsFor(p) \in Request /\ Inside(WaitsFor(p))
    BY <1>3, <2>1 DEF Keepers, KeptBy, IInv, TypeOK
  <2>. QED BY <1>2, <2>2 DEF Inside
<1>4. ASSUME NEW p \in Request, pc[p] = "lock", WaitsFor(p) = None
      PROVE  Proceeds(p)
  BY <1>4 DEF Proceeds
<1>. QED BY <1>2, <1>3, <1>4 DEF NoCircularWait

(* However many requests are under way, none waits in a circle: whoever    *)
(* waits for a mutex waits for a goroutine that need not wait, or for one  *)
(* that waits for such a goroutine.  The mutex of a file_id is taken       *)
(* before uploadMu and uploadStateMu, never after, and these two are not   *)
(* taken one under the other (upload.go:213-266, 449-998).  Who need not   *)
(* wait can take a step; one that looks for a free name while Stat keeps   *)
(* failing takes them without end.                                         *)
THEOREM Unblocked == Spec => []NoCircularWait
<1>1. Init => Keepers
  BY DEF Init, Keepers, KeptBy
<1>2. Spec => []Keepers
  BY <1>1, KeepersStep, Invariance, PTL DEF Spec
<1>. QED BY <1>2, Invariance, Waiting, PTL

(* Conversely nobody takes a step who waits, so that NoCircularWait speaks *)
(* of the mutexes that the handlers take (upload.go:213-998).              *)
THEOREM WaitersWait == Spec => [][\A r \in Request : Serve(r) => WaitsFor(r) = None]_vars
<1>1. ASSUME NEW r \in Request, Serve(r)
      PROVE  WaitsFor(r) = None
  <2>1. CASE ChunkStep(r)
    BY <2>1 DEF ChunkStep, AdmitChunk, ReserveChunk, CountActive, MakeTemp, WriteMeta,
                StoreChunk, Undo, WaitsFor, UploadMuFree, UploadStateMuFree
  <2>2. CASE CompleteStep(r)
    BY <2>2 DEF CompleteStep, AdmitComplete, CreatePart, MergeChunk, Seal, TakeUploadMu, PickName,
                PublishFile, Clean, WaitsFor, UploadMuFree
  <2>3. CASE ~ ChunkStep(r) /\ ~ CompleteStep(r)
    BY <1>1, <2>3 DEF Serve, Mark, LockUpload, AdmitCancel, AdmitSweep, Forget, Reply,
                      WaitsFor, UploadMuFree
  <2>. QED BY <2>1, <2>2, <2>3
<1>2. [\A r \in Request : Serve(r) => WaitsFor(r) = None]_vars
  BY <1>1
<1>. QED BY <1>2, PTL DEF Spec

===============================================================================
