--------------------------- MODULE UploadView_proofs ---------------------------
(***************************************************************************)
(* Proofs that Upload keeps its bindings exact, that a cancellation stops  *)
(* what was queued before it, and that Upload implements UploadView, for   *)
(* any number of goroutines, file_ids, directories and chunks.             *)
(***************************************************************************)
EXTENDS MCUpload, Upload_proofs

(* What the bindings need to be exact: an interrupted removal leaves a     *)
(* directory nobody knows of, and a crash forgets every binding.           *)
NothingBreaks == ~ RemovalFault /\ MaxCrashes = 0

(* r may have bound its upload to a directory that is not there, or is     *)
(* about to remove the one it made.                                        *)
Loose(r) ==
  \/ pc[r] \in {"count", "mkdir", "undo", "forget"}
  \/ pc[r] = "reserve" /\ req[r].fresh

(* A request that cannot read the metadata leaves a binding behind it.     *)
BoundThere(d, id) ==
  ~ ReadFault => (uploadDirectories[id] = d => temp[d][id] # None)

ThereBound(d, id) == temp[d][id] # None => uploadDirectories[id] = d

(* What r knows of its upload in directory d while it holds the mutex      *)
BindIn(r, d, id) ==
  IF d = req[r].dir /\ Loose(r)
  THEN NothingBreaks => \/ temp[d][id] = None
                        \/ pc[r] = "undo" /\ temp[d][id].chunks = NoChunks
  ELSE /\ BoundThere(d, id)
       /\ NothingBreaks =>
            /\ ThereBound(d, id)
            /\ temp[d][id] # None /\ pc[r] # "meta" => Present(temp[d][id])

Bind(r) ==
  Inside(r) =>
    /\ \A d \in Dir : BindIn(r, d, req[r].id)
    /\ pc[r] \in ChunkPlaces => uploadDirectories[req[r].id] = req[r].dir

USE DEF ReadFault

(* The same between requests *)
VacantIn(d, id) ==
  /\ BoundThere(d, id)
  /\ NothingBreaks => /\ ThereBound(d, id)
                      /\ temp[d][id] # None => Present(temp[d][id])

Vacant(id) == lock[id] = None => \A d \in Dir : VacantIn(d, id)

BInv ==
  /\ \A r \in Request : Bind(r)
  /\ \A id \in FileID : Vacant(id)

-------------------------------------------------------------------------------
(* The other file_ids are left alone, in memory and on disk.               *)
Alien(id) ==
  \A x \in FileID \ {id} :
    /\ uploadDirectories'[x] = uploadDirectories[x]
    /\ \A d \in Dir : temp'[d][x] = temp[d][x]

LEMMA OthersBind ==
  ASSUME IInv, BInv, NEW r \in Request, OthersOut(r), Alien(req[r].id),
         NEW p \in Request \ {r}, SameFor(p)
  PROVE  Bind(p)'
<1> SUFFICES ASSUME Inside(p)'
             PROVE  /\ \A d \in Dir : BindIn(p, d, req[p].id)'
                    /\ pc'[p] \in ChunkPlaces => uploadDirectories'[req'[p].id] = req'[p].dir
  BY DEF Bind
<1>1. Inside(p) /\ req[p].id \in FileID \ {req[r].id} /\ req[p].dir \in Dir
  BY DEF IInv, Local, Shape, Inside, OthersOut, SameFor
<1>2. PICK id \in FileID \ {req[r].id} : id = req[p].id
  BY <1>1
<1>3. Bind(p) /\ req'[p] = req[p] /\ pc'[p] = pc[p]
  BY DEF BInv, SameFor
<1>4. uploadDirectories'[id] = uploadDirectories[id]
      /\ \A d \in Dir : temp'[d][id] = temp[d][id]
  BY <1>1, <1>2 DEF Alien
<1>5. ASSUME NEW d \in Dir
      PROVE  BindIn(p, d, req[p].id)'
  <2>1. BindIn(p, d, id) /\ temp'[d][id] = temp[d][id]
    BY <1>1, <1>2, <1>3, <1>4 DEF Bind
  <2> QED
    BY <1>2, <1>3, <1>4, <2>1
       DEF BindIn, Loose, BoundThere, ThereBound, Present, NothingBreaks, RemovalFault
<1> QED
  BY <1>1, <1>2, <1>3, <1>4, <1>5 DEF Bind

(* What is left to prove of a step that r takes inside                     *)
LEMMA BindStep ==
  ASSUME IInv, BInv, NEW r \in Request, Inside(r),
         \A p \in Request \ {r} : SameFor(p),
         UNCHANGED lock, Alien(req[r].id), Bind(r)'
  PROVE  BInv'
<1>1. OthersOut(r) /\ req[r].id \in FileID /\ lock[req[r].id] = r
  BY Alone, Own DEF IInv, Holding, Inside
<1>2. ASSUME NEW p \in Request \ {r}
      PROVE  Bind(p)'
  BY <1>1, OthersBind
<1>3. ASSUME NEW id \in FileID, lock'[id] = None
      PROVE  \A d \in Dir : VacantIn(d, id)'
  <2>1. lock[id] = None /\ id # req[r].id /\ Vacant(id)
    BY <1>1, <1>3, UploadAssumption DEF BInv
  <2>2. uploadDirectories'[id] = uploadDirectories[id]
        /\ \A d \in Dir : temp'[d][id] = temp[d][id]
    BY <2>1 DEF Alien
  <2> QED
    BY <2>1, <2>2
       DEF Vacant, VacantIn, BoundThere, ThereBound, Present, NothingBreaks, RemovalFault
<1> QED
  BY <1>2, <1>3 DEF BInv, Vacant

(* A step outside the mutex *)
LEMMA BindOutside ==
  ASSUME BInv, NEW r \in Request, \A p \in Request \ {r} : SameFor(p), ~ Inside(r)',
         UNCHANGED <<lock, temp, uploadDirectories>>
  PROVE  BInv'
<1>1. ASSUME NEW p \in Request
      PROVE  Bind(p)'
  <2>1. CASE p = r
    BY <2>1 DEF Bind
  <2>2. CASE p # r
    BY <2>2 DEF BInv, SameFor, Bind, Inside, BindIn, Loose, BoundThere, ThereBound
  <2> QED
    BY <2>1, <2>2
<1>2. \A id \in FileID : Vacant(id)'
  BY DEF BInv, Vacant, VacantIn, BoundThere, ThereBound
<1> QED
  BY <1>1, <1>2 DEF BInv

-------------------------------------------------------------------------------
(* The bindings through each step: first the steps that change nothing on  *)
(* disk or only inside the directory of the upload.                        *)
LEMMA BindQuiet ==
  ASSUME IInv, BInv, NEW r \in Request, Inside(r),
         \A p \in Request \ {r} : SameFor(p),
         UNCHANGED <<lock, temp, uploadDirectories>>,
         req'[r].id = req[r].id, pc'[r] \notin ChunkPlaces,
         ~ Loose(r), pc[r] # "meta", ~ Loose(r)'
  PROVE  BInv'
<1>1. Alien(req[r].id)
  BY DEF Alien
<1>2. ASSUME NEW d \in Dir
      PROVE  BindIn(r, d, req[r].id)'
  <2>1. BindIn(r, d, req[r].id)
    BY DEF BInv, Bind
  <2> QED
    BY <2>1 DEF BindIn, BoundThere, ThereBound
<1> QED
  BY <1>1, <1>2, BindStep DEF Bind

LEMMA LockBind ==
  ASSUME IInv, BInv, NEW r \in Request, LockUpload(r)
  PROVE  BInv'
<1>1. /\ pc'[r] = "admit" /\ req' = req /\ req[r].id \in FileID /\ pc[r] = "lock"
      /\ \A p \in Request \ {r} : SameFor(p)
      /\ lock[req[r].id] = None
      /\ UNCHANGED <<temp, uploadDirectories>>
      /\ lock' = [lock EXCEPT ![req[r].id] = r]
  BY DEF LockUpload, Goto, disk, server, IInv, TypeOK, SameFor, Local, Shape
<1>2. ASSUME NEW p \in Request
      PROVE  Bind(p)'
  <2>1. CASE p # r
    BY <1>1, <2>1 DEF BInv, SameFor, Bind, Inside, BindIn, Loose, BoundThere, ThereBound
  <2>2. CASE p = r
    <3>1. \A d \in Dir : VacantIn(d, req[r].id)
      BY <1>1 DEF BInv, Vacant
    <3> QED
      BY <1>1, <2>2, <3>1
         DEF Bind, BindIn, VacantIn, Loose, BoundThere, ThereBound, ChunkPlaces
  <2> QED
    BY <2>1, <2>2
<1>3. ASSUME NEW id \in FileID, lock'[id] = None
      PROVE  lock[id] = None
  BY <1>1, <1>3, UploadAssumption DEF IInv, TypeOK
<1> QED
  BY <1>1, <1>2, <1>3 DEF BInv, Vacant, VacantIn, BoundThere, ThereBound

LEMMA ReplyBind ==
  ASSUME IInv, BInv, NEW r \in Request, Reply(r)
  PROVE  BInv'
<1>1. /\ pc[r] = "reply" /\ pc'[r] = "idle" /\ Inside(r)
      /\ req[r].id \in FileID
      /\ \A p \in Request \ {r} : SameFor(p)
      /\ UNCHANGED <<temp, uploadDirectories>>
      /\ lock' = [lock EXCEPT ![req[r].id] = None]
  BY DEF Reply, Goto, disk, server, IInv, TypeOK, SameFor, Local, Shape, Inside
<1>2. ASSUME NEW p \in Request
      PROVE  Bind(p)'
  <2>1. CASE p # r
    BY <1>1, <2>1 DEF BInv, SameFor, Bind, Inside, BindIn, Loose, BoundThere, ThereBound
  <2>2. CASE p = r
    BY <1>1, <2>2 DEF Bind, Inside
  <2> QED
    BY <2>1, <2>2
<1>3. ASSUME NEW id \in FileID, lock'[id] = None
      PROVE  \A d \in Dir : VacantIn(d, id)
  <2>1. CASE id = req[r].id
    BY <1>1, <2>1 DEF BInv, Bind, BindIn, Loose, VacantIn
  <2>2. CASE id # req[r].id
    BY <1>1, <1>3, <2>2 DEF IInv, TypeOK, BInv, Vacant
  <2> QED
    BY <2>1, <2>2
<1> QED
  BY <1>1, <1>2, <1>3 DEF BInv, Vacant, VacantIn, BoundThere, ThereBound

-------------------------------------------------------------------------------
(* The chunk handler *)

LEMMA AdmitChunkDoes ==
  ASSUME IInv, NEW r \in Request, AdmitChunk(r),
         NEW id, id = req[r].id, NEW d, d = UploadDirectoryFor(id, req[r].dir)
  PROVE  /\ pc[r] = "admit" /\ Inside(r) /\ d \in Dir /\ id \in FileID
         /\ req[r].op = "chunk" /\ req[r].dir \in Dir
         /\ \A p \in Request \ {r} : SameFor(p)
         /\ req'[r].id = id /\ req'[r].op = "chunk"
         /\ UNCHANGED <<lock, temp>>
         /\ \/ /\ pc'[r] = "reply" /\ Cancelled(id) /\ req'[r].dir = req[r].dir
               /\ UNCHANGED uploadDirectories
            \/ /\ ~ Cancelled(id) /\ req'[r].dir = d
               /\ uploadDirectories' = [uploadDirectories EXCEPT ![id] = d]
               /\ \/ pc'[r] = "reply" /\ (ReadFault \/ Present(temp[d][id]))
                  \/ /\ pc'[r] = "reserve"
                     /\ req'[r].fresh <=> ~ Present(temp[d][id])
<1>1. /\ pc[r] = "admit" /\ Inside(r) /\ req[r].op = "chunk" /\ UNCHANGED <<lock, temp>>
  BY DEF AdmitChunk, Inside, disk
<1>2. req[r] \in ReqState /\ id \in FileID /\ req[r].dir \in Dir /\ d \in Dir
  BY <1>1, Own
<1>3. CASE TurnedAway(r)
  <2>1. Finish(r, "cancelled") /\ UNCHANGED uploadDirectories /\ Cancelled(id)
    BY <1>3 DEF AdmitChunk, TurnedAway
  <2>2. /\ \A p \in Request \ {r} : SameFor(p)
        /\ SameInputs(req'[r], req[r]) /\ pc'[r] = "reply"
    BY <2>1, FinishFacts DEF IInv, Answers
  <2> QED
    BY <1>1, <1>2, <2>1, <2>2 DEF SameInputs
<1>4. CASE ~ TurnedAway(r)
  <2>1. /\ ~ Cancelled(id)
        /\ uploadDirectories' = [uploadDirectories EXCEPT ![id] = d]
    BY <1>4 DEF AdmitChunk, TurnedAway
  <2>2. CASE /\ ReadFault \/ Conflicting(d, req[r])
             /\ req' = [req EXCEPT ![r].dir = d, ![r].reply = "conflict"]
             /\ Goto(r, "reply")
    <3>1. PICK q : q = [req[r] EXCEPT !.dir = d, !.reply = "conflict"]
      OBVIOUS
    <3>2. q \in ReqState /\ q.id = id /\ q.op = "chunk" /\ q.dir = d
      BY <1>1, <1>2, <3>1 DEF ReqState
    <3>3. "reply" \in PC /\ pc' = [pc EXCEPT ![r] = "reply"] /\ req' = [req EXCEPT ![r] = q]
      BY <2>2, <3>1 DEF Goto, IInv, TypeOK, PC
    <3>4. pc'[r] = "reply" /\ req'[r] = q /\ \A p \in Request \ {r} : SameFor(p)
      BY <3>2, <3>3, ReqOthers DEF IInv
    <3> QED
      BY <1>1, <1>2, <2>1, <2>2, <3>2, <3>4 DEF HasMeta, Conflicting
  <2>3. CASE /\ req' = [req EXCEPT ![r].dir = d, ![r].fresh = ~ HasMeta(d, id)]
             /\ Goto(r, "reserve")
    <3>1. PICK b \in BOOLEAN : b = ~ HasMeta(d, id)
      BY DEF HasMeta, Present
    <3>2. PICK q : q = [req[r] EXCEPT !.dir = d, !.fresh = b]
      OBVIOUS
    <3>3. q \in ReqState /\ q.id = id /\ q.op = "chunk" /\ q.dir = d /\ q.fresh = b
      BY <1>1, <1>2, <3>2 DEF ReqState
    <3>4. "reserve" \in PC /\ pc' = [pc EXCEPT ![r] = "reserve"] /\ req' = [req EXCEPT ![r] = q]
      BY <2>3, <3>1, <3>2 DEF Goto, IInv, TypeOK, PC
    <3>5. pc'[r] = "reserve" /\ req'[r] = q /\ \A p \in Request \ {r} : SameFor(p)
      BY <3>3, <3>4, ReqOthers DEF IInv
    <3> QED
      BY <1>1, <1>2, <2>1, <3>1, <3>3, <3>5 DEF HasMeta
  <2> QED
    BY <1>4, <2>2, <2>3 DEF AdmitChunk
<1> QED
  BY <1>3, <1>4

LEMMA AdmitChunkBind ==
  ASSUME IInv, BInv, NEW r \in Request, AdmitChunk(r)
  PROVE  BInv'
<1>1. PICK id : id = req[r].id
  OBVIOUS
<1>2. PICK d : d = UploadDirectoryFor(id, req[r].dir)
  OBVIOUS
<1>3. /\ pc[r] = "admit" /\ Inside(r) /\ d \in Dir /\ id \in FileID
      /\ \A p \in Request \ {r} : SameFor(p)
      /\ req'[r].id = id
      /\ UNCHANGED <<lock, temp>>
  BY <1>1, <1>2, AdmitChunkDoes
<1>4. CASE pc'[r] = "reply" /\ UNCHANGED uploadDirectories
  BY <1>1, <1>3, <1>4, BindQuiet DEF ChunkPlaces, Loose
<1>5. CASE /\ req'[r].dir = d
           /\ uploadDirectories' = [uploadDirectories EXCEPT ![id] = d]
           /\ \/ pc'[r] = "reply" /\ (ReadFault \/ Present(temp[d][id]))
              \/ pc'[r] = "reserve" /\ (req'[r].fresh <=> ~ Present(temp[d][id]))
  <2>1. /\ uploadDirectories'[id] = d
        /\ \A x \in FileID \ {id} : uploadDirectories'[x] = uploadDirectories[x]
    BY <1>3, <1>5 DEF IInv, TypeOK
  <2>2. Alien(id)
    BY <1>3, <2>1 DEF Alien
  <2>3. \A e \in Dir : BindIn(r, e, id)
    BY <1>1, <1>3 DEF BInv, Bind
  <2>4. /\ \A e \in Dir : BoundThere(e, id)
        /\ NothingBreaks =>
             \A e \in Dir : /\ ThereBound(e, id)
                            /\ temp[e][id] # None => Present(temp[e][id])
    BY <1>3, <2>3 DEF BindIn, Loose
  <2>5. uploadDirectories[id] \in {None, d}
    BY <1>1, <1>2 DEF UploadDirectoryFor
  <2>6. NothingBreaks => \A e \in Dir : temp[e][id] # None => e = d
    <3> SUFFICES ASSUME NothingBreaks, NEW e \in Dir, temp[e][id] # None
                 PROVE  e = d
      OBVIOUS
    <3>1. uploadDirectories[id] = e
      BY <2>4 DEF ThereBound
    <3>2. e # None
      BY UploadAssumption
    <3> QED
      BY <2>5, <3>1, <3>2
  <2>7. Present(temp[d][id]) => temp[d][id] # None
    BY DEF Present
  <2>8. ASSUME NEW e \in Dir
        PROVE  BindIn(r, e, id)'
    <3>1. temp'[e][id] = temp[e][id] /\ req'[r].dir = d /\ req'[r].id = id
          /\ uploadDirectories'[id] = d
      BY <1>3, <1>5, <2>1
    <3>2. NothingBreaks => (temp[e][id] # None => e = d /\ Present(temp[e][id]))
      BY <2>4, <2>6
    <3>3. CASE pc'[r] = "reply" /\ (ReadFault \/ Present(temp[d][id]))
      BY <2>7, <3>1, <3>2, <3>3 DEF BindIn, Loose, BoundThere, ThereBound
    <3>4. CASE pc'[r] = "reserve" /\ (req'[r].fresh <=> ~ Present(temp[d][id]))
      BY <2>7, <3>1, <3>2, <3>4 DEF BindIn, Loose, BoundThere, ThereBound
    <3> QED
      BY <1>5, <3>3, <3>4
  <2>9. Bind(r)'
    BY <1>3, <1>5, <2>1, <2>8 DEF Bind
  <2> QED
    BY <1>1, <1>3, <2>2, <2>9, BindStep
<1> QED
  BY <1>1, <1>2, <1>4, <1>5, AdmitChunkDoes

LEMMA ReserveDoes ==
  ASSUME IInv, NEW r \in Request, ReserveChunk(r) \/ CountActive(r)
  PROVE  /\ pc[r] \in {"reserve", "count"} /\ Inside(r)
         /\ req[r].op = "chunk" /\ req[r].id \in FileID /\ req[r].dir \in Dir
         /\ \A p \in Request \ {r} : SameFor(p)
         /\ SameInputs(req'[r], req[r])
         /\ UNCHANGED <<lock, temp, uploadDirectories>>
         /\ \/ pc'[r] \in {"undo", "forget", "count", "mkdir"} /\ Loose(r)
            \/ pc'[r] \in {"store", "reply"} /\ ~ Loose(r)
<1>1. /\ pc[r] \in {"reserve", "count"} /\ Inside(r)
      /\ UNCHANGED <<lock, temp, uploadDirectories>>
  BY DEF ReserveChunk, CountActive, Inside, server, disk
<1>2. req[r].op = "chunk" /\ req[r].id \in FileID /\ req[r].dir \in Dir
      /\ (pc[r] = "count" => req[r].fresh)
  BY <1>1, Own DEF Shape, ChunkPlaces, OnDisk
<1>3. CASE Rollback(r, "nospace") \/ Rollback(r, "toomany") \/ Rollback(r, "error")
  <2>1. /\ \A p \in Request \ {r} : SameFor(p)
        /\ SameInputs(req'[r], req[r]) /\ pc'[r] = RollbackFrom(r)
    BY <1>3, RollbackFacts DEF IInv, Answers
  <2> QED
    BY <1>1, <1>2, <2>1 DEF Loose, RollbackFrom
<1>4. CASE \E s \in {"count", "store", "mkdir"} :
             /\ Goto(r, s) /\ UNCHANGED req
             /\ s = "store" <=> pc[r] = "reserve" /\ ~ req[r].fresh
  <2>1. PICK s \in {"count", "store", "mkdir"} :
             /\ Goto(r, s) /\ UNCHANGED req
             /\ s = "store" <=> pc[r] = "reserve" /\ ~ req[r].fresh
    BY <1>4
  <2>2. s \in PC
    BY DEF PC
  <2>3. /\ \A p \in Request \ {r} : SameFor(p)
        /\ SameInputs(req'[r], req[r]) /\ pc'[r] = s
    BY <2>1, <2>2, GotoFacts DEF IInv
  <2> QED
    BY <1>1, <1>2, <2>1, <2>3 DEF Loose
<1> QED
  BY <1>1, <1>3, <1>4 DEF ReserveChunk, CountActive

LEMMA ReserveBind ==
  ASSUME IInv, BInv, NEW r \in Request, ReserveChunk(r) \/ CountActive(r)
  PROVE  BInv'
<1>1. /\ pc[r] \in {"reserve", "count"} /\ Inside(r)
      /\ req[r].id \in FileID /\ req[r].dir \in Dir
      /\ \A p \in Request \ {r} : SameFor(p)
      /\ UNCHANGED <<lock, temp, uploadDirectories>>
      /\ SameInputs(req'[r], req[r])
      /\ \/ pc'[r] \in {"undo", "forget", "count", "mkdir"} /\ Loose(r)
         \/ pc'[r] \in {"store", "reply"} /\ ~ Loose(r)
  BY ReserveDoes
<1>2. req'[r].id = req[r].id /\ req'[r].dir = req[r].dir
  BY <1>1 DEF SameInputs
<1>3. Loose(r)' <=> Loose(r)
  BY <1>1 DEF Loose
<1>4. ASSUME NEW d \in Dir
      PROVE  BindIn(r, d, req[r].id)'
  <2>1. BindIn(r, d, req[r].id)
    BY <1>1 DEF BInv, Bind
  <2> QED
    BY <1>1, <1>2, <1>3, <2>1 DEF BindIn, BoundThere, ThereBound
<1>5. uploadDirectories[req[r].id] = req[r].dir
  BY <1>1 DEF BInv, Bind, ChunkPlaces
<1>6. Bind(r)' /\ Alien(req[r].id)
  BY <1>1, <1>2, <1>4, <1>5 DEF Bind, Alien
<1> QED
  BY <1>1, <1>6, BindStep

(* r goes on with the same upload, inside the mutex, and nobody else moves. *)
GoesOn(r) ==
  /\ Inside(r) /\ req[r].id \in FileID /\ req[r].dir \in Dir
  /\ \A p \in Request \ {r} : SameFor(p)
  /\ req'[r].id = req[r].id /\ req'[r].op = req[r].op
  /\ UNCHANGED lock

LEMMA MakeTempDoes ==
  ASSUME IInv, NEW r \in Request, MakeTemp(r)
  PROVE  /\ GoesOn(r) /\ pc[r] = "mkdir" /\ req[r].op = "chunk"
         /\ req'[r].dir = req[r].dir /\ UNCHANGED uploadDirectories
         /\ \E t \in TempState \union {None} :
              /\ Put(req[r].dir, req[r].id, t)
              /\ \/ pc'[r] = "meta" /\ t = EmptyTemp
                 \/ pc'[r] \in {"undo", "forget"} /\ (RemovalFault \/ t = None)
<1>1. pc[r] = "mkdir" /\ Inside(r) /\ UNCHANGED <<lock, uploadDirectories>>
  BY DEF MakeTemp, Inside
<1>2. /\ req[r] \in ReqState /\ req[r].op = "chunk" /\ req[r].fresh
      /\ req[r].id \in FileID /\ req[r].dir \in Dir
  BY <1>1, Own DEF Shape, ChunkPlaces, OnDisk
<1>3. CASE /\ Put(req[r].dir, req[r].id, EmptyTemp)
           /\ req' = [req EXCEPT ![r].made = TRUE] /\ Goto(r, "meta")
  <2>1. PICK q : q = [req[r] EXCEPT !.made = TRUE]
    OBVIOUS
  <2>2. q \in ReqState /\ q.id = req[r].id /\ q.dir = req[r].dir /\ q.op = req[r].op
    BY <1>2, <2>1 DEF ReqState
  <2>3. req' = [req EXCEPT ![r] = q] /\ pc' = [pc EXCEPT ![r] = "meta"] /\ "meta" \in PC
    BY <1>3, <2>1 DEF Goto, IInv, TypeOK, PC
  <2>4. /\ \A p \in Request \ {r} : SameFor(p)
        /\ req'[r] = q /\ pc'[r] = "meta"
    BY <2>2, <2>3, ReqOthers DEF IInv
  <2> QED
    BY <1>1, <1>2, <1>3, <2>2, <2>4, EmptyTyped DEF GoesOn
<1>4. CASE /\ Fault /\ Rollback(r, "error")
           /\ \E t \in {None} \union Leftovers(req[r].dir, req[r].id) :
                Put(req[r].dir, req[r].id, t)
  <2>1. PICK t \in {None} \union Leftovers(req[r].dir, req[r].id) :
          Put(req[r].dir, req[r].id, t)
    BY <1>4
  <2>2. t \in TempState \union {None} /\ (RemovalFault \/ t = None)
    BY <1>2, <2>1, LeftoverTyped DEF IInv, Leftovers
  <2>3. /\ \A p \in Request \ {r} : SameFor(p)
        /\ SameInputs(req'[r], req[r]) /\ pc'[r] \in {"undo", "forget"}
    BY <1>2, <1>4, RollbackFacts DEF IInv, Answers, RollbackFrom
  <2> QED
    BY <1>1, <1>2, <1>4, <2>1, <2>2, <2>3 DEF GoesOn, SameInputs
<1> QED
  BY <1>3, <1>4 DEF MakeTemp

LEMMA WriteMetaDoes ==
  ASSUME IInv, NEW r \in Request, WriteMeta(r),
         NEW o, o = temp[req[r].dir][req[r].id]
  PROVE  /\ GoesOn(r) /\ pc[r] = "meta" /\ req[r].op = "chunk"
         /\ req'[r].dir = req[r].dir /\ UNCHANGED uploadDirectories
         /\ o \in TempState /\ o.chunks = NoChunks /\ req[r].made
         /\ \/ /\ pc'[r] = "store"
               /\ \E t \in TempState : /\ Put(req[r].dir, req[r].id, t)
                                       /\ Present(t) /\ t.chunks = NoChunks
            \/ pc'[r] = "undo" /\ UNCHANGED temp
<1>1. pc[r] = "meta" /\ Inside(r) /\ UNCHANGED <<lock, uploadDirectories>>
  BY DEF WriteMeta, Inside
<1>2. /\ req[r] \in ReqState /\ req[r].op = "chunk" /\ req[r].fresh
      /\ req[r].id \in FileID /\ req[r].dir \in Dir /\ req[r].meta \in Meta
      /\ o \in TempState /\ o.chunks = NoChunks /\ req[r].made
  BY <1>1, Own DEF Shape, ChunkPlaces, OnDisk
<1>3. CASE /\ Put(req[r].dir, req[r].id, [o EXCEPT !.meta = req[r].meta, !.old = FALSE])
           /\ Goto(r, "store") /\ UNCHANGED req
  <2>1. PICK t : t = [o EXCEPT !.meta = req[r].meta, !.old = FALSE]
    OBVIOUS
  <2>2. t \in TempState /\ t.meta = req[r].meta /\ t.chunks = NoChunks
    BY <1>2, <2>1 DEF TempState
  <2>3. Present(t)
    BY <1>2, <2>2, UploadAssumption DEF Present
  <2>4. "store" \in PC
    BY DEF PC
  <2>5. /\ \A p \in Request \ {r} : SameFor(p)
        /\ req'[r] = req[r] /\ pc'[r] = "store"
    BY <1>3, <2>4, GotoFacts DEF IInv
  <2> QED
    BY <1>1, <1>2, <1>3, <2>1, <2>2, <2>3, <2>5 DEF GoesOn
<1>4. CASE Fault /\ Rollback(r, "error") /\ UNCHANGED temp
  <2>1. /\ \A p \in Request \ {r} : SameFor(p)
        /\ SameInputs(req'[r], req[r]) /\ pc'[r] = "undo"
    BY <1>2, <1>4, RollbackFacts DEF IInv, Answers, RollbackFrom
  <2> QED
    BY <1>1, <1>2, <1>4, <2>1 DEF GoesOn, SameInputs
<1> QED
  BY <1>3, <1>4 DEF WriteMeta

(* What storing the chunk of the request q makes of the upload o           *)
Refilled(t, o, q) ==
  /\ Present(t) /\ t.meta = o.meta /\ ~ t.old
  /\ \/ /\ o.chunks[q.idx] = None
        /\ t.chunks = [o.chunks EXCEPT ![q.idx] = q.data]
     \/ t.chunks = o.chunks

LEMMA StoreDoes ==
  ASSUME IInv, NEW r \in Request, StoreChunk(r),
         NEW o, o = temp[req[r].dir][req[r].id]
  PROVE  /\ GoesOn(r) /\ pc[r] = "store" /\ req[r].op = "chunk"
         /\ req'[r].dir = req[r].dir /\ UNCHANGED uploadDirectories
         /\ o \in TempState /\ Present(o)
         /\ req[r].idx \in 0..o.meta.total - 1 /\ req[r].idx \in Index
         /\ req[r].data \in Data /\ o.meta \in Meta
         /\ pc'[r] \in {"reply", "undo"}
         /\ \E t \in TempState :
              /\ Put(req[r].dir, req[r].id, t) /\ Refilled(t, o, req[r])
              /\ pc'[r] = "undo" => t.chunks = NoChunks
<1> DEFINE q == req[r]
<1>1. pc[r] = "store" /\ Inside(r) /\ UNCHANGED <<lock, uploadDirectories>>
  BY DEF StoreChunk, Inside, server
<1>2. /\ q.op = "chunk" /\ q.meta \in Meta
      /\ q.data \in Data /\ q.idx \in 0..q.meta.total - 1
      /\ q.dir \in Dir /\ q.id \in FileID /\ q \in ReqState
      /\ OnDisk(pc[r], q, o) /\ o \in TempState \union {None}
  BY <1>1, Own DEF Shape, ChunkPlaces
<1>3. /\ o \in TempState /\ Present(o) /\ o.meta = q.meta
      /\ q.fresh => q.made /\ o.chunks = NoChunks
  BY <1>1, <1>2 DEF OnDisk, Present
<1>4. q.idx \in Index
  BY <1>2, UploadAssumption DEF Index
<1>5. CASE /\ o.chunks[q.idx] = None
           /\ Put(q.dir, q.id, [o EXCEPT !.chunks[q.idx] = q.data, !.old = FALSE])
           /\ Finish(r, "ok")
  <2>1. PICK t : t = [o EXCEPT !.chunks[q.idx] = q.data, !.old = FALSE]
    OBVIOUS
  <2>2. /\ t \in TempState /\ t.meta = o.meta /\ ~ t.old
        /\ t.chunks = [o.chunks EXCEPT ![q.idx] = q.data]
    BY <1>2, <1>3, <1>4, <2>1 DEF TempState
  <2>3. /\ \A p \in Request \ {r} : SameFor(p)
        /\ SameInputs(req'[r], q) /\ pc'[r] = "reply"
    BY <1>5, FinishFacts DEF IInv, Answers
  <2>4. Present(t)
    BY <1>3, <2>2, UploadAssumption DEF Present
  <2> QED
    BY <1>1, <1>2, <1>3, <1>4, <1>5, <2>1, <2>2, <2>3, <2>4 DEF GoesOn, SameInputs, Refilled
<1>6. CASE \E a \in {"ok", "conflict", "error"} :
             /\ Put(q.dir, q.id, [o EXCEPT !.old = FALSE]) /\ Rollback(r, a)
  <2>1. PICK a \in {"ok", "conflict", "error"} :
             /\ Put(q.dir, q.id, [o EXCEPT !.old = FALSE]) /\ Rollback(r, a)
    BY <1>6
  <2>2. PICK t : t = [o EXCEPT !.old = FALSE]
    OBVIOUS
  <2>3. t \in TempState /\ t.meta = o.meta /\ t.chunks = o.chunks /\ ~ t.old
    BY <1>3, <2>2 DEF TempState
  <2>4. /\ \A p \in Request \ {r} : SameFor(p)
        /\ SameInputs(req'[r], q) /\ pc'[r] = RollbackFrom(r)
    BY <2>1, RollbackFacts DEF IInv, Answers
  <2>5. pc'[r] \in {"reply", "undo"} /\ (pc'[r] = "undo" => t.chunks = NoChunks)
    BY <1>2, <1>3, <2>3, <2>4 DEF RollbackFrom, ReqState
  <2>6. Present(t)
    BY <1>3, <2>3, UploadAssumption DEF Present
  <2> QED
    BY <1>1, <1>2, <1>3, <1>4, <2>1, <2>2, <2>3, <2>4, <2>5, <2>6 DEF GoesOn, SameInputs, Refilled
<1> QED
  BY <1>5, <1>6 DEF StoreChunk

(* What is left of the step when r's directory is looked at on its own     *)
LEMMA PutBind ==
  ASSUME IInv, BInv, NEW r \in Request, GoesOn(r), UNCHANGED uploadDirectories,
         NEW t \in TempState \union {None}, Put(req[r].dir, req[r].id, t),
         req'[r].dir = req[r].dir,
         pc[r] \in ChunkPlaces \/ pc'[r] \notin ChunkPlaces,
         BindIn(r, req[r].dir, req[r].id)',
         NothingBreaks =>
           \A d \in Dir \ {req[r].dir} :
             temp[d][req[r].id] # None => Present(temp[d][req[r].id])
  PROVE  BInv'
<1> DEFINE id == req[r].id
           e == req[r].dir
<1>1. /\ temp'[e][id] = t
      /\ \A d \in Dir, x \in FileID : d # e \/ x # id => temp'[d][x] = temp[d][x]
  BY PutFacts DEF IInv, GoesOn
<1>2. Alien(req[r].id)
  BY <1>1 DEF Alien
<1>3. ASSUME NEW d \in Dir
      PROVE  BindIn(r, d, req[r].id)'
  <2>1. CASE d = e
    BY <2>1
  <2>2. CASE d # e
    <3>1. BindIn(r, d, id) /\ temp'[d][id] = temp[d][id]
      BY <1>1, <2>2 DEF BInv, Bind, GoesOn
    <3> QED
      BY <2>2, <3>1 DEF BindIn, BoundThere, ThereBound, Present, GoesOn
  <2> QED
    BY <2>1, <2>2
<1>4. pc'[r] \in ChunkPlaces => uploadDirectories[id] = e
  BY DEF BInv, Bind, GoesOn
<1> QED
  BY <1>2, <1>3, <1>4, BindStep DEF Bind, GoesOn

LEMMA MakeTempBind ==
  ASSUME IInv, BInv, NEW r \in Request, MakeTemp(r)
  PROVE  BInv'
<1> DEFINE id == req[r].id
           e == req[r].dir
<1>1. /\ GoesOn(r) /\ pc[r] = "mkdir" /\ req'[r].dir = e /\ UNCHANGED uploadDirectories
  BY MakeTempDoes
<1>2. PICK t \in TempState \union {None} :
        /\ Put(req[r].dir, req[r].id, t)
        /\ \/ pc'[r] = "meta" /\ t = EmptyTemp
           \/ pc'[r] \in {"undo", "forget"} /\ (RemovalFault \/ t = None)
  BY MakeTempDoes
<1>3. temp'[e][id] = t
  BY <1>1, <1>2, PutFacts DEF IInv, GoesOn
<1>4. uploadDirectories[id] = e /\ \A d \in Dir : BindIn(r, d, id)
  BY <1>1 DEF BInv, Bind, GoesOn, ChunkPlaces
<1>5. BindIn(r, e, id)'
  BY <1>1, <1>2, <1>3, <1>4, EmptyTyped, UploadAssumption
     DEF BindIn, Loose, BoundThere, ThereBound, GoesOn, NothingBreaks
<1>6. \A d \in Dir \ {e} : NothingBreaks /\ temp[d][id] # None => Present(temp[d][id])
  BY <1>1, <1>4 DEF BindIn
<1> QED
  BY <1>1, <1>2, <1>5, <1>6, PutBind DEF ChunkPlaces

LEMMA WriteMetaBind ==
  ASSUME IInv, BInv, NEW r \in Request, WriteMeta(r)
  PROVE  BInv'
<1> DEFINE id == req[r].id
           e == req[r].dir
           o == temp[e][id]
<1>1. /\ GoesOn(r) /\ pc[r] = "meta" /\ req'[r].dir = e /\ UNCHANGED uploadDirectories
      /\ o \in TempState /\ o # None /\ o.chunks = NoChunks
  BY WriteMetaDoes, UploadAssumption
<1>2. PICK t \in TempState :
        /\ Put(req[r].dir, req[r].id, t)
        /\ \/ pc'[r] = "store" /\ Present(t)
           \/ pc'[r] = "undo" /\ t.chunks = NoChunks
  <2>1. CASE UNCHANGED temp
    BY <1>1, <2>1, PutSame, WriteMetaDoes DEF IInv, GoesOn
  <2>2. CASE ~ UNCHANGED temp
    BY <2>2, WriteMetaDoes
  <2> QED
    BY <2>1, <2>2
<1>3. temp'[e][id] = t
  BY <1>1, <1>2, PutFacts DEF IInv, GoesOn
<1>4. uploadDirectories[id] = e /\ \A d \in Dir : BindIn(r, d, id)
  BY <1>1 DEF BInv, Bind, GoesOn, ChunkPlaces
<1>5. BindIn(r, e, id)'
  BY <1>1, <1>2, <1>3, <1>4, UploadAssumption
     DEF BindIn, Loose, BoundThere, ThereBound, GoesOn, NothingBreaks
<1>6. \A d \in Dir \ {e} : NothingBreaks => temp[d][id] = None
  BY <1>1, <1>4 DEF BindIn, ThereBound
<1> QED
  BY <1>1, <1>2, <1>5, <1>6, PutBind DEF ChunkPlaces

LEMMA StoreBind ==
  ASSUME IInv, BInv, NEW r \in Request, StoreChunk(r)
  PROVE  BInv'
<1> DEFINE id == req[r].id
           e == req[r].dir
           o == temp[e][id]
<1>1. /\ GoesOn(r) /\ pc[r] = "store" /\ req'[r].dir = e /\ UNCHANGED uploadDirectories
  BY StoreDoes
<1>2. pc'[r] \in {"reply", "undo"}
  BY StoreDoes
<1>3. PICK t \in TempState :
        /\ Put(req[r].dir, req[r].id, t) /\ Present(t)
        /\ pc'[r] = "undo" => t.chunks = NoChunks
  BY StoreDoes DEF Refilled
<1>4. temp'[e][id] = t
  BY <1>1, <1>3, PutFacts DEF IInv, GoesOn
<1>5. uploadDirectories[id] = e /\ \A d \in Dir : BindIn(r, d, id)
  BY <1>1 DEF BInv, Bind, GoesOn, ChunkPlaces
<1>6. BindIn(r, e, id)'
  BY <1>1, <1>2, <1>3, <1>4, <1>5
     DEF BindIn, Loose, BoundThere, ThereBound, GoesOn, NothingBreaks, Present
<1>7. \A d \in Dir \ {e} : NothingBreaks /\ temp[d][id] # None => Present(temp[d][id])
  BY <1>1, <1>5 DEF BindIn
<1> QED
  BY <1>1, <1>2, <1>3, <1>6, <1>7, PutBind DEF ChunkPlaces

LEMMA UndoDoes ==
  ASSUME IInv, NEW r \in Request, Undo(r)
  PROVE  /\ GoesOn(r) /\ pc[r] = "undo" /\ req[r].op = "chunk" /\ pc'[r] = "forget"
         /\ req'[r] = req[r] /\ UNCHANGED uploadDirectories
         /\ \E t \in TempState \union {None} :
              Put(req[r].dir, req[r].id, t) /\ (RemovalFault \/ t = None)
<1>1. pc[r] = "undo" /\ Inside(r) /\ UNCHANGED <<lock, uploadDirectories>>
  BY DEF Undo, Inside, server
<1>2. req[r].op = "chunk" /\ req[r].id \in FileID /\ req[r].dir \in Dir
  BY <1>1, Own DEF Shape, ChunkPlaces
<1>3. "forget" \in PC
  BY DEF PC
<1>4. /\ \A p \in Request \ {r} : SameFor(p)
      /\ req'[r] = req[r] /\ pc'[r] = "forget"
  BY <1>3, GotoFacts DEF IInv, Undo
<1> QED
  BY <1>1, <1>2, <1>4, LeftoverTyped DEF Undo, IInv, GoesOn, Leftovers

LEMMA UndoBind ==
  ASSUME IInv, BInv, NEW r \in Request, Undo(r)
  PROVE  BInv'
<1> DEFINE id == req[r].id
           e == req[r].dir
<1>1. /\ GoesOn(r) /\ pc[r] = "undo" /\ pc'[r] = "forget"
      /\ req'[r] = req[r] /\ UNCHANGED uploadDirectories
  BY UndoDoes
<1>2. PICK t \in TempState \union {None} :
        Put(req[r].dir, req[r].id, t) /\ (RemovalFault \/ t = None)
  BY UndoDoes
<1>3. temp'[e][id] = t
  BY <1>1, <1>2, PutFacts DEF IInv, GoesOn
<1>4. BindIn(r, e, id)'
  BY <1>1, <1>2, <1>3 DEF BindIn, Loose, GoesOn, NothingBreaks
<1>5. \A d \in Dir : BindIn(r, d, id)
  BY <1>1 DEF BInv, Bind, GoesOn
<1>6. \A d \in Dir \ {e} : NothingBreaks /\ temp[d][id] # None => Present(temp[d][id])
  BY <1>1, <1>5 DEF BindIn
<1> QED
  BY <1>1, <1>2, <1>4, <1>6, PutBind DEF ChunkPlaces

LEMMA ForgetDoes ==
  ASSUME IInv, NEW r \in Request, Forget(r)
  PROVE  /\ GoesOn(r) /\ pc[r] = "forget" /\ pc'[r] = "reply" /\ req'[r] = req[r]
         /\ UNCHANGED temp
         /\ uploadDirectories' = Forgotten(req[r].id, req[r].dir)
<1>1. pc[r] = "forget" /\ Inside(r)
  BY DEF Forget, Inside
<1>2. req[r].id \in FileID /\ req[r].dir \in Dir
  BY <1>1, Own
<1>3. "reply" \in PC
  BY DEF PC
<1>4. /\ \A p \in Request \ {r} : SameFor(p)
      /\ req'[r] = req[r] /\ pc'[r] = "reply"
  BY <1>3, GotoFacts DEF IInv, Forget
<1> QED
  BY <1>1, <1>2, <1>4 DEF Forget, GoesOn, disk

(* forgetUploadDirectory drops no binding but the one to r's directory.    *)
LEMMA ForgetBind ==
  ASSUME IInv, BInv, NEW r \in Request, Forget(r)
  PROVE  BInv'
<1> DEFINE id == req[r].id
           e == req[r].dir
<1>1. /\ GoesOn(r) /\ pc[r] = "forget" /\ pc'[r] = "reply" /\ req'[r] = req[r]
      /\ UNCHANGED temp /\ uploadDirectories' = Forgotten(id, e)
  BY ForgetDoes
<1>2. /\ \A x \in FileID \ {id} : uploadDirectories'[x] = uploadDirectories[x]
      /\ uploadDirectories'[id] = IF uploadDirectories[id] = e THEN None
                                  ELSE uploadDirectories[id]
  BY <1>1 DEF Forgotten, GoesOn, IInv, TypeOK
<1>3. Alien(req[r].id)
  BY <1>1, <1>2 DEF Alien
<1>4. ASSUME NEW d \in Dir
      PROVE  BindIn(r, d, req[r].id)'
  <2>1. BindIn(r, d, id) /\ d # None
    BY <1>1, UploadAssumption DEF BInv, Bind, GoesOn
  <2> QED
    BY <1>1, <1>2, <2>1 DEF BindIn, Loose, BoundThere, ThereBound
<1>5. Bind(r)'
  BY <1>1, <1>4 DEF Bind, ChunkPlaces
<1> QED
  BY <1>1, <1>3, <1>5, BindStep DEF GoesOn

-------------------------------------------------------------------------------
(* The complete handler *)

LEMMA AdmitCompleteDoes ==
  ASSUME IInv, NEW r \in Request, AdmitComplete(r)
  PROVE  /\ GoesOn(r) /\ pc[r] = "admit" /\ req[r].op = "complete"
         /\ req'[r].meta = req[r].meta
         /\ UNCHANGED <<temp, uploadDirectories>>
         /\ \/ pc'[r] = "reply"
            \/ /\ pc'[r] = "part" /\ req'[r].dir \in Dir
               /\ Ready(temp[req'[r].dir][req[r].id], req[r].meta)
<1> DEFINE o == req[r]
           d == UploadDirectoryFor(o.id, o.dir)
<1>1. pc[r] = "admit" /\ o.op = "complete" /\ Inside(r)
  BY DEF AdmitComplete, Inside
<1>2. o.dir \in Dir /\ o.id \in FileID /\ d \in Dir /\ o \in ReqState
  BY <1>1, Own
<1>3. UNCHANGED <<lock, temp, uploadDirectories>>
  BY DEF AdmitComplete, server, disk
<1>4. CASE \E a \in Answers : Finish(r, a)
  <2>1. /\ \A p \in Request \ {r} : SameFor(p)
        /\ SameInputs(req'[r], o) /\ pc'[r] = "reply"
    BY <1>4, FinishFacts DEF IInv
  <2> QED
    BY <1>1, <1>2, <1>3, <2>1 DEF GoesOn, SameInputs
<1>5. CASE /\ Ready(temp[d][o.id], o.meta)
           /\ req' = [req EXCEPT ![r].dir = d] /\ Goto(r, "part")
  <2>1. PICK q : q = [o EXCEPT !.dir = d]
    OBVIOUS
  <2>2. /\ q \in ReqState /\ q.id = o.id /\ q.dir = d
        /\ q.op = o.op /\ q.meta = o.meta
    BY <1>2, <2>1 DEF ReqState
  <2>3. req' = [req EXCEPT ![r] = q] /\ pc' = [pc EXCEPT ![r] = "part"] /\ "part" \in PC
    BY <1>5, <2>1 DEF Goto, IInv, TypeOK, PC
  <2>4. /\ \A p \in Request \ {r} : SameFor(p)
        /\ req'[r] = q /\ pc'[r] = "part"
    BY <2>2, <2>3, ReqOthers DEF IInv
  <2> QED
    BY <1>1, <1>2, <1>3, <1>5, <2>2, <2>4 DEF GoesOn
<1>6. Refusal(temp[d][o.id], o.meta) \in Answers /\ {"cancelled", "conflict"} \subseteq Answers
  BY DEF Refusal, Answers
<1> QED
  BY <1>4, <1>5, <1>6 DEF AdmitComplete

LEMMA AdmitCompleteBind ==
  ASSUME IInv, BInv, NEW r \in Request, AdmitComplete(r)
  PROVE  BInv'
<1>1. /\ GoesOn(r) /\ pc[r] = "admit" /\ pc'[r] \in {"reply", "part"}
      /\ UNCHANGED <<temp, uploadDirectories>>
  BY AdmitCompleteDoes
<1> QED
  BY <1>1, BindQuiet DEF GoesOn, ChunkPlaces, Loose

(* Directory state t is o, but for its partial merge and its age.          *)
Remerged(t, o) ==
  /\ Present(t) /\ t.meta = o.meta /\ t.chunks = o.chunks
  /\ ~ t.old \/ t = o

(* What every step of a merge does: the chunks stay.                       *)
Parted(r) ==
  /\ GoesOn(r)
  /\ req'[r].dir = req[r].dir /\ req'[r].meta = req[r].meta
  /\ pc[r] \in MergePlaces /\ UNCHANGED uploadDirectories
  /\ temp[req[r].dir][req[r].id] \in TempState
  /\ \E t \in TempState : /\ Put(req[r].dir, req[r].id, t)
                          /\ Remerged(t, temp[req[r].dir][req[r].id])

LEMMA PartPut ==
  ASSUME IInv, NEW r \in Request, pc[r] \in MergePlaces,
         NEW x \in Seq(Data) \union {None},
         SetPart(req[r], x) \/ UNCHANGED temp
  PROVE  /\ Inside(r) /\ req[r].dir \in Dir /\ req[r].id \in FileID
         /\ temp[req[r].dir][req[r].id] \in TempState
         /\ \E t \in TempState : /\ Put(req[r].dir, req[r].id, t)
                                 /\ Remerged(t, temp[req[r].dir][req[r].id])
<1>1. PICK o : o = temp[req[r].dir][req[r].id]
  OBVIOUS
<1>2. /\ Inside(r) /\ req[r].dir \in Dir /\ req[r].id \in FileID
      /\ o \in TempState /\ Present(o)
  BY <1>1, MergeFacts DEF OnDisk
<1>3. CASE SetPart(req[r], x)
  <2>1. PICK t : t = [o EXCEPT !.part = x, !.old = FALSE]
    OBVIOUS
  <2>2. t \in TempState /\ t.meta = o.meta /\ t.chunks = o.chunks /\ ~ t.old
    BY <1>2, <2>1 DEF TempState
  <2>3. Remerged(t, o)
    BY <1>2, <2>2, UploadAssumption DEF Remerged, Present
  <2> QED
    BY <1>1, <1>2, <1>3, <2>1, <2>2, <2>3 DEF SetPart
<1>4. CASE UNCHANGED temp
  <2>1. Put(req[r].dir, req[r].id, o) /\ Remerged(o, o)
    BY <1>1, <1>2, <1>4, PutSame DEF IInv, Remerged
  <2> QED
    BY <1>1, <1>2, <2>1
<1> QED
  BY <1>3, <1>4

LEMMA AbortDoes ==
  ASSUME IInv, NEW r \in Request, pc[r] \in MergePlaces, NEW a \in Answers,
         AbortMerge(r, a), UNCHANGED <<lock, uploadDirectories>>
  PROVE  Parted(r) /\ pc'[r] = "reply"
<1>1. /\ \A p \in Request \ {r} : SameFor(p)
      /\ SameInputs(req'[r], req[r]) /\ pc'[r] = "reply"
  BY FinishFacts DEF AbortMerge, IInv
<1>2. SetPart(req[r], None) \/ UNCHANGED temp
  BY DEF AbortMerge
<1> QED
  BY <1>1, <1>2, PartPut DEF Parted, GoesOn, SameInputs

(* A step of a merge that neither aborts nor publishes                     *)
LEMMA PartGoes ==
  ASSUME IInv, NEW r \in Request, pc[r] \in MergePlaces,
         NEW x \in Seq(Data) \union {None},
         SetPart(req[r], x) \/ UNCHANGED temp,
         UNCHANGED <<lock, uploadDirectories>>,
         \A p \in Request \ {r} : SameFor(p),
         SameInputs(req'[r], req[r])
  PROVE  Parted(r)
BY PartPut DEF Parted, GoesOn, SameInputs

LEMMA MergeDoes ==
  ASSUME IInv, NEW r \in Request,
         CreatePart(r) \/ MergeChunk(r) \/ Seal(r) \/ TakeUploadMu(r) \/ PickName(r)
  PROVE  Parted(r) /\ pc'[r] \in MergePlaces \union {"reply"}
<1>1. pc[r] \in MergePlaces /\ UNCHANGED <<lock, uploadDirectories>>
  BY DEF CreatePart, MergeChunk, Seal, TakeUploadMu, PickName, MergePlaces, server
<1>2. /\ req[r] \in ReqState /\ req[r].meta \in Meta /\ req[r].dir \in Dir
      /\ temp[req[r].dir][req[r].id] \in TempState
      /\ temp[req[r].dir][req[r].id].meta = req[r].meta
      /\ AllChunks(temp[req[r].dir][req[r].id])
      /\ OnDisk(pc[r], req[r], temp[req[r].dir][req[r].id])
  BY <1>1, MergeFacts
<1>3. {"merge", "publish", "name", "rename"} \subseteq PC \intersect MergePlaces
  BY DEF PC, MergePlaces
<1>4. CASE \E a \in Answers : AbortMerge(r, a)
  BY <1>1, <1>4, AbortDoes
<1>5. CASE CreatePart(r) /\ ~ \E a \in Answers : AbortMerge(r, a)
  <2>1. SetPart(req[r], <<>>) /\ req' = [req EXCEPT ![r].next = 0] /\ Goto(r, "merge")
    BY <1>5 DEF CreatePart, Answers
  <2>2. <<>> \in Seq(Data) \union {None} /\ 0 \in 0..MaxChunks
    BY UploadAssumption
  <2>3. /\ \A p \in Request \ {r} : SameFor(p)
        /\ SameInputs(req'[r], req[r]) /\ pc'[r] = "merge"
    BY <1>3, <2>1, <2>2, NextFacts DEF IInv, Goto
  <2> QED
    BY <1>1, <1>3, <2>1, <2>2, <2>3, PartGoes
<1>6. CASE MergeChunk(r) /\ ~ \E a \in Answers : AbortMerge(r, a)
  <2> DEFINE o == temp[req[r].dir][req[r].id]
             n == req[r].next
  <2>1. /\ pc[r] = "merge" /\ n < o.meta.total /\ UNCHANGED pc
        /\ SetPart(req[r], Merged(o, n)) /\ req' = [req EXCEPT ![r].next = n + 1]
    BY <1>6 DEF MergeChunk, Answers
  <2>2. /\ n \in Index /\ n + 1 \in 0..MaxChunks /\ n \in Nat
        /\ o.meta.total \in Nat
    <3>1. o.meta \in Meta /\ o.meta.total \in 1..MaxChunks /\ MaxChunks \in Nat
      BY <1>2, UploadAssumption
    <3>2. n \in 0..MaxChunks
      BY <1>2 DEF ReqState
    <3>3. n < o.meta.total
      BY <2>1
    <3> HIDE DEF o, n
    <3> QED
      BY <3>1, <3>2, <3>3 DEF Index
  <2>3. o.chunks[n] \in Data
    <3>1. o.chunks \in [Index -> Data \union {None}]
      BY <1>2 DEF TempState
    <3>2. n \in 0..o.meta.total - 1
      BY <2>1, <2>2
    <3>3. o.chunks[n] # None
      BY <1>2, <3>2 DEF AllChunks
    <3> QED
      BY <2>2, <3>1, <3>3
  <2>4. Merged(o, n) \in Seq(Data) \union {None}
    <3>1. PICK c \in Seq(Data), x \in Data : c = o.part /\ x = o.chunks[n]
      BY <1>2, <2>1, <2>3 DEF OnDisk, Copied
    <3>2. Append(c, x) \in Seq(Data)
      BY AppendProperties
    <3> QED
      BY <3>1, <3>2 DEF Merged
  <2>5. /\ \A p \in Request \ {r} : SameFor(p)
        /\ SameInputs(req'[r], req[r]) /\ pc'[r] = "merge"
    <3>1. pc' = [pc EXCEPT ![r] = "merge"]
      BY <2>1 DEF IInv, TypeOK
    <3> QED
      BY <1>3, <2>1, <2>2, <3>1, NextFacts DEF IInv
  <2> QED
    BY <1>1, <1>3, <2>1, <2>4, <2>5, PartGoes
<1>7. CASE Seal(r) /\ ~ \E a \in Answers : AbortMerge(r, a)
  <2>1. Goto(r, "publish") /\ UNCHANGED <<req, temp>>
    BY <1>7 DEF Seal, Answers
  <2>2. /\ \A p \in Request \ {r} : SameFor(p)
        /\ SameInputs(req'[r], req[r]) /\ pc'[r] = "publish"
    BY <1>3, <2>1, GotoFacts DEF IInv
  <2> QED
    BY <1>1, <1>3, <2>1, <2>2, PartGoes
<1>8. ASSUME NEW key, key \in FileKey, NEW s \in {"name", "rename"},
             req' = [req EXCEPT ![r].key = key], pc' = [pc EXCEPT ![r] = s], UNCHANGED temp
      PROVE  Parted(r) /\ pc'[r] \in MergePlaces \union {"reply"}
  <2>1. PICK q : q = [req[r] EXCEPT !.key = key]
    OBVIOUS
  <2>2. q \in ReqState /\ SameInputs(q, req[r])
    BY <1>2, <1>8, <2>1 DEF ReqState, SameInputs
  <2>3. req' = [req EXCEPT ![r] = q]
    BY <1>8, <2>1
  <2>4. /\ \A p \in Request \ {r} : SameFor(p)
        /\ SameInputs(req'[r], req[r]) /\ pc'[r] = s
    BY <1>3, <1>8, <2>2, <2>3, ReqOthers DEF IInv
  <2> QED
    BY <1>1, <1>3, <1>8, <2>4, PartGoes
<1>9. CASE TakeUploadMu(r) /\ ~ \E a \in Answers : AbortMerge(r, a)
  <2>1. PICK key : key = <<req[r].meta.name, 0>>
    OBVIOUS
  <2>2. key \in FileKey
    BY <1>2, <2>1 DEF FileKey
  <2>3. /\ Goto(r, "name") /\ UNCHANGED temp
        /\ req' = [req EXCEPT ![r].key = key]
    BY <1>9, <2>1 DEF TakeUploadMu, Answers
  <2> QED
    BY <1>8, <2>2, <2>3 DEF Goto
<1>10. CASE PickName(r)
  <2>1. /\ pc[r] = "name" /\ req[r].key \in FileKey /\ UNCHANGED temp
    BY <1>10 DEF PickName, IInv, Naming, disk
  <2>2. CASE Goto(r, "rename") /\ UNCHANGED req
    <3>1. /\ \A p \in Request \ {r} : SameFor(p)
          /\ SameInputs(req'[r], req[r]) /\ pc'[r] = "rename"
      BY <1>3, <2>2, GotoFacts DEF IInv
    <3> QED
      BY <1>1, <1>3, <2>1, <3>1, PartGoes
  <2>3. CASE req' = [req EXCEPT ![r].key = <<req[r].key[1], req[r].key[2] + 1>>] /\ UNCHANGED pc
    <3>1. PICK key : key = <<req[r].key[1], req[r].key[2] + 1>>
      OBVIOUS
    <3>2. key \in FileKey
      BY <2>1, <3>1 DEF FileKey
    <3>3. pc' = [pc EXCEPT ![r] = "name"]
      BY <2>1, <2>3 DEF IInv, TypeOK
    <3> QED
      BY <1>8, <2>1, <2>3, <3>1, <3>2, <3>3
  <2> QED
    BY <1>10, <2>2, <2>3 DEF PickName
<1> QED
  BY <1>4, <1>5, <1>6, <1>7, <1>9, <1>10

LEMMA PublishDoes ==
  ASSUME IInv, NEW r \in Request, PublishFile(r)
  PROVE  /\ Parted(r) /\ pc[r] = "rename"
         /\ \/ /\ pc'[r] = "reply"
               /\ UNCHANGED <<files, spent>>
            \/ /\ pc'[r] = "clean"
               /\ spent' = spent \union {<<req[r].dir, req[r].id>>}
               /\ ~ UNCHANGED <<files, pubs>>
<1>1. pc[r] = "rename" /\ pc[r] \in MergePlaces /\ UNCHANGED <<lock, uploadDirectories>>
  BY DEF PublishFile, MergePlaces
<1>2. CASE AbortMerge(r, "error") /\ UNCHANGED <<files, pubs, spent>>
  <2>1. "error" \in Answers
    BY DEF Answers
  <2> QED
    BY <1>1, <1>2, <2>1, AbortDoes
<1>3. CASE /\ SetPart(req[r], None)
           /\ pubs' = [pubs EXCEPT ![req[r].id] = @ + 1]
           /\ spent' = spent \union {<<req[r].dir, req[r].id>>}
           /\ Goto(r, "clean") /\ UNCHANGED req
  <2>1. "clean" \in PC
    BY DEF PC
  <2>2. /\ \A p \in Request \ {r} : SameFor(p)
        /\ SameInputs(req'[r], req[r]) /\ pc'[r] = "clean"
    BY <1>3, <2>1, GotoFacts DEF IInv
  <2>3. Parted(r)
    BY <1>1, <1>3, <2>2, PartGoes
  <2>4. pubs' # pubs
    BY <1>1, <1>3, MergeFacts DEF IInv, TypeOK
  <2> QED
    BY <1>1, <1>3, <2>2, <2>3, <2>4
<1> QED
  BY <1>2, <1>3 DEF PublishFile

LEMMA PartedBind ==
  ASSUME IInv, BInv, NEW r \in Request, Parted(r),
         pc'[r] \in MergePlaces \union {"reply", "clean"}
  PROVE  BInv'
<1> DEFINE id == req[r].id
           e == req[r].dir
<1>1. GoesOn(r) /\ req'[r].dir = e /\ UNCHANGED uploadDirectories
  BY DEF Parted
<1>2. PICK t \in TempState : Put(req[r].dir, req[r].id, t) /\ Remerged(t, temp[e][id])
  BY DEF Parted
<1>3. temp'[e][id] = t /\ temp[e][id] # None
  <2>1. req[r].dir \in Dir /\ req[r].id \in FileID /\ TypeOK
    BY <1>1 DEF IInv, GoesOn
  <2>2. temp'[req[r].dir][req[r].id] = t
    BY <1>2, <2>1, PutFacts
  <2>3. temp[req[r].dir][req[r].id] # None
    BY MergeFacts DEF Parted
  <2> QED
    BY <2>2, <2>3
<1>4. \A d \in Dir : BindIn(r, d, id)
  BY <1>1 DEF BInv, Bind, GoesOn
<1>5. BindIn(r, e, id)'
  BY <1>1, <1>2, <1>3, <1>4
     DEF BindIn, Loose, BoundThere, ThereBound, GoesOn, Present, Remerged, Parted, MergePlaces
<1>6. \A d \in Dir \ {e} : NothingBreaks /\ temp[d][id] # None => Present(temp[d][id])
  BY <1>4 DEF BindIn, Parted, MergePlaces
<1> QED
  BY <1>1, <1>2, <1>5, <1>6, PutBind DEF ChunkPlaces, MergePlaces

-------------------------------------------------------------------------------
(* The three removals on purpose *)

(* r removes the directory of its upload in d: unless it is interrupted,   *)
(* nothing is left of it, and the binding is forgotten next.               *)
Removed(r, d) ==
  /\ GoesOn(r) /\ d \in Dir /\ req'[r].dir = d
  /\ pc[r] \in {"clean", "admit"} /\ UNCHANGED uploadDirectories
  /\ \E ok \in BOOLEAN, t \in TempState \union {None} :
       /\ Put(d, req[r].id, t)
       /\ ok <=> t = None
       /\ ok \/ (RemovalFault /\ temp[d][req[r].id] # None)
       /\ ok => pc'[r] = "forget" /\ spent' = spent \ {<<d, req[r].id>>}
       /\ ~ ok => pc'[r] \in {"forget", "reply"} /\ UNCHANGED spent

LEMMA RemoveAllDoes ==
  ASSUME IInv, NEW d \in Dir, NEW id \in FileID, NEW ok \in BOOLEAN, RemoveAll(d, id, ok)
  PROVE  \E t \in TempState \union {None} :
           /\ Put(d, id, t)
           /\ ok <=> t = None
           /\ ok \/ (RemovalFault /\ temp[d][id] # None)
           /\ ok => spent' = spent \ {<<d, id>>}
           /\ ~ ok => UNCHANGED spent
<1>1. CASE ok
  BY <1>1 DEF RemoveAll
<1>2. CASE ~ ok
  <2>1. PICK t \in Leftovers(d, id) : Put(d, id, t)
    BY <1>2 DEF RemoveAll
  <2>2. t \in TempState /\ t # None /\ RemovalFault /\ temp[d][id] # None
    BY <2>1, LeftoverTyped, UploadAssumption DEF IInv, Leftovers
  <2> QED
    BY <1>2, <2>1, <2>2 DEF RemoveAll
<1> QED
  BY <1>1, <1>2

LEMMA RemovedBind ==
  ASSUME IInv, BInv, NEW r \in Request, NEW d, Removed(r, d)
  PROVE  BInv'
<1> DEFINE id == req[r].id
<1>1. GoesOn(r) /\ d \in Dir /\ req'[r].dir = d /\ UNCHANGED uploadDirectories
      /\ pc[r] \in {"clean", "admit"}
  BY DEF Removed
<1>2. PICK t \in TempState \union {None} :
        /\ Put(d, req[r].id, t)
        /\ t = None => pc'[r] = "forget"
        /\ t # None => RemovalFault /\ pc'[r] \in {"forget", "reply"}
  BY DEF Removed
<1>3. /\ temp'[d][id] = t
      /\ \A e \in Dir, x \in FileID : e # d \/ x # id => temp'[e][x] = temp[e][x]
  BY <1>1, <1>2, PutFacts DEF IInv, GoesOn
<1>4. Alien(req[r].id)
  BY <1>1, <1>3 DEF Alien
<1>5. ASSUME NEW e \in Dir
      PROVE  BindIn(r, e, req[r].id)'
  <2>1. BindIn(r, e, id)
    BY <1>1 DEF BInv, Bind, GoesOn
  <2>2. CASE e = d
    BY <1>1, <1>2, <1>3, <2>1, <2>2
       DEF BindIn, Loose, BoundThere, ThereBound, GoesOn, NothingBreaks
  <2>3. CASE e # d
    <3>1. temp'[e][id] = temp[e][id]
      BY <1>1, <1>3, <2>3 DEF GoesOn
    <3> QED
      BY <1>1, <2>1, <2>3, <3>1 DEF BindIn, Loose, BoundThere, ThereBound, GoesOn, Present
  <2> QED
    BY <2>2, <2>3
<1>6. pc'[r] \notin ChunkPlaces
  BY <1>2 DEF ChunkPlaces
<1> QED
  BY <1>1, <1>4, <1>5, <1>6, BindStep DEF Bind, GoesOn

LEMMA CleanDoes ==
  ASSUME IInv, NEW r \in Request, Clean(r)
  PROVE  Removed(r, req[r].dir) /\ pc[r] = "clean" /\ req[r].op = "complete" /\ pc'[r] = "forget"
<1>1. pc[r] = "clean" /\ Inside(r) /\ UNCHANGED <<lock, uploadDirectories>>
  BY DEF Clean, Inside, server
<1>2. req[r].op = "complete" /\ req[r].dir \in Dir /\ req[r].id \in FileID
  BY <1>1, Own DEF Shape
<1>3. PICK ok \in BOOLEAN : RemoveAll(req[r].dir, req[r].id, ok)
  BY DEF Clean
<1>4. PICK q \in ReqState : /\ [req EXCEPT ![r].reply = "ok"] = [req EXCEPT ![r] = q]
                            /\ SameInputs(q, req[r])
  BY AnswerFacts DEF Answers, IInv
<1>5. pc' = [pc EXCEPT ![r] = "forget"] /\ req' = [req EXCEPT ![r] = q] /\ "forget" \in PC
  BY <1>4 DEF Clean, Goto, PC
<1>6. /\ \A p \in Request \ {r} : SameFor(p)
      /\ req'[r] = q /\ pc'[r] = "forget"
  BY <1>5, ReqOthers DEF IInv
<1>7. GoesOn(r) /\ req'[r].dir = req[r].dir
  BY <1>1, <1>2, <1>4, <1>6 DEF GoesOn, SameInputs
<1>8. PICK t \in TempState \union {None} :
        /\ Put(req[r].dir, req[r].id, t)
        /\ ok <=> t = None
        /\ ok \/ (RemovalFault /\ temp[req[r].dir][req[r].id] # None)
        /\ ok => spent' = spent \ {<<req[r].dir, req[r].id>>}
        /\ ~ ok => UNCHANGED spent
  BY <1>2, <1>3, RemoveAllDoes
<1> QED
  BY <1>1, <1>2, <1>6, <1>7, <1>8 DEF Removed

LEMMA AdmitCancelDoes ==
  ASSUME IInv, NEW r \in Request, AdmitCancel(r)
  PROVE  /\ Removed(r, UploadDirectoryFor(req[r].id, req[r].dir))
         /\ pc[r] = "admit" /\ req[r].op = "cancel"
         /\ \/ pc'[r] = "forget" /\ req'[r].reply = "ok"
            \/ pc'[r] = "reply" /\ RemovalFault
<1>1. pc[r] = "admit" /\ req[r].op = "cancel" /\ Inside(r)
      /\ UNCHANGED <<lock, uploadDirectories>>
  BY DEF AdmitCancel, Inside, server
<1>2. PICK d \in Dir : d = UploadDirectoryFor(req[r].id, req[r].dir)
  BY <1>1, Own
<1>3. PICK ok \in BOOLEAN :
        /\ RemoveAll(d, req[r].id, ok)
        /\ req' = [req EXCEPT ![r].dir = d, ![r].reply = IF ok THEN "ok" ELSE "error"]
        /\ Goto(r, IF ok THEN "forget" ELSE "reply")
  BY <1>2 DEF AdmitCancel
<1>4. PICK s \in {"forget", "reply"} : s = IF ok THEN "forget" ELSE "reply"
  OBVIOUS
<1>5. PICK a \in Answers : a = IF ok THEN "ok" ELSE "error"
  BY DEF Answers
<1>6. PICK q : q = [req[r] EXCEPT !.dir = d, !.reply = a]
  OBVIOUS
<1>7. req[r] \in ReqState /\ req[r].id \in FileID /\ req[r].dir \in Dir
  BY <1>1, Own
<1>8. q \in ReqState /\ q.id = req[r].id /\ q.op = req[r].op /\ q.dir = d /\ q.reply = a
  BY <1>6, <1>7 DEF ReqState, Answers
<1>9. pc' = [pc EXCEPT ![r] = s] /\ req' = [req EXCEPT ![r] = q] /\ s \in PC
  BY <1>3, <1>4, <1>5, <1>6 DEF Goto, IInv, TypeOK, PC
<1>10. /\ pc'[r] = s /\ req'[r] = q
       /\ \A p \in Request \ {r} : SameFor(p)
  BY <1>8, <1>9, ReqOthers DEF IInv
<1>11. GoesOn(r) /\ req'[r].dir = d
  BY <1>1, <1>7, <1>8, <1>10 DEF GoesOn
<1>12. PICK t \in TempState \union {None} :
        /\ Put(d, req[r].id, t)
        /\ ok <=> t = None
        /\ ok \/ (RemovalFault /\ temp[d][req[r].id] # None)
        /\ ok => spent' = spent \ {<<d, req[r].id>>}
        /\ ~ ok => UNCHANGED spent
  BY <1>3, <1>7, RemoveAllDoes
<1>13. Removed(r, d)
  BY <1>1, <1>4, <1>10, <1>11, <1>12 DEF Removed
<1>14. \/ pc'[r] = "forget" /\ req'[r].reply = "ok"
       \/ pc'[r] = "reply" /\ RemovalFault
  BY <1>4, <1>5, <1>8, <1>10, <1>12
<1> QED
  BY <1>1, <1>2, <1>13, <1>14

LEMMA AdmitSweepDoes ==
  ASSUME IInv, NEW r \in Request, AdmitSweep(r)
  PROVE  /\ GoesOn(r) /\ pc[r] = "admit" /\ req[r].op = "sweep"
         /\ pc'[r] \in {"forget", "reply"} /\ req'[r] = req[r]
         /\ UNCHANGED uploadDirectories
         /\ \/ Abandoned(req[r].dir, req[r].id) /\ Removed(r, req[r].dir)
            \/ UNCHANGED <<temp, spent>> /\ pc'[r] = "reply"
<1>1. pc[r] = "admit" /\ req[r].op = "sweep" /\ Inside(r) /\ UNCHANGED req
      /\ UNCHANGED <<lock, uploadDirectories>>
  BY DEF AdmitSweep, Inside, server
<1>2. req[r].dir \in Dir /\ req[r].id \in FileID
  BY <1>1, Own
<1>3. ASSUME NEW s \in {"forget", "reply"}, Goto(r, s)
      PROVE  GoesOn(r) /\ req'[r] = req[r] /\ pc'[r] = s
  <2>1. s \in PC
    BY DEF PC
  <2>2. /\ \A p \in Request \ {r} : SameFor(p)
        /\ req'[r] = req[r] /\ pc'[r] = s
    BY <1>1, <1>3, <2>1, GotoFacts DEF IInv
  <2> QED
    BY <1>1, <1>2, <2>2 DEF GoesOn
<1>4. CASE Goto(r, "reply") /\ UNCHANGED <<temp, acked, spent>>
  BY <1>1, <1>3, <1>4
<1>5. CASE /\ Abandoned(req[r].dir, req[r].id)
           /\ \E ok \in BOOLEAN : /\ RemoveAll(req[r].dir, req[r].id, ok)
                                  /\ Goto(r, IF ok THEN "forget" ELSE "reply")
  <2>1. PICK ok \in BOOLEAN : /\ RemoveAll(req[r].dir, req[r].id, ok)
                              /\ Goto(r, IF ok THEN "forget" ELSE "reply")
    BY <1>5
  <2>2. PICK s \in {"forget", "reply"} : s = IF ok THEN "forget" ELSE "reply"
    OBVIOUS
  <2>3. GoesOn(r) /\ req'[r] = req[r] /\ pc'[r] = s
    BY <1>3, <2>1, <2>2
  <2>4. PICK t \in TempState \union {None} :
        /\ Put(req[r].dir, req[r].id, t)
        /\ ok <=> t = None
        /\ ok \/ (RemovalFault /\ temp[req[r].dir][req[r].id] # None)
        /\ ok => spent' = spent \ {<<req[r].dir, req[r].id>>}
        /\ ~ ok => UNCHANGED spent
    BY <1>2, <2>1, RemoveAllDoes
  <2>5. Removed(r, req[r].dir)
    BY <1>1, <1>2, <2>2, <2>3, <2>4 DEF Removed
  <2> QED
    BY <1>1, <1>5, <2>3, <2>5
<1> QED
  BY <1>4, <1>5 DEF AdmitSweep

LEMMA AdmitSweepBind ==
  ASSUME IInv, BInv, NEW r \in Request, AdmitSweep(r)
  PROVE  BInv'
<1>1. /\ GoesOn(r) /\ pc[r] = "admit" /\ pc'[r] \in {"forget", "reply"}
      /\ UNCHANGED uploadDirectories
      /\ Removed(r, req[r].dir) \/ (UNCHANGED temp /\ pc'[r] = "reply")
  BY AdmitSweepDoes
<1>2. CASE UNCHANGED temp /\ pc'[r] = "reply"
  BY <1>1, <1>2, BindQuiet DEF GoesOn, ChunkPlaces, Loose
<1> QED
  BY <1>1, <1>2, RemovedBind

-------------------------------------------------------------------------------
(* Outside the mutex and around the handlers *)

LEMMA BeginDoes ==
  ASSUME IInv, NEW r \in Request, Arrive(r) \/ Sweeper(r)
  PROVE  /\ pc[r] = "idle" /\ pc'[r] = (IF req'[r].op = "cancel" THEN "mark" ELSE "lock")
         /\ \A p \in Request \ {r} : SameFor(p)
         /\ UNCHANGED <<uploadDir, server, lock, disk, history, crashes>>
<1>1. PICK input : Begin(r, input)
  BY DEF Arrive, Sweeper, BeginChunk, BeginComplete, BeginCancel, BeginSweep
<1> QED
  BY <1>1 DEF Begin, Goto, IInv, TypeOK, SameFor

LEMMA MarkDoes ==
  ASSUME IInv, NEW r \in Request, Mark(r)
  PROVE  /\ pc[r] = "mark" /\ pc'[r] = "lock" /\ req' = req
         /\ req[r].id \in FileID /\ req[r] \in ReqState
         /\ \A p \in Request \ {r} : SameFor(p)
         /\ UNCHANGED <<lock, temp, files, uploadDirectories, stale, spent>>
         /\ cancelledUploads' = Marked(req[r].id)
         /\ cancelAck' = cancelAck \intersect Tombstones(Marked(req[r].id))
BY Own DEF Mark, Goto, disk, IInv, TypeOK, SameFor

LEMMA OutsideBind ==
  ASSUME IInv, BInv, NEW r \in Request, Arrive(r) \/ Sweeper(r) \/ Mark(r)
  PROVE  BInv'
<1>1. CASE Arrive(r) \/ Sweeper(r)
  BY <1>1, BeginDoes, BindOutside DEF Inside, server, disk
<1>2. CASE Mark(r)
  BY <1>2, MarkDoes, BindOutside DEF Inside
<1> QED
  BY <1>1, <1>2

(* Steps of the world that leave bindings and directories alone            *)
LEMMA WorldBind ==
  ASSUME BInv, UNCHANGED <<pc, req, lock, temp, uploadDirectories>>
  PROVE  BInv'
BY DEF BInv, Bind, Vacant, VacantIn, Inside, BindIn, Loose, BoundThere, ThereBound

LEMMA AgeDoes ==
  ASSUME IInv, Age
  PROVE  /\ UNCHANGED <<uploadDir, server, lock, files, pc, req, history, crashes>>
         /\ \E d \in Dir, id \in FileID, t \in TempState :
              /\ temp[d][id] \in TempState /\ temp[d][id] # None /\ ~ temp[d][id].old
              /\ Put(d, id, t)
              /\ t.meta = temp[d][id].meta /\ t.chunks = temp[d][id].chunks /\ t.old
<1>1. PICK d \in Dir, id \in FileID :
        /\ temp[d][id] # None /\ ~ temp[d][id].old
        /\ Put(d, id, [temp[d][id] EXCEPT !.old = TRUE])
  BY DEF Age
<1>2. PICK o \in TempState : o = temp[d][id]
  BY <1>1 DEF IInv, TypeOK
<1>3. PICK t : t = [o EXCEPT !.old = TRUE]
  OBVIOUS
<1>4. t \in TempState /\ t.meta = o.meta /\ t.chunks = o.chunks /\ t.old
  BY <1>2, <1>3 DEF TempState
<1> QED
  BY <1>1, <1>2, <1>3, <1>4 DEF Age

LEMMA AgeBind ==
  ASSUME IInv, BInv, Age
  PROVE  BInv'
<1>1. UNCHANGED <<lock, pc, req, uploadDirectories>>
  BY AgeDoes DEF server
<1>2. PICK d \in Dir, id \in FileID, t \in TempState :
        /\ temp[d][id] # None /\ Put(d, id, t)
        /\ t.meta = temp[d][id].meta /\ t.chunks = temp[d][id].chunks
  BY AgeDoes
<1>3. /\ temp'[d][id] = t /\ t # None
      /\ \A e \in Dir, x \in FileID : e # d \/ x # id => temp'[e][x] = temp[e][x]
  BY <1>2, PutFacts, UploadAssumption DEF IInv
<1>4. \A e \in Dir, x \in FileID :
        /\ temp'[e][x] = None <=> temp[e][x] = None
        /\ Present(temp'[e][x]) <=> Present(temp[e][x])
        /\ temp'[e][x].chunks = temp[e][x].chunks
  BY <1>2, <1>3 DEF Present
<1>5. ASSUME NEW r \in Request, Inside(r)
      PROVE  Bind(r)'
  <2>1. Bind(r) /\ req[r].id \in FileID
    BY <1>5, Own DEF BInv, Inside
  <2> QED
    BY <1>1, <1>4, <1>5, <2>1 DEF Bind, BindIn, Loose, BoundThere, ThereBound
<1>6. ASSUME NEW x \in FileID
      PROVE  Vacant(x)'
  <2>1. Vacant(x)
    BY DEF BInv
  <2> QED
    BY <1>1, <1>4, <2>1 DEF Vacant, VacantIn, BoundThere, ThereBound
<1>7. \A r \in Request : Bind(r)'
  BY <1>1, <1>5 DEF Bind, Inside
<1> QED
  BY <1>6, <1>7 DEF BInv

(* A crash is what NothingBreaks rules out.                                *)
LEMMA CrashBind ==
  ASSUME IInv, Crash
  PROVE  BInv' /\ ~ NothingBreaks
<1>1. ~ NothingBreaks
  BY UploadAssumption DEF Crash, IInv, TypeOK, NothingBreaks
<1>2. \A r \in Request : ~ Inside(r)'
  BY DEF Crash, Inside
<1>3. \A id \in FileID, d \in Dir : ~ (uploadDirectories'[id] = d)
  BY UploadAssumption DEF Crash
<1> QED
  BY <1>1, <1>2, <1>3 DEF BInv, Bind, Vacant, VacantIn, BoundThere, NothingBreaks, RemovalFault

LEMMA InitBind == Init => BInv
<1> SUFFICES ASSUME Init
             PROVE  BInv
  OBVIOUS
<1>1. \A r \in Request : ~ Inside(r)
  BY DEF Init, Inside
<1>2. \A id \in FileID, d \in Dir : ~ (uploadDirectories[id] = d) /\ temp[d][id] = None
  BY UploadAssumption DEF Init
<1> QED
  BY <1>1, <1>2 DEF BInv, Bind, Vacant, VacantIn, BoundThere, ThereBound

LEMMA NextBind == IInv /\ BInv /\ [Next]_vars => BInv'
<1> SUFFICES ASSUME IInv, BInv, [Next]_vars
             PROVE  BInv'
  OBVIOUS
<1>1. ASSUME NEW r \in Request, ChunkStep(r)
      PROVE  BInv'
  BY <1>1, AdmitChunkBind, ReserveBind, MakeTempBind, WriteMetaBind, StoreBind, UndoBind
     DEF ChunkStep
<1>2. ASSUME NEW r \in Request, CompleteStep(r)
      PROVE  BInv'
  BY <1>2, AdmitCompleteBind, MergeDoes, PublishDoes, PartedBind, CleanDoes, RemovedBind
     DEF CompleteStep
<1>3. ASSUME NEW r \in Request, AdmitCancel(r)
      PROVE  BInv'
  BY <1>3, AdmitCancelDoes, RemovedBind
<1>4. ASSUME NEW r \in Request, Serve(r)
      PROVE  BInv'
  BY <1>1, <1>2, <1>3, <1>4, OutsideBind, LockBind, AdmitSweepBind, ForgetBind, ReplyBind
     DEF Serve
<1>5. CASE World
  <2>1. CASE SetUploadDir \/ ExpireTombstone \/ DeleteFile
    BY <2>1, WorldBind DEF SetUploadDir, ExpireTombstone, DeleteFile, server, disk
  <2> QED
    BY <1>5, <2>1, AgeBind, CrashBind DEF World
<1>6. CASE UNCHANGED vars
  BY <1>6, WorldBind DEF vars, server, disk
<1> QED
  BY <1>4, <1>5, <1>6, OutsideBind DEF Next

(* The bindings keep IInv company in every reachable state.                *)
LEMMA Binding == Spec => [](IInv /\ BInv)
<1>1. Init => IInv /\ BInv
  BY InitStep, InitBind
<1>2. IInv /\ BInv /\ [Next]_vars => IInv' /\ BInv'
  BY NextStep, NextBind
<1> QED
  BY <1>1, <1>2, PTL DEF Spec

(* An upload that is bound to a directory has that directory between       *)
(* requests, whichever change of the disk fails and however often the      *)
(* server crashes, as long as what is on the disk can be read:             *)
(* forgetUploadDirectory is never too late, and the next chunk of a rolled *)
(* back upload is free to go to the directory of the moment                *)
(* (upload.go:160-203, 557-567).  Metadata that cannot be read answers     *)
(* before the rollback is deferred and leaves the binding (549-552).       *)
BoundOnDisk ==
  \A id \in FileID, d \in Dir :
    lock[id] = None /\ uploadDirectories[id] = d => temp[d][id] # None

THEOREM BoundIsThere == ~ ReadFault => (Spec => []BoundOnDisk)
<1>1. ASSUME ~ ReadFault
      PROVE  BInv => BoundOnDisk
  BY <1>1 DEF BInv, BoundOnDisk, Vacant, VacantIn, BoundThere
<1>2. ASSUME ~ ReadFault
      PROVE  Spec => []BoundOnDisk
  BY <1>1, <1>2, Binding, PTL
<1> QED
  BY <1>2

(* As long as no removal fails, the server does not crash and metadata can *)
(* be read, an upload has a directory between requests exactly where it is *)
(* bound, so its chunks never split over two directories                   *)
(* (upload.go:160-203).                                                    *)
THEOREM BindingsExact == NothingBreaks /\ ~ ReadFault => (Spec => []BindingExact)
<1>1. ASSUME NothingBreaks, ~ ReadFault
      PROVE  BInv => BindingExact
  BY <1>1 DEF BInv, BindingExact, Vacant, VacantIn, BoundThere, ThereBound
<1>2. ASSUME NothingBreaks, ~ ReadFault
      PROVE  Spec => []BindingExact
  BY <1>1, <1>2, Binding, PTL
<1> QED
  BY <1>2

-------------------------------------------------------------------------------
(* The tombstones: a registry in which every id occurs once                *)
Distinct(seq) == \A i, j \in 1..Len(seq) : seq[i] = seq[j] => i = j

LEMMA WithoutOne ==
  ASSUME NEW S, NEW seq \in Seq(S), Distinct(seq), NEW id
  PROVE  /\ Distinct(Without(seq, id))
         /\ Tombstones(Without(seq, id)) = Tombstones(seq) \ {id}
<1>1. CASE id \notin Tombstones(seq)
  BY <1>1 DEF Without
<1>2. CASE id \in Tombstones(seq)
  <2>1. PICK k : k = CHOOSE j \in 1..Len(seq) : seq[j] = id
    OBVIOUS
  <2>2. k \in 1..Len(seq) /\ seq[k] = id
    BY <1>2, <2>1 DEF Tombstones
  <2>3. PICK n \in Nat : n = Len(seq) - 1 /\ Len(seq) = n + 1
    BY <2>2
  <2>4. PICK w : w = [j \in 1..n |-> IF j < k THEN seq[j] ELSE seq[j + 1]]
    OBVIOUS
  <2>5. Without(seq, id) = w
    BY <1>2, <2>1, <2>3, <2>4 DEF Without
  <2>6. Len(w) = n
    BY <2>3, <2>4
  <2>7. \A i, j \in 1..n + 1 : seq[i] = seq[j] => i = j
    BY <2>3 DEF Distinct
  <2>8. Distinct(w)
    <3>1. SUFFICES ASSUME NEW i \in 1..n, NEW j \in 1..n, w[i] = w[j]
                   PROVE  i = j
      BY <2>6 DEF Distinct
    <3>2. PICK a \in 1..n + 1 : w[i] = seq[a] /\ a = IF i < k THEN i ELSE i + 1
      BY <2>2, <2>3, <2>4
    <3>3. PICK b \in 1..n + 1 : w[j] = seq[b] /\ b = IF j < k THEN j ELSE j + 1
      BY <2>2, <2>3, <2>4
    <3>4. a = b
      BY <2>7, <3>1, <3>2, <3>3
    <3> QED
      BY <2>2, <2>3, <3>2, <3>3, <3>4
  <2>9. Tombstones(w) \subseteq Tombstones(seq) \ {id}
    <3> SUFFICES ASSUME NEW j \in 1..n
                 PROVE  w[j] \in Tombstones(seq) /\ w[j] # id
      BY <2>6 DEF Tombstones
    <3>1. PICK a \in 1..n + 1 : w[j] = seq[a] /\ a # k
      BY <2>2, <2>3, <2>4
    <3>2. seq[a] # id
      BY <2>2, <2>3, <2>7, <3>1
    <3> QED
      BY <2>3, <3>1, <3>2 DEF Tombstones
  <2>10. Tombstones(seq) \ {id} \subseteq Tombstones(w)
    <3> SUFFICES ASSUME NEW j \in 1..n + 1, seq[j] # id
                 PROVE  seq[j] \in Tombstones(w)
      BY <2>3 DEF Tombstones
    <3>1. j # k
      BY <2>2
    <3>2. CASE j < k
      BY <2>2, <2>3, <2>4, <2>6, <3>2 DEF Tombstones
    <3>3. CASE j > k
      <4>1. j - 1 \in 1..n /\ ~ (j - 1 < k) /\ (j - 1) + 1 = j
        BY <2>2, <2>3, <3>3
      <4>2. w[j - 1] = seq[j]
        BY <2>4, <4>1
      <4> QED
        BY <2>6, <4>1, <4>2 DEF Tombstones
    <3> QED
      BY <2>2, <3>1, <3>2, <3>3
  <2> QED
    BY <2>5, <2>8, <2>9, <2>10
<1> QED
  BY <1>1, <1>2

LEMMA TailOne ==
  ASSUME NEW S, NEW seq \in Seq(S), Distinct(seq), seq # <<>>
  PROVE  /\ Distinct(Tail(seq)) /\ Head(seq) \in Tombstones(seq)
         /\ Tombstones(Tail(seq)) = Tombstones(seq) \ {Head(seq)}
<1>1. PICK n \in Nat : Len(seq) = n + 1
  BY EmptySeq, LenProperties
<1>2. PICK w \in Seq(S) : w = Tail(seq)
  BY HeadTailProperties
<1>3. Len(w) = n /\ \A i \in 1..n : w[i] = seq[i + 1]
  BY <1>1, <1>2, HeadTailProperties
<1>4. Head(seq) = seq[1]
  BY <1>1
<1>5. Distinct(w)
  <2> SUFFICES ASSUME NEW i \in 1..n, NEW j \in 1..n, w[i] = w[j]
               PROVE  i = j
    BY <1>3 DEF Distinct
  <2>1. i + 1 \in 1..Len(seq) /\ j + 1 \in 1..Len(seq) /\ seq[i + 1] = seq[j + 1]
    BY <1>1, <1>3
  <2>2. i + 1 = j + 1
    BY <2>1 DEF Distinct
  <2> QED
    BY <2>2
<1>6. Tombstones(w) = Tombstones(seq) \ {seq[1]}
  <2>1. ASSUME NEW i \in 1..n
        PROVE  w[i] \in Tombstones(seq) /\ w[i] # seq[1]
    <3>1. i + 1 \in 1..Len(seq) /\ 1 \in 1..Len(seq) /\ i + 1 # 1 /\ w[i] = seq[i + 1]
      BY <1>1, <1>3
    <3> QED
      BY <3>1 DEF Distinct, Tombstones
  <2>2. ASSUME NEW j \in 1..n + 1, seq[j] # seq[1]
        PROVE  seq[j] \in Tombstones(w)
    <3>1. j - 1 \in 1..n /\ w[j - 1] = seq[(j - 1) + 1] /\ (j - 1) + 1 = j
      BY <1>3, <2>2
    <3> QED
      BY <1>3, <3>1 DEF Tombstones
  <2>3. /\ Tombstones(w) = {w[k] : k \in 1..n}
        /\ Tombstones(seq) = {seq[k] : k \in 1..n + 1}
    BY <1>1, <1>3 DEF Tombstones
  <2> QED
    BY <2>1, <2>2, <2>3
<1>7. seq[1] \in Tombstones(seq)
  BY <1>1 DEF Tombstones
<1> QED
  BY <1>2, <1>4, <1>5, <1>6, <1>7

LEMMA AppendOne ==
  ASSUME NEW S, NEW seq \in Seq(S), Distinct(seq), NEW id \in S, id \notin Tombstones(seq)
  PROVE  /\ Distinct(Append(seq, id))
         /\ Tombstones(Append(seq, id)) = Tombstones(seq) \union {id}
<1>1. PICK n \in Nat : Len(seq) = n
  BY LenProperties
<1>2. PICK w \in Seq(S) : w = Append(seq, id)
  BY AppendProperties
<1>3. Len(w) = n + 1 /\ w[n + 1] = id /\ \A i \in 1..n : w[i] = seq[i]
  BY <1>1, <1>2, AppendProperties
<1>4. \A i \in 1..n : seq[i] # id
  BY <1>1 DEF Tombstones
<1>5. Distinct(w)
  <2> SUFFICES ASSUME NEW i \in 1..n + 1, NEW j \in 1..n + 1, w[i] = w[j]
               PROVE  i = j
    BY <1>3 DEF Distinct
  <2>1. CASE i \in 1..n /\ j \in 1..n
    BY <1>1, <1>3, <2>1 DEF Distinct
  <2>2. CASE i = n + 1 \/ j = n + 1
    BY <1>3, <1>4, <2>2
  <2> QED
    BY <2>1, <2>2
<1>6. Tombstones(w) = Tombstones(seq) \union {id}
  <2>1. /\ Tombstones(w) = {w[k] : k \in 1..n + 1}
        /\ Tombstones(seq) = {seq[k] : k \in 1..n}
    BY <1>1, <1>3 DEF Tombstones
  <2>2. \A k \in 1..n + 1 : k \in 1..n \/ k = n + 1
    OBVIOUS
  <2>3. \A k \in 1..n : k \in 1..n + 1
    OBVIOUS
  <2>4. n + 1 \in 1..n + 1
    OBVIOUS
  <2> QED
    BY <1>3, <2>1, <2>2, <2>3, <2>4
<1> QED
  BY <1>2, <1>5, <1>6

(* Tombstones outlive every request: none expires, and the registry holds  *)
(* one of each file_id.  At its limit the oldest makes room even for an id *)
(* that has one, hence the strict bound but for a single file_id.          *)
Roomy ==
  /\ "expire" \notin Hazard
  /\ IsFiniteSet(FileID)
  /\ Cardinality(FileID) < MaxTombs \/ Cardinality(FileID) = 1

(* markUploadCancelled pushes out at most one other tombstone.             *)
LEMMA MarkedOne ==
  ASSUME TypeOK, Distinct(cancelledUploads), NEW id \in FileID
  PROVE  /\ Distinct(Marked(id)) /\ id \in Tombstones(Marked(id))
         /\ \E out \in SUBSET Tombstones(cancelledUploads) :
              /\ Cardinality(out) <= 1
              /\ Tombstones(Marked(id)) = (Tombstones(cancelledUploads) \ out) \union {id}
         /\ Roomy => Tombstones(cancelledUploads) \subseteq Tombstones(Marked(id))
<1>1. PICK seq \in Seq(FileID) : seq = cancelledUploads /\ Len(seq) <= MaxTombs
  BY DEF TypeOK
<1>2. PICK kept : kept = IF Len(seq) < MaxTombs THEN seq ELSE Tail(seq)
  OBVIOUS
<1>3. PICK out \in SUBSET Tombstones(seq) :
        /\ kept \in Seq(FileID) /\ Distinct(kept)
        /\ Tombstones(kept) = Tombstones(seq) \ out
        /\ Cardinality(out) <= 1
        /\ Len(seq) < MaxTombs => out = {}
  <2>1. CASE Len(seq) < MaxTombs
    <3>1. Cardinality({}) = 0
      BY FS_EmptySet
    <3>2. Cardinality({}) <= 1 /\ Tombstones(seq) = Tombstones(seq) \ {} /\ kept = seq
      BY <1>2, <2>1, <3>1
    <3> QED
      BY <1>1, <3>2
  <2>2. CASE ~ Len(seq) < MaxTombs
    <3>1. seq # <<>>
      BY <1>1, <2>2, LenProperties, EmptySeq, UploadAssumption
    <3>2. /\ Tail(seq) \in Seq(FileID) /\ Distinct(Tail(seq)) /\ Head(seq) \in Tombstones(seq)
          /\ Tombstones(Tail(seq)) = Tombstones(seq) \ {Head(seq)}
      BY <1>1, <3>1, TailOne, HeadTailProperties
    <3>3. Cardinality({Head(seq)}) = 1
      BY FS_Singleton
    <3> QED
      BY <1>2, <2>2, <3>2, <3>3
  <2> QED
    BY <2>1, <2>2
<1>4. PICK w : w = Without(kept, id)
  OBVIOUS
<1>5. /\ w \in Seq(FileID) /\ Distinct(w)
      /\ Tombstones(w) = Tombstones(kept) \ {id}
  BY <1>3, <1>4, WithoutOne, WithoutFacts
<1>6. /\ Distinct(Append(w, id))
      /\ Tombstones(Append(w, id)) = Tombstones(w) \union {id}
  BY <1>5, AppendOne
<1>7. Marked(id) = Append(w, id)
  BY <1>1, <1>2, <1>4 DEF Marked
<1>8. Tombstones(Marked(id)) = (Tombstones(seq) \ out) \union {id}
  BY <1>3, <1>5, <1>6, <1>7
<1>9. ASSUME Roomy
      PROVE  Tombstones(seq) \subseteq Tombstones(Marked(id))
  <2>1. CASE Cardinality(FileID) < MaxTombs
    <3>1. PICK n \in Nat : n = Len(seq) /\ seq \in [1..n -> FileID]
      BY LenProperties
    <3>2. IsFiniteSet(1..n) /\ Cardinality(1..n) = n
      BY FS_Interval
    <3>3. Cardinality(FileID) \in Nat /\ IsFiniteSet(FileID)
      BY <1>9, FS_CardinalityType DEF Roomy
    <3>4. ~ (Cardinality(FileID) < n)
      <4> SUFFICES ASSUME Cardinality(FileID) < Cardinality(1..n)
                   PROVE  FALSE
        BY <3>2
      <4>1. \E x, y \in 1..n : x # y /\ seq[x] = seq[y]
        BY <3>1, <3>2, <3>3, FS_PigeonHole
      <4> QED
        BY <1>1, <3>1, <4>1 DEF Distinct
    <3>5. Len(seq) < MaxTombs
      BY <2>1, <3>1, <3>3, <3>4, UploadAssumption
    <3> QED
      BY <1>3, <1>8, <3>5
  <2>2. CASE Cardinality(FileID) = 1
    <3>1. FileID = {id}
      BY <1>9, <2>2, FS_Singleton DEF Roomy
    <3>2. Tombstones(seq) \subseteq FileID
      BY DEF Tombstones
    <3> QED
      BY <1>8, <3>1, <3>2
  <2> QED
    BY <1>9, <2>1, <2>2 DEF Roomy
<1> QED
  BY <1>1, <1>3, <1>6, <1>7, <1>8, <1>9

-------------------------------------------------------------------------------
(* A chunk request that was queued when its cancellation returned          *)
Waits(r) ==
  r \in stale =>
    /\ pc[r] \notin {"idle", "mark"} /\ req[r].op = "chunk"
    /\ Roomy => req[r].id \in cancelAck

(* Nobody is past the tombstone check of an upload whose cancellation was  *)
(* answered and still has its tombstone.                                   *)
Past(r) ==
  /\ req[r].op = "chunk" /\ pc[r] \in ChunkPlaces \union {"forget"} => req[r].id \notin cancelAck
  /\ pc[r] = "mark" => req[r].op = "cancel"

(* A cancellation that marked its upload finds the tombstone to the end.   *)
Marks(r) ==
  Roomy /\ req[r].op = "cancel" /\ pc[r] \notin {"idle", "mark"} => Cancelled(req[r].id)

SInv ==
  /\ Distinct(cancelledUploads)
  /\ cancelAck \subseteq Tombstones(cancelledUploads)
  /\ \A r \in Request : Waits(r) /\ Past(r) /\ Marks(r)

(* A step of r that leaves the tombstones alone                            *)
LEMMA StaleStep ==
  ASSUME SInv, NEW r \in Request, \A p \in Request \ {r} : SameFor(p),
         UNCHANGED <<cancelledUploads, cancelAck, stale>>,
         Waits(r)' /\ Past(r)' /\ Marks(r)'
  PROVE  SInv'
<1>1. ASSUME NEW p \in Request \ {r}
      PROVE  Waits(p)' /\ Past(p)' /\ Marks(p)'
  <2>1. Waits(p) /\ Past(p) /\ Marks(p) /\ SameFor(p)
    BY DEF SInv
  <2> QED
    BY <2>1 DEF Waits, Past, Marks, SameFor, Cancelled
<1> QED
  BY <1>1 DEF SInv

LEMMA StaleInside ==
  ASSUME SInv, NEW r \in Request, \A p \in Request \ {r} : SameFor(p),
         UNCHANGED <<cancelledUploads, cancelAck, stale>>,
         req'[r].id = req[r].id, req'[r].op = req[r].op,
         pc[r] \notin {"idle", "mark"}, pc'[r] \notin {"idle", "mark"},
         \/ req[r].op # "chunk"
         \/ pc'[r] \notin ChunkPlaces \union {"forget"}
         \/ pc[r] \in ChunkPlaces
         \/ ~ Cancelled(req[r].id)
  PROVE  SInv'
<1>1. Waits(r) /\ Past(r) /\ Marks(r) /\ cancelAck \subseteq Tombstones(cancelledUploads)
  BY DEF SInv
<1>2. Waits(r)' /\ Past(r)' /\ Marks(r)'
  BY <1>1 DEF Waits, Past, Marks, Cancelled
<1> QED
  BY <1>2, StaleStep

LEMMA RegistryKept ==
  ASSUME NEW r \in Request,
         \/ ChunkStep(r) \/ CompleteStep(r) \/ LockUpload(r)
         \/ AdmitCancel(r) \/ AdmitSweep(r) \/ Forget(r)
  PROVE  UNCHANGED <<cancelledUploads, cancelAck, stale>>
<1>1. CASE ChunkStep(r)
  BY <1>1 DEF ChunkStep, AdmitChunk, ReserveChunk, CountActive, MakeTemp, WriteMeta,
     StoreChunk, Undo, server, history
<1>2. CASE CompleteStep(r)
  BY <1>2 DEF CompleteStep, AdmitComplete, CreatePart, MergeChunk, Seal, TakeUploadMu, PickName,
     PublishFile, Clean, server, history
<1>3. CASE LockUpload(r) \/ AdmitCancel(r) \/ AdmitSweep(r) \/ Forget(r)
  BY <1>3 DEF LockUpload, AdmitCancel, AdmitSweep, Forget, server, history
<1> QED
  BY <1>1, <1>2, <1>3

LEMMA ChunkStale ==
  ASSUME IInv, SInv, NEW r \in Request, ChunkStep(r)
  PROVE  SInv'
<1>1. UNCHANGED <<cancelledUploads, cancelAck, stale>>
  BY RegistryKept
<1>2. CASE AdmitChunk(r)
  <2>1. /\ pc[r] = "admit" /\ \A p \in Request \ {r} : SameFor(p)
        /\ req'[r].id = req[r].id /\ req'[r].op = req[r].op
        /\ pc'[r] \in {"reply", "reserve"}
        /\ pc'[r] = "reserve" => ~ Cancelled(req[r].id)
    BY <1>2, AdmitChunkDoes
  <2> QED
    BY <1>1, <2>1, StaleInside DEF ChunkPlaces
<1>3. CASE ReserveChunk(r) \/ CountActive(r)
  <2>1. /\ pc[r] \in {"reserve", "count"} /\ \A p \in Request \ {r} : SameFor(p)
        /\ SameInputs(req'[r], req[r])
        /\ pc'[r] \in {"undo", "forget", "count", "mkdir", "store", "reply"}
    BY <1>3, ReserveDoes
  <2> QED
    BY <1>1, <2>1, StaleInside DEF ChunkPlaces, SameInputs
<1>4. CASE MakeTemp(r) \/ WriteMeta(r) \/ StoreChunk(r) \/ Undo(r)
  <2>1. /\ GoesOn(r) /\ pc[r] \in {"mkdir", "meta", "store", "undo"}
        /\ pc'[r] \in {"meta", "store", "undo", "forget", "reply"}
    BY <1>4, MakeTempDoes, WriteMetaDoes, StoreDoes, UndoDoes
  <2> QED
    BY <1>1, <2>1, StaleInside DEF ChunkPlaces, GoesOn
<1> QED
  BY <1>2, <1>3, <1>4 DEF ChunkStep

LEMMA InsideStale ==
  ASSUME IInv, SInv, NEW r \in Request,
         LockUpload(r) \/ CompleteStep(r) \/ AdmitCancel(r) \/ AdmitSweep(r) \/ Forget(r)
  PROVE  SInv'
<1>1. UNCHANGED <<cancelledUploads, cancelAck, stale>>
  BY RegistryKept
<1>2. CASE LockUpload(r)
  <2>1. /\ pc[r] = "lock" /\ pc'[r] = "admit" /\ req' = req
        /\ \A p \in Request \ {r} : SameFor(p)
    BY <1>2 DEF LockUpload, Goto, IInv, TypeOK, SameFor
  <2> QED
    BY <1>1, <2>1, StaleInside DEF ChunkPlaces
<1>3. CASE CompleteStep(r)
  <2>1. /\ GoesOn(r) /\ req[r].op = "complete"
        /\ pc[r] \notin {"idle", "mark"} /\ pc'[r] \notin {"idle", "mark"}
    <3>1. CASE AdmitComplete(r) \/ Clean(r)
      BY <3>1, AdmitCompleteDoes, CleanDoes DEF Removed
    <3>2. CASE \/ CreatePart(r) \/ MergeChunk(r) \/ Seal(r) \/ TakeUploadMu(r)
               \/ PickName(r) \/ PublishFile(r)
      <4>1. Parted(r) /\ pc'[r] \in MergePlaces \union {"reply", "clean"}
        BY <3>2, MergeDoes, PublishDoes
      <4> QED
        BY <4>1, MergeFacts DEF Parted, MergePlaces
    <3> QED
      BY <1>3, <3>1, <3>2 DEF CompleteStep
  <2> QED
    BY <1>1, <2>1, StaleInside DEF GoesOn
<1>4. CASE AdmitCancel(r) \/ AdmitSweep(r)
  <2>1. /\ GoesOn(r) /\ req[r].op # "chunk"
        /\ pc[r] = "admit" /\ pc'[r] \in {"forget", "reply"}
    BY <1>4, AdmitCancelDoes, AdmitSweepDoes DEF Removed
  <2> QED
    BY <1>1, <2>1, StaleInside DEF GoesOn
<1>5. CASE Forget(r)
  <2>1. GoesOn(r) /\ pc[r] = "forget" /\ pc'[r] = "reply"
    BY <1>5, ForgetDoes
  <2> QED
    BY <1>1, <2>1, StaleInside DEF GoesOn, ChunkPlaces
<1> QED
  BY <1>2, <1>3, <1>4, <1>5

LEMMA ArriveStale ==
  ASSUME IInv, SInv, NEW r \in Request, Arrive(r) \/ Sweeper(r)
  PROVE  SInv'
<1>1. /\ pc[r] = "idle" /\ pc'[r] = (IF req'[r].op = "cancel" THEN "mark" ELSE "lock")
      /\ \A p \in Request \ {r} : SameFor(p)
      /\ UNCHANGED <<cancelledUploads, cancelAck, stale>>
  BY BeginDoes DEF server, history
<1>2. r \notin stale
  BY <1>1 DEF SInv, Waits
<1>3. Waits(r)' /\ Past(r)' /\ Marks(r)'
  BY <1>1, <1>2 DEF Waits, Past, Marks, ChunkPlaces
<1> QED
  BY <1>1, <1>3, StaleStep

LEMMA MarkStale ==
  ASSUME IInv, SInv, NEW r \in Request, Mark(r)
  PROVE  SInv'
<1> DEFINE id == req[r].id
<1>1. /\ pc[r] = "mark" /\ pc'[r] = "lock" /\ req' = req /\ id \in FileID
      /\ \A p \in Request \ {r} : SameFor(p)
      /\ UNCHANGED stale
      /\ cancelledUploads' = Marked(id)
      /\ cancelAck' = cancelAck \intersect Tombstones(Marked(id))
  BY MarkDoes
<1>2. PICK seq : seq = Marked(id)
  OBVIOUS
<1>3. /\ Distinct(seq) /\ id \in Tombstones(seq)
      /\ Roomy => Tombstones(cancelledUploads) \subseteq Tombstones(seq)
  BY <1>1, <1>2, MarkedOne DEF IInv, SInv
<1>4. /\ cancelledUploads' = seq /\ cancelAck' = cancelAck \intersect Tombstones(seq)
      /\ Roomy => cancelAck' = cancelAck
  BY <1>1, <1>2, <1>3 DEF SInv
<1>5. ASSUME NEW p \in Request
      PROVE  Waits(p)' /\ Past(p)' /\ Marks(p)'
  <2>1. Waits(p) /\ Past(p) /\ Marks(p)
    BY DEF SInv
  <2>2. CASE p = r
    BY <1>1, <1>3, <1>4, <2>1, <2>2 DEF Waits, Past, Marks, Cancelled, ChunkPlaces
  <2>3. CASE p # r
    BY <1>1, <1>3, <1>4, <2>1, <2>3 DEF Waits, Past, Marks, Cancelled, SameFor
  <2> QED
    BY <2>2, <2>3
<1> QED
  BY <1>3, <1>4, <1>5 DEF SInv

(* The answer of a cancellation: everybody else who waits is turned away.  *)
LEMMA ReplyStale ==
  ASSUME IInv, SInv, NEW r \in Request, Reply(r)
  PROVE  SInv'
<1> DEFINE q == req[r]
           done == q.op = "cancel" /\ q.reply = "ok"
<1>1. /\ pc[r] = "reply" /\ pc'[r] = "idle" /\ req'[r] = NoReq
      /\ \A p \in Request \ {r} : SameFor(p)
      /\ UNCHANGED cancelledUploads
      /\ cancelAck' = IF done /\ Cancelled(q.id) THEN cancelAck \union {q.id} ELSE cancelAck
      /\ stale' = IF done THEN stale \union {w \in ChunkRequests : req[w].id = q.id}
                  ELSE stale \ {r}
  BY DEF Reply, Goto, server, IInv, TypeOK, SameFor
<1>2. Inside(r) /\ OthersOut(r)
  BY <1>1, Alone DEF Inside
<1>3. cancelAck' \subseteq Tombstones(cancelledUploads)
  BY <1>1 DEF SInv, Cancelled
<1>4. ASSUME NEW p \in Request
      PROVE  Waits(p)' /\ Past(p)' /\ Marks(p)'
  <2>1. Waits(p) /\ Past(p) /\ Marks(p) /\ Waits(r) /\ Marks(r)
    BY DEF SInv
  <2>2. CASE p = r
    <3>1. r \notin stale'
      BY <1>1, <2>1 DEF Waits, ChunkRequests
    <3> QED
      BY <1>1, <2>2, <3>1 DEF Waits, Past, Marks, NoReq, ChunkPlaces
  <2>3. CASE p # r
    <3>1. pc'[p] = pc[p] /\ req'[p] = req[p]
      BY <1>1, <2>3 DEF SameFor
    <3>2. Waits(p)'
      <4>1. p \in stale' => p \in stale \/ (done /\ p \in ChunkRequests /\ req[p].id = q.id)
        BY <1>1
      <4>2. Roomy /\ done => q.id \in cancelAck'
        BY <1>1, <2>1 DEF Marks
      <4>3. cancelAck \subseteq cancelAck'
        BY <1>1
      <4> QED
        BY <2>1, <3>1, <4>1, <4>2, <4>3 DEF Waits, Past, ChunkRequests
    <3>3. Past(p)'
      <4>1. pc[p] \in ChunkPlaces \union {"forget"} => req[p].id # q.id
        BY <1>2, <2>3 DEF OthersOut, Inside, ChunkPlaces
      <4>2. \A x \in cancelAck' : x \in cancelAck \/ x = q.id
        BY <1>1
      <4> QED
        BY <2>1, <3>1, <4>1, <4>2 DEF Past
    <3>4. Marks(p)'
      BY <1>1, <2>1, <3>1 DEF Marks, Cancelled
    <3> QED
      BY <3>2, <3>3, <3>4
  <2> QED
    BY <2>2, <2>3
<1> QED
  BY <1>1, <1>3, <1>4 DEF SInv

LEMMA ExpireStale ==
  ASSUME IInv, SInv, ExpireTombstone
  PROVE  SInv'
<1>1. PICK seq \in Seq(FileID) : seq = cancelledUploads /\ seq # <<>>
  BY DEF ExpireTombstone, IInv, TypeOK
<1>2. PICK w : w = Tail(seq)
  OBVIOUS
<1>3. Distinct(w) /\ Tombstones(w) = Tombstones(seq) \ {Head(seq)}
  BY <1>1, <1>2, TailOne DEF SInv
<1>4. cancelledUploads' = w /\ cancelAck' = cancelAck \ {Head(seq)}
  BY <1>1, <1>2 DEF ExpireTombstone
<1>5. ~ Roomy
  BY DEF Roomy, ExpireTombstone
<1>6. ASSUME NEW p \in Request
      PROVE  Waits(p)' /\ Past(p)' /\ Marks(p)'
  <2>1. Waits(p) /\ Past(p) /\ UNCHANGED <<pc, req, stale>>
    BY DEF SInv, ExpireTombstone
  <2> QED
    BY <1>4, <1>5, <2>1 DEF Waits, Past, Marks
<1>7. cancelAck' \subseteq Tombstones(w)
  BY <1>1, <1>3, <1>4 DEF SInv
<1> QED
  BY <1>3, <1>4, <1>6, <1>7 DEF SInv

LEMMA EmptyStale ==
  ASSUME pc = [r \in Request |-> "idle"], req = [r \in Request |-> NoReq],
         cancelledUploads = <<>>, cancelAck = {}, stale = {}
  PROVE  SInv
BY DEF SInv, Distinct, Waits, Past, Marks, NoReq, ChunkPlaces

LEMMA WorldStale ==
  ASSUME SInv, UNCHANGED <<pc, req, cancelledUploads, cancelAck, stale>>
  PROVE  SInv'
BY DEF SInv, Waits, Past, Marks, Cancelled

LEMMA NextStale == IInv /\ SInv /\ [Next]_vars => SInv'
<1> SUFFICES ASSUME IInv, SInv, [Next]_vars
             PROVE  SInv'
  OBVIOUS
<1>1. ASSUME NEW r \in Request, Serve(r)
      PROVE  SInv'
  BY <1>1, ChunkStale, InsideStale, MarkStale, ReplyStale DEF Serve
<1>2. CASE World
  <2>1. CASE SetUploadDir \/ DeleteFile \/ Age
    BY <2>1, WorldStale DEF SetUploadDir, DeleteFile, Age, server, history
  <2>2. CASE Crash
    BY <2>2 DEF Crash, SInv, Distinct, Waits, Past, Marks, NoReq, ChunkPlaces
  <2> QED
    BY <1>2, <2>1, <2>2, ExpireStale DEF World
<1>3. CASE UNCHANGED vars
  BY <1>3, WorldStale DEF vars, server, history
<1> QED
  BY <1>1, <1>2, <1>3, ArriveStale DEF Next

LEMMA Tombs == Spec => [](IInv /\ SInv)
<1>1. Init => IInv /\ SInv
  BY InitStep, EmptyStale DEF Init
<1>2. IInv /\ SInv /\ [Next]_vars => IInv' /\ SInv'
  BY NextStep, NextStale
<1> QED
  BY <1>1, <1>2, PTL DEF Spec

(* Where a chunk request can be that was queued at its cancellation        *)
LEMMA QueuedAt ==
  ASSUME IInv, SInv, NEW r \in stale,
         pc[r] \notin {"lock", "admit", "reply"}
  PROVE  req[r].id \notin cancelAck /\ ~ Roomy
<1>1. r \in Request /\ pc[r] \in PC /\ Local(r) /\ Waits(r) /\ Past(r)
  BY DEF IInv, TypeOK, SInv
<1>2. pc[r] \in ChunkPlaces \union {"forget"} /\ req[r].op = "chunk"
  BY <1>1 DEF PC, Waits, Local, Shape, ChunkPlaces, MergePlaces
<1> QED
  BY <1>1, <1>2 DEF Past, Waits

(* A chunk request that was queued when the cancellation of its upload     *)
(* returned gets past the tombstone only once that is gone: it expired, or *)
(* other cancellations pushed it out (upload.go:111-158, 769-770).         *)
StaleOnlyWithout ==
  \A r \in stale : pc[r] \notin {"lock", "admit", "reply"} => req[r].id \notin cancelAck

THEOREM TombstoneBars == Spec => []StaleOnlyWithout
<1>1. IInv /\ SInv => StaleOnlyWithout
  BY QueuedAt DEF StaleOnlyWithout
<1> QED
  BY <1>1, Tombs, PTL

(* It never does as long as tombstones outlive the requests and the        *)
(* registry has room for them (comment at upload.go:769-770).              *)
THEOREM QueuedStaysOut == Roomy => (Spec => []QueuedChunkStaysOut)
<1>1. ASSUME Roomy
      PROVE  IInv /\ SInv => QueuedChunkStaysOut
  BY <1>1, QueuedAt DEF QueuedChunkStaysOut
<1>2. ASSUME Roomy
      PROVE  Spec => []QueuedChunkStaysOut
  BY <1>1, <1>2, Tombs, PTL
<1> QED
  BY <1>2

-------------------------------------------------------------------------------
(* What Upload shows its clients, as long as nothing breaks                *)

(* A merge was admitted with chunks of the declared size, ...              *)
Sized(r) ==
  pc[r] \in MergePlaces => ActualSize(temp[req[r].dir][req[r].id]) = req[r].meta.size

(* ... a published directory waits for its removal, and a cancellation     *)
(* that removed its upload answers "ok" with nothing left of it.           *)
Given(r) ==
  /\ pc[r] = "clean" => <<req[r].dir, req[r].id>> \in spent
  /\ req[r].op = "cancel" => pc[r] \in {"mark", "lock", "admit", "forget", "reply"}
  /\ pc[r] \in {"forget", "reply"} /\ req[r].op = "cancel" =>
       req[r].reply = "ok" /\ \A d \in Dir : temp[d][req[r].id] = None

SpentAt(d, id) ==
  <<d, id>> \in spent =>
    lock[id] # None /\ pc[lock[id]] = "clean" /\ req[lock[id]].dir = d

Held(id) == lock[id] # None => Inside(lock[id]) /\ req[lock[id]].id = id

Closed(id) == id \in cancelAck => \A d \in Dir : temp[d][id] = None

RInv ==
  /\ \A r \in Request : Sized(r) /\ Given(r)
  /\ \A d \in Dir, id \in FileID : SpentAt(d, id)
  /\ \A id \in FileID : Held(id) /\ Closed(id)

(* All that is known of a reachable state                                  *)
JInv == IInv /\ BInv /\ SInv /\ RInv

AlienSpent(id) ==
  \A d \in Dir, x \in FileID \ {id} : <<d, x>> \in spent' <=> <<d, x>> \in spent

(* What is left to prove of a step that r takes inside                     *)
LEMMA ViewStep ==
  ASSUME JInv, NEW r \in Request, Inside(r), Inside(r)',
         \A p \in Request \ {r} : SameFor(p),
         req'[r].id = req[r].id, UNCHANGED <<lock, cancelAck>>,
         Alien(req[r].id), AlienSpent(req[r].id),
         Sized(r)', Given(r)',
         \A d \in Dir : SpentAt(d, req[r].id)', Closed(req[r].id)'
  PROVE  RInv'
<1>1. OthersOut(r) /\ req[r].id \in FileID /\ lock[req[r].id] = r
  BY Alone, Own DEF JInv, IInv, Holding, Inside
<1>2. ASSUME NEW p \in Request \ {r}
      PROVE  Sized(p)' /\ Given(p)'
  <2>1. Sized(p) /\ Given(p) /\ pc'[p] = pc[p] /\ req'[p] = req[p]
    BY DEF JInv, RInv, SameFor
  <2>2. CASE Inside(p)
    <3>1. PICK x \in FileID \ {req[r].id} : x = req[p].id
      BY <1>1, <2>2, Own DEF OthersOut, JInv, Inside
    <3>2. PICK e \in Dir : e = req[p].dir
      BY <2>2, Own DEF JInv, Inside
    <3>3. /\ \A d \in Dir : temp'[d][x] = temp[d][x]
          /\ <<e, x>> \in spent' <=> <<e, x>> \in spent
      BY <3>1 DEF Alien, AlienSpent
    <3>4. Sized(p)'
      BY <2>1, <3>1, <3>2, <3>3 DEF Sized
    <3>5. Given(p)'
      BY <2>1, <3>1, <3>2, <3>3 DEF Given
    <3> QED
      BY <3>4, <3>5
  <2>3. CASE ~ Inside(p)
    BY <2>1, <2>3 DEF Sized, Given, Inside, MergePlaces
  <2> QED
    BY <2>2, <2>3
<1>3. ASSUME NEW x \in FileID
      PROVE  /\ \A d \in Dir : SpentAt(d, x)'
             /\ Held(x)' /\ Closed(x)'
  <2>1. CASE x = req[r].id
    BY <1>1, <2>1 DEF Held
  <2>2. CASE x # req[r].id
    <3>1. /\ \A d \in Dir : SpentAt(d, x)
          /\ Held(x) /\ Closed(x)
      BY DEF JInv, RInv
    <3>2. /\ \A d \in Dir : temp'[d][x] = temp[d][x]
          /\ \A d \in Dir : <<d, x>> \in spent' <=> <<d, x>> \in spent
      BY <2>2 DEF Alien, AlienSpent
    <3>3. lock[x] # None =>
            pc'[lock[x]] = pc[lock[x]] /\ req'[lock[x]] = req[lock[x]]
      BY <2>2, <3>1 DEF Held, SameFor, JInv, IInv, TypeOK
    <3> QED
      BY <3>1, <3>2, <3>3 DEF SpentAt, Held, Closed, Inside
  <2> QED
    BY <2>1, <2>2
<1> QED
  BY <1>2, <1>3 DEF RInv

(* Only the goroutine that published has a spent directory.                *)
LEMMA NotSpent ==
  ASSUME JInv, NEW r \in Request, Inside(r), pc[r] # "clean", NEW d \in Dir
  PROVE  <<d, req[r].id>> \notin spent
<1>1. req[r].id \in FileID /\ lock[req[r].id] = r
  BY Own DEF JInv, IInv, Holding, Inside
<1> QED
  BY <1>1 DEF JInv, RInv, SpentAt

(* Most steps: no merge, no cancellation, and no directory out of nothing  *)
LEMMA ViewQuiet ==
  ASSUME JInv, NEW r \in Request, Inside(r), Inside(r)',
         \A p \in Request \ {r} : SameFor(p),
         req'[r].id = req[r].id, req'[r].op = req[r].op,
         UNCHANGED <<lock, cancelAck>>, spent' \subseteq spent, AlienSpent(req[r].id),
         Alien(req[r].id),
         pc[r] # "clean", pc'[r] \notin MergePlaces \union {"clean"},
         \/ req[r].op # "cancel"
         \/ pc[r] = "forget" /\ pc'[r] = "reply" /\ req'[r] = req[r] /\ UNCHANGED temp,
         \/ req[r].id \notin cancelAck
         \/ \A d \in Dir : temp'[d][req[r].id] # None => temp[d][req[r].id] # None
  PROVE  RInv'
<1>1. req[r].id \in FileID
  BY Own DEF JInv, Inside
<1>2. Sized(r)' /\ Closed(req[r].id)'
  BY <1>1 DEF Sized, Closed, JInv, RInv
<1>3. Given(r)'
  BY DEF Given, JInv, RInv
<1>4. \A d \in Dir : SpentAt(d, req[r].id)'
  BY NotSpent DEF SpentAt
<1> QED
  BY <1>2, <1>3, <1>4, ViewStep

LEMMA SpentKept ==
  ASSUME NEW r \in Request,
         \/ ChunkStep(r) \/ AdmitComplete(r) \/ CreatePart(r) \/ MergeChunk(r) \/ Seal(r)
         \/ TakeUploadMu(r) \/ PickName(r) \/ Forget(r) \/ LockUpload(r) \/ Reply(r)
  PROVE  UNCHANGED <<spent, files>>
<1>1. CASE ChunkStep(r)
  BY <1>1 DEF ChunkStep, AdmitChunk, ReserveChunk, CountActive, MakeTemp, WriteMeta,
     StoreChunk, Undo, history, disk
<1>2. CASE ~ ChunkStep(r)
  BY <1>2 DEF AdmitComplete, CreatePart, MergeChunk, Seal, TakeUploadMu, PickName, Forget, LockUpload,
     Reply, history, disk
<1> QED
  BY <1>1, <1>2

(* A Put in the directory of r's upload touches no other upload.           *)
LEMMA PutAlien ==
  ASSUME TypeOK, NEW d \in Dir, NEW id \in FileID, NEW t \in TempState \union {None},
         Put(d, id, t), \A x \in FileID \ {id} : uploadDirectories'[x] = uploadDirectories[x]
  PROVE  /\ Alien(id)
         /\ temp'[d][id] = t
         /\ \A e \in Dir \ {d} : temp'[e][id] = temp[e][id]
BY PutFacts DEF Alien

LEMMA ChunkView ==
  ASSUME NothingBreaks, JInv, NEW r \in Request, ChunkStep(r)
  PROVE  RInv'
<1>1. UNCHANGED <<spent, cancelAck>>
  BY SpentKept, RegistryKept
<1>2. spent' \subseteq spent /\ AlienSpent(req[r].id)
  BY <1>1 DEF AlienSpent
<1>3. CASE AdmitChunk(r)
  <2>1. PICK id : id = req[r].id
    OBVIOUS
  <2>2. PICK d : d = UploadDirectoryFor(id, req[r].dir)
    OBVIOUS
  <2>3. /\ pc[r] = "admit" /\ Inside(r) /\ d \in Dir /\ id \in FileID
        /\ req[r].op = "chunk" /\ req'[r].id = id /\ req'[r].op = "chunk"
        /\ \A p \in Request \ {r} : SameFor(p)
        /\ UNCHANGED <<lock, temp>> /\ pc'[r] \in {"reply", "reserve"}
        /\ \/ UNCHANGED uploadDirectories
           \/ uploadDirectories' = [uploadDirectories EXCEPT ![id] = d]
    BY <1>3, <2>1, <2>2, AdmitChunkDoes DEF JInv
  <2>4. Alien(req[r].id)
    BY <2>1, <2>3 DEF Alien, JInv, IInv, TypeOK
  <2> QED
    BY <1>1, <1>2, <2>1, <2>3, <2>4, ViewQuiet DEF Inside, MergePlaces
<1>4. CASE ReserveChunk(r) \/ CountActive(r)
  <2>1. /\ pc[r] \in {"reserve", "count"} /\ Inside(r) /\ req[r].op = "chunk"
        /\ \A p \in Request \ {r} : SameFor(p)
        /\ SameInputs(req'[r], req[r]) /\ UNCHANGED <<lock, temp, uploadDirectories>>
        /\ pc'[r] \in {"undo", "forget", "count", "mkdir", "store", "reply"}
    BY <1>4, ReserveDoes DEF JInv
  <2>2. Alien(req[r].id)
    BY <2>1 DEF Alien
  <2> QED
    BY <1>1, <1>2, <2>1, <2>2, ViewQuiet DEF Inside, MergePlaces, SameInputs
<1>5. CASE MakeTemp(r) \/ WriteMeta(r) \/ StoreChunk(r) \/ Undo(r)
  <2>1. /\ GoesOn(r) /\ pc[r] \in {"mkdir", "meta", "store", "undo"} /\ req[r].op = "chunk"
        /\ pc'[r] \in {"meta", "store", "undo", "forget", "reply"}
        /\ UNCHANGED uploadDirectories
    BY <1>5, MakeTempDoes, WriteMetaDoes, StoreDoes, UndoDoes DEF JInv
  <2>2. \E t \in TempState \union {None} : Put(req[r].dir, req[r].id, t)
    <3>1. CASE UNCHANGED temp
      BY <2>1, <3>1, PutSame DEF JInv, IInv, TypeOK, GoesOn
    <3>2. CASE ~ UNCHANGED temp
      BY <1>5, <3>2, MakeTempDoes, WriteMetaDoes, StoreDoes, UndoDoes DEF JInv
    <3> QED
      BY <3>1, <3>2
  <2>3. Alien(req[r].id)
    BY <2>1, <2>2, PutAlien DEF JInv, IInv, GoesOn
  <2>4. req[r].id \notin cancelAck
    BY <2>1 DEF JInv, SInv, Past, ChunkPlaces
  <2> QED
    BY <1>1, <1>2, <2>1, <2>3, <2>4, ViewQuiet DEF GoesOn, Inside, MergePlaces
<1> QED
  BY <1>3, <1>4, <1>5 DEF ChunkStep

LEMMA SizeKept ==
  ASSUME NEW t, NEW o, t.chunks = o.chunks, t.meta = o.meta
  PROVE  ActualSize(t) = ActualSize(o)
BY DEF ActualSize

LEMMA CompleteView ==
  ASSUME NothingBreaks, JInv, NEW r \in Request, CompleteStep(r)
  PROVE  RInv'
<1> DEFINE id == req[r].id
           e == req[r].dir
<1>1. UNCHANGED cancelAck
  BY RegistryKept
<1>2. CASE AdmitComplete(r)
  <2>1. /\ GoesOn(r) /\ pc[r] = "admit" /\ req[r].op = "complete"
        /\ req'[r].meta = req[r].meta
        /\ UNCHANGED <<temp, uploadDirectories, spent>>
        /\ \/ pc'[r] = "reply"
           \/ /\ pc'[r] = "part" /\ req'[r].dir \in Dir
              /\ Ready(temp[req'[r].dir][id], req[r].meta)
    BY <1>2, AdmitCompleteDoes, SpentKept DEF JInv
  <2>2. Alien(req[r].id) /\ AlienSpent(req[r].id)
    BY <2>1 DEF Alien, AlienSpent
  <2>3. Sized(r)'
    BY <2>1 DEF Sized, Ready, GoesOn, MergePlaces
  <2>4. Given(r)' /\ Closed(req[r].id)'
    <3>1. Given(r)'
      BY <2>1 DEF Given, GoesOn
    <3>2. Closed(req[r].id) /\ req'[r].id = req[r].id
      BY <2>1 DEF GoesOn, JInv, RInv
    <3> QED
      BY <1>1, <2>1, <3>1, <3>2 DEF Closed
  <2>5. \A d \in Dir : SpentAt(d, req[r].id)'
    BY <2>1, NotSpent DEF SpentAt, GoesOn
  <2>6. Inside(r)'
    BY <2>1 DEF Inside
  <2> QED
    BY <1>1, <2>1, <2>2, <2>3, <2>4, <2>5, <2>6, ViewStep DEF GoesOn
<1>3. CASE \/ CreatePart(r) \/ MergeChunk(r) \/ Seal(r) \/ TakeUploadMu(r) \/ PickName(r)
           \/ PublishFile(r)
  <2>1. /\ Parted(r)
        /\ \/ pc'[r] \in MergePlaces \union {"reply"} /\ UNCHANGED spent
           \/ pc'[r] = "clean" /\ spent' = spent \union {<<e, id>>}
    BY <1>3, MergeDoes, PublishDoes, SpentKept DEF JInv
  <2>2. /\ GoesOn(r) /\ req'[r].dir = e /\ req'[r].meta = req[r].meta
        /\ pc[r] \in MergePlaces /\ UNCHANGED uploadDirectories /\ temp[e][id] # None
        /\ req[r].op = "complete"
    BY <2>1, MergeFacts DEF Parted, JInv
  <2>3. PICK t \in TempState : Put(req[r].dir, req[r].id, t) /\ Remerged(t, temp[e][id])
    BY <2>1 DEF Parted
  <2>4. /\ Alien(req[r].id) /\ temp'[e][id] = t
        /\ \A d \in Dir \ {e} : temp'[d][id] = temp[d][id]
    BY <2>2, <2>3, PutAlien DEF JInv, IInv, GoesOn
  <2>5. AlienSpent(req[r].id)
    BY <2>1 DEF AlienSpent
  <2>6. Sized(r)'
    <3>1. ActualSize(t) = ActualSize(temp[e][id])
      BY <2>3, SizeKept DEF Remerged
    <3> QED
      BY <2>1, <2>2, <2>4, <3>1 DEF Sized, JInv, RInv, GoesOn, MergePlaces
  <2>7. Given(r)'
    BY <2>1, <2>2 DEF Given, GoesOn, MergePlaces
  <2>8. Closed(req[r].id)'
    BY <1>1, <2>2, <2>4 DEF Closed, JInv, RInv, GoesOn
  <2>9. pc[r] # "clean" /\ Inside(r)' /\ lock[req[r].id] = r /\ UNCHANGED lock
    BY <2>1, <2>2 DEF MergePlaces, Inside, GoesOn, JInv, IInv, Holding
  <2>10. ASSUME NEW d \in Dir
         PROVE  SpentAt(d, req[r].id)'
    <3>1. <<d, req[r].id>> \notin spent
      BY <2>2, <2>9, NotSpent DEF GoesOn
    <3>2. <<d, req[r].id>> \in spent' => pc'[r] = "clean" /\ d = e
      BY <2>1, <3>1
    <3>3. lock'[req[r].id] = r /\ r # None /\ req'[r].id = req[r].id /\ req'[r].dir = e
      BY <2>2, <2>9, UploadAssumption DEF GoesOn
    <3> QED
      BY <3>2, <3>3 DEF SpentAt
  <2> QED
    BY <1>1, <2>2, <2>4, <2>5, <2>6, <2>7, <2>8, <2>9, <2>10, ViewStep DEF GoesOn
<1>4. CASE Clean(r)
  <2>1. Removed(r, e) /\ pc[r] = "clean" /\ req[r].op = "complete" /\ pc'[r] = "forget"
    BY <1>4, CleanDoes DEF JInv
  <2>2. GoesOn(r) /\ req'[r].dir = e /\ UNCHANGED uploadDirectories
    BY <2>1 DEF Removed
  <2>3. Put(req[r].dir, req[r].id, None) /\ spent' = spent \ {<<e, id>>}
    BY <2>1 DEF Removed, NothingBreaks
  <2>4. /\ Alien(req[r].id) /\ temp'[e][id] = None
        /\ \A d \in Dir \ {e} : temp'[d][id] = temp[d][id]
    BY <2>2, <2>3, PutAlien DEF JInv, IInv, GoesOn
  <2>5. AlienSpent(req[r].id)
    BY <2>3 DEF AlienSpent
  <2>6. Sized(r)' /\ Given(r)' /\ Inside(r)'
    BY <2>1, <2>2 DEF Sized, Given, GoesOn, MergePlaces, Inside
  <2>7. Closed(req[r].id)'
    BY <1>1, <2>2, <2>4 DEF Closed, JInv, RInv, GoesOn
  <2>8. ASSUME NEW d \in Dir
        PROVE  SpentAt(d, req[r].id)'
    <3>1. lock[req[r].id] = r /\ SpentAt(d, req[r].id) /\ req'[r].id = req[r].id
      BY <2>1, <2>2 DEF JInv, RInv, IInv, Holding, GoesOn
    <3>2. <<d, req[r].id>> \in spent => d = e
      BY <3>1 DEF SpentAt
    <3> QED
      BY <2>3, <3>1, <3>2 DEF SpentAt
  <2> QED
    BY <1>1, <2>2, <2>4, <2>5, <2>6, <2>7, <2>8, ViewStep DEF GoesOn
<1> QED
  BY <1>2, <1>3, <1>4 DEF CompleteStep

LEMMA CancelView ==
  ASSUME NothingBreaks, JInv, NEW r \in Request, AdmitCancel(r)
  PROVE  /\ RInv'
         /\ \A d \in Dir : temp'[d][req[r].id] = None
<1> DEFINE id == req[r].id
<1>1. PICK d : d = UploadDirectoryFor(id, req[r].dir)
  OBVIOUS
<1>2. /\ Removed(r, d) /\ pc[r] = "admit" /\ req[r].op = "cancel"
      /\ pc'[r] = "forget" /\ req'[r].reply = "ok"
  BY <1>1, AdmitCancelDoes DEF JInv, NothingBreaks
<1>3. GoesOn(r) /\ d \in Dir /\ UNCHANGED uploadDirectories
  BY <1>2 DEF Removed
<1>4. Put(d, req[r].id, None) /\ spent' = spent \ {<<d, id>>}
  BY <1>2 DEF Removed, NothingBreaks
<1>5. /\ Alien(req[r].id) /\ temp'[d][id] = None
      /\ \A e \in Dir \ {d} : temp'[e][id] = temp[e][id]
  BY <1>3, <1>4, PutAlien DEF JInv, IInv, GoesOn
<1>6. ASSUME NEW e \in Dir \ {d}
      PROVE  temp[e][id] = None
  <2>1. BindIn(r, e, id) /\ e # None
    BY <1>3, UploadAssumption DEF JInv, BInv, Bind, GoesOn
  <2>2. temp[e][id] # None => uploadDirectories[id] = e
    BY <1>2, <2>1 DEF BindIn, Loose, ThereBound
  <2> QED
    BY <1>1, <2>1, <2>2 DEF UploadDirectoryFor
<1>7. \A e \in Dir : temp'[e][id] = None
  BY <1>5, <1>6
<1>8. Sized(r)' /\ Given(r)' /\ Inside(r)' /\ Closed(req[r].id)'
  BY <1>2, <1>3, <1>7 DEF Sized, Given, GoesOn, MergePlaces, Inside, Closed
<1>9. AlienSpent(req[r].id)
  BY <1>4 DEF AlienSpent
<1>10. \A e \in Dir : SpentAt(e, req[r].id)'
  BY <1>2, <1>3, <1>4, NotSpent DEF SpentAt, GoesOn
<1>11. UNCHANGED cancelAck
  BY RegistryKept
<1> QED
  BY <1>3, <1>5, <1>7, <1>8, <1>9, <1>10, <1>11, ViewStep DEF GoesOn

LEMMA SweepView ==
  ASSUME NothingBreaks, JInv, NEW r \in Request, AdmitSweep(r) \/ Forget(r)
  PROVE  RInv'
<1>1. UNCHANGED cancelAck
  BY RegistryKept
<1>2. CASE AdmitSweep(r)
  <2>1. /\ GoesOn(r) /\ pc[r] = "admit" /\ req[r].op = "sweep"
        /\ pc'[r] \in {"forget", "reply"} /\ UNCHANGED uploadDirectories
        /\ Removed(r, req[r].dir) \/ UNCHANGED <<temp, spent>>
    BY <1>2, AdmitSweepDoes DEF JInv
  <2>2. CASE UNCHANGED <<temp, spent>>
    BY <1>1, <2>1, <2>2, ViewQuiet DEF GoesOn, Alien, AlienSpent, Inside, MergePlaces
  <2>3. CASE Removed(r, req[r].dir)
    <3>1. Put(req[r].dir, req[r].id, None) /\ spent' = spent \ {<<req[r].dir, req[r].id>>}
      BY <2>3 DEF Removed, NothingBreaks
    <3>2. /\ Alien(req[r].id) /\ temp'[req[r].dir][req[r].id] = None
          /\ \A d \in Dir \ {req[r].dir} : temp'[d][req[r].id] = temp[d][req[r].id]
      BY <2>1, <3>1, PutAlien DEF JInv, IInv, GoesOn
    <3>3. AlienSpent(req[r].id) /\ spent' \subseteq spent
      BY <3>1 DEF AlienSpent
    <3> QED
      BY <1>1, <2>1, <3>2, <3>3, ViewQuiet DEF GoesOn, Inside, MergePlaces
  <2> QED
    BY <2>1, <2>2, <2>3
<1>3. CASE Forget(r)
  <2>1. /\ GoesOn(r) /\ pc[r] = "forget" /\ pc'[r] = "reply" /\ req'[r] = req[r]
        /\ UNCHANGED <<temp, spent>>
        /\ uploadDirectories' = Forgotten(req[r].id, req[r].dir)
    BY <1>3, ForgetDoes, SpentKept DEF JInv
  <2>2. Alien(req[r].id)
    BY <2>1 DEF Alien, Forgotten, GoesOn, JInv, IInv, TypeOK
  <2> QED
    BY <1>1, <2>1, <2>2, ViewQuiet DEF GoesOn, AlienSpent, Inside, MergePlaces
<1> QED
  BY <1>2, <1>3

(* Steps outside the mutex, or that take or give it back                   *)
LEMMA OuterView ==
  ASSUME JInv, NEW r \in Request, \A p \in Request \ {r} : SameFor(p),
         UNCHANGED <<temp, spent>>, Sized(r)', Given(r)',
         \A id \in FileID : Held(id)' /\ Closed(id)',
         pc[r] # "clean",
         \A id \in FileID : lock[id] # None => lock'[id] = lock[id] \/ lock[id] = r
  PROVE  RInv'
<1>1. ASSUME NEW p \in Request \ {r}
      PROVE  Sized(p)' /\ Given(p)'
  BY DEF JInv, RInv, Sized, Given, SameFor
<1>2. ASSUME NEW d \in Dir, NEW id \in FileID
      PROVE  SpentAt(d, id)'
  <2>1. SpentAt(d, id) /\ lock[id] \in Request \union {None}
    BY DEF JInv, RInv, IInv, TypeOK
  <2> QED
    BY <2>1 DEF SpentAt, SameFor
<1> QED
  BY <1>1, <1>2 DEF RInv

LEMMA LockView ==
  ASSUME JInv, NEW r \in Request, LockUpload(r)
  PROVE  RInv'
<1>1. /\ pc[r] = "lock" /\ pc'[r] = "admit" /\ req' = req /\ req[r].id \in FileID
      /\ \A p \in Request \ {r} : SameFor(p)
      /\ lock[req[r].id] = None
      /\ lock' = [lock EXCEPT ![req[r].id] = r]
      /\ UNCHANGED <<temp, spent, cancelAck>>
  BY Own DEF LockUpload, Goto, JInv, IInv, TypeOK, SameFor, disk, history
<1>2. /\ lock'[req[r].id] = r
      /\ \A x \in FileID \ {req[r].id} : lock'[x] = lock[x]
  BY <1>1 DEF JInv, IInv, TypeOK
<1>3. ASSUME NEW id \in FileID
      PROVE  Held(id)' /\ Closed(id)'
  <2>1. Closed(id)'
    BY <1>1 DEF Closed, JInv, RInv
  <2>2. CASE id = req[r].id
    BY <1>1, <1>2, <2>1, <2>2 DEF Held, Inside
  <2>3. CASE id # req[r].id
    <3>1. Held(id) /\ lock'[id] = lock[id] /\ lock[id] \in Request \union {None}
      BY <1>2, <2>3 DEF JInv, RInv, IInv, TypeOK
    <3>2. lock[id] # r
      BY <1>1, <3>1, UploadAssumption DEF Held, Inside
    <3> QED
      BY <1>1, <2>1, <3>1, <3>2 DEF Held, Inside, SameFor
  <2> QED
    BY <2>2, <2>3
<1>4. Sized(r)' /\ Given(r)'
  BY <1>1 DEF Sized, Given, MergePlaces, JInv, RInv
<1> QED
  BY <1>1, <1>2, <1>3, <1>4, OuterView

LEMMA ReplyView ==
  ASSUME JInv, NEW r \in Request, Reply(r)
  PROVE  RInv'
<1> DEFINE id == req[r].id
<1>1. /\ pc[r] = "reply" /\ pc'[r] = "idle" /\ req'[r] = NoReq /\ id \in FileID
      /\ \A p \in Request \ {r} : SameFor(p)
      /\ lock' = [lock EXCEPT ![id] = None]
      /\ UNCHANGED <<temp, spent>>
      /\ cancelAck' \subseteq cancelAck \union (IF req[r].op = "cancel" THEN {id} ELSE {})
  BY Own DEF Reply, Goto, JInv, IInv, TypeOK, SameFor, disk
<1>2. Inside(r) /\ lock[id] = r
  BY <1>1 DEF JInv, IInv, Holding, Inside
<1>3. /\ lock'[id] = None
      /\ \A x \in FileID \ {id} : lock'[x] = lock[x]
  BY <1>1 DEF JInv, IInv, TypeOK
<1>4. ASSUME NEW x \in FileID
      PROVE  Held(x)' /\ Closed(x)'
  <2>1. Held(x) /\ Closed(x) /\ lock[x] \in Request \union {None}
    BY DEF JInv, RInv, IInv, TypeOK
  <2>2. Held(x)'
    BY <1>1, <1>3, <2>1 DEF Held, Inside, SameFor
  <2>3. Closed(x)'
    BY <1>1, <2>1 DEF Closed, JInv, RInv, Given
  <2> QED
    BY <2>2, <2>3
<1>5. Sized(r)' /\ Given(r)'
  BY <1>1 DEF Sized, Given, MergePlaces, NoReq
<1>6. \A x \in FileID : lock[x] # None => lock'[x] = lock[x] \/ lock[x] = r
  BY <1>2, <1>3
<1> QED
  BY <1>1, <1>4, <1>5, <1>6, OuterView

LEMMA BeginView ==
  ASSUME JInv, NEW r \in Request, Arrive(r) \/ Sweeper(r) \/ Mark(r)
  PROVE  RInv'
<1>1. /\ pc[r] \in {"idle", "mark"} /\ pc'[r] \in {"mark", "lock"}
      /\ \A p \in Request \ {r} : SameFor(p)
      /\ UNCHANGED <<lock, temp, spent>> /\ cancelAck' \subseteq cancelAck
  BY BeginDoes, MarkDoes DEF JInv, disk, history
<1>2. ASSUME NEW id \in FileID
      PROVE  Held(id)' /\ Closed(id)'
  <2>1. Held(id) /\ Closed(id) /\ lock[id] \in Request \union {None}
    BY DEF JInv, RInv, IInv, TypeOK
  <2> QED
    BY <1>1, <2>1 DEF Held, Closed, Inside, SameFor
<1>3. Sized(r)' /\ Given(r)'
  BY <1>1 DEF Sized, Given, MergePlaces
<1> QED
  BY <1>1, <1>2, <1>3, OuterView

LEMMA WorldView ==
  ASSUME JInv, UNCHANGED <<pc, req, lock, temp, spent>>, cancelAck' \subseteq cancelAck
  PROVE  RInv'
BY DEF JInv, RInv, Sized, Given, SpentAt, Held, Inside, Closed

LEMMA AgeView ==
  ASSUME JInv, Age
  PROVE  RInv'
<1>1. UNCHANGED <<pc, req, lock, spent, cancelAck>>
  BY AgeDoes DEF JInv, server, history
<1>2. PICK d \in Dir, id \in FileID, t \in TempState :
        /\ temp[d][id] # None /\ Put(d, id, t)
        /\ t.meta = temp[d][id].meta /\ t.chunks = temp[d][id].chunks
  BY AgeDoes DEF JInv
<1>3. /\ temp'[d][id] = t /\ t # None
      /\ \A e \in Dir, x \in FileID : e # d \/ x # id => temp'[e][x] = temp[e][x]
  BY <1>2, PutFacts, UploadAssumption DEF JInv, IInv
<1>4. ActualSize(t) = ActualSize(temp[d][id])
  BY <1>2, SizeKept
<1>5. \A e \in Dir, x \in FileID :
        /\ temp'[e][x] = None <=> temp[e][x] = None
        /\ ActualSize(temp'[e][x]) = ActualSize(temp[e][x])
  BY <1>2, <1>3, <1>4
<1>6. ASSUME NEW r \in Request
      PROVE  Sized(r)' /\ Given(r)'
  <2>1. Sized(r) /\ Given(r)
    BY DEF JInv, RInv
  <2>2. pc[r] # "idle" => req[r].id \in FileID /\ req[r].dir \in Dir
    BY Own DEF JInv
  <2>3. Sized(r)'
    BY <1>1, <1>5, <2>1, <2>2 DEF Sized, MergePlaces
  <2>4. Given(r)'
    BY <1>1, <1>5, <2>1, <2>2 DEF Given
  <2> QED
    BY <2>3, <2>4
<1>7. ASSUME NEW e \in Dir, NEW x \in FileID
      PROVE  SpentAt(e, x)' /\ Held(x)' /\ Closed(x)'
  <2>1. SpentAt(e, x) /\ Held(x) /\ Closed(x)
    BY DEF JInv, RInv
  <2>2. SpentAt(e, x)' /\ Held(x)'
    BY <1>1, <2>1 DEF SpentAt, Held, Inside
  <2> QED
    BY <1>1, <1>5, <2>1, <2>2 DEF Closed
<1> QED
  BY <1>6, <1>7, UploadAssumption DEF RInv

LEMMA NextView == NothingBreaks /\ JInv /\ [Next]_vars => RInv'
<1> SUFFICES ASSUME NothingBreaks, JInv, [Next]_vars
             PROVE  RInv'
  OBVIOUS
<1>1. ASSUME NEW r \in Request, Serve(r)
      PROVE  RInv'
  BY <1>1, ChunkView, CompleteView, CancelView, SweepView, LockView, ReplyView, BeginView
     DEF Serve
<1>2. CASE World
  <2>1. CASE SetUploadDir \/ ExpireTombstone \/ DeleteFile
    BY <2>1, WorldView DEF SetUploadDir, ExpireTombstone, DeleteFile, server, disk, history
  <2>2. ~ Crash
    BY CrashBind DEF JInv
  <2> QED
    BY <1>2, <2>1, <2>2, AgeView DEF World
<1>3. CASE UNCHANGED vars
  BY <1>3, WorldView DEF vars, server, disk, history
<1> QED
  BY <1>1, <1>2, <1>3, BeginView DEF Next

LEMMA InitView == Init => RInv
BY DEF Init, RInv, Sized, Given, SpentAt, Held, Closed, MergePlaces, NoReq

LEMMA Seen == NothingBreaks => (Spec => []JInv)
<1>1. ASSUME NothingBreaks
      PROVE  Init => JInv
  BY InitStep, InitBind, InitView, EmptyStale DEF Init, JInv
<1>2. ASSUME NothingBreaks
      PROVE  JInv /\ [Next]_vars => JInv'
  BY <1>2, NextStep, NextBind, NextStale, NextView DEF JInv
<1>3. ASSUME NothingBreaks
      PROVE  Spec => []JInv
  BY <1>1, <1>2, <1>3, PTL DEF Spec
<1> QED
  BY <1>3

-------------------------------------------------------------------------------
(* An upload is in one directory, the one it is bound to.                  *)
LEMMA OneDirectory ==
  ASSUME NothingBreaks, JInv, NEW id \in FileID, NEW d \in Dir, temp[d][id] # None
  PROVE  uploadDirectories[id] = d
<1>1. CASE lock[id] = None
  BY <1>1 DEF JInv, BInv, Vacant, VacantIn, ThereBound
<1>2. CASE lock[id] # None
  <2>1. PICK r \in Request : r = lock[id]
    BY <1>2 DEF JInv, IInv, TypeOK
  <2>2. Inside(r) /\ req[r].id = id
    BY <1>2, <2>1 DEF JInv, RInv, Held
  <2>3. BindIn(r, d, id)
    BY <2>1, <2>2 DEF JInv, BInv, Bind
  <2>4. pc[r] \in ChunkPlaces => uploadDirectories[id] = req[r].dir
    BY <2>1, <2>2 DEF JInv, BInv, Bind
  <2> QED
    BY <2>2, <2>3, <2>4 DEF BindIn, Loose, ThereBound, ChunkPlaces
<1> QED
  BY <1>1, <1>2

LEMMA InUploads ==
  ASSUME NEW u
  PROVE  u \in Uploads <=>
           \E d \in Dir, id \in FileID : Usable(d, id) /\ u = UploadOf(d, id)
BY DEF Uploads

(* Nothing changes on disk but, perhaps, id's directory in d.              *)
OnlyAt(d, id) ==
  \A e \in Dir, x \in FileID : e # d \/ x # id =>
    /\ temp'[e][x] = temp[e][x]
    /\ <<e, x>> \in spent' <=> <<e, x>> \in spent

(* The upload of id, if clients can use what is in d                       *)
ShownIn(d, id) == IF Usable(d, id) THEN {UploadOf(d, id)} ELSE {}

LEMMA UploadsStep ==
  ASSUME NothingBreaks, JInv, NEW d \in Dir, NEW id \in FileID, OnlyAt(d, id)
  PROVE  Uploads' = (Uploads \ ShownIn(d, id)) \union ShownIn(d, id)'
<1>1. ASSUME NEW e \in Dir, NEW x \in FileID, e # d \/ x # id
      PROVE  /\ Usable(e, x)' <=> Usable(e, x)
             /\ UploadOf(e, x)' = UploadOf(e, x)
  BY <1>1 DEF OnlyAt, Usable, UploadOf, HasMeta
<1>2. ASSUME NEW e \in Dir, NEW x \in FileID, e # d \/ x # id, Usable(e, x), Usable(d, id)
      PROVE  UploadOf(e, x) # UploadOf(d, id)
  <2>1. CASE x # id
    BY <2>1 DEF UploadOf
  <2>2. CASE x = id
    <3>1. temp[e][id] # None /\ temp[d][id] # None
      BY <1>2, <2>2 DEF Usable, HasMeta, Present
    <3> QED
      BY <1>2, <2>2, <3>1, OneDirectory
  <2> QED
    BY <2>1, <2>2
<1>3. ASSUME NEW u
      PROVE  u \in Uploads' <=>
               \/ u \in Uploads /\ ~ (Usable(d, id) /\ u = UploadOf(d, id))
               \/ Usable(d, id)' /\ u = UploadOf(d, id)'
  <2>1. u \in Uploads <=> \E e \in Dir, x \in FileID : Usable(e, x) /\ u = UploadOf(e, x)
    BY DEF Uploads
  <2>2. u \in Uploads' <=> \E e \in Dir, x \in FileID : Usable(e, x)' /\ u = UploadOf(e, x)'
    BY DEF Uploads
  <2> QED
    BY <1>1, <1>2, <2>1, <2>2
<1> QED
  BY <1>3 DEF ShownIn

(* One upload of a file_id                                                 *)
LEMMA UploadOne ==
  ASSUME NothingBreaks, JInv, NEW d \in Dir, NEW id \in FileID,
         temp[d][id] # None, NEW u \in Uploads, u.id = id
  PROVE  Usable(d, id) /\ u = UploadOf(d, id)
<1>1. PICK e \in Dir, x \in FileID : Usable(e, x) /\ u = UploadOf(e, x)
  BY InUploads
<1>2. x = id /\ temp[e][id] # None
  BY <1>1 DEF UploadOf, Usable, HasMeta, Present
<1>3. e = d
  BY <1>2, OneDirectory
<1> QED
  BY <1>1, <1>2, <1>3

(* The rest of what clients see stays.                                     *)
Elsewhere == UNCHANGED <<Shelf, Cancelling, Barred, cancelAck>>

LEMMA RequestsSeen ==
  ASSUME \A p \in Request :
           /\ (req'[p].op = "cancel" /\ pc'[p] # "mark") <=>
              (req[p].op = "cancel" /\ pc[p] # "mark")
           /\ req[p].op = "cancel" /\ pc[p] # "mark" => req'[p].id = req[p].id
  PROVE  UNCHANGED Cancelling
<1>1. \A x : x \in Cancelling <=>
        \E p \in Request : req[p].op = "cancel" /\ pc[p] # "mark" /\ x = req[p].id
  BY DEF Cancelling
<1>2. \A x : x \in Cancelling' <=>
        \E p \in Request : req'[p].op = "cancel" /\ pc'[p] # "mark" /\ x = req'[p].id
  BY DEF Cancelling
<1> QED
  BY <1>1, <1>2

LEMMA RegistriesSeen ==
  ASSUME UNCHANGED <<files, cancelledUploads, cancelAck>>
  PROVE  UNCHANGED <<Shelf, Barred, cancelAck>>
BY DEF Shelf, Shelved, Barred, Tombstones

LEMMA InsideSeen ==
  ASSUME NEW r \in Request, pc[r] # "mark", pc'[r] # "mark",
         \A p \in Request \ {r} : SameFor(p),
         req'[r].id = req[r].id, req'[r].op = req[r].op,
         UNCHANGED <<files, cancelledUploads, cancelAck>>
  PROVE  Elsewhere
BY RequestsSeen, RegistriesSeen DEF Elsewhere, SameFor

(* A step that only clients' patience can tell                             *)
LEMMA StutterSeen ==
  ASSUME Elsewhere, UNCHANGED <<temp, spent>>
  PROVE  UNCHANGED View!vars
BY DEF Elsewhere, View!vars, Uploads, Usable, UploadOf, HasMeta

LEMMA StaysSeen ==
  ASSUME NothingBreaks, JInv, NEW d \in Dir, NEW id \in FileID, OnlyAt(d, id), Elsewhere,
         ~ Usable(d, id), ~ Usable(d, id)'
  PROVE  UNCHANGED View!vars
BY UploadsStep DEF Elsewhere, View!vars, ShownIn

(* The chunks of an upload stay, and it is as old as it was or new.        *)
LEMMA TouchSeen ==
  ASSUME NothingBreaks, JInv, NEW d \in Dir, NEW id \in FileID, OnlyAt(d, id), Elsewhere,
         NEW t, temp'[d][id] = t, Present(t), UNCHANGED spent,
         temp[d][id] \in TempState,
         t.meta = temp[d][id].meta, t.chunks = temp[d][id].chunks,
         t.old = FALSE \/ t = temp[d][id]
  PROVE  View!Next \/ UNCHANGED View!vars
<1>1. Usable(d, id)' <=> Usable(d, id)
  BY UploadAssumption DEF Usable, HasMeta, Present
<1>2. CASE ~ Usable(d, id)
  BY <1>1, <1>2, StaysSeen
<1>3. CASE Usable(d, id)
  <2>1. PICK u : u = UploadOf(d, id)
    OBVIOUS
  <2>2. u \in Uploads /\ Uploads' = (Uploads \ {u}) \union {UploadOf(d, id)'}
    BY <1>1, <1>3, <2>1, InUploads, UploadsStep DEF ShownIn
  <2>3. UploadOf(d, id)' = u \/ (u.old /\ UploadOf(d, id)' = [u EXCEPT !.old = FALSE])
    <3>1. UploadOf(d, id)' = [u EXCEPT !.old = t.old]
      BY <2>1 DEF UploadOf
    <3>2. u = [u EXCEPT !.old = u.old] /\ u.old = temp[d][id].old
      BY <2>1 DEF UploadOf
    <3>3. u.old = TRUE \/ u.old = FALSE
      BY <3>2 DEF TempState
    <3> QED
      BY <3>1, <3>2, <3>3
  <2>4. CASE UploadOf(d, id)' = u
    BY <2>2, <2>4 DEF Elsewhere, View!vars
  <2>5. CASE u.old /\ UploadOf(d, id)' = [u EXCEPT !.old = FALSE]
    BY <2>2, <2>5 DEF Elsewhere, View!Next, View!Touch, View!Replace
  <2> QED
    BY <2>3, <2>4, <2>5
<1> QED
  BY <1>2, <1>3

LEMMA PutOnly ==
  ASSUME TypeOK, NEW d \in Dir, NEW id \in FileID, NEW t \in TempState \union {None},
         Put(d, id, t),
         \A e \in Dir, x \in FileID : e # d \/ x # id =>
           (<<e, x>> \in spent' <=> <<e, x>> \in spent)
  PROVE  OnlyAt(d, id) /\ temp'[d][id] = t
BY PutFacts DEF OnlyAt

(* Before its first chunk is stored clients see nothing of an upload.      *)
LEMMA LooseUnseen ==
  ASSUME NothingBreaks, JInv, NEW r \in Request, Inside(r), Loose(r), req[r].dir \in Dir
  PROVE  \/ temp[req[r].dir][req[r].id] = None
         \/ pc[r] = "undo" /\ temp[req[r].dir][req[r].id].chunks = NoChunks
BY DEF JInv, BInv, Bind, BindIn

(* A stored chunk opens an upload or adds to one.                          *)
LEMMA StoredSeen ==
  ASSUME NothingBreaks, JInv, NEW d \in Dir, NEW id \in FileID, OnlyAt(d, id), Elsewhere,
         id \notin cancelAck, <<d, id>> \notin spent, UNCHANGED spent,
         NEW o \in TempState, o = temp[d][id], Present(o), o.meta \in Meta,
         NEW t \in TempState, t = temp'[d][id], t.meta = o.meta, ~ t.old,
         NEW i \in 0..o.meta.total - 1, i \in Index, NEW x \in Data,
         o.chunks[i] = None, t.chunks = [o.chunks EXCEPT ![i] = x]
  PROVE  View!Next
<1>1. /\ o.chunks \in [Index -> Data \union {None}] /\ x # None
      /\ o.meta.total \in Nat /\ i < o.meta.total /\ t.old = FALSE
  BY UploadAssumption DEF TempState
<1>2. t.chunks[i] = x /\ t.chunks # NoChunks
  BY <1>1 DEF NoChunks
<1>3. Usable(d, id)'
  BY <1>2, UploadAssumption DEF Usable, HasMeta, Present
<1>4. UploadOf(d, id)' = [id |-> id, meta |-> o.meta, chunks |-> t.chunks, old |-> FALSE]
  BY <1>1 DEF UploadOf
<1>5. CASE o.chunks = NoChunks
  <2>1. ~ Usable(d, id)
    BY <1>5 DEF Usable
  <2>2. \A u \in Uploads : u.id # id
    BY <2>1, UploadOne DEF Present
  <2>3. Uploads' = Uploads \union {UploadOf(d, id)'}
    BY <1>3, <2>1, UploadsStep DEF ShownIn
  <2>4. t.chunks = [j \in Index |-> IF j = i THEN x ELSE None]
    BY <1>1, <1>5 DEF NoChunks
  <2>5. id \in View!Free
    BY <2>2 DEF View!Free
  <2>6. View!Open(id, o.meta, i, x)
    BY <1>1, <1>4, <2>3, <2>4, <2>5 DEF View!Open, Elsewhere
  <2> QED
    BY <2>5, <2>6 DEF View!Next
<1>6. CASE o.chunks # NoChunks
  <2>1. Usable(d, id)
    BY <1>6 DEF Usable, HasMeta
  <2>2. PICK u : u = UploadOf(d, id)
    OBVIOUS
  <2>3. u \in Uploads /\ Uploads' = (Uploads \ {u}) \union {UploadOf(d, id)'}
    BY <1>3, <2>1, <2>2, InUploads, UploadsStep DEF ShownIn
  <2>4. /\ u.id = id /\ u.meta = o.meta /\ u.chunks = o.chunks
        /\ UploadOf(d, id)' = [u EXCEPT !.chunks[i] = x, !.old = FALSE]
    <3>1. u = [id |-> id, meta |-> o.meta, chunks |-> o.chunks, old |-> o.old]
      BY <2>2 DEF UploadOf
    <3>2. u.id = id /\ u.meta = o.meta /\ u.chunks = o.chunks
      BY <3>1
    <3>3. PICK c : c = [u.chunks EXCEPT ![i] = x]
      OBVIOUS
    <3>4. c = t.chunks
      BY <3>2, <3>3
    <3>5. PICK v : v = [u EXCEPT !.chunks = c]
      OBVIOUS
    <3>6. v = [id |-> id, meta |-> o.meta, chunks |-> c, old |-> o.old]
      BY <3>1, <3>5
    <3>7. [v EXCEPT !.old = t.old] =
            [id |-> id, meta |-> o.meta, chunks |-> c, old |-> t.old]
      BY <3>6
    <3>8. [v EXCEPT !.old = FALSE] = UploadOf(d, id)'
      BY <1>1, <1>4, <3>4, <3>7
    <3> QED
      BY <3>2, <3>3, <3>5, <3>8
  <2>5. View!Add(u, i, x)
    BY <1>1, <2>3, <2>4 DEF View!Add, View!Replace, Elsewhere
  <2> QED
    BY <2>3, <2>5 DEF View!Next
<1> QED
  BY <1>5, <1>6

LEMMA ChunkSeen ==
  ASSUME NothingBreaks, JInv, NEW r \in Request, ChunkStep(r)
  PROVE  View!Next \/ UNCHANGED View!vars
<1>1. UNCHANGED <<spent, files, cancelledUploads, cancelAck>>
  BY SpentKept, RegistryKept
<1>2. CASE AdmitChunk(r) \/ ReserveChunk(r) \/ CountActive(r)
  <2>1. /\ pc[r] # "mark" /\ pc'[r] # "mark" /\ \A p \in Request \ {r} : SameFor(p)
        /\ req'[r].id = req[r].id /\ req'[r].op = req[r].op /\ UNCHANGED temp
    BY <1>2, AdmitChunkDoes, ReserveDoes DEF JInv, SameInputs
  <2> QED
    BY <1>1, <2>1, InsideSeen, StutterSeen
<1>3. CASE MakeTemp(r) \/ WriteMeta(r) \/ StoreChunk(r) \/ Undo(r)
  <2>1. /\ GoesOn(r) /\ pc[r] \in {"mkdir", "meta", "store", "undo"} /\ req[r].op = "chunk"
        /\ pc'[r] \in {"meta", "store", "undo", "forget", "reply"}
    BY <1>3, MakeTempDoes, WriteMetaDoes, StoreDoes, UndoDoes DEF JInv
  <2>2. Elsewhere
    BY <1>1, <2>1, InsideSeen DEF GoesOn
  <2>8. PICK d \in Dir, id \in FileID : d = req[r].dir /\ id = req[r].id
    BY <2>1 DEF GoesOn
  <2>3. <<d, id>> \notin spent /\ id \notin cancelAck
    BY <2>1, <2>8, NotSpent DEF GoesOn, JInv, SInv, Past, ChunkPlaces
  <2>4. CASE MakeTemp(r)
    <3>1. PICK t \in {EmptyTemp, None} : Put(d, id, t) /\ pc[r] = "mkdir"
      BY <2>4, <2>8, MakeTempDoes DEF JInv, NothingBreaks
    <3>2. OnlyAt(d, id) /\ temp'[d][id] = t
      BY <1>1, <3>1, EmptyTyped, PutOnly DEF JInv, IInv
    <3>3. temp[d][id] = None
      BY <2>1, <2>8, <3>1, LooseUnseen DEF Loose, GoesOn
    <3>4. ~ Usable(d, id) /\ ~ Usable(d, id)'
      BY <3>1, <3>2, <3>3 DEF Usable, HasMeta, Present, EmptyTemp
    <3> QED
      BY <2>2, <3>2, <3>4, StaysSeen
  <2>5. CASE WriteMeta(r)
    <3>1. PICK t \in TempState : Put(d, id, t) /\ t.chunks = NoChunks
      <4>1. CASE UNCHANGED temp
        BY <2>1, <2>5, <2>8, <4>1, PutSame, WriteMetaDoes DEF JInv, IInv, TypeOK
      <4>2. CASE ~ UNCHANGED temp
        BY <2>5, <2>8, <4>2, WriteMetaDoes DEF JInv
      <4> QED
        BY <4>1, <4>2
    <3>2. temp[d][id].chunks = NoChunks
      BY <2>5, <2>8, WriteMetaDoes DEF JInv
    <3>3. OnlyAt(d, id) /\ temp'[d][id] = t
      BY <1>1, <3>1, PutOnly DEF JInv, IInv
    <3>4. ~ Usable(d, id) /\ ~ Usable(d, id)'
      BY <3>1, <3>2, <3>3 DEF Usable
    <3> QED
      BY <2>2, <3>3, <3>4, StaysSeen
  <2>6. CASE StoreChunk(r)
    <3>1. PICK o : o = temp[d][id]
      OBVIOUS
    <3>2. /\ o \in TempState /\ Present(o) /\ o.meta \in Meta
          /\ req[r].idx \in 0..o.meta.total - 1 /\ req[r].idx \in Index
          /\ req[r].data \in Data
      BY <2>6, <2>8, <3>1, StoreDoes DEF JInv
    <3>3. PICK t \in TempState : Put(d, id, t) /\ Refilled(t, o, req[r])
      BY <2>6, <2>8, <3>1, StoreDoes DEF JInv
    <3>4. OnlyAt(d, id) /\ temp'[d][id] = t
      BY <1>1, <3>3, PutOnly DEF JInv, IInv
    <3>7. /\ Present(t) /\ t.meta = o.meta /\ t.old = FALSE
          /\ \/ /\ o.chunks[req[r].idx] = None
                /\ t.chunks = [o.chunks EXCEPT ![req[r].idx] = req[r].data]
             \/ t.chunks = o.chunks
      BY <3>3 DEF Refilled
    <3>5. CASE t.chunks = o.chunks
      BY <1>1, <2>2, <3>1, <3>2, <3>4, <3>5, <3>7, TouchSeen
    <3>6. CASE /\ o.chunks[req[r].idx] = None
               /\ t.chunks = [o.chunks EXCEPT ![req[r].idx] = req[r].data]
      BY <1>1, <2>2, <2>3, <3>1, <3>2, <3>4, <3>6, <3>7, StoredSeen
    <3> QED
      BY <3>5, <3>6, <3>7
  <2>7. CASE Undo(r)
    <3>1. Put(d, id, None) /\ pc[r] = "undo"
      BY <2>7, <2>8, UndoDoes DEF JInv, NothingBreaks
    <3>2. OnlyAt(d, id) /\ temp'[d][id] = None
      BY <1>1, <3>1, PutOnly DEF JInv, IInv
    <3>3. temp[d][id] = None \/ temp[d][id].chunks = NoChunks
      BY <2>1, <2>8, <3>1, LooseUnseen DEF Loose, GoesOn
    <3>4. ~ Usable(d, id) /\ ~ Usable(d, id)'
      BY <3>2, <3>3 DEF Usable, HasMeta, Present
    <3> QED
      BY <2>2, <3>2, <3>4, StaysSeen
  <2> QED
    BY <1>3, <2>4, <2>5, <2>6, <2>7
<1> QED
  BY <1>2, <1>3 DEF ChunkStep

(* A step of a merge keeps the chunks.                                     *)
LEMMA MergedSeen ==
  ASSUME NothingBreaks, JInv, NEW r \in Request, Parted(r), pc'[r] # "mark",
         UNCHANGED <<files, spent, cancelledUploads, cancelAck>>
  PROVE  View!Next \/ UNCHANGED View!vars
<1>1. GoesOn(r) /\ pc[r] \in MergePlaces
  BY DEF Parted
<1>2. PICK d \in Dir, id \in FileID : d = req[r].dir /\ id = req[r].id
  BY <1>1 DEF GoesOn
<1>3. PICK o \in TempState : o = temp[d][id]
  BY <1>2 DEF Parted
<1>4. PICK t \in TempState : Put(d, id, t) /\ Remerged(t, o)
  BY <1>2, <1>3 DEF Parted
<1>5. OnlyAt(d, id) /\ temp'[d][id] = t
  BY <1>4, PutOnly DEF JInv, IInv
<1>6. Elsewhere
  BY <1>1, InsideSeen DEF GoesOn, MergePlaces
<1>7. /\ Present(t) /\ t.meta = o.meta /\ t.chunks = o.chunks
      /\ t.old = FALSE \/ t = o
  BY <1>4 DEF Remerged
<1> QED
  BY <1>3, <1>5, <1>6, <1>7, TouchSeen

LEMMA ShelfGrows ==
  ASSUME NEW d \in Dir, NEW f, files'[d] = files[d] \union {f},
         \A e \in Dir \ {d} : files'[e] = files[e]
  PROVE  Shelf' = Shelf \union {Shelved(d, f)}
<1>1. ASSUME NEW x
      PROVE  x \in Shelf' <=> x \in Shelf \/ x = Shelved(d, f)
  <2>1. x \in Shelf <=> \E e \in Dir : \E g \in files[e] : x = Shelved(e, g)
    BY DEF Shelf
  <2>2. x \in Shelf' <=> \E e \in Dir : \E g \in files'[e] : x = Shelved(e, g)
    BY DEF Shelf, Shelved
  <2> QED
    BY <2>1, <2>2
<1> QED
  BY <1>1

LEMMA SizeSeen ==
  ASSUME NEW u
  PROVE  ActualSize(u) =
           View!MapThenSumSet(LAMBDA i : u.chunks[i].size, 0..u.meta.total - 1)
BY DEF ActualSize, View!MapThenSumSet, View!MapThenFoldSet, MapThenSumSet, MapThenFoldSet

LEMMA PublishedSeen ==
  ASSUME NothingBreaks, JInv, NEW r \in Request, PublishFile(r), pc'[r] = "clean"
  PROVE  View!Next
<1>1. /\ Parted(r) /\ pc[r] = "rename" /\ GoesOn(r)
      /\ spent' = spent \union {<<req[r].dir, req[r].id>>}
      /\ ~ UNCHANGED <<files, pubs>>
  BY PublishDoes DEF JInv, Parted
<1>2. PICK d \in Dir, id \in FileID : d = req[r].dir /\ id = req[r].id
  BY <1>1 DEF GoesOn
<1>3. PICK o \in TempState : o = temp[d][id]
  BY <1>1, <1>2 DEF Parted
<1>4. PICK t \in TempState : Put(d, id, t)
  BY <1>1, <1>2, <1>3 DEF Parted
<1>5. OnlyAt(d, id)
  BY <1>1, <1>2, <1>4, PutOnly DEF JInv, IInv
<1>6. PICK f : f = [key |-> req[r].key, id |-> id, meta |-> req[r].meta, content |-> o.part]
  OBVIOUS
<1>7. /\ req[r].meta \in Meta /\ Copied(o) /\ Present(o)
      /\ Len(o.part) = req[r].meta.total
      /\ ~ Cancelled(id) /\ req[r].key \notin TakenKeys(d)
      /\ files' = Renamed(d, f) /\ UNCHANGED cancelledUploads
  BY <1>1, <1>2, <1>3, <1>6, PublishFacts DEF JInv
<1>8. /\ o.meta = req[r].meta /\ AllChunks(o)
      /\ ActualSize(o) = o.meta.size /\ o.meta.total \in Nat \ {0}
  <2>1. o.meta = req[r].meta /\ AllChunks(o)
    BY <1>1, <1>2, <1>3, MergeFacts DEF JInv, MergePlaces
  <2>2. Sized(r)
    BY DEF JInv, RInv
  <2> QED
    BY <1>1, <1>2, <1>3, <1>7, <2>1, <2>2, UploadAssumption DEF Sized, MergePlaces
<1>9. Usable(d, id) /\ ~ Usable(d, id)'
  <2>1. <<d, id>> \notin spent
    BY <1>1, <1>2, NotSpent DEF GoesOn
  <2>2. o.chunks # NoChunks
    <3>1. 0 \in 0..o.meta.total - 1 /\ 0 \in Index
      BY <1>8, UploadAssumption DEF Index
    <3>2. o.chunks[0] # None
      BY <1>8, <3>1 DEF AllChunks
    <3>3. NoChunks[0] = None
      BY <3>1 DEF NoChunks
    <3> QED
      BY <3>2, <3>3
  <2> QED
    BY <1>1, <1>2, <1>3, <1>7, <2>1, <2>2 DEF Usable, HasMeta
<1>10. PICK u : u = UploadOf(d, id)
  OBVIOUS
<1>11. u \in Uploads /\ Uploads' = Uploads \ {u}
  BY <1>5, <1>9, <1>10, InUploads, UploadsStep DEF ShownIn
<1>12. u.id = id /\ u.meta = o.meta /\ u.chunks = o.chunks
  BY <1>3, <1>10 DEF UploadOf
<1>13. View!Content(u) = o.part
  <2>1. o.part \in Seq(Data) /\ Len(o.part) = u.meta.total
    BY <1>7, <1>8, <1>12 DEF Copied
  <2>2. o.part \in [1..u.meta.total -> Data]
    BY <2>1, LenProperties
  <2>3. \A k \in 1..u.meta.total : o.part[k] = u.chunks[k - 1]
    BY <1>7, <1>12, <2>1 DEF Copied
  <2> QED
    BY <2>2, <2>3 DEF View!Content
<1>14. /\ Shelf' = Shelf \union {Shelved(d, f)}
       /\ \A g \in Shelf : g.place # Shelved(d, f).place
  <2>1. f.key = req[r].key
    BY <1>6
  <2>2. files'[d] = files[d] \union {f} /\ \A e \in Dir \ {d} : files'[e] = files[e]
    BY <1>7, <2>1, RenamedFacts DEF JInv, IInv
  <2>3. ASSUME NEW e \in Dir, NEW g \in files[e]
        PROVE  Shelved(e, g).place # Shelved(d, f).place
    BY <1>7, <2>1 DEF Shelved, TakenKeys
  <2>4. \A g \in Shelf : g.place # Shelved(d, f).place
    BY <2>3 DEF Shelf
  <2> QED
    BY <2>2, <2>4, ShelfGrows
<1>15. PICK v : v = Shelved(d, f)
  OBVIOUS
<1>16. /\ v \in Shelf' /\ Shelf' = Shelf \union {v}
       /\ v = [place |-> v.place, id |-> u.id, meta |-> u.meta, content |-> View!Content(u)]
       /\ \A g \in Shelf : g.place # v.place
  <2>1. v = [place |-> v.place, id |-> u.id, meta |-> u.meta, content |-> View!Content(u)]
    BY <1>6, <1>8, <1>12, <1>13, <1>15 DEF Shelved
  <2> QED
    BY <1>14, <1>15, <2>1
<1>17. UNCHANGED <<Cancelling, Barred, cancelAck>>
  <2>1. UNCHANGED cancelAck
    BY DEF PublishFile
  <2>2. UNCHANGED Cancelling
    BY <1>1, RequestsSeen DEF GoesOn, SameFor
  <2> QED
    BY <1>7, <2>1, <2>2 DEF Barred
<1>18. View!MapThenSumSet(LAMBDA i : u.chunks[i].size, 0..u.meta.total - 1) = u.meta.size
  BY <1>8, <1>12, SizeKept, SizeSeen
<1>19. u.id \notin Barred /\ \A i \in 0..u.meta.total - 1 : u.chunks[i] # None
  BY <1>7, <1>8, <1>12 DEF Cancelled, Barred, AllChunks
<1>20. View!Publish(u)
  BY <1>11, <1>16, <1>17, <1>18, <1>19 DEF View!Publish
<1> QED
  BY <1>11, <1>20 DEF View!Next

(* A directory goes: a client only notices if it could still use it.       *)
LEMMA GoneSeen ==
  ASSUME NothingBreaks, JInv, NEW d \in Dir, NEW id \in FileID, OnlyAt(d, id), Elsewhere,
         temp'[d][id] = None,
         Usable(d, id) => id \in Cancelling \/ temp[d][id].old
  PROVE  View!Next \/ UNCHANGED View!vars
<1>1. ~ Usable(d, id)'
  BY DEF Usable, HasMeta, Present
<1>2. CASE Usable(d, id)
  <2>1. PICK u : u = UploadOf(d, id)
    OBVIOUS
  <2>2. u \in Uploads /\ Uploads' = Uploads \ {u}
    BY <1>1, <1>2, <2>1, InUploads, UploadsStep DEF ShownIn
  <2>3. u.id \in Cancelling \/ u.old
    BY <1>2, <2>1 DEF UploadOf
  <2> QED
    BY <2>2, <2>3 DEF View!Next, View!Discard, Elsewhere
<1> QED
  BY <1>1, <1>2, StaysSeen

LEMMA CompleteSeen ==
  ASSUME NothingBreaks, JInv, NEW r \in Request, CompleteStep(r)
  PROVE  View!Next \/ UNCHANGED View!vars
<1>1. UNCHANGED <<cancelledUploads, cancelAck>>
  BY RegistryKept
<1>2. CASE AdmitComplete(r)
  <2>1. /\ GoesOn(r) /\ pc[r] = "admit" /\ pc'[r] \in {"reply", "part"}
        /\ UNCHANGED <<temp, spent, files>>
    BY <1>2, AdmitCompleteDoes, SpentKept DEF JInv
  <2> QED
    BY <1>1, <2>1, InsideSeen, StutterSeen DEF GoesOn
<1>3. CASE CreatePart(r) \/ MergeChunk(r) \/ Seal(r) \/ TakeUploadMu(r) \/ PickName(r)
  <2>1. /\ Parted(r) /\ pc'[r] # "mark"
        /\ UNCHANGED <<spent, files>>
    BY <1>3, MergeDoes, SpentKept DEF JInv, MergePlaces
  <2> QED
    BY <1>1, <2>1, MergedSeen
<1>4. CASE PublishFile(r)
  <2>1. CASE pc'[r] = "clean"
    BY <1>4, <2>1, PublishedSeen
  <2>2. CASE pc'[r] # "clean"
    <3>1. Parted(r) /\ pc'[r] = "reply" /\ UNCHANGED <<files, spent>>
      BY <1>4, <2>2, PublishDoes DEF JInv
    <3> QED
      BY <1>1, <3>1, MergedSeen
  <2> QED
    BY <2>1, <2>2
<1>5. CASE Clean(r)
  <2>1. Removed(r, req[r].dir) /\ pc[r] = "clean" /\ pc'[r] = "forget" /\ UNCHANGED files
    BY <1>5, CleanDoes DEF JInv, Clean
  <2>2. PICK d \in Dir, id \in FileID : d = req[r].dir /\ id = req[r].id
    BY <2>1 DEF Removed, GoesOn
  <2>3. Put(d, id, None) /\ spent' = spent \ {<<d, id>>}
    BY <2>1, <2>2 DEF Removed, NothingBreaks
  <2>4. OnlyAt(d, id) /\ temp'[d][id] = None
    BY <2>3, PutOnly DEF JInv, IInv
  <2>5. ~ Usable(d, id)
    BY <2>1, <2>2 DEF Usable, JInv, RInv, Given
  <2>6. Elsewhere
    BY <1>1, <2>1, InsideSeen DEF Removed, GoesOn
  <2> QED
    BY <2>4, <2>5, <2>6, GoneSeen
<1> QED
  BY <1>2, <1>3, <1>4, <1>5 DEF CompleteStep

LEMMA RemovalSeen ==
  ASSUME NothingBreaks, JInv, NEW r \in Request, AdmitCancel(r) \/ AdmitSweep(r)
  PROVE  View!Next \/ UNCHANGED View!vars
<1>1. UNCHANGED <<files, cancelledUploads, cancelAck>>
  BY RegistryKept DEF AdmitCancel, AdmitSweep
<1>2. /\ GoesOn(r) /\ pc[r] = "admit" /\ pc'[r] \in {"forget", "reply"}
  BY AdmitCancelDoes, AdmitSweepDoes DEF JInv, Removed
<1>3. Elsewhere
  BY <1>1, <1>2, InsideSeen DEF GoesOn
<1>4. PICK id \in FileID : id = req[r].id
  BY <1>2 DEF GoesOn
<1>5. ASSUME NEW d \in Dir, Removed(r, d)
      PROVE  OnlyAt(d, id) /\ temp'[d][id] = None
  <2>1. Put(d, id, None) /\ spent' = spent \ {<<d, id>>}
    BY <1>4, <1>5 DEF Removed, NothingBreaks
  <2> QED
    BY <2>1, PutOnly DEF JInv, IInv
<1>6. CASE AdmitCancel(r)
  <2>1. PICK d : d = UploadDirectoryFor(req[r].id, req[r].dir)
    OBVIOUS
  <2>2. Removed(r, d) /\ d \in Dir /\ req[r].op = "cancel"
    BY <1>6, <2>1, AdmitCancelDoes DEF JInv, Removed
  <2>3. id \in Cancelling
    BY <1>2, <1>4, <2>2 DEF Cancelling
  <2> QED
    BY <1>3, <1>5, <2>2, <2>3, GoneSeen
<1>7. CASE AdmitSweep(r)
  <2>1. PICK d \in Dir : d = req[r].dir
    BY <1>2 DEF GoesOn
  <2>2. CASE UNCHANGED <<temp, spent>>
    BY <1>3, <2>2, StutterSeen
  <2>3. CASE Abandoned(d, id) /\ Removed(r, d)
    BY <1>3, <1>5, <2>3, GoneSeen DEF Abandoned
  <2> QED
    BY <1>4, <1>7, <2>1, <2>2, <2>3, AdmitSweepDoes DEF JInv
<1> QED
  BY <1>6, <1>7

LEMMA QuietSeen ==
  ASSUME JInv, NEW r \in Request, LockUpload(r) \/ Forget(r)
  PROVE  UNCHANGED View!vars
<1>1. UNCHANGED <<temp, spent, files, cancelledUploads, cancelAck>>
  BY RegistryKept, SpentKept DEF LockUpload, Forget, disk
<1>2. /\ pc[r] # "mark" /\ pc'[r] # "mark" /\ req' = req
      /\ \A p \in Request \ {r} : SameFor(p)
  BY DEF LockUpload, Forget, Goto, SameFor, JInv, IInv, TypeOK
<1>3. Elsewhere
  BY <1>1, <1>2, InsideSeen
<1> QED
  BY <1>1, <1>3, StutterSeen

LEMMA BeginSeen ==
  ASSUME JInv, NEW r \in Request, Arrive(r) \/ Sweeper(r)
  PROVE  UNCHANGED View!vars
<1>1. /\ pc[r] = "idle" /\ (req'[r].op = "cancel" => pc'[r] = "mark")
      /\ \A p \in Request \ {r} : SameFor(p)
      /\ UNCHANGED <<temp, files, spent, cancelledUploads, cancelAck>>
  BY BeginDoes DEF JInv, server, disk, history
<1>2. req[r].op # "cancel"
  BY <1>1 DEF JInv, RInv, Given
<1>3. UNCHANGED Cancelling
  BY <1>1, <1>2, RequestsSeen DEF SameFor
<1>4. Elsewhere
  BY <1>1, <1>3, RegistriesSeen DEF Elsewhere
<1> QED
  BY <1>1, <1>4, StutterSeen

LEMMA UploadsKept ==
  ASSUME UNCHANGED <<temp, spent>>
  PROVE  UNCHANGED Uploads
BY DEF Uploads, Usable, UploadOf, HasMeta

LEMMA ShelfKept ==
  ASSUME UNCHANGED files
  PROVE  UNCHANGED Shelf
BY DEF Shelf, Shelved

LEMMA CardinalitySeen ==
  ASSUME NEW S
  PROVE  View!Cardinality(S) = Cardinality(S)
BY DEF View!Cardinality, Cardinality

LEMMA MarkSeen ==
  ASSUME JInv, NEW r \in Request, Mark(r)
  PROVE  View!Next
<1>1. /\ pc[r] = "mark" /\ pc'[r] = "lock" /\ req' = req
      /\ \A p \in Request \ {r} : SameFor(p)
      /\ UNCHANGED <<temp, files, spent>>
      /\ cancelledUploads' = Marked(req[r].id)
      /\ cancelAck' = cancelAck \intersect Tombstones(Marked(req[r].id))
  BY MarkDoes DEF JInv
<1>2. PICK id \in FileID : id = req[r].id
  BY MarkDoes DEF JInv
<1>3. req[r].op = "cancel"
  BY <1>1 DEF JInv, SInv, Past
<1>4. Cancelling' = Cancelling \union {id}
  <2>1. \A x : x \in Cancelling <=>
          \E p \in Request : req[p].op = "cancel" /\ pc[p] # "mark" /\ x = req[p].id
    BY DEF Cancelling
  <2>2. \A x : x \in Cancelling' <=>
          \E p \in Request : req'[p].op = "cancel" /\ pc'[p] # "mark" /\ x = req'[p].id
    BY DEF Cancelling
  <2>3. \A x : x \in Cancelling' <=> x \in Cancelling \/ x = id
    BY <1>1, <1>2, <1>3, <2>1, <2>2 DEF SameFor
  <2> QED
    BY <2>3
<1>5. PICK gone \in SUBSET Barred :
        Cardinality(gone) <= 1 /\ Barred' = (Barred \ gone) \union {id}
  BY <1>1, <1>2, MarkedOne DEF Barred, JInv, IInv, SInv
<1>6. cancelAck' = cancelAck \intersect Barred'
  BY <1>1, <1>2 DEF Barred
<1>7. View!Cancel(id)
  BY <1>1, <1>4, <1>5, <1>6, UploadsKept, ShelfKept, CardinalitySeen DEF View!Cancel
<1> QED
  BY <1>7 DEF View!Next

LEMMA ReplySeen ==
  ASSUME NothingBreaks, JInv, NEW r \in Request, Reply(r)
  PROVE  View!Next \/ UNCHANGED View!vars
<1>1. /\ pc[r] = "reply" /\ pc'[r] = "idle" /\ req'[r] = NoReq
      /\ \A p \in Request \ {r} : SameFor(p)
      /\ UNCHANGED <<temp, spent, files, cancelledUploads>>
      /\ cancelAck' = IF req[r].op = "cancel" /\ req[r].reply = "ok" /\ Cancelled(req[r].id)
                      THEN cancelAck \union {req[r].id} ELSE cancelAck
  BY DEF Reply, Goto, JInv, IInv, TypeOK, SameFor, disk, server
<1>2. PICK id \in FileID : id = req[r].id
  BY <1>1, Own DEF JInv
<1>3. UNCHANGED <<Uploads, Shelf, Barred>>
  BY <1>1, UploadsKept, ShelfKept DEF Barred
<1>4. CASE req[r].op # "cancel"
  <2>1. UNCHANGED Cancelling
    BY <1>1, <1>4, RequestsSeen DEF SameFor, NoReq
  <2> QED
    BY <1>1, <1>3, <1>4, <2>1 DEF View!vars
<1>5. CASE req[r].op = "cancel"
  <2>1. req[r].reply = "ok"
    BY <1>1, <1>5 DEF JInv, RInv, Given
  <2>2. cancelAck' = cancelAck \union ({id} \intersect Barred)
    BY <1>1, <1>2, <1>5, <2>1 DEF Cancelled, Barred
  <2>3. id \in Cancelling /\ Cancelling' \in {Cancelling, Cancelling \ {id}}
    <3>1. \A x : x \in Cancelling <=>
            \E p \in Request : req[p].op = "cancel" /\ pc[p] # "mark" /\ x = req[p].id
      BY DEF Cancelling
    <3>2. \A x : x \in Cancelling' <=>
            \E p \in Request : req'[p].op = "cancel" /\ pc'[p] # "mark" /\ x = req'[p].id
      BY DEF Cancelling
    <3>3. \A x : x # id => (x \in Cancelling' <=> x \in Cancelling)
      BY <1>1, <1>2, <3>1, <3>2 DEF SameFor, NoReq
    <3>4. id \in Cancelling
      BY <1>1, <1>2, <1>5, <3>1
    <3> QED
      BY <3>3, <3>4
  <2>4. \A u \in Uploads : u.id \notin cancelAck'
    <3>1. \A x \in FileID : Closed(x)'
      BY ReplyView DEF RInv
    <3>2. ASSUME NEW u \in Uploads
          PROVE  u.id \notin cancelAck'
      <4>1. PICK d \in Dir, x \in FileID : Usable(d, x) /\ u = UploadOf(d, x)
        BY InUploads
      <4>2. u.id = x /\ temp'[d][x] # None
        BY <1>1, <4>1 DEF UploadOf, Usable, HasMeta, Present
      <4> QED
        BY <3>1, <4>2 DEF Closed
    <3> QED
      BY <3>2
  <2>5. View!Answer(id)
    BY <1>3, <2>2, <2>3, <2>4 DEF View!Answer
  <2> QED
    BY <2>5 DEF View!Next
<1> QED
  BY <1>4, <1>5

LEMMA ExpireSeen ==
  ASSUME JInv, ExpireTombstone
  PROVE  View!Next
<1>1. /\ cancelledUploads \in Seq(FileID) /\ cancelledUploads # <<>>
      /\ Distinct(cancelledUploads)
  BY DEF ExpireTombstone, JInv, IInv, TypeOK, SInv
<1>2. PICK id \in FileID : id = Head(cancelledUploads)
  BY <1>1
<1>3. Tombstones(Tail(cancelledUploads)) = Tombstones(cancelledUploads) \ {id}
  BY <1>1, <1>2, TailOne
<1>4. /\ cancelledUploads' = Tail(cancelledUploads) /\ cancelAck' = cancelAck \ {id}
      /\ UNCHANGED <<temp, spent, files, pc, req>>
  BY <1>2 DEF ExpireTombstone, disk
<1>5. UNCHANGED <<Uploads, Shelf, Cancelling>>
  BY <1>4, UploadsKept, ShelfKept, RequestsSeen
<1>6. View!Expire(id)
  BY <1>3, <1>4, <1>5 DEF View!Expire, Barred
<1> QED
  BY <1>6 DEF View!Next

LEMMA AgeSeen ==
  ASSUME NothingBreaks, JInv, Age
  PROVE  View!Next \/ UNCHANGED View!vars
<1>1. UNCHANGED <<files, cancelledUploads, pc, req, spent, cancelAck>>
  BY AgeDoes DEF JInv, server, history
<1>2. PICK d \in Dir, id \in FileID, t \in TempState :
        /\ temp[d][id] \in TempState /\ temp[d][id] # None /\ ~ temp[d][id].old
        /\ Put(d, id, t)
        /\ t.meta = temp[d][id].meta /\ t.chunks = temp[d][id].chunks /\ t.old
  BY AgeDoes DEF JInv
<1>3. OnlyAt(d, id) /\ temp'[d][id] = t /\ t # None
  BY <1>1, <1>2, PutOnly, UploadAssumption DEF JInv, IInv
<1>4. Elsewhere
  BY <1>1, RequestsSeen, RegistriesSeen DEF Elsewhere
<1>5. Usable(d, id)' <=> Usable(d, id)
  BY <1>1, <1>2, <1>3 DEF Usable, HasMeta, Present
<1>6. CASE ~ Usable(d, id)
  BY <1>3, <1>4, <1>5, <1>6, StaysSeen
<1>7. CASE Usable(d, id)
  <2>1. PICK u : u = UploadOf(d, id)
    OBVIOUS
  <2>2. u \in Uploads /\ Uploads' = (Uploads \ {u}) \union {UploadOf(d, id)'}
    BY <1>3, <1>5, <1>7, <2>1, InUploads, UploadsStep DEF ShownIn
  <2>3. ~ u.old /\ t.old = TRUE
    BY <1>2, <2>1 DEF UploadOf, TempState
  <2>4. UploadOf(d, id)' = [u EXCEPT !.old = t.old]
    <3>1. t.meta = temp[d][id].meta /\ t.chunks = temp[d][id].chunks /\ temp'[d][id] = t
      BY <1>2, <1>3
    <3> QED
      BY <2>1, <3>1 DEF UploadOf
  <2>5. View!Grow(u)
    BY <1>4, <2>2, <2>3, <2>4 DEF View!Grow, View!Replace, Elsewhere
  <2> QED
    BY <2>2, <2>5 DEF View!Next
<1> QED
  BY <1>6, <1>7

LEMMA DeleteSeen ==
  ASSUME JInv, DeleteFile
  PROVE  View!Next
<1>1. UNCHANGED <<temp, spent, pc, req, cancelledUploads, cancelAck>>
  BY DEF DeleteFile, server, history
<1>0. PICK d \in Dir : \E f \in files[d] : files' = [files EXCEPT ![d] = @ \ {f}]
  BY DEF DeleteFile
<1>2. PICK f \in files[d] : files' = [files EXCEPT ![d] = @ \ {f}]
  BY <1>0
<1>3. files \in [Dir -> SUBSET FileState]
  BY DEF JInv, IInv, TypeOK
<1>4. files'[d] = files[d] \ {f} /\ \A e \in Dir \ {d} : files'[e] = files[e]
  BY <1>2, <1>3
<1>5. ASSUME NEW e \in Dir, NEW g \in files[e], Shelved(e, g) = Shelved(d, f)
      PROVE  e = d /\ g = f
  <2>1. /\ f = [key |-> f.key, id |-> f.id, meta |-> f.meta, content |-> f.content]
        /\ g = [key |-> g.key, id |-> g.id, meta |-> g.meta, content |-> g.content]
    BY <1>3 DEF FileState
  <2>2. <<e, g.key>> = <<d, f.key>> /\ g.id = f.id /\ g.meta = f.meta /\ g.content = f.content
    BY <1>5 DEF Shelved
  <2> QED
    BY <2>1, <2>2
<1>6. ASSUME NEW x
      PROVE  x \in Shelf' <=> x \in Shelf /\ x # Shelved(d, f)
  <2>1. x \in Shelf <=> \E e \in Dir : \E g \in files[e] : x = Shelved(e, g)
    BY DEF Shelf
  <2>2. x \in Shelf' <=> \E e \in Dir : \E g \in files'[e] : x = Shelved(e, g)
    BY DEF Shelf, Shelved
  <2> QED
    BY <1>4, <1>5, <2>1, <2>2
<1>7. PICK v : v = Shelved(d, f)
  OBVIOUS
<1>8. v \in Shelf /\ Shelf' = Shelf \ {v}
  BY <1>6, <1>7 DEF Shelf
<1>9. UNCHANGED <<Uploads, Cancelling, Barred>>
  BY <1>1, UploadsKept, RequestsSeen DEF Barred
<1>10. View!Delete(v)
  BY <1>1, <1>8, <1>9 DEF View!Delete
<1> QED
  BY <1>8, <1>10 DEF View!Next

LEMMA SameSeen ==
  ASSUME UNCHANGED <<temp, spent, files, pc, req, cancelledUploads, cancelAck>>
  PROVE  UNCHANGED View!vars
<1>1. Elsewhere
  BY RequestsSeen, RegistriesSeen DEF Elsewhere
<1> QED
  BY <1>1, StutterSeen

LEMMA NextSeen == NothingBreaks /\ JInv /\ [Next]_vars => View!Next \/ UNCHANGED View!vars
<1> SUFFICES ASSUME NothingBreaks, JInv, [Next]_vars
             PROVE  View!Next \/ UNCHANGED View!vars
  OBVIOUS
<1>1. ASSUME NEW r \in Request, Serve(r)
      PROVE  View!Next \/ UNCHANGED View!vars
  BY <1>1, ChunkSeen, CompleteSeen, RemovalSeen, QuietSeen, MarkSeen, ReplySeen DEF Serve
<1>2. CASE World
  <2>1. CASE SetUploadDir
    BY <2>1, SameSeen DEF SetUploadDir, server, disk, history
  <2>2. ~ Crash
    BY CrashBind DEF JInv
  <2> QED
    BY <1>2, <2>1, <2>2, ExpireSeen, AgeSeen, DeleteSeen DEF World
<1>3. CASE UNCHANGED vars
  BY <1>3, SameSeen DEF vars, server, disk, history
<1> QED
  BY <1>1, <1>2, <1>3, BeginSeen DEF Next

LEMMA InitSeen == Init => View!Init
<1> SUFFICES ASSUME Init
             PROVE  View!Init
  OBVIOUS
<1>1. Uploads = {} /\ Shelf = {}
  BY DEF Init, Uploads, Usable, HasMeta, Present, Shelf
<1>2. Cancelling = {} /\ Barred = {} /\ cancelAck = {}
  BY DEF Init, Cancelling, NoReq, Barred, Tombstones
<1> QED
  BY <1>1, <1>2 DEF View!Init

(* As long as nothing crashes and no removal fails, every step of the      *)
(* handlers, the sweeper and the world is one that UploadView allows, or   *)
(* one that no client sees: one upload per file_id, published whole, at    *)
(* most once, never after its cancellation (upload.go:449-998).            *)
THEOREM UploadRefines == NothingBreaks => (Spec => ImplementsUploadView)
<1>1. ASSUME NothingBreaks
      PROVE  JInv /\ [Next]_vars => [View!Next]_(View!vars)
  BY <1>1, NextSeen
<1>2. ASSUME NothingBreaks
      PROVE  Spec => []JInv
  BY <1>2, Seen
<1>3. ASSUME NothingBreaks
      PROVE  Spec => View!Spec
  BY <1>1, <1>2, <1>3, InitSeen, PTL DEF Spec, View!Spec
<1> QED
  BY <1>3 DEF ImplementsUploadView

================================================================================
