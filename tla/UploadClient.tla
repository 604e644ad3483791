------------------------------ MODULE UploadClient ------------------------------
(***************************************************************************)
(* An upload task of the web client (webui/assets/app.js: createUploadTask *)
(* to uploadChunkWithRetry) against a server that answers as it likes: it  *)
(* may forget the chunks or get them from another page of the browser.     *)
(*                                                                         *)
(* JavaScript runs one callback at a time: an action is what happens from  *)
(* one await to the next.  Each start of runUploadTask is a run of its     *)
(* own with the runToken it began with; a run that was superseded goes on  *)
(* until its next await returns.  A worker has one chunk in hand and is    *)
(* known by it and the number of its failed attempts.  The file's chunks   *)
(* count as one byte each.                                                 *)
(***************************************************************************)
EXTENDS Integers, FiniteSets

CONSTANTS
  Chunk,              \* chunk numbers
  PARALLEL_CHUNKS,    \* workers of a run
  CHUNK_RETRY_LIMIT,  \* retries of a chunk
  MaxToken            \* bound: values of runToken

ASSUME UploadClientAssumption ==
  /\ Chunk \subseteq Nat /\ IsFiniteSet(Chunk) /\ Chunk # {}
  /\ PARALLEL_CHUNKS \in Nat \ {0}
  /\ CHUNK_RETRY_LIMIT \in Nat
  /\ MaxToken \in Nat \ {0}

VARIABLES
  state,            \* task.state
  runToken,         \* task.runToken
  completedChunks,  \* task.completedChunks
  uploadedBytes,    \* task.uploadedBytes
  runs              \* runs[t]: the run with token t

uploadClientVars == <<state, runToken, completedChunks, uploadedBytes, runs>>

Token == 1..MaxToken

(* Where the function is; chunks nobody took yet; workers in a request and *)
(* workers in the delay before the next.  A run that has ended may have    *)
(* workers left.                                                           *)
NoRun == [phase |-> "ended", pending |-> {}, sending |-> {}, waiting |-> {}]
NewRun == [NoRun EXCEPT !.phase = "status"]
Dropped(r) == [r EXCEPT !.phase = "ended"]
Workers(r) == r.sending \union r.waiting

UploadClientInit ==
  /\ state = "running" /\ runToken = 1
  /\ completedChunks = {} /\ uploadedBytes = 0
  /\ runs = [t \in Token |-> IF t = 1 THEN NewRun ELSE NoRun]

(* Only the state of the task is asked for. *)
Live_AnyToken(t) == state = "running"

(* The run t may go on. *)
Live(t) == t = runToken /\ state = "running"

(* A failed completion is ignored, too. *)
Ignored_Finalizing(t) == t # runToken \/ state \in {"paused", "cancelled", "finalizing"}

Ignored(t) == t # runToken \/ state \in {"paused", "cancelled"}

(* Workers that begin with the first n of these chunks *)
Taking(chunks, n) == {<<c, 0>> : c \in {d \in chunks : Cardinality({e \in chunks : e < d}) < n}}

Retried(worker) == <<worker[1], worker[2] + 1>>

-------------------------------------------------------------------------------
(* What ends a run *)

(* abortTaskRequests on the runs rs: a worker's request is given up, which *)
(* ends its run; or, if the text of a refusal was just being read, it      *)
(* counts as failed and the worker waits.                                  *)
Abort(rs) ==
  \E kept \in SUBSET UNION {{t} \X rs[t].sending : t \in Token} :
    /\ \A k \in kept : k[2][2] < CHUNK_RETRY_LIMIT
    /\ runs' = [t \in Token |->
         LET retrying == {w \in rs[t].sending : <<t, w>> \in kept}
         IN  [rs[t] EXCEPT !.sending = {},
                           !.waiting = @ \union {Retried(w) : w \in retrying},
                           !.phase = IF retrying = rs[t].sending THEN @ ELSE "ended"]]

(* The catch block of runUploadTask for an error of the run t; rs are the  *)
(* runs without the worker that failed.                                    *)
Fail(t, rs) ==
  /\ IF rs[t].phase = "ended" \/ Ignored(t)
       THEN runs' = [rs EXCEPT ![t] = Dropped(@)] /\ UNCHANGED state
       ELSE state' = "failed" /\ Abort([rs EXCEPT ![t] = Dropped(@)])
  /\ UNCHANGED <<runToken, completedChunks, uploadedBytes>>

-------------------------------------------------------------------------------
(* A run *)

(* The run t becomes r.  Without workers left it asks the server to        *)
(* complete the upload, if it may go on.                                   *)
Onward(t, r) ==
  IF r.phase = "chunks" /\ Workers(r) = {}
    THEN /\ runs' = [runs EXCEPT ![t] = [r EXCEPT !.phase = IF Live(t) THEN "completing" ELSE "ended"]]
         /\ state' = IF Live(t) THEN "finalizing" ELSE state
    ELSE runs' = [runs EXCEPT ![t] = r] /\ UNCHANGED state

StatusOk(t, chunks) ==
  /\ runs[t].phase = "status"
  /\ IF Live(t)
       THEN LET missing == Chunk \ chunks
                taken == Taking(missing, PARALLEL_CHUNKS)
            IN  /\ completedChunks' = chunks
                /\ uploadedBytes' = Cardinality(chunks)
                /\ Onward(t, [phase |-> "chunks", sending |-> taken, waiting |-> {},
                              pending |-> missing \ {w[1] : w \in taken}])
       ELSE /\ runs' = [runs EXCEPT ![t] = Dropped(@)]
            /\ UNCHANGED <<state, completedChunks, uploadedBytes>>
  /\ UNCHANGED runToken

StatusFails(t) == runs[t].phase = "status" /\ Fail(t, runs)

(* The worker takes the next chunk, or returns. *)
ChunkOk(t, w) ==
  LET next == IF Live(t) THEN Taking(runs[t].pending, 1) ELSE {}
  IN  /\ w \in runs[t].sending
      /\ completedChunks' = completedChunks \union {w[1]}
      /\ uploadedBytes' = uploadedBytes + IF w[1] \in completedChunks THEN 0 ELSE 1
      /\ Onward(t, [runs[t] EXCEPT !.pending = @ \ {n[1] : n \in next},
                                   !.sending = (@ \ {w}) \union next])
      /\ UNCHANGED runToken

(* The request fails, perhaps after it was served. *)
ChunkRetry(t, w) ==
  /\ w \in runs[t].sending /\ w[2] < CHUNK_RETRY_LIMIT
  /\ runs' = [runs EXCEPT ![t].sending = @ \ {w}, ![t].waiting = @ \union {Retried(w)}]
  /\ UNCHANGED <<state, runToken, completedChunks, uploadedBytes>>

(* The request is refused for good, or failed once too often. *)
ChunkFails(t, w) ==
  /\ w \in runs[t].sending
  /\ Fail(t, [runs EXCEPT ![t].sending = @ \ {w}])

(* The delay is over: the next attempt, unless the upload was stopped. *)
Wake(t, w) ==
  /\ w \in runs[t].waiting
  /\ IF Live(t)
       THEN runs' = [runs EXCEPT ![t].waiting = @ \ {w}, ![t].sending = @ \union {w}]
       ELSE runs' = [runs EXCEPT ![t].waiting = @ \ {w}, ![t].phase = "ended"]
  /\ UNCHANGED <<state, runToken, completedChunks, uploadedBytes>>

CompleteOk(t) ==
  /\ runs[t].phase = "completing"
  /\ runs' = [runs EXCEPT ![t] = Dropped(@)]
  /\ IF t = runToken /\ state = "finalizing"
       THEN state' = "done" /\ uploadedBytes' = Cardinality(Chunk)
       ELSE UNCHANGED <<state, uploadedBytes>>
  /\ UNCHANGED <<runToken, completedChunks>>

(* Refused, or published and the answer lost *)
CompleteFails(t) == runs[t].phase = "completing" /\ Fail(t, runs)

-------------------------------------------------------------------------------
(* The user *)

pauseUpload ==
  /\ state = "running" /\ runToken < MaxToken
  /\ state' = "paused" /\ runToken' = runToken + 1
  /\ Abort(runs)
  /\ UNCHANGED <<completedChunks, uploadedBytes>>

resumeUpload ==
  /\ state \in {"paused", "failed"} /\ runToken < MaxToken
  /\ state' = "running" /\ runToken' = runToken + 1
  /\ runs' = [runs EXCEPT ![runToken'] = NewRun]
  /\ UNCHANGED <<completedChunks, uploadedBytes>>

cancelUpload ==
  /\ state \notin {"cancelled", "done", "finalizing"} /\ runToken < MaxToken
  /\ state' = "cancelled" /\ runToken' = runToken + 1
  /\ Abort(runs)
  /\ UNCHANGED <<completedChunks, uploadedBytes>>

UploadClientNext ==
  \/ \E t \in Token :
       \/ \E chunks \in SUBSET Chunk : StatusOk(t, chunks)
       \/ StatusFails(t)
       \/ \E w \in runs[t].sending : ChunkOk(t, w) \/ ChunkRetry(t, w) \/ ChunkFails(t, w)
       \/ \E w \in runs[t].waiting : Wake(t, w)
       \/ CompleteOk(t) \/ CompleteFails(t)
  \/ pauseUpload \/ resumeUpload \/ cancelUpload

UploadClientSpec == UploadClientInit /\ [][UploadClientNext]_uploadClientVars

-------------------------------------------------------------------------------
(* Properties *)

(* However often a task is paused, resumed, retried and fails while its    *)
(* requests and delays are pending, only its newest run sends chunks, with *)
(* at most PARALLEL_CHUNKS workers, no two on one chunk, and none after a  *)
(* pause, a cancellation or a failure (app.js 503-612).                    *)
OneRunSends ==
  \A t \in Token :
    /\ runs[t].sending # {} => Live(t)
    /\ Cardinality({w[1] : w \in Workers(runs[t])}) = Cardinality(Workers(runs[t]))
    /\ Cardinality(Workers(runs[t])) <= PARALLEL_CHUNKS

(* A task that is shown as under way has a run that will come back: it is  *)
(* never left running without anybody to finish it or to report a failure. *)
(* It asks for completion only when each chunk was acknowledged, and its   *)
(* progress counts each chunk once (app.js 503-569).                       *)
NeverStuck ==
  /\ state = "running" =>
       \/ runs[runToken].phase = "status"
       \/ runs[runToken].phase = "chunks" /\ Workers(runs[runToken]) # {}
  /\ state = "finalizing" => runs[runToken].phase = "completing"
  /\ state \in {"finalizing", "done"} => completedChunks = Chunk
  /\ uploadedBytes = Cardinality(completedChunks)

===============================================================================
