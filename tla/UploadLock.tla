------------------------------ MODULE UploadLock ------------------------------
(***************************************************************************)
(* Server.lockUpload and the closure it returns (upload.go): the mutex of  *)
(* a file_id is an uploadLock object found in, or added to, the map        *)
(* uploadLocks.  Every request that will use the object is counted in      *)
(* lock.refs before it blocks on lock.mu, and the last one to leave        *)
(* deletes the map entry, so the map does not grow with the file_ids ever  *)
(* seen.  Each section under uploadMu is one action; lock.mu is taken and  *)
(* released outside of it.                                                 *)
(*                                                                         *)
(* LockObj stands for the addresses &uploadLock{} may return.  The garbage *)
(* collector frees an object that neither the map nor a request points at, *)
(* which the allocation below reuses.                                      *)
(***************************************************************************)
EXTENDS Integers, FiniteSets

CONSTANTS
  Caller,    \* goroutines that call lockUpload
  LockID,    \* the file_ids they call it with
  LockObj,   \* addresses of uploadLock objects
  Null       \* nil

ASSUME UploadLockAssumption ==
  /\ Null \notin Caller
  /\ Null \notin LockObj
  /\ IsFiniteSet(Caller)

VARIABLES
  stage,         \* stage[r]: where goroutine r is in lockUpload
  fileID,        \* fileID[r]: the argument of lockUpload
  localLock,     \* localLock[r]: the local variable lock of r, Null outside
  uploadLocks,   \* the map: the lock object of each file_id, Null if absent
  refs,          \* refs[o]: field refs of object o
  mu             \* mu[o]: the goroutine that holds o.mu, Null if unlocked

lockVars == <<stage, fileID, localLock, uploadLocks, refs, mu>>

LockInit ==
  /\ stage = [r \in Caller |-> "idle"]
  /\ fileID \in [Caller -> LockID]
  /\ localLock = [r \in Caller |-> Null]
  /\ uploadLocks = [f \in LockID |-> Null]
  /\ refs = [o \in LockObj |-> 0]
  /\ mu = [o \in LockObj |-> Null]

Live(o) == (\E r \in Caller : localLock[r] = o) \/ (\E f \in LockID : uploadLocks[f] = o)

(* The map entry is not looked at: every request makes its own object. *)
Found_AlwaysNew(f, o) == ~ Live(o)

(* lock := s.uploadLocks[fileID], or a fresh object stored under fileID *)
Found(f, o) ==
  IF uploadLocks[f] # Null THEN o = uploadLocks[f] ELSE ~ Live(o)

(* lock.refs++ is left out. *)
RefsBefore_NotCounted(f, o) == IF uploadLocks[f] = Null THEN -1 ELSE refs[o] - 1

(* A fresh object has the zero value, so its refs counts from 0. *)
RefsBefore(f, o) == IF uploadLocks[f] = Null THEN 0 ELSE refs[o]

Ref(r, f) ==
  /\ stage[r] = "idle"
  /\ \E o \in LockObj :
       /\ Found(f, o)
       /\ localLock' = [localLock EXCEPT ![r] = o]
       /\ uploadLocks' = [uploadLocks EXCEPT ![f] = o]
       /\ refs' = [refs EXCEPT ![o] = RefsBefore(f, o) + 1]
  /\ fileID' = [fileID EXCEPT ![r] = f]
  /\ stage' = [stage EXCEPT ![r] = "blocked"]
  /\ UNCHANGED mu

(* lock.mu is not waited for. *)
Acquire_Unlocked(r) ==
  /\ stage[r] = "blocked"
  /\ mu' = [mu EXCEPT ![localLock[r]] = r]
  /\ stage' = [stage EXCEPT ![r] = "inside"]
  /\ UNCHANGED <<fileID, localLock, uploadLocks, refs>>

(* lock.mu.Lock() *)
Acquire(r) ==
  /\ stage[r] = "blocked"
  /\ mu[localLock[r]] = Null
  /\ mu' = [mu EXCEPT ![localLock[r]] = r]
  /\ stage' = [stage EXCEPT ![r] = "inside"]
  /\ UNCHANGED <<fileID, localLock, uploadLocks, refs>>

(* unlock returns without unlocking while others are queued. *)
Release_Forgotten(r) ==
  /\ stage[r] = "inside"
  /\ stage' = [stage EXCEPT ![r] = "leaving"]
  /\ UNCHANGED <<fileID, localLock, uploadLocks, refs, mu>>

(* the first statement of unlock: lock.mu.Unlock() *)
Release(r) ==
  /\ stage[r] = "inside"
  /\ mu' = [mu EXCEPT ![localLock[r]] = Null]
  /\ stage' = [stage EXCEPT ![r] = "leaving"]
  /\ UNCHANGED <<fileID, localLock, uploadLocks, refs>>

(* The entry is deleted by whoever leaves. *)
LastUser_Anyone(r) == uploadLocks[fileID[r]] = localLock[r]

(* The entry is deleted one user too late. *)
LastUser_OffByOne(r) == refs[localLock[r]] = 0 /\ uploadLocks[fileID[r]] = localLock[r]

(* lock.refs == 0 && s.uploadLocks[fileID] == lock, after the decrement *)
LastUser(r) == refs[localLock[r]] - 1 = 0 /\ uploadLocks[fileID[r]] = localLock[r]

Unref(r) ==
  /\ stage[r] = "leaving"
  /\ refs' = [refs EXCEPT ![localLock[r]] = @ - 1]
  /\ uploadLocks' = IF LastUser(r) THEN [uploadLocks EXCEPT ![fileID[r]] = Null]
                                   ELSE uploadLocks
  /\ localLock' = [localLock EXCEPT ![r] = Null]
  /\ stage' = [stage EXCEPT ![r] = "idle"]
  /\ UNCHANGED <<fileID, mu>>

LockNext == \E r \in Caller :
  \/ \E f \in LockID : Ref(r, f)
  \/ Acquire(r)
  \/ Release(r)
  \/ Unref(r)

(***************************************************************************)
(* A handler holding the mutex runs to its deferred unlock, and            *)
(* sync.Mutex hands over in FIFO order once a waiter has starved for 1 ms: *)
(* strong fairness of Acquire.  Requests need never arrive.                *)
(***************************************************************************)
LockFairness == \A r \in Caller :
  /\ SF_lockVars(Acquire(r))
  /\ WF_lockVars(Release(r))
  /\ WF_lockVars(Unref(r))

LockSpec == LockInit /\ [][LockNext]_lockVars

LockFairSpec == LockSpec /\ LockFairness

-------------------------------------------------------------------------------
LockTypeOK ==
  /\ stage \in [Caller -> {"idle", "blocked", "inside", "leaving"}]
  /\ fileID \in [Caller -> LockID]
  /\ localLock \in [Caller -> LockObj \union {Null}]
  /\ uploadLocks \in [LockID -> LockObj \union {Null}]
  /\ refs \in [LockObj -> Nat]
  /\ mu \in [LockObj -> Caller \union {Null}]

(* Two requests for the same file_id are never inside together, although   *)
(* the mutex object of a file_id is deleted and replaced again and again   *)
(* (lockUpload, upload.go:135-158).                                        *)
MutualExclusion ==
  \A r, q \in Caller :
    stage[r] = "inside" /\ stage[q] = "inside" /\ fileID[r] = fileID[q] => r = q

(* The requests between lock.refs++ and lock.refs-- on object o *)
Users(o) == {r \in Caller : localLock[r] = o}

(* Every request that got a lock object uses the one the map holds for its *)
(* file_id, so a later request for that file_id meets it there             *)
(* (upload.go:140-146 against the delete at 153-155).                      *)
UsersAgree == \A r \in Caller :
  stage[r] # "idle" => localLock[r] # Null /\ uploadLocks[fileID[r]] = localLock[r]

(* The counter of an object in the map is the number of its users, so the  *)
(* map keeps no entry that nobody uses (upload.go:145, 152).               *)
RefsExact == \A f \in LockID : uploadLocks[f] # Null =>
  /\ refs[uploadLocks[f]] = Cardinality(Users(uploadLocks[f]))
  /\ refs[uploadLocks[f]] > 0

(* A request that blocked on a mutex gets it: the delete of a map entry    *)
(* never strands a waiter on an object nobody unlocks (upload.go:148-157). *)
EventuallyInside == \A r \in Caller : stage[r] = "blocked" ~> stage[r] = "inside"

(* The place of a request in the abstract keyed mutex *)
Place(r) ==
  IF stage[r] = "inside" THEN "in" ELSE IF stage[r] = "blocked" THEN "want" ELSE "out"

Mutex == INSTANCE KeyedMutex WITH
  Request <- Caller,
  Key     <- LockID,
  place   <- [r \in Caller |-> Place(r)],
  wanted  <- fileID

(* The reference-counted table behaves as one mutex per file_id, as the    *)
(* handlers of upload.go assume when they call lockUpload.                 *)
ImplementsKeyedMutex == Mutex!Spec

===============================================================================
