--------------------------- MODULE UploadLock_proofs ---------------------------
(***************************************************************************)
(* Theorems of UploadLock, for every set of requests, file_ids and lock    *)
(* objects.  The inductive invariant IInv says of every request which      *)
(* lock object it uses and of every object who counts on it; mutual        *)
(* exclusion and the implementation of KeyedMutex follow from it.          *)
(***************************************************************************)
EXTENDS UploadLock, FiniteSetTheorems, TLAPS

(* A held mutex is held by a request that uses it and is inside, and a     *)
(* request inside holds the mutex of its object.                           *)
Holding ==
  /\ \A r \in Caller : stage[r] = "inside" => mu[localLock[r]] = r
  /\ \A o \in LockObj : mu[o] # Null => stage[mu[o]] = "inside" /\ localLock[mu[o]] = o

(* A request outside lockUpload has no object. *)
IdleUnlocked == \A r \in Caller : stage[r] = "idle" => localLock[r] = Null

(* One object serves one file_id at a time. *)
ObjectsDistinct == \A f, g \in LockID :
  uploadLocks[f] # Null /\ uploadLocks[f] = uploadLocks[g] => f = g

IInv ==
  /\ LockTypeOK
  /\ UsersAgree
  /\ IdleUnlocked
  /\ ObjectsDistinct
  /\ Holding
  /\ RefsExact

-------------------------------------------------------------------------------
(* Only LockID's elements index the map; LockID need not be finite, but    *)
(* the set of users of an object is a finite set of requests.              *)
LEMMA UsersFinite ==
  ASSUME NEW o
  PROVE  /\ IsFiniteSet(Users(o))
         /\ Cardinality(Users(o)) \in Nat
BY UploadLockAssumption, FS_Subset, FS_CardinalityType DEF Users

(* Adding one user to an object adds one to the number of its users.       *)
LEMMA UserAdded ==
  ASSUME LockTypeOK, NEW r \in Caller, NEW o \in LockObj, localLock[r] = Null,
         localLock' = [localLock EXCEPT ![r] = o]
  PROVE  /\ Cardinality(Users(o)') = Cardinality(Users(o)) + 1
         /\ \A p \in LockObj : p # o => Users(p)' = Users(p)
<1>1. Users(o)' = Users(o) \union {r}
  BY DEF Users, LockTypeOK
<1>2. r \notin Users(o)
  BY UploadLockAssumption DEF Users
<1>3. Cardinality(Users(o) \union {r}) = Cardinality(Users(o)) + 1
  BY <1>2, UsersFinite, FS_AddElement
<1>4. ASSUME NEW p \in LockObj, p # o
      PROVE  Users(p)' = Users(p)
  BY <1>4, UploadLockAssumption DEF Users, LockTypeOK
<1>. QED BY <1>1, <1>3, <1>4

(* Removing a user from an object subtracts one.                           *)
LEMMA UserRemoved ==
  ASSUME LockTypeOK, NEW r \in Caller, NEW o \in LockObj, localLock[r] = o,
         localLock' = [localLock EXCEPT ![r] = Null]
  PROVE  /\ Cardinality(Users(o)') = Cardinality(Users(o)) - 1
         /\ \A p \in LockObj : p # o => Users(p)' = Users(p)
<1>1. Users(o)' = Users(o) \ {r}
  BY UploadLockAssumption DEF Users, LockTypeOK
<1>2. r \in Users(o)
  BY DEF Users
<1>3. Cardinality(Users(o) \ {r}) = Cardinality(Users(o)) - 1
  BY <1>2, UsersFinite, FS_RemoveElement
<1>4. ASSUME NEW p \in LockObj, p # o
      PROVE  Users(p)' = Users(p)
  BY <1>4, UploadLockAssumption DEF Users, LockTypeOK
<1>. QED BY <1>1, <1>3, <1>4

(* Every variable keeps its type; that refs stays a natural number needs   *)
(* the count it stands for.                                                *)
LEMMA TypingStep ==
  ASSUME IInv, [LockNext]_lockVars
  PROVE  LockTypeOK'
<1> USE DEF IInv, LockTypeOK
<1>1. ASSUME NEW r \in Caller, NEW f \in LockID, Ref(r, f)
      PROVE  LockTypeOK'
  <2>1. PICK o \in LockObj :
          /\ localLock' = [localLock EXCEPT ![r] = o]
          /\ uploadLocks' = [uploadLocks EXCEPT ![f] = o]
          /\ refs' = [refs EXCEPT ![o] = RefsBefore(f, o) + 1]
    BY <1>1 DEF Ref
  <2>2. RefsBefore(f, o) + 1 \in Nat
    BY DEF RefsBefore
  <2>. QED BY <1>1, <2>1, <2>2 DEF Ref
<1>2. ASSUME NEW r \in Caller, Acquire(r) \/ Release(r)
      PROVE  LockTypeOK'
  BY <1>2 DEF Acquire, Release
<1>3. ASSUME NEW r \in Caller, Unref(r)
      PROVE  LockTypeOK'
  <2>1. localLock[r] \in LockObj /\ refs[localLock[r]] - 1 \in Nat
    BY <1>3 DEF Unref, UsersAgree, RefsExact
  <2>2. refs' \in [LockObj -> Nat]
    BY <1>3, <2>1 DEF Unref
  <2>3. uploadLocks' \in [LockID -> LockObj \union {Null}]
    BY <1>3 DEF Unref
  <2>. QED BY <1>3, <2>2, <2>3 DEF Unref
<1>. QED BY <1>1, <1>2, <1>3 DEF LockNext, lockVars

-------------------------------------------------------------------------------
(* lock.refs++ and the store into the map, or the count on the object      *)
(* found there, keep the inductive invariant.                              *)
LEMMA RefStep ==
  ASSUME IInv, LockTypeOK', NEW r \in Caller, NEW f \in LockID, Ref(r, f)
  PROVE  IInv'
<1> USE UploadLockAssumption DEF IInv, LockTypeOK
<1>1. PICK o \in LockObj :
        /\ Found(f, o)
        /\ localLock' = [localLock EXCEPT ![r] = o]
        /\ uploadLocks' = [uploadLocks EXCEPT ![f] = o]
        /\ refs' = [refs EXCEPT ![o] = RefsBefore(f, o) + 1]
  BY DEF Ref
<1>2. /\ stage[r] = "idle" /\ localLock[r] = Null
      /\ stage' = [stage EXCEPT ![r] = "blocked"]
      /\ fileID' = [fileID EXCEPT ![r] = f]
      /\ mu' = mu
  BY DEF Ref, IdleUnlocked
<1>3. \A g \in LockID : g # f => uploadLocks[g] # o
  BY <1>1 DEF Found, Live, ObjectsDistinct
<1>4. UsersAgree'
  <2>1. ASSUME NEW q \in Caller, q # r, stage[q] # "idle"
        PROVE  localLock'[q] # Null /\ uploadLocks'[fileID'[q]] = localLock'[q]
    <3>1. localLock[q] # Null /\ uploadLocks[fileID[q]] = localLock[q]
      BY <2>1 DEF UsersAgree
    <3>. QED BY <2>1, <3>1, <1>1, <1>2 DEF Found
  <2>2. localLock'[r] # Null /\ uploadLocks'[fileID'[r]] = localLock'[r]
    BY <1>1, <1>2
  <2>. QED BY <2>1, <2>2, <1>2 DEF UsersAgree
<1>5. IdleUnlocked'
  BY <1>1, <1>2 DEF IdleUnlocked
<1>6. ObjectsDistinct'
  BY <1>1, <1>3 DEF ObjectsDistinct
<1>7. Holding'
  BY <1>1, <1>2 DEF Holding
<1>8. RefsExact'
  <2>1. /\ Cardinality(Users(o)') = Cardinality(Users(o)) + 1
        /\ \A p \in LockObj : p # o => Users(p)' = Users(p)
    BY <1>1, <1>2, UserAdded
  <2>2. Cardinality(Users(o)) = RefsBefore(f, o) /\ RefsBefore(f, o) \in Nat
    <3>1. CASE uploadLocks[f] = Null
      <4>1. Users(o) = {}
        BY <3>1, <1>1 DEF Users, Found, Live
      <4>. QED BY <4>1, <3>1, FS_EmptySet DEF RefsBefore
    <3>2. CASE uploadLocks[f] # Null
      BY <3>2, <1>1, UsersFinite DEF RefsExact, RefsBefore, Found
    <3>. QED BY <3>1, <3>2
  <2>3. ASSUME NEW g \in LockID, g # f, uploadLocks'[g] # Null
        PROVE  /\ refs'[uploadLocks'[g]] = Cardinality(Users(uploadLocks[g])')
               /\ refs'[uploadLocks'[g]] > 0
    <3>1. uploadLocks'[g] = uploadLocks[g] /\ uploadLocks[g] \in LockObj /\ uploadLocks[g] # o
      BY <2>3, <1>1, <1>3
    <3>2. Users(uploadLocks[g])' = Users(uploadLocks[g])
      BY <3>1, <2>1
    <3>3. Users(uploadLocks[g])' = Users(uploadLocks[g])
      BY <3>1, <3>2 DEF Users
    <3>. QED BY <3>1, <3>3, <1>1 DEF RefsExact
  <2>4. /\ uploadLocks'[f] = o
        /\ refs'[o] = Cardinality(Users(o)')
        /\ refs'[o] > 0
    BY <1>1, <2>1, <2>2
  <2>5. Users(uploadLocks[f])' = Users(o)'
    BY <2>4 DEF Users
  <2>. QED BY <2>3, <2>4, <2>5 DEF RefsExact
<1>. QED BY <1>4, <1>5, <1>6, <1>7, <1>8

(* Taking or giving back lock.mu touches neither the map nor the counts.   *)
LEMMA MutexStep ==
  ASSUME IInv, LockTypeOK', NEW r \in Caller, Acquire(r) \/ Release(r)
  PROVE  IInv'
<1> USE UploadLockAssumption DEF IInv, LockTypeOK
<1>1. UNCHANGED <<fileID, localLock, uploadLocks, refs>>
  BY DEF Acquire, Release
<1>2. UsersAgree' /\ IdleUnlocked' /\ ObjectsDistinct'
  BY <1>1 DEF UsersAgree, IdleUnlocked, ObjectsDistinct, Acquire, Release
<1>3. RefsExact'
  BY <1>1 DEF RefsExact, Users
<1>4. localLock[r] \in LockObj
  BY DEF UsersAgree, Acquire, Release
<1>5. Holding'
  <2>1. CASE Acquire(r)
    BY <2>1, <1>1, <1>4 DEF Holding, Acquire
  <2>2. CASE Release(r)
    <3>1. mu[localLock[r]] = r
      BY <2>2 DEF Holding, Release
    <3>2. \A q \in Caller : q # r /\ stage[q] = "inside" => localLock[q] # localLock[r]
      BY <3>1 DEF Holding
    <3>3. ASSUME NEW q \in Caller, stage'[q] = "inside"
          PROVE  mu'[localLock'[q]] = q
      BY <2>2, <3>2, <3>3, <1>1, <1>4 DEF Holding, Release
    <3>4. ASSUME NEW p \in LockObj, mu'[p] # Null
          PROVE  stage'[mu'[p]] = "inside" /\ localLock'[mu'[p]] = p
      <4>1. p # localLock[r] /\ mu'[p] = mu[p]
        BY <2>2, <3>4, <1>4 DEF Release
      <4>2. stage[mu[p]] = "inside" /\ localLock[mu[p]] = p /\ mu[p] # r
        BY <4>1, <3>4 DEF Holding
      <4>. QED BY <4>1, <4>2, <2>2, <1>1, <3>4 DEF Release
    <3>. QED BY <3>3, <3>4 DEF Holding
  <2>. QED BY <2>1, <2>2
<1>. QED BY <1>2, <1>3, <1>5

(* The last user deletes the entry, and only the last: another user of the *)
(* file_id would be counted in refs.                                       *)
LEMMA UnrefStep ==
  ASSUME IInv, LockTypeOK', NEW r \in Caller, Unref(r)
  PROVE  IInv'
<1> USE UploadLockAssumption DEF IInv, LockTypeOK
<1>0. PICK o \in LockObj, f \in LockID : o = localLock[r] /\ f = fileID[r]
  BY DEF Unref, UsersAgree
<1>1. /\ stage[r] = "leaving" /\ localLock[r] = o /\ fileID[r] = f /\ o \in LockObj /\ f \in LockID /\ uploadLocks[f] = o
      /\ refs' = [refs EXCEPT ![o] = refs[o] - 1]
      /\ localLock' = [localLock EXCEPT ![r] = Null]
      /\ stage' = [stage EXCEPT ![r] = "idle"]
      /\ fileID' = fileID /\ mu' = mu
  BY <1>0 DEF Unref, UsersAgree
<1>2. uploadLocks' = IF refs[o] - 1 = 0 THEN [uploadLocks EXCEPT ![f] = Null] ELSE uploadLocks
  BY <1>1 DEF Unref, LastUser
<1>3. /\ Cardinality(Users(o)') = Cardinality(Users(o)) - 1
      /\ \A p \in LockObj : p # o => Users(p)' = Users(p)
  BY <1>1, UserRemoved
<1>4. refs[o] = Cardinality(Users(o)) /\ Cardinality(Users(o)) > 0
  BY <1>1 DEF RefsExact
<1>5. ASSUME refs[o] - 1 = 0, NEW q \in Caller, q # r
      PROVE  localLock[q] # o
  <2>1. Users(o) \ {r} = {}
    <3>1. r \in Users(o)
      BY <1>1 DEF Users
    <3>2. Cardinality(Users(o) \ {r}) = 0
      <4>1. Cardinality(Users(o) \ {r}) = Cardinality(Users(o)) - 1
        BY <3>1, UsersFinite, FS_RemoveElement
      <4>2. refs[o] \in Nat /\ refs[o] - 1 = 0
        BY <1>5
      <4>. QED BY <4>1, <4>2, <1>4
    <3>3. IsFiniteSet(Users(o) \ {r})
      BY UsersFinite, FS_Subset
    <3>. QED BY <3>2, <3>3, FS_EmptySet
  <2>. QED BY <2>1, <1>5 DEF Users
<1>6. UsersAgree'
  <2>1. ASSUME NEW q \in Caller, q # r, stage[q] # "idle"
        PROVE  localLock'[q] # Null /\ uploadLocks'[fileID'[q]] = localLock'[q]
    <3>1. localLock[q] # Null /\ uploadLocks[fileID[q]] = localLock[q]
      BY <2>1 DEF UsersAgree
    <3>2. localLock'[q] = localLock[q] /\ fileID'[q] = fileID[q]
      BY <1>1, <2>1
    <3>3. uploadLocks'[fileID[q]] = uploadLocks[fileID[q]]
      <4>1. CASE refs[o] - 1 = 0
        BY <4>1, <1>1, <1>2, <1>5, <2>1, <3>1
      <4>2. CASE refs[o] - 1 # 0
        BY <4>2, <1>2
      <4>. QED BY <4>1, <4>2
    <3>. QED BY <3>1, <3>2, <3>3
  <2>. QED BY <2>1, <1>1 DEF UsersAgree
<1>7. IdleUnlocked'
  BY <1>1 DEF IdleUnlocked
<1>8. ObjectsDistinct'
  BY <1>1, <1>2 DEF ObjectsDistinct
<1>9. Holding'
  BY <1>1 DEF Holding
<1>10. RefsExact'
  <2> SUFFICES ASSUME NEW g \in LockID, uploadLocks'[g] # Null
               PROVE  /\ refs'[uploadLocks'[g]] = Cardinality(Users(uploadLocks[g])')
                      /\ refs'[uploadLocks'[g]] > 0
    BY DEF RefsExact
  <2>1. uploadLocks'[g] = uploadLocks[g] /\ uploadLocks[g] \in LockObj
    BY <1>2
  <2>2. CASE uploadLocks[g] = o
    <3>1. refs[o] - 1 # 0
      BY <2>2, <1>1, <1>2 DEF ObjectsDistinct
    <3>2. Users(uploadLocks[g])' = Users(o)'
      BY <2>1, <2>2, <1>1 DEF Users
    <3>. QED BY <3>1, <3>2, <2>1, <2>2, <1>1, <1>3, <1>4, UsersFinite
  <2>3. CASE uploadLocks[g] # o
    <3>1. Users(uploadLocks[g])' = Users(uploadLocks[g])
      BY <2>1, <2>3, <1>3 DEF Users
    <3>. QED BY <3>1, <2>1, <2>3, <1>1 DEF RefsExact
  <2>. QED BY <2>2, <2>3
<1>. QED BY <1>6, <1>7, <1>8, <1>9, <1>10

(* The inductive invariant holds along every behaviour.                    *)
THEOREM Invariance == LockSpec => []IInv
<1>1. LockInit => IInv
  BY UploadLockAssumption DEF LockInit, IInv, LockTypeOK, UsersAgree, IdleUnlocked,
     ObjectsDistinct, Holding, RefsExact
<1>2. IInv /\ [LockNext]_lockVars => IInv'
  <2> SUFFICES ASSUME IInv, [LockNext]_lockVars, LockTypeOK'
               PROVE  IInv'
    BY TypingStep
  <2>1. CASE LockNext
    BY <2>1, RefStep, MutexStep, UnrefStep DEF LockNext
  <2>2. CASE UNCHANGED lockVars
    <3>1. LockTypeOK' /\ UsersAgree' /\ IdleUnlocked' /\ ObjectsDistinct' /\ Holding'
      BY <2>2 DEF lockVars, IInv, UsersAgree, IdleUnlocked, ObjectsDistinct, Holding
    <3>2. RefsExact'
      BY <2>2 DEF lockVars, IInv, RefsExact, Users
    <3>. QED BY <3>1, <3>2 DEF IInv
  <2>. QED BY <2>1, <2>2
<1>. QED BY <1>1, <1>2, PTL DEF LockSpec

(* Every variable keeps its type along lockUpload and unlock; a reference  *)
(* count never goes below zero.                                            *)
THEOREM Typing == LockSpec => []LockTypeOK
BY Invariance, PTL DEF IInv

(* Every request with a lock object uses the one the map holds for its     *)
(* file_id (upload.go:140-146, 153).                                       *)
THEOREM Agreement == LockSpec => []UsersAgree
BY Invariance, PTL DEF IInv

(* lock.refs counts exactly the requests that use the object, and the map  *)
(* keeps an entry only while somebody does (upload.go:145, 152-155).       *)
THEOREM Counting == LockSpec => []RefsExact
BY Invariance, PTL DEF IInv

(* At most one request per file_id is between lock.mu.Lock() and           *)
(* lock.mu.Unlock(), whatever the number of requests and file_ids.         *)
THEOREM Exclusion == LockSpec => []MutualExclusion
<1>1. IInv => MutualExclusion
  BY DEF IInv, Holding, UsersAgree, MutualExclusion
<1>. QED BY <1>1, Invariance, PTL

-------------------------------------------------------------------------------
(* lockUpload implements one mutex per file_id: Ref asks, lock.mu.Lock()   *)
(* enters, lock.mu.Unlock() leaves, and the bookkeeping under uploadMu is  *)
(* a stuttering step of the abstract mutex.                                *)
THEOREM Refinement == LockSpec => ImplementsKeyedMutex
<1> USE DEF Place, IInv, LockTypeOK
<1>1. LockInit => Mutex!Init
  BY DEF LockInit, Mutex!Init
<1>2. IInv /\ IInv' /\ [LockNext]_lockVars => [Mutex!Next]_(Mutex!vars)
  <2> SUFFICES ASSUME IInv, IInv', [LockNext]_lockVars
               PROVE  [Mutex!Next]_(Mutex!vars)
    OBVIOUS
  <2> USE DEF Mutex!Next, Mutex!vars
  <2>1. ASSUME NEW r \in Caller, NEW f \in LockID, Ref(r, f)
        PROVE  Mutex!Ask(r, f)
    BY <2>1 DEF Ref, Mutex!Ask
  <2>2. ASSUME NEW r \in Caller, Acquire(r)
        PROVE  Mutex!Enter(r)
    <3>1. \A q \in Caller : Place(q) = "in" => fileID[q] # fileID[r]
      <4> SUFFICES ASSUME NEW q \in Caller, stage[q] = "inside", fileID[q] = fileID[r]
                   PROVE  FALSE
        OBVIOUS
      <4>1. localLock[q] = localLock[r] /\ mu[localLock[q]] = q
        BY <2>2 DEF Acquire, UsersAgree, Holding
      <4>. QED BY <4>1, <2>2, UploadLockAssumption DEF Acquire
    <3>. QED BY <2>2, <3>1 DEF Acquire, Mutex!Enter
  <2>3. ASSUME NEW r \in Caller, Release(r)
        PROVE  Mutex!Leave(r)
    BY <2>3 DEF Release, Mutex!Leave
  <2>4. ASSUME NEW r \in Caller, Unref(r)
        PROVE  UNCHANGED Mutex!vars
    BY <2>4 DEF Unref
  <2>5. CASE UNCHANGED lockVars
    BY <2>5 DEF lockVars
  <2>. QED BY <2>1, <2>2, <2>3, <2>4, <2>5 DEF LockNext
<1>. QED BY <1>1, <1>2, Invariance, PTL DEF LockSpec, ImplementsKeyedMutex, Mutex!Spec

===============================================================================
