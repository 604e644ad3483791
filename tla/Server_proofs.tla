----------------------------- MODULE Server_proofs -----------------------------
(***************************************************************************)
(* Theorems of four independent parts of the server, which share no state  *)
(* (see MCServer and MCBackground): the PIN attempts with the sessions,    *)
(* the file index with its pages, the storage reservations, and the        *)
(* announcement of the server in the network.  What a loop or a            *)
(* sum computes is proved by induction over naturals: of the cases where   *)
(* it would be wrong, the least one (lemma Least) is preceded by one where *)
(* it is right.                                                            *)
(***************************************************************************)
EXTENDS Auth, FileIndex, Storage, Advertiser, FiniteSetTheorems, SequenceTheorems, WellFoundedInduction, TLAPS

-------------------------------------------------------------------------------
(* Auth, for any number of addresses and tokens, any limit of failures and *)
(* any durations: the spacing of wrong PINs and the life of a session.     *)

(* Attempts w of an address are in the order of time, up to the time t.    *)
Ordered(w, t) ==
  /\ \A i \in 1..Len(w) : w[i] <= t
  /\ \A i \in 1..Len(w) : \A j \in i..Len(w) : w[i] <= w[j]

(* f is what the table holds after the attempts w: its count is below the  *)
(* limit.  The attempt before the count, if there is one, caused the last  *)
(* lockout, and the next attempt waited for its end.                       *)
Counted(w, f) ==
  LET base == Len(w) - f.count
  IN  /\ f.count < MaxFailures /\ f.count <= Len(w)
      /\ base > 0 /\ f.count = 0 => f.lockedUntil = w[base] + LockDuration
      /\ base > 0 /\ f.count > 0 => w[base + 1] >= w[base] + LockDuration

Spaced(w) ==
  \A i \in 1..Len(w) - MaxFailures : w[i + MaxFailures] - w[i] >= LockDuration

Guess(w, f, t) == Ordered(w, t) /\ Counted(w, f) /\ Spaced(w)

GuessInv == \A a \in Address : Guess(wrong[a], authFails[a], now)

(* A session in the table has its full time; one that is gone is over.     *)
Kept_Or_Over(t) ==
  \/ minted[t] = 0 /\ sessions[t] = 0
  \/ minted[t] > 0 /\ sessions[t] = minted[t] + SessionTTL
  \/ minted[t] > 0 /\ sessions[t] = 0 /\ now > minted[t] + SessionTTL

SessionInv == \A t \in Token : Kept_Or_Over(t)

AuthInv == AuthTypeOK /\ GuessInv /\ SessionInv

-------------------------------------------------------------------------------
(* Types *)

LEMMA AuthInitTypes == AuthInit => AuthTypeOK
  BY AuthAssumption DEF AuthInit, AuthTypeOK, NoFails

LEMMA FailedType ==
  ASSUME AuthTypeOK, NEW a \in Address
  PROVE  Failed(authFails[a]) \in [count : Nat, lockedUntil : Nat]
  BY AuthAssumption DEF AuthTypeOK, Failed

LEMMA AuthStepTypes == AuthTypeOK /\ [AuthNext]_authVars => AuthTypeOK'
<1> SUFFICES ASSUME AuthTypeOK, [AuthNext]_authVars PROVE AuthTypeOK'
  OBVIOUS
<1> USE DEF AuthTypeOK
<1>1. CASE Tick
  BY <1>1, AuthAssumption DEF Tick
<1>2. CASE RestartServer
  BY <1>2 DEF RestartServer, NoFails
<1>3. ASSUME NEW a \in Address, WrongPIN(a) PROVE AuthTypeOK'
  <2>1. authFails' \in [Address -> [count : Nat, lockedUntil : Nat]]
    BY <1>3, FailedType DEF WrongPIN
  <2>2. wrong' \in [Address -> Seq(Nat)]
    <3>1. Append(wrong[a], now) \in Seq(Nat)
      OBVIOUS
    <3> QED  BY <1>3, <3>1 DEF WrongPIN
  <2> QED  BY <1>3, <2>1, <2>2 DEF WrongPIN
<1>4. ASSUME NEW a \in Address, NEW T \in SUBSET Token, RightPIN(a, T) PROVE AuthTypeOK'
  BY <1>4 DEF RightPIN, NoFails
<1>5. ASSUME NEW t \in Token, CreateSession(t) PROVE AuthTypeOK'
  BY <1>5, AuthAssumption DEF CreateSession, Kept
<1>6. ASSUME NEW t \in Token, CreateSessionFails(t) PROVE AuthTypeOK'
  BY <1>6 DEF CreateSessionFails
<1>7. CASE UNCHANGED authVars
  BY <1>7 DEF authVars
<1> QED
  BY <1>1, <1>2, <1>3, <1>4, <1>5, <1>6, <1>7 DEF AuthNext

-------------------------------------------------------------------------------
(* Guesses *)

(* A later now keeps what is counted.                                      *)
LEMMA Later ==
  ASSUME NEW w \in Seq(Nat), NEW f, NEW t \in Nat, NEW u \in Nat, u >= t, Guess(w, f, t)
  PROVE  Guess(w, f, u)
<1>1. \A i \in 1..Len(w) : w[i] \in Nat /\ w[i] <= t
  BY DEF Guess, Ordered
<1>2. \A i \in 1..Len(w) : w[i] <= u
  BY <1>1
<1> QED  BY <1>2 DEF Guess, Ordered

LEMMA NoAttempts == \A t : Guess(<<>>, NoFails, t)
  BY AuthAssumption DEF NoFails, Guess, Ordered, Counted, Spaced

(* The attempt that follows a lockout, the one that causes the next, and   *)
(* those between.                                                          *)
LEMMA OneMore ==
  ASSUME NEW w \in Seq(Nat), NEW f \in [count : Nat, lockedUntil : Nat],
         Guess(w, f, now), now \in Nat, now >= f.lockedUntil
  PROVE  Guess(Append(w, now), Failed(f), now)
<1> DEFINE L == Len(w)
           v == Append(w, now)
           base == L - f.count
<1>1. MaxFailures \in Nat \ {0} /\ LockDuration \in Nat /\ L \in Nat /\ f.count \in Nat
  BY AuthAssumption
<1>2. /\ v \in Seq(Nat) /\ Len(v) = L + 1 /\ v[L + 1] = now
      /\ \A i \in 1..L : v[i] = w[i] /\ w[i] \in Nat /\ w[i] <= now
  BY DEF Guess, Ordered
<1>3. base \in 0..L /\ f.count < MaxFailures
  BY <1>1 DEF Guess, Counted
<1>4. base > 0 => now >= w[base] + LockDuration
  <2> SUFFICES ASSUME base > 0 PROVE now >= w[base] + LockDuration
    OBVIOUS
  <2>1. CASE f.count = 0
    BY <2>1 DEF Guess, Counted
  <2>2. CASE f.count > 0
    <3>1. base + 1 \in 1..L /\ base \in 1..L
      BY <2>2, <1>1, <1>3
    <3>2. w[base + 1] >= w[base] + LockDuration
      BY <2>2 DEF Guess, Counted
    <3> HIDE DEF base
    <3>3. w[base] \in Nat /\ w[base + 1] \in Nat /\ w[base + 1] <= now
      BY <3>1, <1>2
    <3> QED  BY <3>2, <3>3, <1>1
  <2> QED  BY <2>1, <2>2, <1>1
<1> HIDE DEF v
<1>5. Ordered(v, now)
  <2>1. ASSUME NEW i \in 1..L + 1 PROVE v[i] <= now
    <3>1. CASE i = L + 1
      BY <3>1, <1>2
    <3>2. CASE i # L + 1
      <4>1. i \in 1..L
        BY <3>2, <1>1
      <4> QED  BY <4>1, <1>2
    <3> QED  BY <3>1, <3>2
  <2>2. ASSUME NEW i \in 1..L + 1, NEW j \in i..L + 1 PROVE v[i] <= v[j]
    <3>1. CASE j = L + 1
      BY <3>1, <2>1, <1>2
    <3>2. CASE j # L + 1
      <4>1. i \in 1..L /\ j \in 1..L /\ j \in i..L
        BY <3>2, <1>1
      <4>2. w[i] <= w[j]
        BY <4>1 DEF Guess, Ordered
      <4> QED  BY <4>1, <4>2, <1>2
    <3> QED  BY <3>1, <3>2
  <2> QED  BY <2>1, <2>2, <1>2 DEF Ordered
<1>6. Spaced(v)
  <2> SUFFICES ASSUME NEW i \in 1..(L + 1) - MaxFailures
               PROVE  v[i + MaxFailures] - v[i] >= LockDuration
    BY <1>2 DEF Spaced
  <2>1. i \in 1..L /\ i + MaxFailures \in 1..L + 1
    BY <1>1
  <2>2. CASE i + MaxFailures \in 1..L
    <3>1. i \in 1..L - MaxFailures
      BY <2>2, <1>1
    <3>2. w[i + MaxFailures] - w[i] >= LockDuration
      BY <3>1 DEF Guess, Spaced
    <3> QED  BY <2>1, <2>2, <3>2, <1>2
  <2>3. CASE i + MaxFailures = L + 1
    <3>1. base > 0 /\ base \in 1..L /\ base \in i..L
      BY <2>3, <2>1, <1>1, <1>3
    <3>2. w[i] <= w[base]
      BY <3>1, <2>1 DEF Guess, Ordered
    <3>3. w[base] \in Nat /\ now >= w[base] + LockDuration
      BY <3>1, <1>2, <1>4
    <3>4. v[i + MaxFailures] = now /\ v[i] = w[i] /\ w[i] \in Nat
      BY <2>1, <2>3, <1>2
    <3>5. ASSUME NEW x \in Nat, NEW y \in Nat, x <= y, now >= y + LockDuration
          PROVE  now - x >= LockDuration
      BY <3>5, <1>1
    <3>6. now - w[i] >= LockDuration
      BY <3>2, <3>3, <3>4, <3>5
    <3> QED  BY <3>4, <3>6
  <2>4. i + MaxFailures \in 1..L \/ i + MaxFailures = L + 1
    BY <2>1, <1>1
  <2> QED  BY <2>2, <2>3, <2>4
<1>7. Counted(v, Failed(f))
  <2>1. CASE f.count + 1 >= MaxFailures
    <3>1. Failed(f) = [count |-> 0, lockedUntil |-> now + LockDuration]
      BY <2>1 DEF Failed
    <3> QED  BY <3>1, <1>1, <1>2 DEF Counted
  <2>2. CASE ~ (f.count + 1 >= MaxFailures)
    <3>1. Failed(f) = [count |-> f.count + 1, lockedUntil |-> 0]
      BY <2>2 DEF Failed
    <3>2. Len(v) - (f.count + 1) = base
      BY <1>1, <1>2
    <3>3. base > 0 => v[base + 1] >= v[base] + LockDuration
      <4> SUFFICES ASSUME base > 0 PROVE v[base + 1] >= v[base] + LockDuration
        OBVIOUS
      <4>1. base \in 1..L /\ v[base] = w[base]
        BY <1>1, <1>2, <1>3
      <4>2. CASE f.count = 0
        <5>1. base + 1 = L + 1
          BY <4>2, <1>1
        <5> QED  BY <4>1, <5>1, <1>2, <1>4
      <4>3. CASE f.count > 0
        <5>0. base + 1 \in 1..L
          BY <4>3, <1>1, <1>3
        <5>1. base + 1 \in 1..L /\ w[base + 1] >= w[base] + LockDuration
          BY <4>3, <5>0 DEF Guess, Counted
        <5>2. v[base + 1] = w[base + 1]
          BY <5>1, <1>2
        <5> QED  BY <4>1, <5>1, <5>2
      <4> QED  BY <4>2, <4>3, <1>1
    <3>4. f.count + 1 < MaxFailures /\ f.count + 1 <= L + 1
      BY <2>2, <1>1, <1>3
    <3> HIDE DEF base
    <3> QED  BY <3>1, <3>2, <3>3, <3>4, <1>2 DEF Counted
  <2> QED  BY <2>1, <2>2
<1> QED  BY <1>5, <1>6, <1>7 DEF Guess, v

LEMMA GuessStep == AuthTypeOK /\ GuessInv /\ [AuthNext]_authVars => GuessInv'
<1> SUFFICES ASSUME AuthTypeOK, GuessInv, [AuthNext]_authVars, NEW b \in Address
             PROVE  Guess(wrong'[b], authFails'[b], now')
  BY DEF GuessInv
<1>0. /\ wrong[b] \in Seq(Nat) /\ authFails[b] \in [count : Nat, lockedUntil : Nat]
      /\ now \in Nat /\ Guess(wrong[b], authFails[b], now)
  BY DEF GuessInv, AuthTypeOK
<1>1. CASE Tick
  <2>1. now' \in Nat /\ now' >= now /\ authFails' = authFails /\ wrong' = wrong
    BY <1>1, <1>0, AuthAssumption DEF Tick
  <2> QED  BY <1>0, <2>1, Later
<1>2. CASE RestartServer
  BY <1>2, NoAttempts DEF RestartServer
<1>3. ASSUME NEW a \in Address, WrongPIN(a) PROVE Guess(wrong'[b], authFails'[b], now')
  <2>1. CASE a = b
    <3>1. /\ wrong'[b] = Append(wrong[b], now) /\ authFails'[b] = Failed(authFails[b])
          /\ now' = now /\ now >= authFails[b].lockedUntil
      BY <1>3, <1>0, <2>1 DEF WrongPIN, Locked, AuthTypeOK
    <3> QED  BY <1>0, <3>1, OneMore
  <2>2. CASE a # b
    BY <1>3, <1>0, <2>2 DEF WrongPIN, AuthTypeOK
  <2> QED  BY <2>1, <2>2
<1>4. ASSUME NEW a \in Address, NEW T \in SUBSET Token, RightPIN(a, T)
      PROVE  Guess(wrong'[b], authFails'[b], now')
  <2>1. CASE a = b
    <3>1. authFails'[b] = NoFails /\ wrong'[b] = <<>>
      BY <1>4, <2>1 DEF RightPIN, AuthTypeOK
    <3> QED  BY <3>1, NoAttempts
  <2>2. CASE a # b
    BY <1>4, <1>0, <2>2 DEF RightPIN, AuthTypeOK
  <2> QED  BY <2>1, <2>2
<1>5. ASSUME UNCHANGED <<now, authFails, wrong>> PROVE Guess(wrong'[b], authFails'[b], now')
  BY <1>0, <1>5
<1> QED
  BY <1>1, <1>2, <1>3, <1>4, <1>5
  DEF AuthNext, authVars, CreateSession, CreateSessionFails

-------------------------------------------------------------------------------
(* Sessions *)

LEMMA SessionStep == AuthTypeOK /\ SessionInv /\ [AuthNext]_authVars => SessionInv'
<1> SUFFICES ASSUME AuthTypeOK, SessionInv, [AuthNext]_authVars, NEW u \in Token
             PROVE  Kept_Or_Over(u)'
  BY DEF SessionInv
<1>0. /\ Kept_Or_Over(u) /\ now \in Nat \ {0} /\ minted[u] \in Nat /\ sessions[u] \in Nat
      /\ SessionTTL \in Nat \ {0}
  BY AuthAssumption DEF SessionInv, AuthTypeOK
<1>1. CASE Tick
  BY <1>1, <1>0, AuthAssumption DEF Tick, Kept_Or_Over
<1>2. CASE RestartServer
  BY <1>2 DEF RestartServer, Kept_Or_Over
<1>3. ASSUME NEW t \in Token, CreateSession(t) PROVE Kept_Or_Over(u)'
  <2>1. CASE u = t
    <3>1. sessions'[u] = now + SessionTTL /\ minted'[u] = now
      BY <1>3, <2>1 DEF CreateSession, AuthTypeOK
    <3> QED  BY <3>1, <1>0 DEF Kept_Or_Over
  <2>2. CASE u # t
    <3>1. sessions'[u] = Kept(u) /\ minted'[u] = minted[u] /\ now' = now
      BY <1>3, <2>2 DEF CreateSession, AuthTypeOK
    <3> QED  BY <3>1, <1>0 DEF Kept_Or_Over, Kept
  <2> QED  BY <2>1, <2>2
<1>4. ASSUME UNCHANGED <<now, sessions, minted>> PROVE Kept_Or_Over(u)'
  BY <1>0, <1>4 DEF Kept_Or_Over
<1> QED
  BY <1>1, <1>2, <1>3, <1>4
  DEF AuthNext, authVars, WrongPIN, RightPIN, CreateSessionFails

-------------------------------------------------------------------------------
LEMMA AuthInvInit == AuthInit => AuthInv
<1> SUFFICES ASSUME AuthInit PROVE AuthInv
  OBVIOUS
<1>1. AuthTypeOK
  BY AuthInitTypes
<1>2. GuessInv
  BY NoAttempts DEF AuthInit, GuessInv
<1>3. SessionInv
  BY DEF AuthInit, SessionInv, Kept_Or_Over
<1> QED  BY <1>1, <1>2, <1>3 DEF AuthInv

LEMMA AuthInvariance == AuthSpec => []AuthInv
<1>1. AuthInv /\ [AuthNext]_authVars => AuthInv'
  BY AuthStepTypes, GuessStep, SessionStep DEF AuthInv
<1> QED  BY <1>1, AuthInvInit, PTL DEF AuthSpec

(* Every table of the authentication keeps its type.                       *)
THEOREM AuthTyping == AuthSpec => []AuthTypeOK
<1>1. AuthInv => AuthTypeOK
  BY DEF AuthInv
<1> QED  BY <1>1, AuthInvariance, PTL

(* CheckPINAttempt: of any MaxFailures + 1 wrong PINs in a row from one    *)
(* address, the last is compared at least LockDuration after the first.    *)
THEOREM Guesses == AuthSpec => []GuessesSpaced
<1>1. AuthInv => GuessesSpaced
  BY DEF AuthInv, GuessInv, Guess, Spaced, GuessesSpaced
<1> QED  BY <1>1, AuthInvariance, PTL

(* CreateSession, ValidSession: a session is honoured from when it is      *)
(* handed out until its time is over, whatever the sweeps of other logins  *)
(* remove.                                                                 *)
THEOREM Sessions == AuthSpec => []SessionExact
<1>1. AuthInv => SessionExact
  <2> SUFFICES ASSUME AuthInv, NEW t \in Token
               PROVE  ValidSession(t) <=> minted[t] > 0 /\ now < minted[t] + SessionTTL
    BY DEF SessionExact
  <2>1. /\ Kept_Or_Over(t) /\ now \in Nat \ {0} /\ minted[t] \in Nat
        /\ SessionTTL \in Nat \ {0}
    BY AuthAssumption DEF AuthInv, SessionInv, AuthTypeOK
  <2> QED  BY <2>1 DEF Kept_Or_Over, ValidSession
<1> QED  BY <1>1, AuthInvariance, PTL

-------------------------------------------------------------------------------
(* FileIndex, for any number of files, of goroutines that change the       *)
(* directory and of goroutines that list it, and however rarely the        *)
(* directory's modification time moves: no index that is kept contradicts  *)
(* what a client was told.                                                 *)

(* Exactly the lister that is looking at the directory has the mutex.      *)
Held == \A l \in Lister : list[l] # "idle" <=> fileIndexMu = l

(* Nothing that was read of f contradicts the directory.                   *)
Sound(f) ==
  /\ fileIndex # Absent => (f \in ToSet(fileIndex.files) <=> f \in dir)
  /\ \A l \in Lister : list[l] = "read" => (f \in entries[l] <=> f \in dir)

(* Files that were answered for, or could be at once: the handler that     *)
(* changed them last has invalidated the index since.                      *)
Answerable(f) == f \in settled \/ \E r \in Changer : change[r] = "invalidated" /\ f \in claim[r]

Agreeing == \A f \in File : Answerable(f) => Sound(f)

FileIndexInv == FileIndexTypeOK /\ Held /\ Agreeing

-------------------------------------------------------------------------------
LEMMA SortedFiles ==
  ASSUME NEW S \in SUBSET File, NEW files \in Sorted(S)
  PROVE  files \in Seq(File) /\ ToSet(files) = S
<1>1. Cardinality(S) \in Nat
  BY FileIndexAssumption, FS_Subset, FS_CardinalityType
<1>2. files \in [1..Cardinality(S) -> File] /\ ToSet(files) = S
  BY DEF Sorted
<1> QED  BY <1>1, <1>2

LEMMA FileIndexInitInv == FileIndexInit => FileIndexInv
  BY FileIndexAssumption
  DEF FileIndexInit, FileIndexInv, FileIndexTypeOK, Held, Agreeing, Answerable, Sound

(* A change of f, whoever makes it *)
LEMMA AlteredTypes ==
  ASSUME FileIndexTypeOK, NEW f \in File, NEW r, Altered(f, r)
  PROVE  dirTime' \in Nat /\ claim' \in [Changer -> SUBSET File] /\ settled' \subseteq File
  BY DEF FileIndexTypeOK, Altered

LEMMA FileIndexStepTypes ==
  FileIndexTypeOK /\ [FileIndexNext]_fileIndexVars => FileIndexTypeOK'
<1> SUFFICES ASSUME FileIndexTypeOK, [FileIndexNext]_fileIndexVars PROVE FileIndexTypeOK'
  OBVIOUS
<1> USE DEF FileIndexTypeOK, changing, listing, owed
<1>1. ASSUME NEW f \in File, Outside(f) PROVE FileIndexTypeOK'
  BY <1>1, AlteredTypes DEF Outside
<1>2. ASSUME NEW r \in Changer, NEW f \in File, Publish(r, f) PROVE FileIndexTypeOK'
  BY <1>2, AlteredTypes DEF Publish
<1>3. ASSUME NEW r \in Changer, NEW f \in File, Remove1(r, f) PROVE FileIndexTypeOK'
  <2>1. CASE f \in dir
    BY <1>3, <2>1, AlteredTypes DEF Remove1
  <2>2. CASE f \notin dir
    BY <1>3, <2>2 DEF Remove1
  <2> QED  BY <2>1, <2>2
<1>4. ASSUME NEW r \in Changer, NEW names \in SUBSET File, BeginDelete(r, names)
      PROVE  FileIndexTypeOK'
  BY <1>4 DEF BeginDelete
<1>5. ASSUME NEW r \in Changer, EndDelete(r) PROVE FileIndexTypeOK'
  BY <1>5 DEF EndDelete
<1>6. ASSUME NEW r \in Changer, Invalidate(r) PROVE FileIndexTypeOK'
  BY <1>6 DEF Invalidate
<1>7. ASSUME NEW r \in Changer, Answer(r) PROVE FileIndexTypeOK'
  BY <1>7 DEF Answer
<1>8. ASSUME NEW l \in Lister, StatDir(l) PROVE FileIndexTypeOK'
  BY <1>8 DEF StatDir
<1>9. ASSUME NEW l \in Lister, ReadDir(l) PROVE FileIndexTypeOK'
  BY <1>9 DEF ReadDir
<1>10. ASSUME NEW l \in Lister, StoreIndex(l) PROVE FileIndexTypeOK'
  <2>1. PICK files \in Sorted(entries[l] \intersect dir) :
          fileIndex' = [time |-> statTime[l], files |-> files]
    BY <1>10 DEF StoreIndex
  <2>2. files \in Seq(File)
    BY SortedFiles
  <2>3. fileIndex' \in [time : Nat, files : Seq(File)]
    BY <2>1, <2>2
  <2> QED  BY <1>10, <2>3 DEF StoreIndex
<1>11. ASSUME NEW l \in Lister, ListFails(l) PROVE FileIndexTypeOK'
  BY <1>11 DEF ListFails
<1>12. CASE UNCHANGED fileIndexVars
  BY <1>12 DEF fileIndexVars
<1> QED
  BY <1>1, <1>2, <1>3, <1>4, <1>5, <1>6, <1>7, <1>8, <1>9, <1>10, <1>11, <1>12
  DEF FileIndexNext

LEMMA HeldStep ==
  FileIndexTypeOK /\ Held /\ [FileIndexNext]_fileIndexVars => Held'
<1> SUFFICES ASSUME FileIndexTypeOK, Held, [FileIndexNext]_fileIndexVars, NEW k \in Lister
             PROVE  list'[k] # "idle" <=> fileIndexMu' = k
  BY DEF Held
<1> USE DEF Held, FileIndexTypeOK
<1>0. list[k] # "idle" <=> fileIndexMu = k
  OBVIOUS
<1>1. ASSUME NEW l \in Lister, StatDir(l) PROVE list'[k] # "idle" <=> fileIndexMu' = k
  BY <1>0, <1>1, FileIndexAssumption DEF StatDir
<1>2. ASSUME NEW l \in Lister, ReadDir(l) PROVE list'[k] # "idle" <=> fileIndexMu' = k
  BY <1>0, <1>2 DEF ReadDir
<1>3. ASSUME NEW l \in Lister, StoreIndex(l) \/ ListFails(l)
      PROVE  list'[k] # "idle" <=> fileIndexMu' = k
  <2>1. fileIndexMu = l /\ fileIndexMu' = Absent /\ list' = [list EXCEPT ![l] = "idle"]
    BY <1>3 DEF StoreIndex, ListFails
  <2> QED  BY <1>0, <2>1, FileIndexAssumption
<1>4. ASSUME UNCHANGED <<list, fileIndexMu>> PROVE list'[k] # "idle" <=> fileIndexMu' = k
  BY <1>0, <1>4
<1> QED
  BY <1>1, <1>2, <1>3, <1>4
  DEF FileIndexNext, fileIndexVars, listing, Outside, Publish, BeginDelete, Remove1,
      EndDelete, Invalidate, Answer

(* A change of f takes f from whoever could answer for it, and leaves      *)
(* every other file as it was.                                             *)
LEMMA ChangeKeeps ==
  ASSUME FileIndexTypeOK, Agreeing, NEW f \in File, NEW r, Altered(f, r),
         UNCHANGED <<fileIndex, listing>>,
         r \in Changer => change[r] # "invalidated" /\ change'[r] # "invalidated",
         \A q \in Changer : q # r => change'[q] = change[q],
         \A g \in File : g # f => (g \in dir' <=> g \in dir)
  PROVE  Agreeing'
<1> SUFFICES ASSUME NEW g \in File, Answerable(g)' PROVE Sound(g)'
  BY DEF Agreeing
<1>1. g # f /\ Answerable(g)
  <2>1. CASE g \in settled'
    BY <2>1 DEF Altered, Answerable
  <2>2. CASE \E q \in Changer : change'[q] = "invalidated" /\ g \in claim'[q]
    <3>1. PICK q \in Changer : change'[q] = "invalidated" /\ g \in claim'[q]
      BY <2>2
    <3>2. q # r
      BY <3>1
    <3>3. g \in claim[q] \ {f} /\ change[q] = "invalidated"
      BY <3>1, <3>2 DEF Altered
    <3> QED  BY <3>3 DEF Answerable
  <2> QED  BY <2>1, <2>2 DEF Answerable
<1>2. Sound(g)
  BY <1>1 DEF Agreeing
<1> QED  BY <1>1, <1>2 DEF Sound, listing

(* A step that makes no more files answerable and reads nothing            *)
LEMMA QuietKeeps ==
  ASSUME Agreeing, UNCHANGED <<dir, fileIndex, listing>>,
         \A f \in File : Answerable(f)' => Answerable(f)
  PROVE  Agreeing'
  BY DEF Agreeing, Sound, listing

LEMMA AgreeingStep ==
  FileIndexInv /\ [FileIndexNext]_fileIndexVars => Agreeing'
<1> SUFFICES ASSUME FileIndexTypeOK, Held, Agreeing, [FileIndexNext]_fileIndexVars
             PROVE  Agreeing'
  BY DEF FileIndexInv
<1>1. ASSUME NEW f \in File, Outside(f) PROVE Agreeing'
  <2>1. \A g \in File : g # f => (g \in dir' <=> g \in dir)
    BY <1>1 DEF Outside
  <2>2. \A q \in Changer : change'[q] = change[q]
    BY <1>1 DEF Outside, changing
  <2>3. Absent \in Changer => change[Absent] # "invalidated" /\ change'[Absent] # "invalidated"
    BY FileIndexAssumption
  <2> QED  BY <1>1, <2>1, <2>2, <2>3, ChangeKeeps DEF Outside
<1>2. ASSUME NEW r \in Changer, NEW f \in File, Publish(r, f) PROVE Agreeing'
  <2>1. \A g \in File : g # f => (g \in dir' <=> g \in dir)
    BY <1>2 DEF Publish
  <2>2. /\ change[r] = "idle" /\ change'[r] = "changed"
        /\ \A q \in Changer : q # r => change'[q] = change[q]
    BY <1>2 DEF Publish, FileIndexTypeOK
  <2> QED  BY <1>2, <2>1, <2>2, ChangeKeeps DEF Publish
<1>3. ASSUME NEW r \in Changer, NEW f \in File, Remove1(r, f) PROVE Agreeing'
  <2>1. change[r] = "deleting" /\ change' = change
    BY <1>3 DEF Remove1
  <2>2. CASE f \in dir
    <3>1. \A g \in File : g # f => (g \in dir' <=> g \in dir)
      BY <1>3, <2>2 DEF Remove1
    <3> QED  BY <1>3, <2>1, <2>2, <3>1, ChangeKeeps DEF Remove1
  <2>3. CASE f \notin dir
    BY <1>3, <2>1, <2>3, QuietKeeps DEF Remove1, owed, Answerable
  <2> QED  BY <2>2, <2>3
<1>4. ASSUME NEW r \in Changer, NEW names \in SUBSET File, BeginDelete(r, names)
      PROVE  Agreeing'
  <2>1. \A q \in Changer : change'[q] = "invalidated" => change[q] = "invalidated"
    BY <1>4 DEF BeginDelete, FileIndexTypeOK
  <2> QED  BY <1>4, <2>1, QuietKeeps DEF BeginDelete, owed, Answerable
<1>5. ASSUME NEW r \in Changer, EndDelete(r) PROVE Agreeing'
  <2>1. \A q \in Changer : change'[q] = "invalidated" => change[q] = "invalidated"
    BY <1>5 DEF EndDelete, FileIndexTypeOK
  <2> QED  BY <1>5, <2>1, QuietKeeps DEF EndDelete, owed, Answerable
<1>6. ASSUME NEW r \in Changer, Invalidate(r) PROVE Agreeing'
  <2>1. fileIndex' = Absent /\ list' = list
    BY <1>6 DEF Invalidate, listing
  <2>2. \A l \in Lister : list[l] = "idle"
    BY <1>6, FileIndexAssumption DEF Invalidate, Held
  <2> QED  BY <2>1, <2>2 DEF Agreeing, Sound
<1>7. ASSUME NEW r \in Changer, Answer(r) PROVE Agreeing'
  <2>1. ASSUME NEW f \in File, Answerable(f)' PROVE Answerable(f)
    <3>1. CASE f \in settled'
      BY <1>7, <3>1 DEF Answer, Answerable
    <3>2. CASE \E q \in Changer : change'[q] = "invalidated" /\ f \in claim'[q]
      <4>1. PICK q \in Changer : change'[q] = "invalidated" /\ f \in claim'[q]
        BY <3>2
      <4>2. change[q] = "invalidated" /\ f \in claim[q]
        BY <1>7, <4>1 DEF Answer, FileIndexTypeOK
      <4> QED  BY <4>2 DEF Answerable
    <3> QED  BY <2>1, <3>1, <3>2 DEF Answerable
  <2> QED  BY <1>7, <2>1, QuietKeeps DEF Answer
<1>8. ASSUME NEW l \in Lister, StatDir(l) \/ ListFails(l) PROVE Agreeing'
  <2>1. \A k \in Lister : list'[k] = "read" => list[k] = "read"
    BY <1>8 DEF StatDir, ListFails, FileIndexTypeOK
  <2>2. UNCHANGED <<dir, fileIndex, entries, change, claim, settled>>
    BY <1>8 DEF StatDir, ListFails, changing, owed
  <2> QED  BY <2>1, <2>2 DEF Agreeing, Sound, Answerable
<1>9. ASSUME NEW l \in Lister, ReadDir(l) PROVE Agreeing'
  <2>1. UNCHANGED <<dir, fileIndex, change, claim, settled>>
    BY <1>9 DEF ReadDir, changing, owed
  <2>2. entries'[l] = dir
    BY <1>9 DEF ReadDir, FileIndexTypeOK
  <2>3. \A k \in Lister : k # l => entries'[k] = entries[k] /\ list'[k] = list[k]
    BY <1>9 DEF ReadDir, FileIndexTypeOK
  <2> QED  BY <2>1, <2>2, <2>3 DEF Agreeing, Sound, Answerable
<1>10. ASSUME NEW l \in Lister, StoreIndex(l) PROVE Agreeing'
  <2>1. PICK files \in Sorted(entries[l] \intersect dir) :
          fileIndex' = [time |-> statTime[l], files |-> files]
    BY <1>10 DEF StoreIndex
  <2>2. ToSet(fileIndex'.files) = entries[l] \intersect dir
    BY <2>1, SortedFiles DEF FileIndexTypeOK
  <2>3. list[l] = "read" /\ UNCHANGED <<dir, change, claim, settled>>
    BY <1>10 DEF StoreIndex, changing, owed
  <2>4. /\ list'[l] = "idle"
        /\ \A k \in Lister : k # l => entries'[k] = entries[k] /\ list'[k] = list[k]
    BY <1>10 DEF StoreIndex, FileIndexTypeOK
  <2> SUFFICES ASSUME NEW f \in File, Answerable(f)' PROVE Sound(f)'
    BY DEF Agreeing
  <2>5. Sound(f)
    BY <2>3 DEF Agreeing, Answerable
  <2>6. f \in ToSet(fileIndex'.files) <=> f \in dir'
    BY <2>2, <2>3, <2>5 DEF Sound
  <2> QED  BY <2>3, <2>4, <2>5, <2>6 DEF Sound
<1>11. CASE UNCHANGED fileIndexVars
  BY <1>11, QuietKeeps DEF fileIndexVars, changing, owed, Answerable
<1> QED
  BY <1>1, <1>2, <1>3, <1>4, <1>5, <1>6, <1>7, <1>8, <1>9, <1>10, <1>11
  DEF FileIndexNext

-------------------------------------------------------------------------------
LEMMA FileIndexInvariance == FileIndexSpec => []FileIndexInv
<1>1. FileIndexInv /\ [FileIndexNext]_fileIndexVars => FileIndexInv'
  BY FileIndexStepTypes, HeldStep, AgreeingStep DEF FileIndexInv
<1> QED  BY <1>1, FileIndexInitInv, PTL DEF FileIndexSpec

(* The cache and the handlers around it keep their types.                  *)
THEOREM FileIndexTyping == FileIndexSpec => []FileIndexTypeOK
<1>1. FileIndexInv => FileIndexTypeOK
  BY DEF FileIndexInv
<1> QED  BY <1>1, FileIndexInvariance, PTL

(* indexedFiles: once a publication or a deletion was answered, no index   *)
(* that is kept contradicts it until the file changes again.               *)
THEOREM FreshIndex == FileIndexSpec => []ListingFresh
<1>1. FileIndexInv => ListingFresh
  BY DEF FileIndexInv, FileIndexTypeOK, Agreeing, Answerable, Sound, ListingFresh
<1> QED  BY <1>1, FileIndexInvariance, PTL

-------------------------------------------------------------------------------
(* Induction over naturals *)

(* A set of naturals has a least element.                                  *)
LEMMA Least ==
  ASSUME NEW T \in SUBSET Nat, T # {}
  PROVE  \E n \in T : \A m \in T : n <= m
<1>1. IsWellFoundedOn(OpToRel(<, Nat), Nat)
  BY NatLessThanWellFounded, Zenon
<1>2. PICK R : R = OpToRel(<, Nat)
  BY Zenon
<1>3. PICK n \in T : \A m \in T : ~(<<m, n>> \in R)
  BY <1>1, <1>2, WFMin, Zenon
<1>4. \A m \in T : ~(m < n)
  BY <1>2, <1>3 DEF OpToRel
<1>. QED BY <1>4

-------------------------------------------------------------------------------
(* Pages of a list, of any length and any page size                        *)

LEMMA Quotient ==
  ASSUME NEW n \in Nat, NEW size \in Nat, size > 0
  PROVE  n \div size \in Nat /\ (n \div size) * size <= n /\ n < (n \div size) * size + size
OBVIOUS

LEMMA Products ==
  ASSUME NEW a \in Nat, NEW b \in Nat, NEW size \in Nat
  PROVE  /\ a * size \in Nat /\ (a + 1) * size = a * size + size
         /\ a <= b => a * size <= b * size
OBVIOUS

Joined(s, t) == s \o t

Flattens(flatten, seqs) ==
  flatten = [i \in 1..Len(seqs) |-> IF i = 1 THEN seqs[i] ELSE Joined(flatten[i - 1], seqs[i])]

(* What is put together up to each place gives the whole, by induction on  *)
(* the place.                                                              *)
LEMMA Flattened ==
  ASSUME NEW seqs, NEW n \in Nat, n > 0, Len(seqs) = n, NEW upTo,
         upTo[1] = seqs[1], \A i \in 2..n : upTo[i] = Joined(upTo[i - 1], seqs[i])
  PROVE  FlattenSeq(seqs) = upTo[n]
<1>1. PICK flatten : flatten = CHOOSE g : Flattens(g, seqs)
  OBVIOUS
<1>2. Flattens(flatten, seqs)
  <2>. DEFINE g == [i \in 1..n |-> upTo[i]]
  <2>1. \A i \in 1..n : g[i] = IF i = 1 THEN seqs[i] ELSE Joined(g[i - 1], seqs[i])
    <3>1. ASSUME NEW i \in 2..n
          PROVE  g[i] = Joined(g[i - 1], seqs[i])
      <4>1. i \in 1..n /\ i - 1 \in 1..n
        OBVIOUS
      <4>. QED BY <4>1
    <3>2. g[1] = seqs[1] /\ \A i \in 1..n : i = 1 \/ (i # 1 /\ i \in 2..n)
      OBVIOUS
    <3>. HIDE DEF g
    <3>. QED BY <3>1, <3>2
  <2>2. Flattens(g, seqs)
    BY <2>1 DEF Flattens
  <2>. QED BY <1>1, <2>2
<1>3. \A i \in 1..n : flatten[i] = IF i = 1 THEN seqs[i] ELSE Joined(flatten[i - 1], seqs[i])
  BY <1>2 DEF Flattens
<1>. DEFINE bad == {i \in 1..n : flatten[i] # upTo[i]}
<1>4. bad = {}
  <2>. SUFFICES ASSUME bad # {}
                PROVE  FALSE
    OBVIOUS
  <2>1. bad \in SUBSET Nat
    OBVIOUS
  <2>2. PICK i \in bad : \A j \in bad : i <= j
    <3>. HIDE DEF bad
    <3>. QED BY <2>1, Least
  <2>3. i \in 1..n /\ flatten[i] # upTo[i] /\ i # 1
    BY <1>3
  <2>4. i - 1 \in 1..n /\ i - 1 \notin bad
    BY <2>2, <2>3
  <2>5. flatten[i - 1] = upTo[i - 1]
    BY <2>4
  <2>6. i \in 2..n /\ flatten[i] = Joined(flatten[i - 1], seqs[i])
    BY <1>3, <2>3
  <2>7. upTo[i] = Joined(upTo[i - 1], seqs[i])
    BY <2>6
  <2>. QED BY <2>3, <2>5, <2>6, <2>7
<1>5. flatten[n] = upTo[n]
  BY <1>4
<1>6. FlattenSeq(seqs) = flatten[Len(seqs)]
  BY <1>1 DEF FlattenSeq, Flattens, Joined
<1>. QED BY <1>5, <1>6

(* The number of pages is the length divided by the size, rounded up.      *)
LEMMA PagesEnough ==
  ASSUME NEW n \in Nat, n > 0, NEW size \in Nat, size > 0, NEW pages, pages = (n + size - 1) \div size
  PROVE  pages \in Nat /\ pages > 0 /\ (pages - 1) * size < n /\ n <= pages * size
<1>1. /\ pages \in Nat /\ pages * size <= n + size - 1
      /\ n + size - 1 < pages * size + size
  <2>1. n + size - 1 \in Nat
    OBVIOUS
  <2>. QED BY <2>1, Quotient
<1>2. pages * size \in Nat
  BY <1>1, Products
<1>3. n <= pages * size
  BY <1>1, <1>2
<1>4. pages > 0
  <2>1. 0 * size = 0
    OBVIOUS
  <2>. QED BY <1>1, <1>3, <2>1
<1>5. (pages - 1) * size \in Nat /\ pages * size = (pages - 1) * size + size
  <2>1. pages - 1 \in Nat /\ (pages - 1) + 1 = pages
    BY <1>1, <1>4
  <2>. QED BY <2>1, Products
<1>6. (pages - 1) * size < n
  BY <1>1, <1>2, <1>5
<1>. QED BY <1>1, <1>3, <1>4, <1>6

(* Page p shows what follows the first p - 1 pages, as far as there is     *)
(* anything.                                                               *)
LEMMA PageIs ==
  ASSUME NEW S, NEW files \in Seq(S), NEW size \in Nat, size > 0, NEW p \in Nat, p > 0,
         NEW start, start = (p - 1) * size,
         NEW end, end = IF start + size > Len(files) THEN Len(files) ELSE start + size
  PROVE  /\ start \in Nat
         /\ start >= Len(files) => Page(files, p, size) = <<>>
         /\ start < Len(files) => Page(files, p, size) = SubSeq(files, start + 1, end)
<1>1. p - 1 \in Nat
  OBVIOUS
<1>2. start \in Nat /\ Len(files) \in Nat
  BY <1>1, Products
<1>3. size # 0
  OBVIOUS
<1>4. PICK shown : shown = SubSeq(files, start + 1, end)
  OBVIOUS
<1>5. Page(files, p, size) = IF start >= Len(files) THEN <<>> ELSE shown
  BY <1>3, <1>4 DEF Page
<1>6. CASE start >= Len(files)
  <2>1. ~(start < Len(files)) /\ Page(files, p, size) = <<>>
    BY <1>2, <1>5, <1>6
  <2>. QED BY <1>2, <2>1
<1>7. CASE start < Len(files)
  <2>1. ~(start >= Len(files))
    BY <1>2, <1>7
  <2>2. Page(files, p, size) = shown
    BY <1>5, <2>1
  <2>. QED BY <1>2, <1>4, <2>1, <2>2
<1>. QED BY <1>2, <1>6, <1>7

(* The pages of a list put together are the list, and beyond the last page *)
(* is nothing: whatever handleListFiles lists and however long its pages   *)
(* are, no file is skipped or shown twice.                                 *)
THEOREM PagesWhole ==
  ASSUME NEW S, NEW files \in Seq(S), NEW size \in Nat, NEW pages, pages = TotalPages(files, size)
  PROVE  /\ pages \in Nat
         /\ FlattenSeq([p \in 1..pages |-> Page(files, p, size)]) = files
         /\ size # 0 => Page(files, pages + 1, size) = <<>>
<1>1. PICK n, seqs : n = Len(files) /\ seqs = [p \in 1..pages |-> Page(files, p, size)]
  OBVIOUS
<1>2. n \in Nat
  BY <1>1
<1>3. ASSUME size = 0 \/ files = <<>>
      PROVE  /\ pages \in Nat /\ FlattenSeq(seqs) = files
             /\ size # 0 => Page(files, pages + 1, size) = <<>>
  <2>1. pages = 1
    BY <1>3 DEF TotalPages
  <2>2. /\ Page(files, 1, size) = files
        /\ size # 0 => Page(files, pages + 1, size) = <<>>
    <3>1. CASE size = 0
      BY <3>1 DEF Page
    <3>2. CASE size # 0 /\ files = <<>>
      <4>1. n = 0 /\ size > 0
        BY <1>1, <3>2
      <4>2. ASSUME NEW p \in {1, 2}
            PROVE  Page(files, p, size) = <<>>
        <5>1. PICK start, end :
                /\ start = (p - 1) * size
                /\ end = IF start + size > Len(files) THEN Len(files) ELSE start + size
          OBVIOUS
        <5>2. p \in Nat /\ p > 0
          OBVIOUS
        <5>3. start \in Nat /\ (start >= n => Page(files, p, size) = <<>>)
          BY <1>1, <4>1, <5>1, <5>2, PageIs
        <5>. QED BY <4>1, <5>3
      <4>. QED BY <2>1, <3>2, <4>2
    <3>. QED BY <1>3, <3>1, <3>2
  <2>3. Len(seqs) = 1 /\ seqs[1] = files
    BY <1>1, <2>1, <2>2
  <2>4. FlattenSeq(seqs) = seqs[1]
    <3>1. PICK one \in Nat : one = 1
      OBVIOUS
    <3>2. one > 0 /\ Len(seqs) = one /\ \A i \in 2..one : seqs[i] = Joined(seqs[i - 1], seqs[i])
      BY <2>3, <3>1
    <3>3. FlattenSeq(seqs) = seqs[one]
      BY <3>2, Flattened
    <3>. QED BY <3>1, <3>3
  <2>. QED BY <2>1, <2>2, <2>3, <2>4
<1>4. ASSUME size # 0, files # <<>>
      PROVE  /\ pages \in Nat /\ FlattenSeq(seqs) = files
             /\ size # 0 => Page(files, pages + 1, size) = <<>>
  <2>1. n > 0 /\ size > 0 /\ pages = (n + size - 1) \div size
    BY <1>1, <1>2, <1>4 DEF TotalPages
  <2>2. pages \in Nat /\ pages > 0 /\ (pages - 1) * size < n /\ n <= pages * size
    BY <1>2, <2>1, PagesEnough
  <2>. DEFINE End(i) == IF i * size > n THEN n ELSE i * size
              upTo == [i \in 1..pages |-> SubSeq(files, 1, End(i))]
  <2>3. \A i \in 1..pages : /\ (i - 1) * size \in Nat /\ i * size = (i - 1) * size + size
                            /\ (i - 1) * size < n /\ End(i) \in (i - 1) * size..n
    <3>. SUFFICES ASSUME NEW i \in 1..pages
                  PROVE  /\ (i - 1) * size \in Nat /\ i * size = (i - 1) * size + size
                         /\ (i - 1) * size < n /\ End(i) \in (i - 1) * size..n
      OBVIOUS
    <3>1. i - 1 \in Nat /\ pages - 1 \in Nat /\ i - 1 <= pages - 1 /\ (i - 1) + 1 = i
      BY <2>2
    <3>2. /\ (i - 1) * size \in Nat /\ ((i - 1) + 1) * size = (i - 1) * size + size
          /\ (i - 1) * size <= (pages - 1) * size /\ (pages - 1) * size \in Nat
      BY <3>1, Products
    <3>3. i * size = (i - 1) * size + size
      BY <3>1, <3>2
    <3>4. (i - 1) * size < n
      BY <1>2, <2>2, <3>2
    <3>. QED BY <1>2, <3>2, <3>3, <3>4
  <2>4. \A i \in 1..pages : seqs[i] = SubSeq(files, (i - 1) * size + 1, End(i))
    <3>. SUFFICES ASSUME NEW i \in 1..pages
                  PROVE  seqs[i] = SubSeq(files, (i - 1) * size + 1, End(i))
      OBVIOUS
    <3>1. PICK start : start = (i - 1) * size
      OBVIOUS
    <3>2. start < n /\ i * size = start + size /\ i \in Nat /\ i > 0
      BY <2>2, <2>3, <3>1
    <3>3. PICK end : end = IF start + size > Len(files) THEN Len(files) ELSE start + size
      OBVIOUS
    <3>4. Page(files, i, size) = SubSeq(files, start + 1, end)
      <4>. HIDE DEF upTo, End
      <4>1. start < Len(files) /\ i \in Nat /\ i > 0 /\ size > 0
        BY <1>1, <2>1, <3>2
      <4>. QED BY <3>1, <3>3, <4>1, PageIs
    <3>. QED BY <1>1, <3>1, <3>2, <3>3, <3>4
  <2>5. upTo[1] = seqs[1]
    <3>1. 1 \in 1..pages /\ (1 - 1) * size = 0
      BY <2>2
    <3>. QED BY <2>4, <3>1
  <2>6. \A i \in 2..pages : upTo[i] = Joined(upTo[i - 1], seqs[i])
    <3>. SUFFICES ASSUME NEW i \in 2..pages
                  PROVE  upTo[i] = Joined(upTo[i - 1], seqs[i])
      OBVIOUS
    <3>1. PICK k, e : k = (i - 1) * size /\ e = End(i)
      OBVIOUS
    <3>2. i \in 1..pages /\ i - 1 \in 1..pages
      BY <2>2
    <3>3. k \in Nat /\ k < n /\ e \in k..n
      BY <2>3, <3>1, <3>2
    <3>4. End(i - 1) = k
      BY <1>2, <3>1, <3>3
    <3>5. SubSeq(files, 1, k) \o SubSeq(files, k + 1, e) = SubSeq(files, 1, e)
      <4>1. 1 \in 1..Len(files) + 1 /\ k \in 1 - 1..Len(files) /\ e \in k..Len(files)
        BY <1>1, <1>2, <3>3
      <4>. QED BY <4>1, ConcatAdjacentSubSeq
    <3>6. upTo[i] = SubSeq(files, 1, e) /\ upTo[i - 1] = SubSeq(files, 1, k)
      BY <3>1, <3>2, <3>4
    <3>7. seqs[i] = SubSeq(files, k + 1, e)
      BY <2>4, <3>1, <3>2
    <3>. QED BY <3>5, <3>6, <3>7 DEF Joined
  <2>7. FlattenSeq(seqs) = upTo[pages]
    <3>1. Len(seqs) = pages
      BY <1>1, <2>2
    <3>2. PICK u : u = upTo
      OBVIOUS
    <3>3. pages \in Nat /\ pages > 0 /\ u[1] = seqs[1] /\ \A i \in 2..pages : u[i] = Joined(u[i - 1], seqs[i])
      BY <2>2, <2>5, <2>6, <3>2
    <3>. HIDE DEF upTo
    <3>4. FlattenSeq(seqs) = u[pages]
      BY <3>1, <3>3, Flattened
    <3>. QED BY <3>2, <3>4
  <2>8. upTo[pages] = files
    <3>1. pages \in 1..pages /\ pages * size \in Nat
      BY <2>2, Products
    <3>2. End(pages) = n
      BY <1>2, <2>2, <3>1
    <3>3. upTo[pages] = SubSeq(files, 1, n)
      BY <3>1, <3>2
    <3>. QED BY <1>1, <3>3, SubSeqFull
  <2>9. Page(files, pages + 1, size) = <<>>
    <3>1. PICK p : p = pages + 1
      OBVIOUS
    <3>2. p \in Nat /\ p > 0 /\ p - 1 = pages
      BY <2>2, <3>1
    <3>3. PICK start : start = (p - 1) * size
      OBVIOUS
    <3>4. start >= n /\ \E end : end = IF start + size > Len(files) THEN Len(files) ELSE start + size
      BY <2>2, <3>2, <3>3
    <3>5. Page(files, p, size) = <<>>
      BY <1>1, <2>1, <3>2, <3>3, <3>4, PageIs
    <3>. QED BY <3>1, <3>5
  <2>. QED BY <2>2, <2>7, <2>8, <2>9
<1>. QED BY <1>1, <1>3, <1>4

KeptItems(files, item, matching) == IF item \in matching THEN Append(files, item) ELSE files

Loop(iter, family, index, matching) ==
  iter = [s \in family |-> IF s = {} THEN <<>> ELSE KeptItems(iter[s \ {Max(s)}], index[Max(s)], matching)]

LEMMA Greatest ==
  ASSUME NEW n \in Nat, NEW s \in SUBSET (1..n), s # {}
  PROVE  Max(s) \in s
<1>1. PICK T : T = {n - i : i \in s}
  OBVIOUS
<1>2. T \in SUBSET Nat /\ T # {}
  <2>1. \A i \in s : n - i \in Nat
    OBVIOUS
  <2>. QED BY <1>1, <2>1
<1>3. PICK m \in T : \A k \in T : m <= k
  BY <1>2, Least
<1>4. PICK x \in s : m = n - x
  BY <1>1
<1>5. \A y \in s : n - y \in T /\ x \in Int /\ y \in Int
  BY <1>1
<1>6. \A y \in s : x >= y
  BY <1>3, <1>4, <1>5
<1>. QED BY <1>6 DEF Max

(* What the loop over the index keeps is a list of its items, by induction *)
(* on the size of the part that it has seen.                               *)
LEMMA FilteredIsSeq ==
  ASSUME NEW S, NEW index \in Seq(S), NEW matching
  PROVE  Filtered(index, matching) \in Seq(S)
<1>1. PICK n, D : n = Len(index) /\ D = 1..n
  OBVIOUS
<1>2. n \in Nat /\ D = DOMAIN index /\ \A i \in D : index[i] \in S
  BY <1>1
<1>3. IsFiniteSet(D) /\ \A s \in SUBSET D : IsFiniteSet(s) /\ Cardinality(s) \in Nat
  <2>1. 1 \in Int /\ n \in Int
    BY <1>2
  <2>2. IsFiniteSet(1..n)
    BY <2>1, FS_Interval
  <2>. QED BY <1>1, <2>2, FS_Subset, FS_CardinalityType
<1>4. ASSUME NEW s \in SUBSET D, s # {}
      PROVE  /\ Max(s) \in s /\ s \ {Max(s)} \in SUBSET D
             /\ Cardinality(s \ {Max(s)}) = Cardinality(s) - 1
  <2>1. Max(s) \in s
    BY <1>1, <1>2, <1>4, Greatest
  <2>. QED BY <1>3, <2>1, FS_RemoveElement
<1>. DEFINE sets(k) == {s \in SUBSET D : Cardinality(s) <= k}
            solvable(k) == \E iter : Loop(iter, sets(k), index, matching)
<1>5. solvable(0)
  <2>. DEFINE iter == [s \in sets(0) |-> <<>>]
  <2>1. \A s \in sets(0) : s = {}
    BY <1>3, FS_EmptySet
  <2>2. Loop(iter, sets(0), index, matching)
    BY <2>1 DEF Loop
  <2>. QED BY <2>2
<1>6. ASSUME NEW k \in Nat, solvable(k)
      PROVE  solvable(k + 1)
  <2>1. PICK old : Loop(old, sets(k), index, matching)
    BY <1>6
  <2>. DEFINE value(s) == IF s = {} THEN <<>> ELSE KeptItems(old[s \ {Max(s)}], index[Max(s)], matching)
              iter == [s \in sets(k + 1) |-> value(s)]
  <2>2. \A s \in sets(k) : old[s] = value(s)
    BY <2>1 DEF Loop
  <2>3. \A s \in sets(k + 1) : s # {} => s \ {Max(s)} \in sets(k) /\ s \ {Max(s)} \in sets(k + 1)
    <3>. SUFFICES ASSUME NEW s \in sets(k + 1), s # {}
                  PROVE  s \ {Max(s)} \in sets(k) /\ s \ {Max(s)} \in sets(k + 1)
      OBVIOUS
    <3>1. /\ s \ {Max(s)} \in SUBSET D /\ Cardinality(s \ {Max(s)}) = Cardinality(s) - 1
          /\ Cardinality(s) \in Nat /\ Cardinality(s) <= k + 1
      BY <1>3, <1>4
    <3>2. Cardinality(s \ {Max(s)}) <= k /\ Cardinality(s \ {Max(s)}) <= k + 1
      BY <3>1
    <3>. QED BY <3>1, <3>2
  <2>4. \A s \in sets(k + 1) : s # {} => iter[s \ {Max(s)}] = old[s \ {Max(s)}]
    BY <2>2, <2>3
  <2>5. \A s \in sets(k + 1) :
          iter[s] = IF s = {} THEN <<>> ELSE KeptItems(iter[s \ {Max(s)}], index[Max(s)], matching)
    BY <2>4
  <2>6. PICK new : new = iter
    OBVIOUS
  <2>7. /\ new = [s \in sets(k + 1) |-> new[s]]
        /\ \A s \in sets(k + 1) :
             new[s] = IF s = {} THEN <<>> ELSE KeptItems(new[s \ {Max(s)}], index[Max(s)], matching)
    BY <2>5, <2>6
  <2>8. Loop(new, sets(k + 1), index, matching)
    <3>. HIDE DEF iter, sets
    <3>. QED BY <2>7 DEF Loop
  <2>. QED BY <2>8
<1>7. \A k \in Nat : solvable(k)
  <2>. HIDE DEF solvable
  <2>. DEFINE bad == {k \in Nat : ~solvable(k)}
  <2>1. bad = {}
    <3>. SUFFICES ASSUME bad # {}
                  PROVE  FALSE
      OBVIOUS
    <3>1. bad \in SUBSET Nat
      OBVIOUS
    <3>2. PICK k \in bad : \A j \in bad : k <= j
      <4>. HIDE DEF bad
      <4>. QED BY <3>1, Least
    <3>3. k \in Nat /\ ~solvable(k) /\ k # 0
      BY <1>5
    <3>4. k - 1 \in Nat /\ k - 1 \notin bad /\ (k - 1) + 1 = k
      BY <3>2, <3>3
    <3>5. solvable(k - 1)
      BY <3>4
    <3>6. solvable((k - 1) + 1)
      BY <1>6, <3>4, <3>5
    <3>. QED BY <3>3, <3>4, <3>6
  <2>. QED BY <2>1
<1>8. PICK iter : iter = CHOOSE it : Loop(it, SUBSET D, index, matching)
  OBVIOUS
<1>9. Loop(iter, SUBSET D, index, matching)
  <2>1. PICK k \in Nat : k = Cardinality(D)
    BY <1>3
  <2>2. \A s \in SUBSET D : Cardinality(s) <= k
    BY <1>3, <2>1, FS_Subset
  <2>3. sets(k) = SUBSET D
    BY <2>2
  <2>4. \E it : Loop(it, SUBSET D, index, matching)
    BY <1>7, <2>3
  <2>. QED BY <1>8, <2>4
<1>10. \A s \in SUBSET D : iter[s] \in Seq(S)
  <2>. DEFINE bad == {s \in SUBSET D : iter[s] \notin Seq(S)}
              sizes == {Cardinality(s) : s \in bad}
  <2>1. bad = {}
    <3>. SUFFICES ASSUME bad # {}
                  PROVE  FALSE
      OBVIOUS
    <3>1. sizes \in SUBSET Nat /\ sizes # {}
      BY <1>3
    <3>2. PICK k \in sizes : \A m \in sizes : k <= m
      <4>. HIDE DEF sizes
      <4>. QED BY <3>1, Least
    <3>3. PICK s \in bad : Cardinality(s) = k
      OBVIOUS
    <3>4. s \in SUBSET D /\ iter[s] \notin Seq(S)
      OBVIOUS
    <3>5. iter[s] = IF s = {} THEN <<>> ELSE KeptItems(iter[s \ {Max(s)}], index[Max(s)], matching)
      BY <1>9, <3>4 DEF Loop
    <3>6. s # {}
      BY <3>4, <3>5
    <3>7. /\ Max(s) \in D /\ s \ {Max(s)} \in SUBSET D
          /\ Cardinality(s \ {Max(s)}) = Cardinality(s) - 1
      BY <1>4, <3>4, <3>6
    <3>8. s \ {Max(s)} \notin bad
      <4>1. Cardinality(s) \in Nat /\ ~(k <= Cardinality(s) - 1)
        BY <1>3, <3>3
      <4>. QED BY <3>2, <3>7, <4>1
    <3>9. PICK rest : rest = iter[s \ {Max(s)}]
      OBVIOUS
    <3>10. rest \in Seq(S) /\ index[Max(s)] \in S
      BY <1>2, <3>7, <3>8, <3>9
    <3>11. KeptItems(rest, index[Max(s)], matching) \in Seq(S)
      BY <3>10 DEF KeptItems
    <3>. QED BY <3>4, <3>5, <3>6, <3>9, <3>11
  <2>. QED BY <2>1
<1>11. Filtered(index, matching) = iter[D]
  BY <1>2, <1>8 DEF Filtered, FoldLeft, MapThenFoldSet, Loop, KeptItems
<1>. QED BY <1>10, <1>11

(* Every page of every filtered listing comes from the kept index: the     *)
(* pages together are the files that match, and beyond the last page is    *)
(* nothing, for any directory, filter and page size.                       *)
THEOREM Paged == FileIndexSpec => []PagesPartition
<1>1. FileIndexTypeOK => PagesPartition
  <2>. SUFFICES ASSUME FileIndexTypeOK, fileIndex # Absent, NEW matching \in SUBSET File,
                       NEW size \in 0..MaxPageSize
                PROVE  LET files == Filtered(fileIndex.files, matching)
                           pages == TotalPages(files, size)
                       IN  /\ FlattenSeq([p \in 1..pages |-> Page(files, p, size)]) = files
                           /\ size # 0 => Page(files, pages + 1, size) = <<>>
    BY DEF PagesPartition
  <2>1. fileIndex.files \in Seq(File)
    BY DEF FileIndexTypeOK
  <2>2. PICK files : files = Filtered(fileIndex.files, matching)
    OBVIOUS
  <2>3. files \in Seq(File) /\ size \in Nat
    BY <2>1, <2>2, FilteredIsSeq
  <2>4. PICK pages : pages = TotalPages(files, size)
    OBVIOUS
  <2>5. /\ FlattenSeq([p \in 1..pages |-> Page(files, p, size)]) = files
        /\ size # 0 => Page(files, pages + 1, size) = <<>>
    BY <2>3, <2>4, PagesWhole
  <2>. QED BY <2>2, <2>4, <2>5
<1>. QED BY <1>1, FileIndexTyping, PTL

-------------------------------------------------------------------------------
(* Sums.  A sum of naturals is the number of tokens, f[x] of each x; what  *)
(* is added and compared here are sets of tokens.  That the recursion      *)
(* behind MapThenSumSet counts them takes an induction on the size of the  *)
(* set, which is led by its least counterexample.                          *)

Tokens(f, S) == {t \in S \X Nat : t[2] \in 1..f[t[1]]}

Total(f, S) == Cardinality(Tokens(f, S))

LEMMA TokensOfOne ==
  ASSUME NEW f, NEW x, f[x] \in Nat
  PROVE  IsFiniteSet(Tokens(f, {x})) /\ Cardinality(Tokens(f, {x})) = f[x]
<1>. DEFINE g == [i \in 1..f[x] |-> <<x, i>>]
<1>1. g \in [1..f[x] -> Tokens(f, {x})]
  BY DEF Tokens
<1>2. \A i, j \in 1..f[x] : g[i] = g[j] => i = j
  OBVIOUS
<1>3. \A t \in Tokens(f, {x}) : \E i \in 1..f[x] : g[i] = t
  <2>. SUFFICES ASSUME NEW t \in Tokens(f, {x})
                PROVE  \E i \in 1..f[x] : g[i] = t
    OBVIOUS
  <2>1. t \in {x} \X Nat /\ t[2] \in 1..f[t[1]]
    BY DEF Tokens
  <2>2. t[1] = x /\ t[2] \in 1..f[x] /\ t = <<x, t[2]>>
    BY <2>1
  <2>. QED BY <2>2
<1>4. g \in Injection(1..f[x], Tokens(f, {x})) /\ g \in Surjection(1..f[x], Tokens(f, {x}))
  <2>. HIDE DEF g
  <2>. QED BY <1>1, <1>2, <1>3 DEF Injection, IsInjective, Surjection
<1>5. IsFiniteSet(1..f[x]) /\ Cardinality(1..f[x]) = f[x]
  <2>1. 1 \in Int /\ f[x] \in Int /\ (IF 1 > f[x] THEN 0 ELSE f[x] - 1 + 1) = f[x]
    OBVIOUS
  <2>. QED BY <2>1, FS_Interval
<1>. HIDE DEF g
<1>. QED BY <1>4, <1>5, FS_Surjection

LEMMA TotalNone ==
  ASSUME NEW f
  PROVE  IsFiniteSet(Tokens(f, {})) /\ Total(f, {}) = 0
<1>1. Tokens(f, {}) = {}
  BY DEF Tokens
<1>. QED BY <1>1, FS_EmptySet DEF Total

LEMMA TotalAdd ==
  ASSUME NEW f, NEW S, NEW x, x \notin S, f[x] \in Nat, IsFiniteSet(Tokens(f, S))
  PROVE  IsFiniteSet(Tokens(f, S \union {x})) /\ Total(f, S \union {x}) = Total(f, S) + f[x]
<1>1. Tokens(f, S \union {x}) = Tokens(f, S) \union Tokens(f, {x})
  BY DEF Tokens
<1>2. Tokens(f, S) \intersect Tokens(f, {x}) = {}
  BY DEF Tokens
<1>3. IsFiniteSet(Tokens(f, {x})) /\ Cardinality(Tokens(f, {x})) = f[x]
  BY TokensOfOne
<1>4. PICK U, V : U = Tokens(f, S) /\ V = Tokens(f, {x})
  OBVIOUS
<1>5. /\ IsFiniteSet(U \union V)
      /\ Cardinality(U \union V) = Cardinality(U) + Cardinality(V) - Cardinality(U \intersect V)
  BY <1>3, <1>4, FS_Union
<1>6. Cardinality(U \intersect V) = 0
  BY <1>2, <1>4, FS_EmptySet
<1>7. Cardinality(U) \in Nat
  BY <1>4, FS_CardinalityType
<1>8. Cardinality(U \union V) = Cardinality(U) + f[x]
  BY <1>3, <1>4, <1>5, <1>6, <1>7
<1>. QED BY <1>1, <1>4, <1>5, <1>8 DEF Total

(* Only the values on the set matter.                                      *)
LEMMA TotalSame ==
  ASSUME NEW f, NEW g, NEW S, \A x \in S : f[x] = g[x]
  PROVE  Tokens(f, S) = Tokens(g, S) /\ Total(f, S) = Total(g, S)
<1>1. Tokens(f, S) = Tokens(g, S)
  BY DEF Tokens
<1>. QED BY <1>1 DEF Total

LEMMA TotalMore ==
  ASSUME NEW f, NEW g, NEW S, NEW R \in SUBSET S, IsFiniteSet(Tokens(g, S)),
         \A x \in R : f[x] \in Nat /\ g[x] \in Nat /\ f[x] <= g[x]
  PROVE  Total(f, R) <= Total(g, S)
<1>1. Tokens(f, R) \in SUBSET Tokens(g, S)
  BY DEF Tokens
<1>. QED BY <1>1, FS_Subset DEF Total

(* Induction on the size: every smaller set has the property.              *)
LEMMA TotalFinite ==
  ASSUME NEW S, IsFiniteSet(S), NEW f, \A x \in S : f[x] \in Nat
  PROVE  IsFiniteSet(Tokens(f, S)) /\ Total(f, S) \in Nat
<1>. DEFINE bad == {T \in SUBSET S : ~IsFiniteSet(Tokens(f, T))}
            sizes == {Cardinality(T) : T \in bad}
<1>1. \A T \in SUBSET S : IsFiniteSet(T) /\ Cardinality(T) \in Nat
  BY FS_Subset, FS_CardinalityType
<1>2. bad = {}
  <2>. SUFFICES ASSUME bad # {}
                PROVE  FALSE
    OBVIOUS
  <2>1. sizes \in SUBSET Nat /\ sizes # {}
    BY <1>1
  <2>2. PICK n \in sizes : \A m \in sizes : n <= m
    <3>. HIDE DEF sizes
    <3>. QED BY <2>1, Least
  <2>3. PICK T \in bad : Cardinality(T) = n
    OBVIOUS
  <2>4. T # {}
    BY TotalNone
  <2>5. PICK x \in T : TRUE
    BY <2>4
  <2>6. Cardinality(T \ {x}) = Cardinality(T) - 1 /\ T \ {x} \in SUBSET S
    BY <1>1, FS_RemoveElement
  <2>7. T \ {x} \notin bad
    <3>1. Cardinality(T) \in Nat /\ ~(n <= Cardinality(T) - 1)
      BY <1>1, <2>3
    <3>. QED BY <2>2, <2>6, <3>1
  <2>8. IsFiniteSet(Tokens(f, T \ {x}))
    BY <2>6, <2>7
  <2>9. (T \ {x}) \union {x} = T /\ x \notin T \ {x} /\ f[x] \in Nat
    OBVIOUS
  <2>10. IsFiniteSet(Tokens(f, T))
    BY <2>8, <2>9, TotalAdd
  <2>. QED BY <2>10
<1>3. IsFiniteSet(Tokens(f, S))
  BY <1>2
<1>. QED BY <1>3, FS_CardinalityType DEF Total

First(S) == CHOOSE x \in S : TRUE

Counts(iter, f, S) ==
  iter = [s \in SUBSET S |-> IF s = {} THEN 0 ELSE f[First(s)] + iter[s \ {First(s)}]]

(* The recursion has one solution, the number of tokens.                   *)
LEMMA Recursion ==
  ASSUME NEW S, IsFiniteSet(S), NEW f, \A x \in S : f[x] \in Nat
  PROVE  /\ \E iter : Counts(iter, f, S)
         /\ \A iter : Counts(iter, f, S) => iter[S] = Total(f, S)
<1>1. \A T \in SUBSET S : /\ IsFiniteSet(T) /\ Cardinality(T) \in Nat
                          /\ IsFiniteSet(Tokens(f, T)) /\ Total(f, T) \in Nat
  BY FS_Subset, FS_CardinalityType, TotalFinite
<1>2. ASSUME NEW T \in SUBSET S, T # {}
      PROVE  /\ First(T) \in T /\ T \ {First(T)} \in SUBSET S
             /\ Total(f, T) = f[First(T)] + Total(f, T \ {First(T)})
             /\ Cardinality(T \ {First(T)}) = Cardinality(T) - 1
  <2>1. First(T) \in T
    BY <1>2 DEF First
  <2>2. T \ {First(T)} \in SUBSET S /\ f[First(T)] \in Nat
    BY <2>1
  <2>3. (T \ {First(T)}) \union {First(T)} = T /\ First(T) \notin T \ {First(T)}
    BY <2>1
  <2>4. Total(f, T) = Total(f, T \ {First(T)}) + f[First(T)]
    BY <1>1, <2>2, <2>3, TotalAdd
  <2>5. Cardinality(T \ {First(T)}) = Cardinality(T) - 1
    BY <1>1, <2>1, FS_RemoveElement
  <2>. QED BY <1>1, <2>1, <2>2, <2>4, <2>5
<1>3. \E iter : iter = [s \in SUBSET S |-> IF s = {} THEN 0 ELSE f[First(s)] + iter[s \ {First(s)}]]
  <2>. DEFINE iter == [s \in SUBSET S |-> Total(f, s)]
  <2>1. iter = [s \in SUBSET S |-> IF s = {} THEN 0 ELSE f[First(s)] + iter[s \ {First(s)}]]
    BY <1>2, TotalNone
  <2>. QED BY <2>1
<1>4. ASSUME NEW iter,
             iter = [s \in SUBSET S |-> IF s = {} THEN 0 ELSE f[First(s)] + iter[s \ {First(s)}]]
      PROVE  iter[S] = Total(f, S)
  <2>. DEFINE bad == {T \in SUBSET S : iter[T] # Total(f, T)}
              sizes == {Cardinality(T) : T \in bad}
  <2>1. bad = {}
    <3>. SUFFICES ASSUME bad # {}
                  PROVE  FALSE
      OBVIOUS
    <3>1. sizes \in SUBSET Nat /\ sizes # {}
      BY <1>1
    <3>2. PICK n \in sizes : \A m \in sizes : n <= m
      <4>. HIDE DEF sizes
      <4>. QED BY <3>1, Least
    <3>3. PICK T \in bad : Cardinality(T) = n
      OBVIOUS
    <3>4. T \in SUBSET S /\ iter[T] # Total(f, T)
      OBVIOUS
    <3>5. T # {}
      BY <1>4, <3>4, TotalNone
    <3>6. /\ T \ {First(T)} \in SUBSET S
          /\ Total(f, T) = f[First(T)] + Total(f, T \ {First(T)})
          /\ Cardinality(T \ {First(T)}) = Cardinality(T) - 1
      BY <1>2, <3>4, <3>5
    <3>7. T \ {First(T)} \notin bad
      <4>1. Cardinality(T) \in Nat /\ ~(n <= Cardinality(T) - 1)
        BY <1>1, <3>3
      <4>. QED BY <3>2, <3>6, <4>1
    <3>8. iter[T] = f[First(T)] + iter[T \ {First(T)}]
      BY <1>4, <3>4, <3>5
    <3>. QED BY <3>4, <3>6, <3>7, <3>8
  <2>. QED BY <2>1
<1>. QED BY <1>3, <1>4 DEF Counts

LEMMA TotalRemove ==
  ASSUME NEW S, IsFiniteSet(S), NEW f, \A x \in S : f[x] \in Nat, NEW x \in S
  PROVE  Total(f, S) = Total(f, S \ {x}) + f[x]
<1>1. IsFiniteSet(S \ {x}) /\ \A y \in S \ {x} : f[y] \in Nat
  BY FS_RemoveElement
<1>2. IsFiniteSet(Tokens(f, S \ {x}))
  BY <1>1, TotalFinite
<1>3. (S \ {x}) \union {x} = S /\ x \notin S \ {x} /\ f[x] \in Nat
  OBVIOUS
<1>. QED BY <1>2, <1>3, TotalAdd

RequiredSum(g, S) ==
  (CHOOSE iter : iter = [s \in SUBSET S |-> IF s = {} THEN 0
                                            ELSE g[First(s)].required + iter[s \ {First(s)}]])[S]

LEMMA SumOfRequired ==
  ASSUME NEW S, IsFiniteSet(S), NEW f, NEW g,
         \A x \in S : f[x] \in Nat /\ f[x] = g[x].required
  PROVE  RequiredSum(g, S) = Total(f, S)
<1>0. \A x \in S : f[x] \in Nat
  OBVIOUS
<1>1. \E iter : Counts(iter, f, S)
  BY <1>0, Recursion
<1>2. \A s \in SUBSET S : s # {} => f[First(s)] = g[First(s)].required
  BY DEF First
<1>3. \A i : Counts(i, f, S)
         <=> i = [s \in SUBSET S |-> IF s = {} THEN 0
                                     ELSE g[First(s)].required + i[s \ {First(s)}]]
  BY <1>2 DEF Counts
<1>4. PICK i : i = CHOOSE iter : iter = [s \in SUBSET S |->
                 IF s = {} THEN 0 ELSE g[First(s)].required + iter[s \ {First(s)}]]
  OBVIOUS
<1>5. i = [s \in SUBSET S |-> IF s = {} THEN 0 ELSE g[First(s)].required + i[s \ {First(s)}]]
  BY <1>1, <1>3, <1>4
<1>6. Counts(i, f, S)
  BY <1>3, <1>5
<1>7. i[S] = Total(f, S)
  BY <1>0, <1>6, Recursion
<1>8. RequiredSum(g, S) = i[S]
  BY <1>4 DEF RequiredSum
<1>. QED BY <1>7, <1>8

UnwrittenSum(g, S) ==
  (CHOOSE iter : iter = [s \in SUBSET S |-> IF s = {} THEN 0
                                            ELSE g[First(s)].unwritten + iter[s \ {First(s)}]])[S]

LEMMA SumOfUnwritten ==
  ASSUME NEW S, IsFiniteSet(S), NEW f, NEW g,
         \A x \in S : f[x] \in Nat /\ f[x] = g[x].unwritten
  PROVE  UnwrittenSum(g, S) = Total(f, S)
<1>0. \A x \in S : f[x] \in Nat
  OBVIOUS
<1>1. \E iter : Counts(iter, f, S)
  BY <1>0, Recursion
<1>2. \A s \in SUBSET S : s # {} => f[First(s)] = g[First(s)].unwritten
  BY DEF First
<1>3. \A i : Counts(i, f, S)
         <=> i = [s \in SUBSET S |-> IF s = {} THEN 0
                                     ELSE g[First(s)].unwritten + i[s \ {First(s)}]]
  BY <1>2 DEF Counts
<1>4. PICK i : i = CHOOSE iter : iter = [s \in SUBSET S |->
                 IF s = {} THEN 0 ELSE g[First(s)].unwritten + iter[s \ {First(s)}]]
  OBVIOUS
<1>5. i = [s \in SUBSET S |-> IF s = {} THEN 0 ELSE g[First(s)].unwritten + i[s \ {First(s)}]]
  BY <1>1, <1>3, <1>4
<1>6. Counts(i, f, S)
  BY <1>3, <1>5
<1>7. i[S] = Total(f, S)
  BY <1>0, <1>6, Recursion
<1>8. UnwrittenSum(g, S) = i[S]
  BY <1>4 DEF UnwrittenSum
<1>. QED BY <1>7, <1>8

-------------------------------------------------------------------------------
(* Storage, for any number of writers and volumes, any sizes and any range *)
(* of the counter                                                          *)

Grant == [volume : Volume, required : Nat, unwritten : Nat]

RequiredOf(g) == [w \in DOMAIN g |-> g[w].required]
UnwrittenOf(g) == [w \in DOMAIN g |-> g[w].unwritten]

StorageTypeOK ==
  /\ free \in [Volume -> Int] /\ lost \in [Volume -> Nat]
  /\ granted \in [DOMAIN granted -> Grant] /\ IsFiniteSet(DOMAIN granted)
  /\ reservedStorage \in Nat

(* The counter is exact, and never so large that the next sum could wrap   *)
(* past the numbers below zero.                                            *)
CounterExact ==
  /\ reservedStorage = Total(RequiredOf(granted), DOMAIN granted)
  /\ reservedStorage = 0 \/ reservedStorage + MinFree <= MaxInt64

Fits(v) ==
  WritersOf(v) # {} =>
    Total(UnwrittenOf(granted), WritersOf(v)) + MinFree <= free[v] + lost[v]

StorageInv ==
  /\ StorageTypeOK /\ CounterExact
  /\ \A w \in DOMAIN granted : granted[w].unwritten <= granted[w].required
  /\ \A v \in Volume : Fits(v)

(* What the sums are over                                                  *)
LEMMA Granted ==
  ASSUME StorageInv
  PROVE  /\ \A w \in DOMAIN granted :
              /\ granted[w] \in Grant /\ granted[w].volume \in Volume
              /\ RequiredOf(granted)[w] = granted[w].required /\ granted[w].required \in Nat
              /\ UnwrittenOf(granted)[w] = granted[w].unwritten /\ granted[w].unwritten \in Nat
         /\ \A S \in SUBSET DOMAIN granted : IsFiniteSet(S)
         /\ \A v : WritersOf(v) \in SUBSET DOMAIN granted
         /\ MinFree \in Nat /\ MaxInt64 \in Nat
<1>1. granted \in [DOMAIN granted -> Grant] /\ IsFiniteSet(DOMAIN granted)
  BY DEF StorageInv, StorageTypeOK
<1>2. \A S \in SUBSET DOMAIN granted : IsFiniteSet(S)
  BY <1>1, FS_Subset
<1>3. \A v : WritersOf(v) \in SUBSET DOMAIN granted
  BY DEF WritersOf
<1>4. \A w \in DOMAIN granted : granted[w] \in Grant
  BY <1>1
<1>5. ASSUME NEW w \in DOMAIN granted
      PROVE  /\ granted[w].volume \in Volume
             /\ RequiredOf(granted)[w] = granted[w].required /\ granted[w].required \in Nat
             /\ UnwrittenOf(granted)[w] = granted[w].unwritten /\ granted[w].unwritten \in Nat
  BY <1>4 DEF RequiredOf, UnwrittenOf, Grant
<1>. QED BY <1>2, <1>3, <1>4, <1>5, StorageAssumption

(* reserveStorage grants only a sum that did not wrap.                     *)
LEMMA NoWrap ==
  ASSUME StorageInv, NEW n \in Size, NEW available \in Int, Grants(available, n)
  PROVE  n + reservedStorage + MinFree <= MaxInt64 /\ n + reservedStorage + MinFree <= available
<1>1. /\ n \in Nat /\ MinFree \in Nat /\ MaxInt64 \in Nat /\ n + MinFree <= MaxInt64
      /\ reservedStorage \in Nat /\ reservedStorage + MinFree <= MaxInt64
  BY StorageAssumption DEF StorageInv, StorageTypeOK, CounterExact
<1>2. PICK sum \in Nat : sum = n + reservedStorage + MinFree
  BY <1>1
<1>3. Int64(sum) >= n /\ available >= Uint64(Int64(sum))
  BY <1>2 DEF Grants
<1>4. sum <= MaxInt64
  BY <1>1, <1>2, <1>3 DEF Int64
<1>5. Int64(sum) = sum /\ Uint64(sum) = sum
  BY <1>1, <1>4 DEF Int64, Uint64
<1>. QED BY <1>1, <1>2, <1>3, <1>4, <1>5

LEMMA StorageStarts == StorageInit => StorageInv
<1>. SUFFICES ASSUME StorageInit
              PROVE  StorageInv
  OBVIOUS
<1>1. /\ DOMAIN granted = {} /\ reservedStorage = 0 /\ lost = [v \in Volume |-> 0]
      /\ free \in [Volume -> 0..Capacity] /\ granted = [w \in {} |-> 0]
  BY DEF StorageInit
<1>2. free \in [Volume -> Int]
  BY <1>1, StorageAssumption
<1>3. StorageTypeOK
  BY <1>1, <1>2, FS_EmptySet DEF StorageTypeOK
<1>4. CounterExact
  BY <1>1, TotalNone DEF CounterExact
<1>5. \A v \in Volume : Fits(v)
  BY <1>1 DEF Fits, WritersOf
<1>. QED BY <1>1, <1>3, <1>4, <1>5 DEF StorageInv

LEMMA ReserveKeeps ==
  ASSUME StorageInv, NEW w, NEW v \in Volume, NEW n \in Size, Reserve(w, v, n)
  PROVE  StorageInv'
<1>1. PICK D : D = DOMAIN granted
  OBVIOUS
<1>2. /\ w \notin D /\ Grants(free[v], n) /\ UNCHANGED <<free, lost>>
      /\ reservedStorage' = reservedStorage + n
      /\ DOMAIN granted' = D \union {w}
      /\ granted'[w] = [volume |-> v, required |-> n, unwritten |-> n]
      /\ \A u \in D : granted'[u] = granted[u]
      /\ granted' = [u \in D \union {w} |-> granted'[u]]
  BY <1>1 DEF Reserve
<1>3. /\ StorageTypeOK /\ CounterExact /\ n \in Nat /\ MinFree \in Nat /\ MaxInt64 \in Nat
      /\ free[v] \in Int /\ lost[v] \in Nat
  BY StorageAssumption DEF StorageInv, StorageTypeOK
<1>4. n + reservedStorage + MinFree <= MaxInt64 /\ n + reservedStorage + MinFree <= free[v]
  BY <1>2, <1>3, NoWrap
<1>5. granted'[w] \in Grant /\ granted'[w].volume = v /\ granted'[w].required = n /\ granted'[w].unwritten = n
  BY <1>2, <1>3 DEF Grant
<1>6. StorageTypeOK'
  <2>1. granted' \in [D \union {w} -> Grant]
    BY <1>1, <1>2, <1>3, <1>5 DEF StorageTypeOK
  <2>2. IsFiniteSet(D \union {w})
    BY <1>1, <1>3, FS_AddElement DEF StorageTypeOK
  <2>. QED BY <1>2, <1>3, <2>1, <2>2 DEF StorageTypeOK
<1>7. PICK R, U, Q, V : /\ R = RequiredOf(granted) /\ U = UnwrittenOf(granted)
                        /\ Q = RequiredOf(granted') /\ V = UnwrittenOf(granted')
  OBVIOUS
<1>8. /\ \A u \in D : /\ R[u] \in Nat /\ U[u] \in Nat /\ U[u] <= R[u]
                      /\ Q[u] = R[u] /\ V[u] = U[u]
      /\ Q[w] = n /\ V[w] = n
  <2>1. ASSUME NEW u \in D
        PROVE  /\ R[u] \in Nat /\ U[u] \in Nat /\ U[u] <= R[u]
               /\ Q[u] = R[u] /\ V[u] = U[u]
    <3>1. Q[u] = granted'[u].required /\ V[u] = granted'[u].unwritten
      BY <1>2, <1>7, <2>1 DEF RequiredOf, UnwrittenOf
    <3>. QED BY <1>1, <1>2, <1>7, <3>1, Granted DEF StorageInv
  <2>2. Q[w] = n /\ V[w] = n
    BY <1>2, <1>5, <1>7 DEF RequiredOf, UnwrittenOf
  <2>. QED BY <2>1, <2>2
<1>9. \A S \in SUBSET D : IsFiniteSet(Tokens(U, S)) /\ IsFiniteSet(Tokens(R, S)) /\ Total(U, S) \in Nat
  BY <1>1, <1>8, Granted, TotalFinite
<1>10. CounterExact'
  <2>1. Total(Q, D) = Total(R, D) /\ Tokens(Q, D) = Tokens(R, D)
    BY <1>8, TotalSame
  <2>2. IsFiniteSet(Tokens(Q, D)) /\ Q[w] \in Nat
    BY <1>3, <1>8, <1>9, <2>1
  <2>3. Total(Q, D \union {w}) = Total(Q, D) + Q[w]
    BY <1>2, <2>2, TotalAdd
  <2>4. reservedStorage' = Total(RequiredOf(granted'), DOMAIN granted')
    BY <1>1, <1>2, <1>3, <1>7, <1>8, <2>1, <2>3 DEF CounterExact
  <2>5. reservedStorage' + MinFree <= MaxInt64
    BY <1>2, <1>3, <1>4 DEF StorageTypeOK
  <2>. QED BY <2>4, <2>5 DEF CounterExact
<1>11. \A u \in DOMAIN granted' : granted'[u].unwritten <= granted'[u].required
  BY <1>1, <1>2, <1>3, <1>5 DEF StorageInv
<1>12. ASSUME NEW x \in Volume
       PROVE  Fits(x)'
  <2>1. PICK W : W = WritersOf(x)
    OBVIOUS
  <2>2. /\ W \in SUBSET D
        /\ WritersOf(x)' = IF x = v THEN W \union {w} ELSE W
    <3>1. WritersOf(x)' = {u \in D \union {w} : granted'[u].volume = x}
      BY <1>2 DEF WritersOf
    <3>2. W = {u \in D : granted[u].volume = x}
      BY <1>1, <2>1 DEF WritersOf
    <3>. QED BY <1>2, <1>5, <3>1, <3>2
  <2>3. Total(V, W) = Total(U, W) /\ Tokens(V, W) = Tokens(U, W)
    BY <1>8, <2>2, TotalSame
  <2>4. CASE x # v
    BY <1>2, <1>7, <2>1, <2>2, <2>3, <2>4 DEF StorageInv, Fits
  <2>5. CASE x = v
    <3>1. Total(V, W \union {w}) = Total(U, W) + n
      <4>1. IsFiniteSet(Tokens(V, W)) /\ V[w] = n /\ w \notin W /\ V[w] \in Nat
        BY <1>2, <1>3, <1>8, <1>9, <2>2, <2>3
      <4>2. Total(V, W \union {w}) = Total(V, W) + V[w]
        BY <4>1, TotalAdd
      <4>. QED BY <2>3, <4>1, <4>2
    <3>2. Total(U, W) <= reservedStorage
      <4>1. \A u \in W : U[u] \in Nat /\ R[u] \in Nat /\ U[u] <= R[u]
        BY <1>8, <2>2
      <4>2. Total(U, W) <= Total(R, D)
        BY <1>9, <2>2, <4>1, TotalMore
      <4>. QED BY <1>1, <1>3, <1>7, <4>2 DEF CounterExact
    <3>3. Total(U, W) \in Nat /\ reservedStorage \in Nat
      BY <1>3, <1>9, <2>2 DEF StorageTypeOK
    <3>4. Total(V, W \union {w}) + MinFree <= free[v] + lost[v]
      BY <1>3, <1>4, <3>1, <3>2, <3>3
    <3>. QED BY <1>2, <1>7, <2>2, <2>5, <3>4 DEF Fits
  <2>. QED BY <2>4, <2>5
<1>. QED BY <1>6, <1>10, <1>11, <1>12 DEF StorageInv


(* The byte comes off the sum and off the disk.                            *)
LEMMA WriteByteKeeps ==
  ASSUME StorageInv, NEW w \in DOMAIN granted, WriteByte(w)
  PROVE  StorageInv'
<1>1. PICK D, v : D = DOMAIN granted /\ v = granted[w].volume
  OBVIOUS
<1>2. /\ granted[w] \in Grant /\ granted[w].unwritten > 0 /\ v \in Volume
      /\ StorageTypeOK /\ CounterExact /\ MinFree \in Nat
  BY <1>1, Granted DEF WriteByte, StorageInv
<1>3. /\ DOMAIN granted' = D /\ UNCHANGED <<reservedStorage, lost>>
      /\ granted' = [u \in D |-> granted'[u]]
      /\ \A u \in D \ {w} : granted'[u] = granted[u]
      /\ free' = [free EXCEPT ![v] = free[v] - 1]
  BY <1>1 DEF WriteByte
<1>4. /\ granted'[w].volume = v /\ granted'[w].required = granted[w].required
      /\ granted'[w].unwritten = granted[w].unwritten - 1 /\ granted'[w] \in Grant
  <2>1. granted'[w] = [granted[w] EXCEPT !.unwritten = granted[w].unwritten - 1]
    BY <1>1 DEF WriteByte
  <2>. QED BY <1>1, <1>2, <2>1 DEF Grant
<1>5. StorageTypeOK'
  <2>1. granted' \in [D -> Grant]
    BY <1>1, <1>2, <1>3, <1>4 DEF StorageTypeOK
  <2>2. free' \in [Volume -> Int]
    BY <1>2, <1>3 DEF StorageTypeOK
  <2>. QED BY <1>1, <1>2, <1>3, <2>1, <2>2 DEF StorageTypeOK
<1>6. PICK R, U, Q, V : /\ R = RequiredOf(granted) /\ U = UnwrittenOf(granted)
                        /\ Q = RequiredOf(granted') /\ V = UnwrittenOf(granted')
  OBVIOUS
<1>7. /\ \A u \in D : R[u] \in Nat /\ U[u] \in Nat /\ Q[u] = R[u] /\ V[u] \in Nat
      /\ \A u \in D \ {w} : V[u] = U[u]
      /\ V[w] = U[w] - 1
  <2>1. \A u \in D : Q[u] = granted'[u].required /\ V[u] = granted'[u].unwritten
    BY <1>3, <1>6 DEF RequiredOf, UnwrittenOf
  <2>2. \A u \in D : /\ R[u] = granted[u].required /\ U[u] = granted[u].unwritten
                     /\ R[u] \in Nat /\ U[u] \in Nat
    BY <1>1, <1>6, Granted
  <2>3. w \in D /\ granted'[w].unwritten \in Nat
    BY <1>1, <1>4 DEF Grant
  <2>. QED BY <1>3, <1>4, <2>1, <2>2, <2>3
<1>8. CounterExact'
  <2>1. Total(Q, D) = Total(R, D)
    BY <1>7, TotalSame
  <2>. QED BY <1>1, <1>2, <1>3, <1>6, <2>1 DEF CounterExact
<1>9. \A u \in DOMAIN granted' : granted'[u].unwritten <= granted'[u].required
  <2>1. ASSUME NEW u \in D
        PROVE  granted'[u].unwritten <= granted'[u].required
    <3>1. granted[u].unwritten <= granted[u].required /\ granted[u].unwritten \in Nat
      BY <1>1, <2>1, Granted DEF StorageInv
    <3>2. granted[u].required \in Nat
      BY <1>1, <2>1, Granted
    <3>. QED BY <1>3, <1>4, <2>1, <3>1, <3>2
  <2>. QED BY <1>3, <2>1
<1>10. ASSUME NEW x \in Volume
       PROVE  Fits(x)'
  <2>1. PICK W : W = WritersOf(x)
    OBVIOUS
  <2>2. W \in SUBSET D /\ WritersOf(x)' = W /\ (w \in W <=> x = v)
    <3>1. WritersOf(x)' = {u \in D : granted'[u].volume = x}
      BY <1>3 DEF WritersOf
    <3>2. W = {u \in D : granted[u].volume = x}
      BY <1>1, <2>1 DEF WritersOf
    <3>. QED BY <1>1, <1>3, <1>4, <3>1, <3>2
  <2>3. CASE x # v
    <3>1. Total(V, W) = Total(U, W)
      <4>1. \A u \in W : V[u] = U[u]
        BY <1>7, <2>2, <2>3
      <4>. QED BY <4>1, TotalSame
    <3>2. free'[x] = free[x] /\ lost'[x] = lost[x]
      BY <1>2, <1>3, <2>3 DEF StorageTypeOK
    <3>. QED BY <1>6, <2>1, <2>2, <3>1, <3>2 DEF StorageInv, Fits
  <2>4. CASE x = v
    <3>1. IsFiniteSet(W) /\ w \in W /\ W \ {w} \in SUBSET W
      BY <1>1, <2>2, <2>4, Granted
    <3>2. \A u \in W : U[u] \in Nat /\ V[u] \in Nat
      BY <1>7, <2>2
    <3>3. Total(U, W) = Total(U, W \ {w}) + U[w] /\ Total(V, W) = Total(V, W \ {w}) + V[w]
      BY <3>1, <3>2, TotalRemove
    <3>4. Total(V, W \ {w}) = Total(U, W \ {w})
      <4>1. \A u \in W \ {w} : V[u] = U[u]
        BY <1>7, <2>2
      <4>. QED BY <4>1, TotalSame
    <3>5. Total(U, W \ {w}) \in Nat
      <4>1. IsFiniteSet(W \ {w}) /\ \A u \in W \ {w} : U[u] \in Nat
        BY <3>1, <3>2, FS_RemoveElement
      <4>. QED BY <4>1, TotalFinite
    <3>6. U[w] \in Nat
      BY <3>1, <3>2
    <3>7. Total(U, W) + MinFree <= free[x] + lost[x]
      BY <1>6, <2>1, <3>1 DEF StorageInv, Fits
    <3>8. free'[x] = free[x] - 1 /\ lost'[x] = lost[x] /\ free[x] \in Int /\ lost[x] \in Nat
      BY <1>2, <1>3, <2>4 DEF StorageTypeOK
    <3>9. Total(V, W) + MinFree <= free'[x] + lost'[x]
      BY <1>2, <1>7, <3>3, <3>4, <3>5, <3>6, <3>7, <3>8
    <3>. QED BY <1>6, <2>2, <3>9 DEF Fits
  <2>. QED BY <2>3, <2>4
<1>. QED BY <1>5, <1>8, <1>9, <1>10 DEF StorageInv

(* What remains of the counter is what the others reserved.                *)
LEMMA ReleaseKeeps ==
  ASSUME StorageInv, NEW w \in DOMAIN granted, ReleaseStorage(w)
  PROVE  StorageInv'
<1>1. PICK D, v : D = DOMAIN granted /\ v = granted[w].volume
  OBVIOUS
<1>2. /\ granted[w].required \in Nat /\ v \in Volume
      /\ StorageTypeOK /\ CounterExact /\ MinFree \in Nat /\ MaxInt64 \in Nat
  BY <1>1, Granted DEF StorageInv
<1>3. /\ DOMAIN granted' = D \ {w} /\ UNCHANGED free
      /\ granted' = [u \in D \ {w} |-> granted'[u]]
      /\ \A u \in D \ {w} : granted'[u] = granted[u]
      /\ reservedStorage' = reservedStorage - granted[w].required
      /\ lost' = [lost EXCEPT ![v] = IF WritersOf(v) = {w} THEN 0 ELSE lost[v]]
  BY <1>1 DEF ReleaseStorage, Restrict
<1>4. PICK R, U, Q, V : /\ R = RequiredOf(granted) /\ U = UnwrittenOf(granted)
                        /\ Q = RequiredOf(granted') /\ V = UnwrittenOf(granted')
  OBVIOUS
<1>5. /\ \A u \in D : R[u] \in Nat /\ U[u] \in Nat
      /\ \A u \in D \ {w} : Q[u] = R[u] /\ V[u] = U[u]
      /\ R[w] = granted[w].required
  <2>1. \A u \in D \ {w} : Q[u] = granted'[u].required /\ V[u] = granted'[u].unwritten
    BY <1>3, <1>4 DEF RequiredOf, UnwrittenOf
  <2>2. \A u \in D : /\ R[u] = granted[u].required /\ U[u] = granted[u].unwritten
                     /\ R[u] \in Nat /\ U[u] \in Nat
    BY <1>1, <1>4, Granted
  <2>. QED BY <1>1, <1>3, <2>1, <2>2
<1>6. IsFiniteSet(D) /\ IsFiniteSet(D \ {w}) /\ w \in D
  BY <1>1, Granted
<1>7. /\ Total(R, D) = Total(R, D \ {w}) + R[w] /\ Total(R, D \ {w}) \in Nat
      /\ Total(Q, D \ {w}) = Total(R, D \ {w})
  <2>1. Total(R, D) = Total(R, D \ {w}) + R[w]
    BY <1>5, <1>6, TotalRemove
  <2>2. Total(R, D \ {w}) \in Nat
    <3>1. \A u \in D \ {w} : R[u] \in Nat
      BY <1>5
    <3>. QED BY <1>6, <3>1, TotalFinite
  <2>3. Total(Q, D \ {w}) = Total(R, D \ {w})
    BY <1>5, TotalSame
  <2>. QED BY <2>1, <2>2, <2>3
<1>8. /\ reservedStorage' = Total(Q, D \ {w}) /\ reservedStorage' \in Nat
      /\ reservedStorage' <= reservedStorage /\ reservedStorage \in Nat
  BY <1>1, <1>2, <1>3, <1>4, <1>5, <1>7 DEF CounterExact, StorageTypeOK
<1>9. StorageTypeOK'
  <2>1. granted' \in [D \ {w} -> Grant]
    BY <1>1, <1>2, <1>3 DEF StorageTypeOK
  <2>2. lost' \in [Volume -> Nat]
    BY <1>2, <1>3 DEF StorageTypeOK
  <2>. QED BY <1>2, <1>3, <1>6, <1>8, <2>1, <2>2 DEF StorageTypeOK
<1>10. CounterExact'
  <2>1. reservedStorage' = 0 \/ reservedStorage' + MinFree <= MaxInt64
    BY <1>2, <1>8 DEF CounterExact
  <2>. QED BY <1>3, <1>4, <1>8, <2>1 DEF CounterExact
<1>11. \A u \in DOMAIN granted' : granted'[u].unwritten <= granted'[u].required
  BY <1>1, <1>3 DEF StorageInv
<1>12. ASSUME NEW x \in Volume
       PROVE  Fits(x)'
  <2>1. PICK W : W = WritersOf(x)
    OBVIOUS
  <2>2. W \in SUBSET D /\ WritersOf(x)' = W \ {w} /\ (w \in W <=> x = v)
    <3>1. WritersOf(x)' = {u \in D \ {w} : granted'[u].volume = x}
      BY <1>3 DEF WritersOf
    <3>2. W = {u \in D : granted[u].volume = x}
      BY <1>1, <2>1 DEF WritersOf
    <3>. QED BY <1>1, <1>3, <1>6, <3>1, <3>2
  <2>3. SUFFICES ASSUME W \ {w} # {}
                 PROVE  Total(V, W \ {w}) + MinFree <= free'[x] + lost'[x]
    BY <1>4, <2>2 DEF Fits
  <2>4. free'[x] = free[x] /\ lost'[x] = lost[x] /\ free[x] \in Int /\ lost[x] \in Nat
    <3>1. lost'[x] = lost[x]
      <4>1. CASE x = v
        BY <1>2, <1>3, <2>1, <2>3, <4>1 DEF StorageTypeOK
      <4>2. CASE x # v
        BY <1>2, <1>3, <4>2 DEF StorageTypeOK
      <4>. QED BY <4>1, <4>2
    <3>. QED BY <1>2, <1>3, <3>1 DEF StorageTypeOK
  <2>5. Total(V, W \ {w}) = Total(U, W \ {w})
    <3>1. \A u \in W \ {w} : V[u] = U[u]
      BY <1>5, <2>2
    <3>. QED BY <3>1, TotalSame
  <2>6. Total(U, W \ {w}) <= Total(U, W) /\ Total(U, W) \in Nat /\ Total(U, W \ {w}) \in Nat
    <3>1. \A u \in W : U[u] \in Nat
      BY <1>5, <2>2
    <3>2. IsFiniteSet(W) /\ IsFiniteSet(W \ {w})
      BY <1>1, <2>2, Granted
    <3>3. Total(U, W) \in Nat /\ IsFiniteSet(Tokens(U, W))
      BY <3>1, <3>2, TotalFinite
    <3>4. Total(U, W \ {w}) \in Nat
      <4>1. \A u \in W \ {w} : U[u] \in Nat
        BY <3>1
      <4>. QED BY <3>2, <4>1, TotalFinite
    <3>5. W \ {w} \in SUBSET W /\ \A u \in W \ {w} : U[u] \in Nat /\ U[u] <= U[u]
      BY <3>1
    <3>6. Total(U, W \ {w}) <= Total(U, W)
      BY <3>3, <3>5, TotalMore
    <3>. QED BY <3>3, <3>4, <3>6
  <2>7. Total(U, W) + MinFree <= free[x] + lost[x]
    BY <1>4, <2>1, <2>3 DEF StorageInv, Fits
  <2>. QED BY <1>2, <2>4, <2>5, <2>6, <2>7
<1>. QED BY <1>9, <1>10, <1>11, <1>12 DEF StorageInv

(* Only the disk changes under the writers.                                *)
LEMMA DiskKeeps ==
  ASSUME StorageInv, NEW v \in Volume, Reclaim(v) \/ OtherUse(v)
  PROVE  StorageInv'
<1>1. StorageTypeOK /\ UNCHANGED <<reservedStorage, granted>> /\ MinFree \in Nat
  BY StorageAssumption DEF StorageInv, Reclaim, OtherUse
<1>2. /\ free' \in [Volume -> Int] /\ lost' \in [Volume -> Nat]
      /\ \A x \in Volume : WritersOf(x) # {} => free'[x] + lost'[x] >= free[x] + lost[x]
  <2>1. CASE Reclaim(v)
    BY <1>1, <2>1 DEF StorageTypeOK, Reclaim
  <2>2. CASE OtherUse(v)
    BY <1>1, <2>2 DEF StorageTypeOK, OtherUse
  <2>. QED BY <2>1, <2>2
<1>3. /\ UNCHANGED <<RequiredOf(granted), UnwrittenOf(granted), DOMAIN granted>>
      /\ \A x : WritersOf(x)' = WritersOf(x)
  BY <1>1 DEF WritersOf
<1>4. StorageTypeOK'
  BY <1>1, <1>2 DEF StorageTypeOK
<1>5. CounterExact'
  BY <1>1 DEF StorageInv, CounterExact
<1>6. ASSUME NEW x \in Volume
      PROVE  Fits(x)'
  <2>1. PICK W, sum : W = WritersOf(x) /\ sum = Total(UnwrittenOf(granted), W)
    OBVIOUS
  <2>2. W # {} => sum + MinFree <= free[x] + lost[x]
    BY <2>1 DEF StorageInv, Fits
  <2>3. sum \in Nat
    <3>1. IsFiniteSet(W) /\ \A u \in W : UnwrittenOf(granted)[u] \in Nat
      BY <2>1, Granted
    <3>. QED BY <2>1, <3>1, TotalFinite
  <2>4. free[x] \in Int /\ lost[x] \in Int /\ free'[x] \in Int /\ lost'[x] \in Int
    BY <1>1, <1>2 DEF StorageTypeOK
  <2>5. W # {} => sum + MinFree <= free'[x] + lost'[x]
    BY <1>1, <1>2, <2>1, <2>2, <2>3, <2>4
  <2>6. WritersOf(x)' = W /\ Total(UnwrittenOf(granted'), W) = sum
    BY <1>1, <1>3, <2>1
  <2>. QED BY <2>5, <2>6 DEF Fits
<1>7. \A u \in DOMAIN granted' : granted'[u].unwritten <= granted'[u].required
  BY <1>1 DEF StorageInv
<1>. QED BY <1>4, <1>5, <1>6, <1>7 DEF StorageInv

LEMMA StorageInvariant == StorageSpec => []StorageInv
<1>1. StorageInv /\ [StorageNext]_storageVars => StorageInv'
  <2>. SUFFICES ASSUME StorageInv, [StorageNext]_storageVars
                PROVE  StorageInv'
    OBVIOUS
  <2>1. ASSUME NEW w \in Writer, NEW v \in Volume, NEW n \in Size, Reserve(w, v, n)
        PROVE  StorageInv'
    BY <2>1, ReserveKeeps
  <2>2. ASSUME NEW w \in DOMAIN granted, WriteByte(w)
        PROVE  StorageInv'
    BY <2>2, WriteByteKeeps
  <2>3. ASSUME NEW w \in DOMAIN granted, ReleaseStorage(w)
        PROVE  StorageInv'
    BY <2>3, ReleaseKeeps
  <2>4. ASSUME NEW v \in Volume, Reclaim(v) \/ OtherUse(v)
        PROVE  StorageInv'
    BY <2>4, DiskKeeps
  <2>5. CASE UNCHANGED storageVars
    BY <2>5 DEF StorageInv, StorageTypeOK, CounterExact, Fits, WritersOf, storageVars
  <2>. QED BY <2>1, <2>2, <2>3, <2>4, <2>5 DEF StorageNext
<1>. QED BY <1>1, StorageStarts, PTL DEF StorageSpec

(* What the writers of a volume were granted and have not written fits on  *)
(* it above the reserve, and reservedStorage is the sum of what is         *)
(* reserved: reserveStorage's sum of three never wraps past its own check, *)
(* a release takes off exactly what its grant put on, and the one counter  *)
(* for all volumes errs only towards refusing.                             *)
THEOREM Affordable == StorageSpec => []NoOvercommit
<1>1. StorageInv => NoOvercommit
  <2>. SUFFICES ASSUME StorageInv
                PROVE  NoOvercommit
    OBVIOUS
  <2>1. MapThenSumSet(LAMBDA w : granted[w].required, DOMAIN granted)
          = Total(RequiredOf(granted), DOMAIN granted)
    <3>1. /\ IsFiniteSet(DOMAIN granted)
          /\ \A x \in DOMAIN granted : /\ RequiredOf(granted)[x] \in Nat
                                       /\ RequiredOf(granted)[x] = granted[x].required
      BY Granted
    <3>2. RequiredSum(granted, DOMAIN granted) = Total(RequiredOf(granted), DOMAIN granted)
      BY <3>1, SumOfRequired
    <3>. QED BY <3>2 DEF RequiredSum, MapThenSumSet, MapThenFoldSet, First
  <2>2. ASSUME NEW v \in Volume
        PROVE  MapThenSumSet(LAMBDA w : granted[w].unwritten, WritersOf(v))
                 = Total(UnwrittenOf(granted), WritersOf(v))
    <3>1. /\ IsFiniteSet(WritersOf(v))
          /\ \A x \in WritersOf(v) : /\ UnwrittenOf(granted)[x] \in Nat
                                     /\ UnwrittenOf(granted)[x] = granted[x].unwritten
      BY Granted
    <3>2. UnwrittenSum(granted, WritersOf(v)) = Total(UnwrittenOf(granted), WritersOf(v))
      BY <3>1, SumOfUnwritten
    <3>. QED BY <3>2 DEF UnwrittenSum, MapThenSumSet, MapThenFoldSet, First
  <2>. QED BY <2>1, <2>2 DEF NoOvercommit, StorageInv, CounterExact, Fits
<1>. QED BY <1>1, StorageInvariant, PTL

-------------------------------------------------------------------------------
(* Advertiser, for any number of advertisers: what a listener knows of the *)
(* advertiser that runs comes from nobody else, because only its socket is *)
(* open.                                                                   *)

AdvertTypeOK ==
  /\ program \in {"cli", "desktop"} /\ leaving \in BOOLEAN /\ heard \in BOOLEAN
  /\ mdns \in Advert \union {Nil} /\ cache \in Advert \union {Nil}
  /\ conn \subseteq Advert

(* Only the advertiser held has a socket, and not after Close closed it;   *)
(* none is held where the next one is started.                             *)
Owned ==
  /\ conn \subseteq {mdns}
  /\ main = "off" \/ main = "start" => mdns = Nil
  /\ main = "listen" /\ program = "desktop" => mdns = Nil
  /\ main = "wait" => conn = {}

AdvertInv == AdvertTypeOK /\ Owned /\ SuccessorHeard

LEMMA NilIsNone == Nil \notin Advert
BY AdvertiserAssumption DEF Nil

LEMMA AdvertInitial == AdvertInit => AdvertInv
BY DEF AdvertInit, AdvertInv, AdvertTypeOK, Owned, SuccessorHeard

(* Whoever sends is the advertiser held. *)
LEMMA SendKept ==
  ASSUME AdvertInv, NEW g \in Advert, Send(g)
  PROVE  /\ heard' \in BOOLEAN /\ cache' \in Advert \union {Nil}
         /\ mdns # Nil /\ heard' => cache' = mdns
<1>1. CASE g \in conn /\ cache' = g /\ heard' = (heard \/ g = mdns)
  <2>1. g = mdns
    BY <1>1 DEF AdvertInv, Owned
  <2>2. heard' \in BOOLEAN
    BY <1>1, Zenon
  <2>3. QED
    BY <1>1, <2>1, <2>2
<1>2. CASE UNCHANGED <<cache, heard>>
  BY <1>2 DEF AdvertInv, AdvertTypeOK, SuccessorHeard
<1>3. QED
  BY <1>1, <1>2 DEF Send

LEMMA ResponderKept ==
  ASSUME AdvertInv, NEW g \in Advert, Responder(g) \/ AnnounceAgain(g)
  PROVE  AdvertInv'
<1>1. CASE Announce(g)
  BY <1>1, SendKept DEF Announce, Step, AdvertInv, AdvertTypeOK, Owned, SuccessorHeard
<1>2. CASE Respond(g)
  BY <1>2, SendKept DEF Respond, Step, AdvertInv, AdvertTypeOK, Owned, SuccessorHeard
<1>3. CASE Read(g) \/ CheckStop(g) \/ AnnounceAgain(g)
  BY <1>3 DEF Read, CheckStop, AnnounceAgain, Step, AdvertInv, AdvertTypeOK, Owned, SuccessorHeard
<1>4. QED
  BY <1>1, <1>2, <1>3 DEF Responder

LEMMA OwnerKept ==
  ASSUME AdvertInv, Owner
  PROVE  AdvertInv'
<1> USE DEF AdvertInv, AdvertTypeOK, Owned, SuccessorHeard
<1>1. CASE StartAdvertiser
  BY <1>1, NilIsNone DEF StartAdvertiser
<1>2. CASE Listen \/ Drain
  BY <1>2 DEF Listen, Drain
<1>3. CASE Goodbye
  <2>1. CASE mdns \in conn /\ cache' = Nil /\ heard' = FALSE
    BY <1>3, <2>1 DEF Goodbye
  <2>2. CASE UNCHANGED <<cache, heard>>
    BY <1>3, <2>2 DEF Goodbye
  <2>3. QED
    BY <1>3, <2>1, <2>2 DEF Goodbye
<1>4. CASE CloseStop
  BY <1>4 DEF CloseStop
<1>5. CASE CloseConn
  BY <1>5 DEF CloseConn
<1>6. CASE AwaitDone
  BY <1>6 DEF AwaitDone
<1>7. QED
  BY <1>1, <1>2, <1>3, <1>4, <1>5, <1>6 DEF Owner

LEMMA AdvertStep == AdvertInv /\ [AdvertNext]_advertVars => AdvertInv'
<1> SUFFICES ASSUME AdvertInv, [AdvertNext]_advertVars PROVE AdvertInv'
  OBVIOUS
<1>1. CASE \E g \in Advert : Responder(g) \/ AnnounceAgain(g)
  BY <1>1, ResponderKept
<1>2. CASE Owner
  BY <1>2, OwnerKept
<1>3. CASE Launch \/ ChangeAdapter \/ Quit \/ Die \/ Forgets
  <2> USE DEF AdvertInv, AdvertTypeOK, Owned, SuccessorHeard
  <2>1. CASE Launch
    BY <2>1 DEF Launch
  <2>2. CASE ChangeAdapter
    BY <2>2 DEF ChangeAdapter
  <2>3. CASE Quit
    BY <2>3 DEF Quit
  <2>4. CASE Die
    BY <2>4 DEF Die
  <2>5. CASE Forgets
    BY <2>5 DEF Forgets
  <2>6. QED
    BY <1>3, <2>1, <2>2, <2>3, <2>4, <2>5
<1>4. CASE UNCHANGED advertVars
  BY <1>4 DEF advertVars, AdvertInv, AdvertTypeOK, Owned, SuccessorHeard
<1>5. QED
  BY <1>1, <1>2, <1>3, <1>4 DEF AdvertNext

(* However many advertisers succeed one another, what a listener heard of  *)
(* the one that runs stays what it knows until that one takes it back.     *)
THEOREM Successor == AdvertSpec => []SuccessorHeard
<1>1. AdvertInv => SuccessorHeard
  BY DEF AdvertInv
<1>2. QED
  BY <1>1, AdvertInitial, AdvertStep, PTL DEF AdvertSpec

===============================================================================
