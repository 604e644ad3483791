-------------------------------- MODULE Storage --------------------------------
(***************************************************************************)
(* Storage reservations of concurrent writers (core/server/upload.go:      *)
(* reserveStorage and the release function it returns).  A chunk handler   *)
(* reserves the size of its chunk, a completion the size of the file; each *)
(* writes at most that much to its directory's volume and gives the        *)
(* reservation back when it returns.                                       *)
(*                                                                         *)
(* reservedStorage is one counter for all volumes, under storageMu, which  *)
(* a call holds from the probe of the disk to the grant: a call is one     *)
(* action.  Sums are int64 and wrap.                                       *)
(***************************************************************************)
EXTENDS Integers, FiniteSetsExt, Functions

CONSTANTS
  Writer,      \* goroutines that reserve
  Volume,      \* file systems that upload directories are on
  Size,        \* sizes that are asked for
  MinFree,     \* minFreeDiskReserve
  Capacity,    \* bound: bytes a volume may have free
  MaxLost,     \* bound: bytes other programs take while writers have reservations
  MaxInt64     \* the largest int64

(* A request and the reserve are small against the range of int64, so that *)
(* a sum of three wraps at most once: 20 GiB and 64 MiB against 2^63.      *)
ASSUME StorageAssumption ==
  /\ Size \subseteq Nat /\ MinFree \in Nat /\ MaxInt64 \in Nat
  /\ \A n \in Size : n + MinFree <= MaxInt64
  /\ Capacity \in 0..(2 * MaxInt64 + 1) /\ MaxLost \in Nat

VARIABLES
  free,             \* free[v]: bytes that the probe of v would report
  reservedStorage,  \* Server.reservedStorage
  granted,          \* granted[w]: what w has reserved and not released: the volume,
                    \* the size, and how much of it is not on disk yet
  lost              \* history: lost[v]: bytes other programs took from v while
                    \* writers of v had reservations

storageVars == <<free, reservedStorage, granted, lost>>

Int64(n) == IF n > MaxInt64 THEN n - 2 * (MaxInt64 + 1) ELSE n
Uint64(n) == n % (2 * (MaxInt64 + 1))

WritersOf(v) == {w \in DOMAIN granted : granted[w].volume = v}

StorageInit ==
  /\ free \in [Volume -> 0..Capacity]
  /\ reservedStorage = 0
  /\ granted = [w \in {} |-> 0]
  /\ lost = [v \in Volume |-> 0]

(* What others have reserved is forgotten. *)
Grants_Alone(available, n) == available >= Uint64(Int64(n + MinFree))

(* Whether n bytes on top of everything reserved leave the reserve free of *)
(* what the probe found                                                    *)
Grants(available, n) ==
  LET requiredWithReserve == Int64(n + reservedStorage + MinFree)
  IN  requiredWithReserve >= n /\ available >= Uint64(requiredWithReserve)

(* reserveStorage that grants; a refusal or a failing probe changes nothing *)
Reserve(w, v, n) ==
  /\ w \notin DOMAIN granted
  /\ Grants(free[v], n)
  /\ reservedStorage' = reservedStorage + n
  /\ granted' = [u \in DOMAIN granted \union {w} |->
                   IF u = w THEN [volume |-> v, required |-> n, unwritten |-> n]
                            ELSE granted[u]]
  /\ UNCHANGED <<free, lost>>

(* io.Copy puts the next byte on disk. *)
WriteByte(w) ==
  /\ granted[w].unwritten > 0
  /\ granted' = [granted EXCEPT ![w].unwritten = @ - 1]
  /\ free' = [free EXCEPT ![granted[w].volume] = @ - 1]
  /\ UNCHANGED <<reservedStorage, lost>>

(* The handler returns, having written all or failed before. *)
ReleaseStorage(w) ==
  LET v == granted[w].volume
  IN  /\ reservedStorage' = reservedStorage - granted[w].required
      /\ granted' = Restrict(granted, DOMAIN granted \ {w})
      /\ lost' = [lost EXCEPT ![v] = IF WritersOf(v) = {w} THEN 0 ELSE @]
      /\ UNCHANGED free

(* Files are removed, by the server or by somebody else. *)
Reclaim(v) ==
  /\ free[v] < Capacity
  /\ free' = [free EXCEPT ![v] = @ + 1]
  /\ UNCHANGED <<reservedStorage, granted, lost>>

(* Another program writes to v. *)
OtherUse(v) ==
  /\ free[v] > 0 /\ lost[v] < MaxLost
  /\ free' = [free EXCEPT ![v] = @ - 1]
  /\ lost' = [lost EXCEPT ![v] = IF WritersOf(v) = {} THEN 0 ELSE @ + 1]
  /\ UNCHANGED <<reservedStorage, granted>>

StorageNext ==
  \/ \E w \in Writer, v \in Volume, n \in Size : Reserve(w, v, n)
  \/ \E w \in DOMAIN granted : WriteByte(w) \/ ReleaseStorage(w)
  \/ \E v \in Volume : Reclaim(v) \/ OtherUse(v)

StorageSpec == StorageInit /\ [][StorageNext]_storageVars

-------------------------------------------------------------------------------
(* Properties *)

(* What writers were granted and have not written yet fits on their        *)
(* volume above the reserve, but for what other programs took meanwhile:   *)
(* however many handlers write at once, on however many volumes, none of   *)
(* them runs the disk full.  The counter is what all writers reserved.     *)
NoOvercommit ==
  /\ reservedStorage = MapThenSumSet(LAMBDA w : granted[w].required, DOMAIN granted)
  /\ \A v \in Volume : WritersOf(v) # {} =>
       MapThenSumSet(LAMBDA w : granted[w].unwritten, WritersOf(v)) + MinFree <= free[v] + lost[v]

===============================================================================
