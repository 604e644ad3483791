---------------------------------- MODULE Auth ----------------------------------
(***************************************************************************)
(* PIN attempts and sessions (core/server/config.go: CheckPINAttempt,      *)
(* CreateSession, ValidSession) as the handlers use them                   *)
(* (core/server/handler.go): POST /api/auth and the link of the QR code    *)
(* compare a PIN and then mint a session; authMiddleware accepts a session *)
(* or else compares the PIN of the request.  The PIN is not empty.         *)
(*                                                                         *)
(* CheckPINAttempt holds authMu and CreateSession holds mu throughout, so  *)
(* each is one action; the clock moves between actions.  An address whose  *)
(* entry is not in authFails behaves as one with the zero entry: both are  *)
(* [count |-> 0, lockedUntil |-> 0].  The zero time is 0, before any now.  *)
(***************************************************************************)
EXTENDS Integers, Sequences

CONSTANTS
  Address,      \* addresses that requests come from
  Token,        \* session tokens
  MaxFailures,  \* authMaxFailures
  LockDuration, \* authLockDuration
  SessionTTL,   \* sessionTTL
  Clock         \* bound: times

ASSUME AuthAssumption ==
  /\ Clock \subseteq Nat \ {0}
  /\ MaxFailures \in Nat \ {0}
  /\ LockDuration \in Nat
  /\ SessionTTL \in Nat \ {0}

VARIABLES
  now,        \* time.Now()
  authFails,  \* wrong PINs in a row and end of the lockout of each address
  admitted,   \* tokens of requests whose PIN was right, not yet minted
  sessions,   \* sessions[t]: expiry of the session t, 0 when there is none
  wrong,      \* history: times at which wrong PINs of an address were
              \* compared since its last right one
  minted      \* history: minted[t]: when the session t was handed out, or 0

authVars == <<now, authFails, admitted, sessions, wrong, minted>>

NoFails == [count |-> 0, lockedUntil |-> 0]

AuthInit ==
  /\ now \in Clock
  /\ authFails = [a \in Address |-> NoFails]
  /\ admitted = {}
  /\ sessions = [t \in Token |-> 0]
  /\ wrong = [a \in Address |-> <<>>]
  /\ minted = [t \in Token |-> 0]

Tick ==
  /\ now' \in Clock /\ now' > now
  /\ UNCHANGED <<authFails, admitted, sessions, wrong, minted>>

-------------------------------------------------------------------------------
(* CheckPINAttempt.  An attempt under lockout is refused unseen.           *)

Locked(a) == now < authFails[a].lockedUntil

Failed_OffByOne(fails) ==
  IF fails.count + 1 > MaxFailures
    THEN [count |-> 0, lockedUntil |-> now + LockDuration]
    ELSE [count |-> fails.count + 1, lockedUntil |-> 0]

Failed(fails) ==
  IF fails.count + 1 >= MaxFailures
    THEN [count |-> 0, lockedUntil |-> now + LockDuration]
    ELSE [count |-> fails.count + 1, lockedUntil |-> 0]

WrongPIN(a) ==
  /\ ~ Locked(a)
  /\ authFails' = [authFails EXCEPT ![a] = Failed(@)]
  /\ wrong' = [wrong EXCEPT ![a] = Append(@, now)]
  /\ UNCHANGED <<now, admitted, sessions, minted>>

(* T is the token that the handler is about to mint; a request that brings *)
(* its PIN along mints none.                                               *)
RightPIN(a, T) ==
  /\ ~ Locked(a)
  /\ authFails' = [authFails EXCEPT ![a] = NoFails]
  /\ wrong' = [wrong EXCEPT ![a] = <<>>]
  /\ admitted' = admitted \union T
  /\ UNCHANGED <<now, sessions, minted>>

Fresh(t) == t \notin admitted /\ minted[t] = 0 /\ sessions[t] = 0

-------------------------------------------------------------------------------
(* Sessions *)

(* The sweep takes the live sessions. *)
Kept_Reversed(u) == IF now < sessions[u] THEN 0 ELSE sessions[u]

(* What is left of the other sessions after the sweep *)
Kept(u) == IF now > sessions[u] THEN 0 ELSE sessions[u]

CreateSession(t) ==
  /\ t \in admitted
  /\ admitted' = admitted \ {t}
  /\ sessions' = [u \in Token |-> IF u = t THEN now + SessionTTL ELSE Kept(u)]
  /\ minted' = [minted EXCEPT ![t] = now]
  /\ UNCHANGED <<now, authFails, wrong>>

(* rand.Read fails: the client gets a token that no session is kept for.   *)
CreateSessionFails(t) ==
  /\ t \in admitted
  /\ admitted' = admitted \ {t}
  /\ UNCHANGED <<now, authFails, sessions, wrong, minted>>

ValidSession(t) == now < sessions[t]

(* The server dies and starts again: both tables are only in memory.       *)
RestartServer ==
  /\ authFails' = [a \in Address |-> NoFails]
  /\ admitted' = {}
  /\ sessions' = [t \in Token |-> 0]
  /\ wrong' = [a \in Address |-> <<>>]
  /\ minted' = [t \in Token |-> 0]
  /\ UNCHANGED now

AuthNext ==
  \/ Tick \/ RestartServer
  \/ \E a \in Address :
       \/ WrongPIN(a) \/ RightPIN(a, {})
       \/ \E t \in Token : Fresh(t) /\ RightPIN(a, {t})
  \/ \E t \in Token : CreateSession(t) \/ CreateSessionFails(t)

AuthSpec == AuthInit /\ [][AuthNext]_authVars

-------------------------------------------------------------------------------
(* Properties *)

AuthTypeOK ==
  /\ now \in Nat \ {0}
  /\ authFails \in [Address -> [count : Nat, lockedUntil : Nat]]
  /\ admitted \subseteq Token
  /\ sessions \in [Token -> Nat]
  /\ wrong \in [Address -> Seq(Nat)]
  /\ minted \in [Token -> Nat]

(* However the requests of an address are spread over handlers and time,   *)
(* of any MaxFailures + 1 wrong PINs compared for it in a row the last     *)
(* comes at least LockDuration after the first.                            *)
GuessesSpaced ==
  \A a \in Address : \A i \in 1..Len(wrong[a]) - MaxFailures :
    wrong[a][i + MaxFailures] - wrong[a][i] >= LockDuration

(* A session is honoured exactly from when it is handed out until its      *)
(* time is over, whoever else logs in and sweeps the table meanwhile.      *)
SessionExact ==
  \A t \in Token : ValidSession(t) <=> minted[t] > 0 /\ now < minted[t] + SessionTTL

===============================================================================
