------------------------------ MODULE NsdDiscovery ------------------------------
(***************************************************************************)
(* The Android app's search for servers (LanDropNsdDiscovery in            *)
(* android/.../局域网发现.kt): discovery that is started, stopped and      *)
(* restarted (MainActivity says when), and Android's resolver, which takes *)
(* one request at a time and cannot be told to give one up.                *)
(*                                                                         *)
(* Everything runs on the main thread; callbacks of NsdManager are posted  *)
(* to it and handled in order.  queuedServiceNames is written and never    *)
(* read, and is left out, as are the status texts.                         *)
(***************************************************************************)
EXTENDS Integers, Sequences, FiniteSets

CONSTANTS
  Service,        \* service names
  MaxSearches,    \* bound: values of generation
  MaxResolves,    \* bound: values of resolveToken
  MaxPosts        \* bound: callbacks posted and not yet handled

ASSUME NsdDiscoveryAssumption ==
  MaxSearches \in Nat /\ MaxResolves \in Nat /\ MaxPosts \in Nat

VARIABLES
  discoveryListener,    \* there is one; it is that of this generation
  generation,
  pendingResolutions, activeServiceNames,
  serversByName,        \* the servers shown: <<name, generation of the request>>
  resolving, resolveToken,
  posts,                \* the main thread's queue
  reported,             \* external: services the listener was told of
  requests,             \* external: resolve requests without an answer
  timeouts,             \* tokens whose timeout is still to run
  restarts,             \* generations whose delayed start is still to run
  refused               \* history: the search last started, and not stopped, failed

tables == <<pendingResolutions, activeServiceNames, serversByName>>
resolver == <<resolving, resolveToken, requests, timeouts>>
nsdVars == <<discoveryListener, generation, tables, resolver, posts, reported, restarts, refused>>

NsdInit ==
  /\ discoveryListener = FALSE /\ generation = 0
  /\ pendingResolutions = <<>> /\ activeServiceNames = {} /\ serversByName = {}
  /\ resolving = FALSE /\ resolveToken = 0
  /\ posts = <<>> /\ reported = {} /\ requests = {}
  /\ timeouts = {} /\ restarts = {} /\ refused = FALSE

(* Any answer ends the request under way. *)
Awaited_Any(token) == resolving

Awaited(token) == resolving /\ resolveToken = token

(* An answer to a request from before a restart is used. *)
Fresh_Any(g) == discoveryListener

Fresh(g) == discoveryListener /\ generation = g

-------------------------------------------------------------------------------
(* resolveNext, with these values of pendingResolutions, resolving,        *)
(* resolveToken and timeouts: the first service still active for which     *)
(* resolveService does not throw                                           *)
ResolveNext(pending, busy, token, timers) ==
  LET Candidates(i) == {j \in 1..i : pending[j] \in activeServiceNames'}
      n == Len(pending)
  IN  IF busy \/ ~discoveryListener
        THEN /\ pendingResolutions' = pending /\ resolving' = busy /\ resolveToken' = token
             /\ timeouts' = timers /\ UNCHANGED requests
        ELSE \/ \E i \in Candidates(n) :
                  /\ pendingResolutions' = SubSeq(pending, i + 1, n)
                  /\ resolving' = TRUE
                  /\ resolveToken' = token + Cardinality(Candidates(i))
                  /\ requests' = requests \union
                       {[name |-> pending[i], token |-> resolveToken', gen |-> generation]}
                  /\ timeouts' = timers \union {resolveToken'}
             \/ /\ pendingResolutions' = <<>>
                /\ resolving' = FALSE
                /\ resolveToken' = token + Cardinality(Candidates(n))
                /\ timeouts' = timers /\ UNCHANGED requests

TokensLeft == resolveToken + Len(pendingResolutions) + 1 < MaxResolves

-------------------------------------------------------------------------------
(* start, stop and restart *)

Forget == pendingResolutions' = <<>> /\ activeServiceNames' = {} /\ serversByName' = {}

(* discoverServices may throw. *)
startOnMainThread ==
  IF discoveryListener
    THEN UNCHANGED <<discoveryListener, generation, tables, reported, refused>>
    ELSE /\ generation < MaxSearches /\ generation' = generation + 1
         /\ Forget
         /\ discoveryListener' \in BOOLEAN
         /\ refused' = ~discoveryListener'
         /\ reported' = {}

stopOnMainThread ==
  /\ generation < MaxSearches /\ generation' = generation + 1
  /\ Forget
  /\ discoveryListener' = FALSE /\ refused' = FALSE
  /\ UNCHANGED reported

start == startOnMainThread /\ UNCHANGED <<resolver, posts, restarts>>

stop == stopOnMainThread /\ UNCHANGED <<resolver, posts, restarts>>

restart ==
  /\ stopOnMainThread
  /\ restarts' = restarts \union {generation'}
  /\ UNCHANGED <<resolver, posts>>

(* RESTART_DELAY_MS later, whatever happened meanwhile *)
Restarted_Always(g) ==
  /\ g \in restarts /\ restarts' = restarts \ {g}
  /\ startOnMainThread
  /\ UNCHANGED <<resolver, posts>>

(* RESTART_DELAY_MS later *)
Restarted(g) ==
  /\ g \in restarts /\ restarts' = restarts \ {g}
  /\ IF generation = g THEN startOnMainThread
                       ELSE UNCHANGED <<discoveryListener, generation, tables, reported, refused>>
  /\ UNCHANGED <<resolver, posts>>

-------------------------------------------------------------------------------
(* Callbacks, posted and then handled *)

Post(what, name, gen, token) ==
  /\ Len(posts) < MaxPosts
  /\ posts' = Append(posts, [what |-> what, name |-> name, gen |-> gen, token |-> token])

(* A listener is told that a service is there, or gone, or that discovery  *)
(* could not start.                                                        *)
Report ==
  /\ discoveryListener
  /\ \A i \in 1..Len(posts) : posts[i].what = "startFailed" => posts[i].gen # generation
  /\ \E name \in Service :
       \/ name \notin reported /\ reported' = reported \union {name}
          /\ Post("found", name, generation, 0)
       \/ name \in reported /\ reported' = reported \ {name}
          /\ Post("lost", name, generation, 0)
       \/ reported = {} /\ activeServiceNames = {} /\ posts = <<>>
          /\ Post("startFailed", name, generation, 0) /\ UNCHANGED reported
  /\ UNCHANGED <<discoveryListener, generation, tables, resolver, restarts, refused>>

Answer(request) ==
  /\ requests' = requests \ {request}
  /\ \E what \in {"resolved", "resolveFailed"} :
       Post(what, request.name, request.gen, request.token)
  /\ UNCHANGED <<discoveryListener, generation, tables, resolving, resolveToken, timeouts,
                 reported, restarts, refused>>

HandlePost(what) ==
  /\ posts # <<>> /\ Head(posts).what = what /\ posts' = Tail(posts)
  /\ UNCHANGED <<generation, reported, restarts>>

onServiceFound ==
  LET post == Head(posts)
  IN  /\ HandlePost("found") /\ TokensLeft
      /\ IF Fresh(post.gen) /\ post.name \notin activeServiceNames
           THEN /\ activeServiceNames' = activeServiceNames \union {post.name}
                /\ ResolveNext(Append(pendingResolutions, post.name), resolving, resolveToken, timeouts)
           ELSE UNCHANGED <<activeServiceNames, pendingResolutions, resolver>>
      /\ UNCHANGED <<discoveryListener, serversByName, refused>>

(* emits: the callback ends with emitServers, which gives serversByName to *)
(* the activity's onServersChanged, changed or not.                        *)
onServiceLost(emits) ==
  LET post == Head(posts)
  IN  /\ HandlePost("lost")
      /\ emits = (Fresh(post.gen) /\ \E s \in serversByName : s[1] = post.name)
      /\ IF Fresh(post.gen)
           THEN /\ activeServiceNames' = activeServiceNames \ {post.name}
                /\ serversByName' = {s \in serversByName : s[1] # post.name}
           ELSE UNCHANGED <<activeServiceNames, serversByName>>
      /\ UNCHANGED <<discoveryListener, pendingResolutions, resolver, refused>>

onStartDiscoveryFailed ==
  /\ HandlePost("startFailed")
  /\ discoveryListener' = (discoveryListener /\ ~Fresh(Head(posts).gen))
  /\ refused' = (refused \/ Fresh(Head(posts).gen))
  /\ UNCHANGED <<tables, resolver>>

(* A server without a usable address is not shown, and nothing emitted. *)
onResolution(what, emits) ==
  LET post == Head(posts)
      shown == {<<post.name, post.gen>>}
  IN  /\ HandlePost(what) /\ TokensLeft
      /\ UNCHANGED <<discoveryListener, activeServiceNames, refused>>
      /\ emits => /\ what = "resolved" /\ Awaited(post.token)
                  /\ Fresh(post.gen) /\ post.name \in activeServiceNames
      /\ serversByName' = IF emits THEN {s \in serversByName : s[1] # post.name} \union shown
                                   ELSE serversByName
      /\ IF Awaited(post.token)
           THEN ResolveNext(pendingResolutions, FALSE, resolveToken, timeouts)
           ELSE UNCHANGED <<pendingResolutions, resolver>>

(* RESOLVE_TIMEOUT_MS after the request *)
ResolveTimeout(token) ==
  /\ token \in timeouts /\ TokensLeft
  /\ UNCHANGED <<discoveryListener, generation, activeServiceNames, serversByName, posts,
                 reported, restarts, refused>>
  /\ IF resolving /\ resolveToken = token
       THEN ResolveNext(pendingResolutions, FALSE, token + 1, timeouts \ {token})
       ELSE /\ timeouts' = timeouts \ {token}
            /\ UNCHANGED <<pendingResolutions, resolving, resolveToken, requests>>

(* What happens without the activity, and whether it is told what was found *)
NsdNext(emits) ==
  \/ onServiceLost(emits)
  \/ \E what \in {"resolved", "resolveFailed"} : onResolution(what, emits)
  \/ ~emits /\ \/ \E g \in restarts : Restarted(g)
               \/ Report
               \/ \E request \in requests : Answer(request)
               \/ onServiceFound \/ onStartDiscoveryFailed
               \/ \E token \in timeouts : ResolveTimeout(token)

-------------------------------------------------------------------------------
(* Whatever is stopped, restarted, lost and answered late: Android's       *)
(* resolver is never given a second request before the first was answered  *)
(* or given up after its ten seconds; and while it has one, or a service   *)
(* waits for it, something will free it (局域网发现.kt 120-195).           *)
OneResolve ==
  /\ \A request \in requests :
       request.token \in timeouts => resolving /\ request.token = resolveToken
  /\ resolving => resolveToken \in timeouts
  /\ discoveryListener =>
       \A i \in 1..Len(pendingResolutions) :
         pendingResolutions[i] \in activeServiceNames => resolving

(* The servers shown are services of the search that runs now: still       *)
(* there, and with an address that was resolved since the search was       *)
(* started (局域网发现.kt 82-89, 155-168).                                 *)
ShownAreCurrent ==
  \A s \in serversByName :
    discoveryListener /\ s[1] \in activeServiceNames /\ s[2] = generation

===============================================================================
