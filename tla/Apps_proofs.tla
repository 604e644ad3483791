------------------------------ MODULE Apps_proofs ------------------------------
(***************************************************************************)
(* Theorems of the programs around the server, which share no state (see   *)
(* MCClient): the Android app with its search for servers, and the desktop *)
(* program.                                                                *)
(***************************************************************************)
EXTENDS MainActivity, Desktop, FiniteSetTheorems, SequenceTheorems, TLAPS

-------------------------------------------------------------------------------
(* Desktop, for any adapters and directories                               *)

DesktopTypeOK ==
  /\ settings \in Settings /\ saved \in Settings
  /\ hostIP \in IP /\ cfgDir \in UploadDir /\ adapters \subseteq IP

(* The settings are what the server uses, and the file has them unless the *)
(* last save failed; no other address is announced unless an adapter could *)
(* not be saved.                                                           *)
THEOREM Agrees == DesktopSpec => []DesktopAgrees
<1>. DEFINE DesktopInv == DesktopTypeOK /\ DesktopAgrees
<1>1. DesktopInit => DesktopInv
  BY DEF DesktopInit, DesktopTypeOK, DesktopAgrees, Settings
<1>2. DesktopInv /\ [DesktopNext]_desktopVars => DesktopInv'
  <2>. SUFFICES ASSUME DesktopInv, [DesktopNext]_desktopVars
                PROVE  DesktopInv'
    OBVIOUS
  <2>1. CASE Start
    <3>1. PICK ip \in IP : settings' = [saved EXCEPT !.SelectedIP = ip] /\ adapters' \subseteq IP
      BY <2>1 DEF Start
    <3>2. /\ settings' \in Settings /\ hostIP' = settings'.SelectedIP
          /\ cfgDir' = settings'.UploadDir
      BY <2>1, <3>1 DEF Start, DesktopTypeOK, Settings
    <3>3. settings' = [SelectedIP |-> hostIP', UploadDir |-> cfgDir']
      BY <3>2 DEF Settings
    <3>4. \/ saved' = settings' /\ unsaved' = FALSE
          \/ UNCHANGED saved /\ unsaved' = TRUE
      BY <2>1 DEF Start, SaveDesktopSettings
    <3>5. DesktopTypeOK'
      BY <3>1, <3>2, <3>4 DEF DesktopTypeOK, Settings
    <3>6. advertised' \in {hostIP', NoIP}
      BY <2>1 DEF Start, RestartDiscoveryLocked
    <3>. QED BY <3>3, <3>4, <3>5, <3>6 DEF DesktopAgrees
  <2>2. ASSUME NEW ip \in IP, setAdapter(ip)
        PROVE  DesktopInv'
    <3>1. /\ settings' = [settings EXCEPT !.SelectedIP = ip] /\ hostIP' = ip
          /\ UNCHANGED <<running, adapters, cfgDir>> /\ running
      BY <2>2 DEF setAdapter
    <3>2. settings = [SelectedIP |-> hostIP, UploadDir |-> cfgDir]
      BY <3>1 DEF DesktopAgrees
    <3>3. settings' = [SelectedIP |-> hostIP', UploadDir |-> cfgDir']
      BY <3>1, <3>2
    <3>4. \/ saved' = settings' /\ unsaved' = FALSE
          \/ UNCHANGED saved /\ unsaved' = TRUE
      BY <2>2 DEF setAdapter, SaveDesktopSettings
    <3>5. DesktopTypeOK'
      BY <3>1, <3>3, <3>4 DEF DesktopTypeOK, Settings
    <3>6. unannounced' \/ advertised' \in {hostIP', NoIP}
      BY <2>2 DEF setAdapter, RestartDiscoveryLocked
    <3>. QED BY <3>3, <3>4, <3>5, <3>6 DEF DesktopAgrees
  <2>3. ASSUME NEW dir \in UploadDir, NEW usable \in BOOLEAN, chooseUploadDirectory(dir, usable)
        PROVE  DesktopInv'
    <3>1. /\ running /\ UNCHANGED <<running, adapters, hostIP, advertised, unannounced>>
          /\ settings' = [settings EXCEPT !.UploadDir = Chosen(dir, usable)]
          /\ cfgDir' = IF usable THEN dir ELSE cfgDir
      BY <2>3 DEF chooseUploadDirectory
    <3>2. settings = [SelectedIP |-> hostIP, UploadDir |-> cfgDir]
      BY <3>1 DEF DesktopAgrees
    <3>3. settings' = [SelectedIP |-> hostIP', UploadDir |-> cfgDir']
      BY <3>1, <3>2 DEF Chosen
    <3>4. \/ saved' = settings' /\ unsaved' = FALSE
          \/ UNCHANGED saved /\ unsaved' = TRUE
          \/ UNCHANGED <<saved, unsaved>> /\ settings' = settings
      <4>1. CASE usable
        BY <2>3, <4>1 DEF chooseUploadDirectory, SaveDesktopSettings
      <4>2. CASE ~usable
        BY <2>3, <3>1, <3>2, <3>3, <4>2 DEF chooseUploadDirectory
      <4>. QED BY <4>1, <4>2
    <3>5. DesktopTypeOK'
      BY <3>1, <3>3, <3>4 DEF DesktopTypeOK, Settings
    <3>6. (~unannounced => advertised \in {hostIP, NoIP})'
      BY <3>1 DEF DesktopAgrees
    <3>7. (~unsaved => saved = settings)'
      BY <3>1, <3>4 DEF DesktopAgrees
    <3>. QED BY <3>3, <3>5, <3>6, <3>7 DEF DesktopAgrees
  <2>4. CASE Exit
    BY <2>4 DEF Exit, DesktopTypeOK, DesktopAgrees
  <2>5. CASE UNCHANGED desktopVars
    BY <2>5 DEF desktopVars, DesktopTypeOK, DesktopAgrees
  <2>. QED BY <2>1, <2>2, <2>3, <2>4, <2>5 DEF DesktopNext
<1>. QED BY <1>1, <1>2, PTL DEF DesktopSpec

-------------------------------------------------------------------------------
(* NsdDiscovery, for any services, and any number of searches, requests    *)
(* and callbacks under way                                                 *)

Callback == [what : {"found", "lost", "startFailed", "resolved", "resolveFailed"},
             name : Service, gen : Nat, token : Nat]
Request == [name : Service, token : Nat, gen : Nat]

(* Callbacks that were posted and not yet handled *)
Queue == {posts[i] : i \in 1..Len(posts)}

NsdTypeOK ==
  /\ discoveryListener \in BOOLEAN /\ resolving \in BOOLEAN /\ refused \in BOOLEAN
  /\ generation \in Nat /\ resolveToken \in Nat
  /\ pendingResolutions \in Seq(Service) /\ activeServiceNames \subseteq Service
  /\ serversByName \subseteq Service \X Nat
  /\ posts \in Seq(Callback) /\ requests \subseteq Request
  /\ reported \subseteq Service /\ timeouts \subseteq Nat /\ restarts \subseteq Nat

(* No token is given twice: none of those out is above the last, and a     *)
(* request that was answered is not under way any more.                    *)
Tokens ==
  /\ \A x \in requests : x.token <= resolveToken /\ \A y \in requests : x.token = y.token => x = y
  /\ \A t \in timeouts : t <= resolveToken
  /\ \A p \in Queue :
       p.what \in {"resolved", "resolveFailed"} =>
         p.token <= resolveToken /\ \A x \in requests : x.token # p.token

(* Nothing is of a search to come, and no delayed start is left to one     *)
(* that runs.                                                              *)
Generations ==
  /\ \A p \in Queue : p.gen <= generation
  /\ \A x \in requests : x.gen <= generation
  /\ \A g \in restarts : g <= generation
  /\ discoveryListener => generation \notin restarts

(* A search of which Android is about to say that it never began has found *)
(* nothing.                                                                *)
Failing ==
  \A p \in Queue :
    p.what = "startFailed" /\ Fresh(p.gen) =>
      /\ activeServiceNames = {} /\ serversByName = {}
      /\ \A f \in Queue : f.what = "found" => f.gen # generation

NsdInv == NsdTypeOK /\ Tokens /\ Generations /\ Failing /\ OneResolve /\ ShownAreCurrent

LEMMA NsdStarts == NsdInit => NsdInv
<1>1. <<>> \in Seq(Service) /\ <<>> \in Seq(Callback) /\ Len(<<>>) = 0 /\ \A i \in 1..0 : FALSE
  OBVIOUS
<1>. SUFFICES ASSUME NsdInit
              PROVE  NsdInv
  OBVIOUS
<1>2. Queue = {}
  BY <1>1 DEF NsdInit, Queue
<1>3. NsdTypeOK
  BY <1>1 DEF NsdInit, NsdTypeOK
<1>. QED BY <1>2, <1>3 DEF NsdInit, NsdInv, Tokens, Generations, Failing, OneResolve, ShownAreCurrent

LEMMA Same ==
  ASSUME NsdInv, UNCHANGED nsdVars
  PROVE  NsdInv'
BY DEF nsdVars, tables, resolver, NsdInv, NsdTypeOK, Queue, Tokens, Generations, Failing, Fresh,
       OneResolve, ShownAreCurrent

LEMMA QueueTyped ==
  ASSUME NsdTypeOK
  PROVE  Queue \subseteq Callback
<1>1. \A i \in 1..Len(posts) : posts[i] \in Callback
  BY DEF NsdTypeOK
<1>. QED BY <1>1 DEF Queue

(* What one callback more, or one less, makes of the queue                 *)
LEMMA Enqueued ==
  ASSUME NsdTypeOK, NEW p \in Callback, posts' = Append(posts, p)
  PROVE  posts' \in Seq(Callback) /\ Queue' = Queue \union {p}
<1>1. /\ posts' \in Seq(Callback) /\ Len(posts') = Len(posts) + 1 /\ Len(posts) \in Nat
      /\ posts'[Len(posts) + 1] = p /\ \A i \in 1..Len(posts) : posts'[i] = posts[i]
  BY DEF NsdTypeOK
<1>2. Queue' \subseteq Queue \union {p}
  BY <1>1 DEF Queue
<1>3. Queue \subseteq Queue'
  <2>1. 1..Len(posts) \subseteq 1..Len(posts')
    BY <1>1
  <2>. QED BY <1>1, <2>1 DEF Queue
<1>4. p \in Queue'
  <2>1. Len(posts) + 1 \in 1..Len(posts')
    BY <1>1
  <2>. QED BY <1>1, <2>1 DEF Queue
<1>. QED BY <1>1, <1>2, <1>3, <1>4

LEMMA Dequeued ==
  ASSUME NsdTypeOK, posts # <<>>, posts' = Tail(posts)
  PROVE  /\ posts' \in Seq(Callback) /\ Queue' \subseteq Queue
         /\ Head(posts) \in Queue /\ Head(posts) \in Callback
<1>1. /\ posts' \in Seq(Callback) /\ Len(posts') = Len(posts) - 1 /\ Len(posts) \in Nat
      /\ Len(posts) > 0 /\ Head(posts) = posts[1]
      /\ \A i \in 1..Len(posts') : posts'[i] = posts[i + 1]
  BY DEF NsdTypeOK
<1>2. \A i \in 1..Len(posts') : i + 1 \in 1..Len(posts)
  BY <1>1
<1>3. 1 \in 1..Len(posts)
  BY <1>1
<1>4. Queue' \subseteq Queue
  BY <1>1, <1>2 DEF Queue
<1>5. Head(posts) \in Queue /\ Head(posts) \in Callback
  BY <1>1, <1>3 DEF Queue, NsdTypeOK
<1>. QED BY <1>1, <1>4, <1>5

(* start, stop and restart leave the resolver to itself: either nothing    *)
(* changes, or a new search begins with empty tables.                      *)
Anew ==
  /\ generation' = generation + 1 /\ Forget
  /\ discoveryListener' \in BOOLEAN /\ refused' \in BOOLEAN /\ reported' \subseteq Service

LEMMA Switched ==
  ASSUME NsdInv, UNCHANGED <<resolver, posts>>,
         \/ UNCHANGED <<discoveryListener, generation, tables, reported, refused>> /\ restarts' \subseteq restarts
         \/ Anew /\ restarts' \subseteq restarts
         \/ Anew /\ ~discoveryListener' /\ restarts' \subseteq restarts \union {generation'}
  PROVE  NsdInv'
<1>1. Queue' = Queue /\ UNCHANGED <<requests, timeouts, resolving, resolveToken, posts>>
  BY DEF Queue, resolver
<1>2. Tokens'
  BY <1>1 DEF NsdInv, Tokens
<1>3. CASE UNCHANGED <<discoveryListener, generation, tables, reported, refused>> /\ restarts' \subseteq restarts
  BY <1>1, <1>2, <1>3 DEF tables, NsdInv, NsdTypeOK, Generations, Failing, Fresh, OneResolve, ShownAreCurrent
<1>4. CASE Anew /\ (~discoveryListener' \/ restarts' \subseteq restarts)
           /\ restarts' \subseteq restarts \union {generation'}
  <2>1. /\ generation \in Nat /\ generation' = generation + 1
        /\ pendingResolutions' = <<>> /\ activeServiceNames' = {} /\ serversByName' = {}
    BY <1>4 DEF Anew, Forget, NsdInv, NsdTypeOK
  <2>2. NsdTypeOK'
    <3>1. <<>> \in Seq(Service)
      OBVIOUS
    <3>2. restarts' \subseteq Nat /\ generation' \in Nat
      BY <1>4, <2>1 DEF NsdInv, NsdTypeOK
    <3>3. discoveryListener' \in BOOLEAN /\ refused' \in BOOLEAN /\ reported' \subseteq Service
      BY <1>4 DEF Anew
    <3>4. resolving' \in BOOLEAN
      BY <1>1 DEF NsdInv, NsdTypeOK
    <3>. QED BY <1>1, <2>1, <3>1, <3>2, <3>3, <3>4 DEF NsdInv, NsdTypeOK
  <2>3. Generations'
    <3>1. \A n \in Nat : n <= generation => n <= generation' /\ n # generation'
      BY <2>1
    <3>2. /\ \A p \in Queue : p.gen \in Nat
          /\ \A x \in requests : x.gen \in Nat
          /\ \A g \in restarts : g \in Nat
      BY QueueTyped DEF NsdInv, NsdTypeOK, Callback, Request
    <3>3. generation' <= generation'
      BY <2>1
    <3>4. \A g \in restarts' : g <= generation'
      BY <1>4, <3>1, <3>2, <3>3 DEF NsdInv, Generations
    <3>5. discoveryListener' => generation' \notin restarts'
      BY <1>4, <3>1, <3>2 DEF NsdInv, Generations
    <3>. QED BY <1>1, <3>1, <3>2, <3>4, <3>5 DEF NsdInv, Generations
  <2>4. Failing'
    <3>1. \A p \in Queue : p.gen # generation'
      <4>1. \A p \in Queue : p.gen \in Nat /\ p.gen <= generation
        BY QueueTyped DEF NsdInv, Callback, Generations
      <4>. QED BY <2>1, <4>1
    <3>. QED BY <1>1, <2>1, <3>1 DEF Failing, Fresh
  <2>5. OneResolve'
    BY <1>1, <2>1 DEF NsdInv, OneResolve
  <2>6. ShownAreCurrent'
    BY <2>1 DEF ShownAreCurrent
  <2>. QED BY <1>2, <2>2, <2>3, <2>4, <2>5, <2>6 DEF NsdInv
<1>. QED BY <1>3, <1>4

LEMMA StartDoes ==
  ASSUME startOnMainThread
  PROVE  \/ discoveryListener /\ UNCHANGED <<discoveryListener, generation, tables, reported, refused>>
         \/ ~discoveryListener /\ Anew /\ refused' = ~discoveryListener'
BY DEF startOnMainThread, Anew

LEMMA StopDoes ==
  ASSUME NsdTypeOK, stopOnMainThread
  PROVE  Anew /\ discoveryListener' = FALSE /\ refused' = FALSE
BY DEF stopOnMainThread, Anew, NsdTypeOK

-------------------------------------------------------------------------------
(* Callbacks that come in *)

LEMMA ReportKeeps ==
  ASSUME NsdInv, Report
  PROVE  NsdInv'
<1>1. /\ discoveryListener
      /\ \A p \in Queue : p.what = "startFailed" => p.gen # generation
      /\ UNCHANGED <<discoveryListener, generation, tables, resolver, restarts, refused>>
  BY DEF Report, Queue
<1>2. PICK name \in Service, what \in {"found", "lost", "startFailed"} :
        /\ posts' = Append(posts, [what |-> what, name |-> name, gen |-> generation, token |-> 0])
        /\ reported' \subseteq Service
        /\ what = "startFailed" => activeServiceNames = {} /\ posts = <<>>
  <2>1. reported \subseteq Service
    BY DEF NsdInv, NsdTypeOK
  <2>. QED BY <2>1 DEF Report, Post
<1>3. PICK p \in Callback : /\ p.what = what /\ p.gen = generation
                            /\ posts' = Append(posts, p)
  <2>1. [what |-> what, name |-> name, gen |-> generation, token |-> 0] \in Callback
    BY DEF Callback, NsdInv, NsdTypeOK
  <2>. QED BY <1>2, <2>1
<1>4. posts' \in Seq(Callback) /\ Queue' = Queue \union {p}
  BY <1>3, Enqueued DEF NsdInv
<1>5. UNCHANGED <<requests, timeouts, resolving, resolveToken, pendingResolutions,
                  activeServiceNames, serversByName>>
  BY <1>1 DEF tables, resolver
<1>6. NsdTypeOK'
  BY <1>1, <1>2, <1>4, <1>5 DEF NsdInv, NsdTypeOK
<1>7. Tokens'
  BY <1>2, <1>3, <1>4, <1>5 DEF NsdInv, Tokens
<1>8. Generations'
  <2>1. p.gen <= generation
    BY <1>3 DEF NsdInv, NsdTypeOK
  <2>. QED BY <1>1, <1>4, <1>5, <2>1 DEF NsdInv, Generations
<1>9. Failing'
  <2>1. CASE what = "startFailed"
    <3>1. Queue' = {p}
      BY <1>2, <1>4, <2>1 DEF Queue
    <3>2. serversByName = {} /\ activeServiceNames = {}
      BY <1>2, <2>1 DEF NsdInv, ShownAreCurrent
    <3>. QED BY <1>3, <1>5, <2>1, <3>1, <3>2 DEF Failing
  <2>2. CASE what # "startFailed"
    BY <1>1, <1>3, <1>4, <2>2 DEF Failing, Fresh
  <2>. QED BY <2>1, <2>2
<1>10. OneResolve' /\ ShownAreCurrent'
  BY <1>1, <1>5 DEF NsdInv, OneResolve, ShownAreCurrent
<1>. QED BY <1>6, <1>7, <1>8, <1>9, <1>10 DEF NsdInv

LEMMA AnswerKeeps ==
  ASSUME NsdInv, NEW x \in requests, Answer(x)
  PROVE  NsdInv'
<1>1. /\ requests' = requests \ {x} /\ x \in Request
      /\ UNCHANGED <<discoveryListener, generation, tables, resolving, resolveToken, timeouts,
                     reported, restarts, refused>>
  BY DEF Answer, NsdInv, NsdTypeOK
<1>2. PICK what \in {"resolved", "resolveFailed"} :
        posts' = Append(posts, [what |-> what, name |-> x.name, gen |-> x.gen, token |-> x.token])
  BY DEF Answer, Post
<1>3. PICK p \in Callback : /\ p.what = what /\ p.gen = x.gen /\ p.token = x.token
                            /\ posts' = Append(posts, p)
  <2>1. [what |-> what, name |-> x.name, gen |-> x.gen, token |-> x.token] \in Callback
    BY <1>1 DEF Callback, Request
  <2>. QED BY <1>2, <2>1
<1>4. posts' \in Seq(Callback) /\ Queue' = Queue \union {p}
  BY <1>3, Enqueued DEF NsdInv
<1>5. UNCHANGED <<pendingResolutions, activeServiceNames, serversByName>>
  BY <1>1 DEF tables
<1>6. NsdTypeOK'
  BY <1>1, <1>4, <1>5 DEF NsdInv, NsdTypeOK
<1>7. Tokens'
  <2>1. x.token <= resolveToken /\ \A y \in requests \ {x} : y.token # x.token
    BY DEF NsdInv, Tokens
  <2>. QED BY <1>1, <1>3, <1>4, <2>1 DEF NsdInv, Tokens
<1>8. Generations'
  BY <1>1, <1>3, <1>4 DEF NsdInv, Generations
<1>9. Failing'
  BY <1>1, <1>3, <1>4, <1>5 DEF NsdInv, Failing, Fresh
<1>10. OneResolve' /\ ShownAreCurrent'
  BY <1>1, <1>5 DEF NsdInv, OneResolve, ShownAreCurrent
<1>. QED BY <1>6, <1>7, <1>8, <1>9, <1>10 DEF NsdInv

-------------------------------------------------------------------------------
(* The three ends of resolveNext: it leaves its queue alone, it makes a    *)
(* request with a token of its own, or no service is left to ask for.      *)
Waits(pending, busy, token, timers) ==
  /\ busy \/ ~discoveryListener
  /\ pendingResolutions' = pending /\ resolving' = busy /\ resolveToken' = token
  /\ timeouts' = timers /\ requests' = requests

Asks(token, timers) ==
  /\ discoveryListener
  /\ pendingResolutions' \in Seq(Service) /\ resolving' = TRUE
  /\ resolveToken' \in Nat /\ resolveToken' > token
  /\ timeouts' = timers \union {resolveToken'}
  /\ \E name \in Service :
       requests' = requests \union {[name |-> name, token |-> resolveToken', gen |-> generation]}

NoneLeft(token, timers) ==
  /\ discoveryListener
  /\ pendingResolutions' = <<>> /\ resolving' = FALSE
  /\ resolveToken' \in Nat /\ resolveToken' >= token
  /\ timeouts' = timers /\ requests' = requests

LEMMA ResolveNextDoes ==
  ASSUME NEW pending \in Seq(Service), NEW busy \in BOOLEAN, NEW token \in Nat, NEW timers,
         discoveryListener \in BOOLEAN, ResolveNext(pending, busy, token, timers)
  PROVE  \/ Waits(pending, busy, token, timers)
         \/ ~busy /\ (Asks(token, timers) \/ NoneLeft(token, timers))
<1>. DEFINE Candidates(i) == {j \in 1..i : pending[j] \in activeServiceNames'}
            n == Len(pending)
<1>1. n \in Nat
  OBVIOUS
<1>2. ASSUME NEW i \in Nat
      PROVE  IsFiniteSet(Candidates(i)) /\ Cardinality(Candidates(i)) \in Nat
  <2>1. IsFiniteSet(1..i)
    BY FS_Interval
  <2>2. Candidates(i) \subseteq 1..i
    OBVIOUS
  <2>. QED BY <2>1, <2>2, FS_Subset, FS_CardinalityType
<1>3. CASE busy \/ ~discoveryListener
  BY <1>3 DEF ResolveNext, Waits
<1>4. CASE ~(busy \/ ~discoveryListener)
  <2>1. CASE \E i \in Candidates(n) :
               /\ pendingResolutions' = SubSeq(pending, i + 1, n)
               /\ resolving' = TRUE
               /\ resolveToken' = token + Cardinality(Candidates(i))
               /\ requests' = requests \union
                    {[name |-> pending[i], token |-> resolveToken', gen |-> generation]}
               /\ timeouts' = timers \union {resolveToken'}
    <3>1. PICK i \in Candidates(n) :
               /\ pendingResolutions' = SubSeq(pending, i + 1, n)
               /\ resolving' = TRUE
               /\ resolveToken' = token + Cardinality(Candidates(i))
               /\ requests' = requests \union
                    {[name |-> pending[i], token |-> resolveToken', gen |-> generation]}
               /\ timeouts' = timers \union {resolveToken'}
      BY <2>1
    <3>2. i \in 1..n /\ i \in Nat /\ pending[i] \in Service /\ i \in Candidates(i)
      BY <1>1
    <3>3. Cardinality(Candidates(i)) # 0
      BY <1>2, <3>2, FS_EmptySet
    <3>4. Cardinality(Candidates(i)) \in Nat
      BY <1>2, <3>2
    <3>5. SubSeq(pending, i + 1, n) \in Seq(Service)
      BY <1>1, <3>2
    <3>. HIDE DEF Candidates, n
    <3>6. resolveToken' \in Nat /\ resolveToken' > token
      BY <3>1, <3>3, <3>4
    <3>. QED BY <1>4, <3>1, <3>2, <3>5, <3>6 DEF Asks
  <2>2. CASE /\ pendingResolutions' = <<>>
             /\ resolving' = FALSE
             /\ resolveToken' = token + Cardinality(Candidates(n))
             /\ timeouts' = timers /\ UNCHANGED requests
    <3>1. Cardinality(Candidates(n)) \in Nat
      BY <1>1, <1>2
    <3>. HIDE DEF Candidates, n
    <3>. QED BY <1>4, <2>2, <3>1 DEF NoneLeft
  <2>. QED BY <1>4, <2>1, <2>2 DEF ResolveNext
<1>. QED BY <1>3, <1>4

(* The resolver before resolveNext, when the request under way, if any, is *)
(* the one with this token                                                 *)
Free(busy, token, timers) ==
  /\ token \in Nat /\ token >= resolveToken /\ timers \subseteq timeouts
  /\ busy => resolving /\ token = resolveToken /\ token \in timers
  /\ \A x \in requests : x.token \in timers => busy /\ x.token = token

(* resolveNext keeps one request under way, with a token of its own.       *)
LEMMA ResolveNextKeeps ==
  ASSUME NsdInv, NEW pending \in Seq(Service), NEW busy \in BOOLEAN, NEW token, NEW timers,
         Free(busy, token, timers), ResolveNext(pending, busy, token, timers),
         UNCHANGED <<discoveryListener, generation>>,
         posts' \in Seq(Callback), Queue' \subseteq Queue
  PROVE  /\ OneResolve' /\ Tokens'
         /\ resolving' \in BOOLEAN /\ resolveToken' \in Nat /\ timeouts' \subseteq Nat
         /\ pendingResolutions' \in Seq(Service) /\ requests' \subseteq Request
         /\ \A x \in requests' : x.gen <= generation
<1>1. /\ token \in Nat /\ resolveToken \in Nat /\ timeouts \subseteq Nat /\ requests \subseteq Request
      /\ generation \in Nat /\ discoveryListener \in BOOLEAN /\ timers \subseteq Nat
  BY DEF Free, NsdInv, NsdTypeOK
<1>2. /\ \A x \in requests : x.token \in Nat /\ x.gen \in Nat /\ x.token <= token
      /\ \A t \in timers : t <= token
      /\ \A p \in Queue' : p.what \in {"resolved", "resolveFailed"} =>
           p.token \in Nat /\ p.token <= token /\ \A x \in requests : x.token # p.token
  <2>1. \A p \in Queue : p.token \in Nat
    BY QueueTyped DEF NsdInv, Callback
  <2>2. \A k \in Nat : k <= resolveToken => k <= token
    BY <1>1 DEF Free
  <2>. QED BY <1>1, <2>1, <2>2 DEF NsdInv, Tokens, Free, Request
<1>3. CASE Waits(pending, busy, token, timers)
  <2>1. Tokens'
    BY <1>2, <1>3 DEF NsdInv, Tokens, Waits
  <2>2. OneResolve'
    BY <1>3 DEF OneResolve, Free, Waits
  <2>3. \A x \in requests' : x.gen <= generation
    BY <1>3 DEF NsdInv, Generations, Waits
  <2>. QED BY <1>1, <1>3, <2>1, <2>2, <2>3 DEF Waits
<1>4. CASE ~busy /\ NoneLeft(token, timers)
  <2>1. \A k \in Nat : k <= token => k <= resolveToken'
    BY <1>1, <1>4 DEF NoneLeft
  <2>2. Tokens'
    BY <1>1, <1>2, <1>4, <2>1 DEF NsdInv, Tokens, NoneLeft
  <2>3. OneResolve'
    BY <1>4 DEF OneResolve, Free, NoneLeft
  <2>4. \A x \in requests' : x.gen <= generation
    BY <1>4 DEF NsdInv, Generations, NoneLeft
  <2>5. <<>> \in Seq(Service)
    OBVIOUS
  <2>. QED BY <1>1, <1>4, <2>2, <2>3, <2>4, <2>5 DEF NoneLeft
<1>5. CASE ~busy /\ Asks(token, timers)
  <2>0. /\ ~busy /\ pendingResolutions' \in Seq(Service) /\ resolving' = TRUE
        /\ resolveToken' \in Nat /\ resolveToken' > token
        /\ timeouts' = timers \union {resolveToken'}
    BY <1>5 DEF Asks
  <2>1. PICK x \in Request : /\ x.token = resolveToken' /\ x.gen = generation
                             /\ requests' = requests \union {x}
    <3>1. PICK name \in Service :
            requests' = requests \union {[name |-> name, token |-> resolveToken', gen |-> generation]}
      BY <1>5 DEF Asks
    <3>2. [name |-> name, token |-> resolveToken', gen |-> generation] \in Request
      BY <1>1, <2>0 DEF Request
    <3>. QED BY <3>1, <3>2
  <2>2. \A k \in Nat : k <= token => k <= resolveToken' /\ k # resolveToken'
    BY <1>1, <2>0
  <2>3. resolveToken' <= resolveToken'
    BY <2>0
  <2>4. \A y \in requests : y.token # x.token /\ y.token \notin timers
    BY <1>2, <2>0, <2>1, <2>2 DEF Free
  <2>5. Tokens'
    <3>1. \A y \in requests' : y.token <= resolveToken' /\ \A z \in requests' : y.token = z.token => y = z
      BY <1>2, <2>1, <2>2, <2>3, <2>4 DEF NsdInv, Tokens
    <3>2. \A t \in timeouts' : t <= resolveToken'
      BY <1>1, <1>2, <2>0, <2>2, <2>3
    <3>3. \A p \in Queue' : p.what \in {"resolved", "resolveFailed"} =>
            p.token <= resolveToken' /\ \A y \in requests' : y.token # p.token
      BY <1>2, <2>1, <2>2
    <3>. QED BY <3>1, <3>2, <3>3 DEF Tokens
  <2>6. OneResolve'
    <3>1. \A y \in requests' : y.token \in timeouts' => y.token = resolveToken'
      BY <2>0, <2>1, <2>4
    <3>. QED BY <2>0, <3>1 DEF OneResolve
  <2>7. \A y \in requests' : y.gen <= generation
    <3>1. generation <= generation
      BY <1>1
    <3>. QED BY <2>1, <3>1 DEF NsdInv, Generations
  <2>8. timeouts' \subseteq Nat /\ requests' \subseteq Request
    BY <1>1, <2>0, <2>1
  <2>. QED BY <2>0, <2>5, <2>6, <2>7, <2>8
<1>6. \/ Waits(pending, busy, token, timers)
      \/ ~busy /\ (Asks(token, timers) \/ NoneLeft(token, timers))
  BY <1>1, ResolveNextDoes
<1>. QED BY <1>3, <1>4, <1>5, <1>6

(* The resolver as it is, while no answer ends its request                 *)
LEMMA FreeAsItIs ==
  ASSUME NsdInv
  PROVE  Free(resolving, resolveToken, timeouts)
BY DEF NsdInv, NsdTypeOK, OneResolve, Free

-------------------------------------------------------------------------------
(* Callbacks that are handled, and the timeout                             *)

LEMMA HandlePostDoes ==
  ASSUME NsdInv, NEW what, HandlePost(what)
  PROVE  /\ posts' \in Seq(Callback) /\ Queue' \subseteq Queue
         /\ Head(posts) \in Queue /\ Head(posts) \in Callback /\ Head(posts).what = what
         /\ UNCHANGED <<generation, reported, restarts>>
BY Dequeued DEF HandlePost, NsdInv

(* What is left for a callback that leaves the resolver alone              *)
LEMMA Handled ==
  ASSUME NsdInv, UNCHANGED <<generation, reported, restarts, pendingResolutions, resolver>>,
         posts' \in Seq(Callback), Queue' \subseteq Queue,
         discoveryListener' \in BOOLEAN, refused' \in BOOLEAN,
         discoveryListener' => discoveryListener,
         activeServiceNames' \subseteq activeServiceNames,
         serversByName' \subseteq serversByName, ShownAreCurrent'
  PROVE  NsdInv'
<1>1. UNCHANGED <<requests, timeouts, resolving, resolveToken>>
  BY DEF resolver
<1>2. NsdTypeOK'
  BY <1>1 DEF NsdInv, NsdTypeOK
<1>3. Tokens' /\ Generations'
  BY <1>1 DEF NsdInv, Tokens, Generations
<1>4. Failing'
  BY DEF NsdInv, Failing, Fresh
<1>5. OneResolve'
  BY <1>1 DEF NsdInv, OneResolve
<1>. QED BY <1>2, <1>3, <1>4, <1>5 DEF NsdInv

LEMMA LostKeeps ==
  ASSUME NsdInv, NEW emits, onServiceLost(emits)
  PROVE  NsdInv'
<1>. DEFINE post == Head(posts)
<1>1. /\ posts' \in Seq(Callback) /\ Queue' \subseteq Queue
      /\ UNCHANGED <<generation, reported, restarts>>
  BY HandlePostDoes DEF onServiceLost
<1>2. UNCHANGED <<discoveryListener, pendingResolutions, resolver, refused>>
  BY DEF onServiceLost
<1>3. \/ /\ activeServiceNames' = activeServiceNames \ {post.name}
         /\ serversByName' = {s \in serversByName : s[1] # post.name}
      \/ UNCHANGED <<activeServiceNames, serversByName>>
  BY DEF onServiceLost
<1>4. ShownAreCurrent'
  BY <1>1, <1>2, <1>3 DEF NsdInv, ShownAreCurrent
<1>5. discoveryListener' \in BOOLEAN /\ refused' \in BOOLEAN
  BY <1>2 DEF NsdInv, NsdTypeOK
<1>. QED BY <1>1, <1>2, <1>3, <1>4, <1>5, Handled

LEMMA FailedKeeps ==
  ASSUME NsdInv, onStartDiscoveryFailed
  PROVE  NsdInv'
<1>. DEFINE post == Head(posts)
<1>1. /\ posts' \in Seq(Callback) /\ Queue' \subseteq Queue /\ post \in Queue
      /\ post.what = "startFailed" /\ UNCHANGED <<generation, reported, restarts>>
  BY HandlePostDoes DEF onStartDiscoveryFailed
<1>2. /\ discoveryListener' = (discoveryListener /\ ~Fresh(post.gen))
      /\ refused' = (refused \/ Fresh(post.gen)) /\ UNCHANGED <<tables, resolver>>
  BY DEF onStartDiscoveryFailed
<1>3. UNCHANGED <<pendingResolutions, activeServiceNames, serversByName>>
  BY <1>2 DEF tables
<1>4. ShownAreCurrent'
  <2>1. CASE Fresh(post.gen)
    <3>1. serversByName = {}
      BY <1>1, <2>1 DEF NsdInv, Failing
    <3>. QED BY <1>3, <3>1 DEF ShownAreCurrent
  <2>2. CASE ~Fresh(post.gen)
    <3>1. discoveryListener' = discoveryListener
      BY <1>2, <2>2 DEF NsdInv, NsdTypeOK
    <3>. QED BY <1>1, <1>3, <3>1 DEF NsdInv, ShownAreCurrent
  <2>. QED BY <2>1, <2>2
<1>5. discoveryListener' \in BOOLEAN /\ refused' \in BOOLEAN
  BY <1>2
<1>6. discoveryListener' => discoveryListener
  BY <1>2
<1>. QED BY <1>1, <1>2, <1>3, <1>4, <1>5, <1>6, Handled

LEMMA FoundKeeps ==
  ASSUME NsdInv, onServiceFound
  PROVE  NsdInv'
<1>. DEFINE post == Head(posts)
<1>1. /\ posts' \in Seq(Callback) /\ Queue' \subseteq Queue /\ post \in Queue /\ post \in Callback
      /\ post.what = "found" /\ UNCHANGED <<generation, reported, restarts>>
  BY HandlePostDoes DEF onServiceFound
<1>2. UNCHANGED <<discoveryListener, serversByName, refused>>
  BY DEF onServiceFound
<1>3. CASE UNCHANGED <<activeServiceNames, pendingResolutions, resolver>>
  <2>1. ShownAreCurrent'
    BY <1>1, <1>2, <1>3 DEF NsdInv, ShownAreCurrent
  <2>2. discoveryListener' \in BOOLEAN /\ refused' \in BOOLEAN
    BY <1>2 DEF NsdInv, NsdTypeOK
  <2>. QED BY <1>1, <1>2, <1>3, <2>1, <2>2, Handled
<1>4. CASE /\ Fresh(post.gen) /\ activeServiceNames' = activeServiceNames \union {post.name}
           /\ ResolveNext(Append(pendingResolutions, post.name), resolving, resolveToken, timeouts)
  <2>1. Append(pendingResolutions, post.name) \in Seq(Service) /\ post.name \in Service
    BY <1>1 DEF Callback, NsdInv, NsdTypeOK
  <2>2. resolving \in BOOLEAN
    BY DEF NsdInv, NsdTypeOK
  <2>3. /\ OneResolve' /\ Tokens'
        /\ resolving' \in BOOLEAN /\ resolveToken' \in Nat /\ timeouts' \subseteq Nat
        /\ pendingResolutions' \in Seq(Service) /\ requests' \subseteq Request
        /\ \A x \in requests' : x.gen <= generation
    BY <1>1, <1>2, <1>4, <2>1, <2>2, FreeAsItIs, ResolveNextKeeps
  <2>4. NsdTypeOK'
    BY <1>1, <1>2, <1>4, <2>1, <2>3 DEF NsdInv, NsdTypeOK
  <2>5. Generations'
    BY <1>1, <1>2, <2>3 DEF NsdInv, Generations
  <2>6. Failing'
    BY <1>1, <1>2, <1>4 DEF NsdInv, Failing, Fresh
  <2>7. ShownAreCurrent'
    BY <1>1, <1>2, <1>4 DEF NsdInv, ShownAreCurrent
  <2>. QED BY <2>3, <2>4, <2>5, <2>6, <2>7 DEF NsdInv
<1>. QED BY <1>3, <1>4 DEF onServiceFound

LEMMA ResolutionKeeps ==
  ASSUME NsdInv, NEW what \in {"resolved", "resolveFailed"}, NEW emits, onResolution(what, emits)
  PROVE  NsdInv'
<1>. DEFINE post == Head(posts)
<1>1. /\ posts' \in Seq(Callback) /\ Queue' \subseteq Queue /\ post \in Queue /\ post \in Callback
      /\ post.what = what /\ UNCHANGED <<generation, reported, restarts>>
  BY HandlePostDoes DEF onResolution
<1>2. UNCHANGED <<discoveryListener, activeServiceNames, refused>>
  BY DEF onResolution
<1>3. CASE UNCHANGED <<pendingResolutions, serversByName, resolver>>
  <2>1. ShownAreCurrent'
    BY <1>1, <1>2, <1>3 DEF NsdInv, ShownAreCurrent
  <2>2. discoveryListener' \in BOOLEAN /\ refused' \in BOOLEAN
    BY <1>2 DEF NsdInv, NsdTypeOK
  <2>. QED BY <1>1, <1>2, <1>3, <2>1, <2>2, Handled
<1>4. CASE /\ Awaited(post.token)
           /\ \/ /\ Fresh(post.gen) /\ post.name \in activeServiceNames
                 /\ serversByName' = {s \in serversByName : s[1] # post.name}
                                       \union {<<post.name, post.gen>>}
              \/ serversByName' = serversByName
           /\ ResolveNext(pendingResolutions, FALSE, resolveToken, timeouts)
  <2>1. Free(FALSE, resolveToken, timeouts)
    <3>1. \A x \in requests : x.token # resolveToken
      BY <1>1, <1>4 DEF NsdInv, Tokens, Awaited
    <3>2. resolveToken \in Nat /\ resolveToken >= resolveToken
      BY DEF NsdInv, NsdTypeOK
    <3>. QED BY <3>1, <3>2 DEF NsdInv, OneResolve, Free
  <2>2. pendingResolutions \in Seq(Service)
    BY DEF NsdInv, NsdTypeOK
  <2>3. /\ OneResolve' /\ Tokens'
        /\ resolving' \in BOOLEAN /\ resolveToken' \in Nat /\ timeouts' \subseteq Nat
        /\ pendingResolutions' \in Seq(Service) /\ requests' \subseteq Request
        /\ \A x \in requests' : x.gen <= generation
    BY <1>1, <1>2, <1>4, <2>1, <2>2, ResolveNextKeeps
  <2>4. /\ serversByName' \subseteq Service \X Nat
        /\ \A s \in serversByName' : s \in serversByName \/ s = <<post.name, generation>>
        /\ serversByName' # serversByName => discoveryListener /\ post.name \in activeServiceNames
    <3>1. <<post.name, post.gen>> \in Service \X Nat
      BY <1>1 DEF Callback
    <3>. QED BY <1>4, <3>1 DEF Fresh, NsdInv, NsdTypeOK
  <2>5. NsdTypeOK'
    BY <1>1, <1>2, <2>3, <2>4 DEF NsdInv, NsdTypeOK
  <2>6. Generations'
    BY <1>1, <1>2, <2>3 DEF NsdInv, Generations
  <2>7. Failing'
    BY <1>1, <1>2, <2>4 DEF NsdInv, Failing, Fresh
  <2>8. ShownAreCurrent'
    <3>1. <<post.name, generation>>[1] = post.name /\ <<post.name, generation>>[2] = generation
      OBVIOUS
    <3>. QED BY <1>1, <1>2, <2>4, <3>1 DEF NsdInv, ShownAreCurrent
  <2>. QED BY <2>3, <2>5, <2>6, <2>7, <2>8 DEF NsdInv
<1>. QED BY <1>3, <1>4 DEF onResolution

LEMMA TimeoutKeeps ==
  ASSUME NsdInv, NEW token \in timeouts, ResolveTimeout(token)
  PROVE  NsdInv'
<1>1. /\ UNCHANGED <<discoveryListener, generation, activeServiceNames, serversByName, posts,
                     reported, restarts, refused>>
      /\ Queue' = Queue /\ posts' \in Seq(Callback)
  BY DEF ResolveTimeout, Queue, NsdInv, NsdTypeOK
<1>2. /\ OneResolve' /\ Tokens'
      /\ resolving' \in BOOLEAN /\ resolveToken' \in Nat /\ timeouts' \subseteq Nat
      /\ pendingResolutions' \in Seq(Service) /\ requests' \subseteq Request
      /\ \A x \in requests' : x.gen <= generation
  <2>1. CASE resolving /\ resolveToken = token
    <3>1. ResolveNext(pendingResolutions, FALSE, token + 1, timeouts \ {token})
      BY <2>1 DEF ResolveTimeout
    <3>2. Free(FALSE, token + 1, timeouts \ {token})
      <4>1. token \in Nat /\ token + 1 \in Nat /\ token + 1 >= resolveToken
        BY <2>1 DEF NsdInv, NsdTypeOK
      <4>2. \A x \in requests : x.token \notin timeouts \ {token}
        BY <2>1 DEF NsdInv, OneResolve
      <4>. QED BY <4>1, <4>2 DEF Free
    <3>3. pendingResolutions \in Seq(Service)
      BY DEF NsdInv, NsdTypeOK
    <3>. QED BY <1>1, <3>1, <3>2, <3>3, ResolveNextKeeps
  <2>2. CASE ~(resolving /\ resolveToken = token)
    <3>1. /\ timeouts' = timeouts \ {token}
          /\ UNCHANGED <<pendingResolutions, resolving, resolveToken, requests>>
      BY <2>2 DEF ResolveTimeout
    <3>2. Tokens'
      BY <1>1, <3>1 DEF NsdInv, Tokens
    <3>3. OneResolve'
      BY <1>1, <2>2, <3>1 DEF NsdInv, OneResolve
    <3>. QED BY <3>1, <3>2, <3>3 DEF NsdInv, NsdTypeOK, Generations
  <2>. QED BY <2>1, <2>2
<1>3. NsdTypeOK'
  BY <1>1, <1>2 DEF NsdInv, NsdTypeOK
<1>4. Generations' /\ Failing' /\ ShownAreCurrent'
  BY <1>1, <1>2 DEF NsdInv, Generations, Failing, Fresh, ShownAreCurrent
<1>. QED BY <1>2, <1>3, <1>4 DEF NsdInv

-------------------------------------------------------------------------------
(* MainActivity around the search                                          *)

AppTypeOK == activityStarted \in BOOLEAN /\ homeVisible \in BOOLEAN

AppInv == NsdInv /\ AppTypeOK /\ SearchWhileHome

(* A search begins, with nothing found, of which no delayed start knows.   *)
Begins ==
  /\ ~discoveryListener /\ (refused' <=> ~discoveryListener') /\ serversByName' = {}
  /\ generation' # generation /\ generation' \notin restarts'

LEMMA AnewGeneration ==
  ASSUME NsdInv, Anew
  PROVE  generation' # generation /\ generation' \notin restarts
<1>1. generation \in Nat /\ generation' = generation + 1
  BY DEF NsdInv, NsdTypeOK, Anew
<1>2. \A g \in restarts : g \in Nat /\ g <= generation
  BY DEF NsdInv, NsdTypeOK, Generations
<1>. QED BY <1>1, <1>2

LEMMA StartSteps ==
  ASSUME NsdInv, start
  PROVE  /\ NsdInv' /\ restarts' = restarts
         /\ \/ /\ discoveryListener
               /\ UNCHANGED <<discoveryListener, generation, serversByName, refused>>
            \/ Begins
<1>1. startOnMainThread /\ UNCHANGED <<resolver, posts, restarts>>
  BY DEF start
<1>2. CASE discoveryListener /\ UNCHANGED <<discoveryListener, generation, tables, reported, refused>>
  BY <1>1, <1>2, Switched DEF tables
<1>3. CASE ~discoveryListener /\ Anew /\ refused' = ~discoveryListener'
  <2>1. generation' # generation /\ generation' \notin restarts'
    BY <1>1, <1>3, AnewGeneration
  <2>2. discoveryListener' \in BOOLEAN /\ serversByName' = {}
    BY <1>3 DEF Anew, Forget
  <2>. QED BY <1>1, <1>3, <2>1, <2>2, Switched DEF Begins
<1>. QED BY <1>1, <1>2, <1>3, StartDoes

LEMMA StopSteps ==
  ASSUME NsdInv, stop
  PROVE  /\ NsdInv' /\ restarts' = restarts
         /\ ~discoveryListener' /\ ~refused' /\ generation' \notin restarts'
<1>1. Anew /\ discoveryListener' = FALSE /\ refused' = FALSE /\ UNCHANGED <<resolver, posts, restarts>>
  BY StopDoes DEF stop, NsdInv
<1>. QED BY <1>1, Switched, AnewGeneration

LEMMA RestartSteps ==
  ASSUME NsdInv, restart
  PROVE  /\ NsdInv' /\ ~discoveryListener' /\ ~refused' /\ generation' \in restarts'
<1>1. /\ Anew /\ discoveryListener' = FALSE /\ refused' = FALSE /\ UNCHANGED <<resolver, posts>>
      /\ restarts' = restarts \union {generation'}
  BY StopDoes DEF restart, NsdInv
<1>. QED BY <1>1, Switched

(* What becomes of the search by itself: nothing, Android refuses it, or   *)
(* its delayed start is due.                                               *)
LEMMA SearchSteps ==
  ASSUME NsdInv, NEW emits \in BOOLEAN, NsdNext(emits)
  PROVE  /\ NsdInv'
         /\ emits \/ generation' # generation \/ serversByName' = serversByName
         /\ emits => generation' = generation
         /\ \/ /\ UNCHANGED <<discoveryListener, generation, refused>>
               /\ generation \in restarts' <=> generation \in restarts
            \/ /\ discoveryListener /\ ~discoveryListener' /\ refused'
               /\ UNCHANGED <<generation, restarts>>
            \/ generation \in restarts /\ Begins
<1>1. ASSUME NEW g \in restarts, Restarted(g)
      PROVE  /\ NsdInv' /\ (generation' # generation \/ serversByName' = serversByName)
             /\ \/ /\ UNCHANGED <<discoveryListener, generation, refused>>
                   /\ generation \in restarts' <=> generation \in restarts
                \/ generation \in restarts /\ Begins
  <2>1. restarts' = restarts \ {g} /\ UNCHANGED <<resolver, posts>>
    BY <1>1 DEF Restarted
  <2>2. CASE generation # g
    <3>1. UNCHANGED <<discoveryListener, generation, tables, reported, refused>>
      BY <1>1, <2>2 DEF Restarted
    <3>. QED BY <2>1, <2>2, <3>1, Switched DEF tables
  <2>3. CASE generation = g
    <3>1. startOnMainThread /\ ~discoveryListener
      BY <1>1, <2>3 DEF Restarted, NsdInv, Generations
    <3>2. Anew /\ refused' = ~discoveryListener'
      BY <3>1, StartDoes
    <3>3. generation' # generation /\ generation' \notin restarts'
      BY <2>1, <3>2, AnewGeneration
    <3>4. discoveryListener' \in BOOLEAN /\ serversByName' = {}
      BY <3>2 DEF Anew, Forget
    <3>5. NsdInv'
      BY <2>1, <3>2, Switched
    <3>. QED BY <2>3, <3>1, <3>2, <3>3, <3>4, <3>5 DEF Begins
  <2>. QED BY <2>2, <2>3
<1>2. CASE onStartDiscoveryFailed
  <2>1. /\ discoveryListener' = (discoveryListener /\ ~Fresh(Head(posts).gen))
        /\ refused' = (refused \/ Fresh(Head(posts).gen)) /\ UNCHANGED <<generation, restarts, serversByName>>
    BY <1>2 DEF onStartDiscoveryFailed, HandlePost, tables
  <2>2. NsdInv'
    BY <1>2, FailedKeeps
  <2>3. CASE Fresh(Head(posts).gen)
    BY <2>1, <2>2, <2>3 DEF Fresh
  <2>4. CASE ~Fresh(Head(posts).gen)
    <3>1. discoveryListener' = discoveryListener /\ refused' = refused
      BY <2>1, <2>4 DEF NsdInv, NsdTypeOK
    <3>. QED BY <2>1, <2>2, <3>1
  <2>. QED BY <2>3, <2>4
<1>3. CASE Report
  BY <1>3, ReportKeeps DEF Report, tables
<1>4. ASSUME NEW x \in requests, Answer(x)
      PROVE  NsdInv' /\ UNCHANGED <<discoveryListener, generation, refused, restarts, serversByName>>
  BY <1>4, AnswerKeeps DEF Answer, tables
<1>5. CASE onServiceFound
  BY <1>5, FoundKeeps DEF onServiceFound, HandlePost
<1>6. CASE onServiceLost(emits)
  <2>1. NsdInv' /\ UNCHANGED <<discoveryListener, generation, refused, restarts>>
    BY <1>6, LostKeeps DEF onServiceLost, HandlePost
  <2>2. emits \/ serversByName' = serversByName
    BY <1>6 DEF onServiceLost
  <2>. QED BY <2>1, <2>2
<1>7. ASSUME NEW what \in {"resolved", "resolveFailed"}, onResolution(what, emits)
      PROVE  /\ NsdInv' /\ UNCHANGED <<discoveryListener, generation, refused, restarts>>
             /\ emits \/ serversByName' = serversByName
  <2>1. NsdInv'
    BY <1>7, ResolutionKeeps
  <2>. QED BY <1>7, <2>1 DEF onResolution, HandlePost
<1>8. ASSUME NEW token \in timeouts, ResolveTimeout(token)
      PROVE  NsdInv' /\ UNCHANGED <<discoveryListener, generation, refused, restarts, serversByName>>
  BY <1>8, TimeoutKeeps DEF ResolveTimeout
<1>9. CASE onServiceLost(emits) \/ \E what \in {"resolved", "resolveFailed"} : onResolution(what, emits)
  BY <1>6, <1>7, <1>9
<1>10. CASE ~emits /\ (\/ \E g \in restarts : Restarted(g)
                       \/ Report
                       \/ \E x \in requests : Answer(x)
                       \/ onServiceFound \/ onStartDiscoveryFailed
                       \/ \E token \in timeouts : ResolveTimeout(token))
  BY <1>1, <1>2, <1>3, <1>4, <1>5, <1>8, <1>10
<1>. QED BY <1>9, <1>10 DEF NsdNext

LEMMA AppStarts == AppInit => AppInv
BY NsdStarts DEF AppInit, NsdInit, AppInv, AppTypeOK, SearchWhileHome

LEMMA AppSteps == AppInv /\ [AppNext]_appVars => AppInv'
<1>. SUFFICES ASSUME AppInv, [AppNext]_appVars
              PROVE  AppInv'
  OBVIOUS
<1>0. /\ NsdInv /\ activityStarted \in BOOLEAN /\ homeVisible \in BOOLEAN
      /\ (discoveryListener \/ generation \in restarts) <=> (activityStarted /\ homeVisible /\ ~refused)
      /\ discoveryListener => generation \notin restarts
      /\ discoveryListener => listed = IF emptied THEN {} ELSE serversByName
  BY DEF AppInv, AppTypeOK, SearchWhileHome, NsdInv, Generations
<1>1. CASE onStart
  <2>1. /\ ~activityStarted /\ activityStarted' = TRUE /\ UNCHANGED homeVisible
    BY <1>1 DEF onStart
  <2>2. CASE homeVisible
    <3>1. start /\ StartedList
      BY <1>1, <2>2 DEF onStart
    <3>2. NsdInv' /\ restarts' = restarts /\ Begins
      BY <1>0, <2>1, <3>1, StartSteps
    <3>3. listed' = {} /\ emptied' = FALSE
      BY <3>1, <3>2 DEF StartedList, Begins
    <3>. QED BY <2>1, <2>2, <3>2, <3>3 DEF Begins, AppInv, AppTypeOK, SearchWhileHome
  <2>3. CASE ~homeVisible
    <3>1. UNCHANGED <<nsdVars, listed, emptied>>
      BY <1>1, <2>3 DEF onStart
    <3>2. UNCHANGED <<discoveryListener, generation, refused, restarts, serversByName>>
      BY <3>1 DEF nsdVars, tables
    <3>3. NsdInv'
      BY <1>0, <3>1, Same
    <3>. QED BY <1>0, <2>1, <2>3, <3>1, <3>2, <3>3 DEF AppInv, AppTypeOK, SearchWhileHome
  <2>. QED BY <1>0, <2>2, <2>3
<1>2. CASE onStop
  <2>1. activityStarted' = FALSE /\ UNCHANGED homeVisible /\ stop
    BY <1>2 DEF onStop
  <2>. QED BY <1>0, <2>1, StopSteps DEF AppInv, AppTypeOK, SearchWhileHome
<1>3. CASE onDestroy
  <2>1. ~activityStarted /\ UNCHANGED <<activityStarted, homeVisible>> /\ stop
    BY <1>3 DEF onDestroy
  <2>. QED BY <1>0, <2>1, StopSteps DEF AppInv, AppTypeOK, SearchWhileHome
<1>4. CASE openWebView
  <2>1. homeVisible' = FALSE /\ UNCHANGED activityStarted /\ stop
    BY <1>4 DEF openWebView
  <2>. QED BY <1>0, <2>1, StopSteps DEF AppInv, AppTypeOK, SearchWhileHome
<1>5. ASSUME UNCHANGED <<nsdVars, activityStarted, homeVisible, listed, emptied>>
      PROVE  AppInv'
  <2>1. UNCHANGED <<discoveryListener, generation, refused, restarts, serversByName>>
    BY <1>5 DEF nsdVars, tables
  <2>2. NsdInv'
    BY <1>0, <1>5, Same
  <2>. QED BY <1>0, <1>5, <2>1, <2>2 DEF AppInv, AppTypeOK, SearchWhileHome
<1>6. CASE onBackPressed
  <2>1. CASE webView = "further"
    BY <1>5, <1>6, <2>1 DEF onBackPressed
  <2>2. CASE webView # "further"
    <3>1. /\ homeVisible' = TRUE /\ listed' = {} /\ start /\ emptied' = discoveryListener
          /\ activityStarted /\ UNCHANGED activityStarted
      BY <1>6, <2>2 DEF onBackPressed, showHome
    <3>2. /\ NsdInv' /\ restarts' = restarts
          /\ \/ discoveryListener /\ UNCHANGED <<discoveryListener, generation, refused>>
             \/ Begins
      BY <1>0, <3>1, StartSteps
    <3>3. (discoveryListener' \/ generation' \in restarts') <=> ~refused'
      <4>1. CASE discoveryListener /\ UNCHANGED <<discoveryListener, generation, refused>>
        <5>1. ~refused
          BY <1>0, <4>1
        <5>. QED BY <4>1, <5>1
      <4>2. CASE Begins
        BY <4>2 DEF Begins
      <4>. QED BY <3>2, <4>1, <4>2
    <3>4. emptied' \/ serversByName' = {}
      BY <3>1 DEF start, startOnMainThread, Forget
    <3>. QED BY <3>1, <3>2, <3>3, <3>4 DEF AppInv, AppTypeOK, SearchWhileHome
  <2>. QED BY <2>1, <2>2
<1>7. CASE Refresh
  <2>1. activityStarted /\ homeVisible /\ UNCHANGED <<activityStarted, homeVisible>> /\ restart
    BY <1>7 DEF Refresh, activityVars
  <2>. QED BY <1>0, <2>1, RestartSteps DEF AppInv, AppTypeOK, SearchWhileHome
<1>8. CASE Searching
  <2>1. PICK emits \in BOOLEAN : NsdNext(emits) /\ IF emits THEN Rendered ELSE StartedList
    BY <1>8 DEF Searching
  <2>0. UNCHANGED <<activityStarted, homeVisible>>
    BY <1>8 DEF Searching
  <2>2. /\ NsdInv'
        /\ emits \/ generation' # generation \/ serversByName' = serversByName
        /\ emits => generation' = generation
        /\ \/ /\ UNCHANGED <<discoveryListener, generation, refused>>
              /\ generation \in restarts' <=> generation \in restarts
           \/ /\ discoveryListener /\ ~discoveryListener' /\ refused'
              /\ UNCHANGED <<generation, restarts>>
           \/ generation \in restarts /\ Begins
    BY <1>0, <2>1, SearchSteps
  <2>3. (discoveryListener' \/ generation' \in restarts')
          <=> (activityStarted /\ homeVisible /\ ~refused')
    <3>1. CASE /\ UNCHANGED <<discoveryListener, generation, refused>>
               /\ generation \in restarts' <=> generation \in restarts
      BY <1>0, <3>1
    <3>2. CASE /\ discoveryListener /\ ~discoveryListener' /\ refused'
               /\ UNCHANGED <<generation, restarts>>
      BY <1>0, <3>2
    <3>3. CASE generation \in restarts /\ Begins
      <4>1. activityStarted /\ homeVisible
        BY <1>0, <3>3
      <4>. QED BY <3>3, <4>1 DEF Begins
    <3>. QED BY <2>2, <3>1, <3>2, <3>3
  <2>4. discoveryListener' => listed' = IF emptied' THEN {} ELSE serversByName'
    <3>. SUFFICES ASSUME discoveryListener'
                  PROVE  listed' = IF emptied' THEN {} ELSE serversByName'
      OBVIOUS
    <3>1. CASE generation' # generation
      <4>1. listed' = {} /\ emptied' = FALSE
        BY <2>1, <2>2, <3>1 DEF StartedList
      <4>2. serversByName' = {}
        BY <2>2, <3>1 DEF Begins
      <4>. QED BY <4>1, <4>2
    <3>2. CASE generation' = generation /\ emits
      <4>1. discoveryListener
        BY <2>2, <3>2 DEF Begins
      <4>. QED BY <1>0, <2>1, <3>2, <4>1 DEF Rendered
    <3>3. CASE generation' = generation /\ ~emits
      <4>1. discoveryListener /\ serversByName' = serversByName
        BY <2>2, <3>3 DEF Begins
      <4>. QED BY <1>0, <2>1, <3>3, <4>1 DEF StartedList
    <3>. QED BY <3>1, <3>2, <3>3
  <2>. QED BY <1>0, <2>0, <2>2, <2>3, <2>4 DEF AppInv, AppTypeOK, SearchWhileHome
<1>9. CASE Browse \/ UNCHANGED appVars
  BY <1>5, <1>9 DEF Browse, appVars, activityVars
<1>. QED BY <1>1, <1>2, <1>3, <1>4, <1>6, <1>7, <1>8, <1>9 DEF AppNext

(* The resolver has one request at a time, and what waits for it is served.*)
THEOREM OneAtATime == AppSpec => []OneResolve
<1>1. AppInv => OneResolve
  BY DEF AppInv, NsdInv
<1>. QED BY <1>1, AppStarts, AppSteps, PTL DEF AppSpec

(* What is shown belongs to the search that runs.                          *)
THEOREM ShownCurrent == AppSpec => []ShownAreCurrent
<1>1. AppInv => ShownAreCurrent
  BY DEF AppInv, NsdInv
<1>. QED BY <1>1, AppStarts, AppSteps, PTL DEF AppSpec

(* The app searches exactly while its home screen is in view.              *)
THEOREM SearchesAtHome == AppSpec => []SearchWhileHome
<1>1. AppInv => SearchWhileHome
  BY DEF AppInv
<1>. QED BY <1>1, AppStarts, AppSteps, PTL DEF AppSpec

===============================================================================
