---------------------------- MODULE WebClient_proofs ----------------------------
(***************************************************************************)
(* Theorems of the web page's independent parts, which share no state (see *)
(* MCClient): its connection, an upload task and the file list.            *)
(***************************************************************************)
EXTENDS UploadClient, WsClient, FileView, FiniteSetTheorems, SequenceTheorems, TLAPS

-------------------------------------------------------------------------------
(* WsClient, for any number of generations and of events under way         *)

SocketState == {"none", "connecting", "open", "gone", "failed", "aborted"}

WsTypeOK ==
  /\ onLine \in BOOLEAN /\ timer \in BOOLEAN
  /\ events \in Seq({"online", "offline"})
  /\ wsGeneration \in 0..MaxGeneration /\ ws \in 0..MaxGeneration
  /\ socket \in [Generation -> SocketState]
  /\ connection \in {"connecting", "connected", "offline"}

(* The last event under way tells what navigator.onLine has become.        *)
Announced == events # <<>> => (events[Len(events)] = "online" <=> onLine)

(* A generation has a socket when its number was given, and one whose      *)
(* handlers would be heard only while it is the page's own; a socket that  *)
(* the offline event closed is of a former generation.                     *)
Owned(g) ==
  /\ g > wsGeneration => socket[g] = "none"
  /\ g = wsGeneration /\ socket[g] \in {"connecting", "open", "failed"} => ws = g
  /\ socket[g] = "aborted" => g < wsGeneration

WsInv == WsTypeOK /\ Announced /\ NeverStranded /\ \A g \in Generation : Owned(g)

LEMMA WsInit == WsClientInit => WsInv
BY WsClientAssumption DEF WsClientInit, WsInv, WsTypeOK, SocketState, Announced, NeverStranded, Owned, Generation

(* connectWebSocket, of which the events that stay under way are known     *)
LEMMA Connected ==
  ASSUME WsInv, connectWebSocket, UNCHANGED onLine, Announced',
         events' \in Seq({"online", "offline"})
  PROVE  WsInv'
<1>1. CASE onLine
  <2>1. /\ wsGeneration' = wsGeneration + 1 /\ wsGeneration < MaxGeneration
        /\ ws' = wsGeneration' /\ timer' = FALSE /\ connection' = "connecting"
        /\ socket' = [g \in Generation |-> CASE g = ws' -> "connecting"
                                             [] g = ws -> "gone"
                                             [] OTHER -> socket[g]]
    BY <1>1 DEF connectWebSocket, NextGeneration
  <2>2. /\ ws' \in Generation /\ wsGeneration \in Nat /\ MaxGeneration \in Nat
        /\ ws' # ws /\ (ws # 0 => ws = wsGeneration)
    BY <2>1, WsClientAssumption DEF WsInv, WsTypeOK, NeverStranded, Generation
  <2>3. \A g \in Generation : socket'[g] = IF g = ws' THEN "connecting"
                                           ELSE IF g = ws THEN "gone" ELSE socket[g]
    BY <2>1, <2>2
  <2>4. WsTypeOK'
    <3>1. \A g \in Generation :
            socket'[g] \in SocketState
      BY <2>3 DEF WsInv, WsTypeOK, SocketState
    <3>2. socket' \in [Generation -> SocketState]
      BY <2>1, <3>1
    <3>3. onLine' \in BOOLEAN /\ timer' \in BOOLEAN
      BY <2>1 DEF WsInv, WsTypeOK
    <3>4. wsGeneration' \in 0..MaxGeneration /\ ws' \in 0..MaxGeneration
      BY <2>1, <2>2 DEF Generation
    <3>5. connection' \in {"connecting", "connected", "offline"}
      BY <2>1
    <3>. QED BY <3>2, <3>3, <3>4, <3>5 DEF WsTypeOK
  <2>5. ASSUME NEW g \in Generation
        PROVE  Owned(g)'
    BY <2>1, <2>2, <2>3 DEF WsInv, Owned, Generation
  <2>6. NeverStranded'
    BY <2>1, <2>2, <2>3 DEF NeverStranded, Generation
  <2>. QED BY <2>4, <2>5, <2>6 DEF WsInv
<1>2. CASE ~onLine
  <2>1. /\ timer' = FALSE /\ connection' = "offline"
        /\ UNCHANGED <<wsGeneration, ws, socket>>
    BY <1>2 DEF connectWebSocket
  <2>. QED BY <1>2, <2>1 DEF WsInv, WsTypeOK, NeverStranded, Owned
<1>. QED BY <1>1, <1>2

(* A socket that goes on tells of itself only while it is the newest.      *)
LEMMA SocketSteps ==
  ASSUME WsInv, NEW g \in Generation, OnOpen(g) \/ Fails(g) \/ OnClose(g) \/ OnError(g)
  PROVE  WsInv'
<1>1. /\ UNCHANGED <<onLine, events, wsGeneration>>
      /\ g \in Nat /\ wsGeneration \in Nat /\ g > 0
      /\ \A h \in Generation : h # g => socket'[h] = socket[h]
      /\ socket' \in [Generation -> SocketState]
  <2>1. PICK ended \in SocketState : socket' = [socket EXCEPT ![g] = ended]
    BY DEF OnOpen, Fails, OnClose, OnError, SocketState
  <2>2. UNCHANGED <<onLine, events, wsGeneration>>
    BY DEF OnOpen, Fails, OnClose, OnError
  <2>3. g \in Nat /\ wsGeneration \in Nat /\ g > 0
    BY DEF WsInv, WsTypeOK, Generation
  <2>. QED BY <2>1, <2>2, <2>3 DEF WsInv, WsTypeOK
<1>2. Announced'
  BY <1>1 DEF WsInv, Announced
<1>3. Owned(g) /\ (ws # 0 => ws = wsGeneration /\ ws \in Generation)
  BY DEF WsInv, WsTypeOK, NeverStranded, Generation
<1>4. CASE OnOpen(g)
  <2>1. /\ socket[g] = "connecting" /\ socket'[g] = "open" /\ UNCHANGED <<ws, timer>>
        /\ connection' = IF g = wsGeneration THEN "connected" ELSE connection
    BY <1>4 DEF OnOpen, Current, WsInv, WsTypeOK
  <2>2. NeverStranded'
    BY <1>1, <1>3, <2>1 DEF WsInv, NeverStranded, Owned
  <2>3. \A h \in Generation : Owned(h)'
    BY <1>1, <1>3, <2>1 DEF WsInv, Owned
  <2>. QED BY <1>1, <1>2, <2>1, <2>2, <2>3 DEF WsInv, WsTypeOK
<1>5. CASE Fails(g)
  <2>1. /\ socket[g] \in {"connecting", "open"} /\ socket'[g] = "failed"
        /\ UNCHANGED <<ws, timer, connection>>
    BY <1>5 DEF Fails, WsInv, WsTypeOK
  <2>2. NeverStranded'
    BY <1>1, <1>3, <2>1 DEF WsInv, NeverStranded, Owned
  <2>3. \A h \in Generation : Owned(h)'
    BY <1>1, <1>3, <2>1 DEF WsInv, Owned
  <2>. QED BY <1>1, <1>2, <2>1, <2>2, <2>3 DEF WsInv, WsTypeOK
<1>6. CASE OnClose(g)
  <2>1. /\ socket[g] = "failed" /\ socket'[g] = "gone"
        /\ IF g = wsGeneration
             THEN /\ ws' = 0 /\ timer' = onLine
                  /\ connection' = IF onLine THEN "connecting" ELSE "offline"
             ELSE UNCHANGED <<ws, timer, connection>>
    BY <1>6 DEF OnClose, Current, scheduleWebSocketReconnect, WsInv, WsTypeOK
  <2>2. NeverStranded'
    BY <1>1, <1>3, <2>1 DEF WsInv, NeverStranded, Owned
  <2>3. \A h \in Generation : Owned(h)'
    BY <1>1, <1>3, <2>1 DEF WsInv, Owned
  <2>4. /\ ws' \in 0..MaxGeneration /\ timer' \in BOOLEAN
        /\ connection' \in {"connecting", "connected", "offline"}
    BY <2>1, WsClientAssumption DEF WsInv, WsTypeOK
  <2>. QED BY <1>1, <1>2, <2>2, <2>3, <2>4 DEF WsInv, WsTypeOK
<1>7. CASE OnError(g)
  <2>1. /\ socket[g] = "aborted" /\ socket'[g] = "gone" /\ UNCHANGED <<ws, timer>>
        /\ g < wsGeneration
    BY <1>3, <1>7 DEF OnError, Owned, WsInv, WsTypeOK
  <2>2. UNCHANGED connection
    BY <1>1, <1>7, <2>1 DEF OnError, Current
  <2>3. NeverStranded'
    BY <1>1, <1>3, <2>1, <2>2 DEF WsInv, NeverStranded
  <2>4. \A h \in Generation : Owned(h)'
    BY <1>1, <1>3, <2>1 DEF WsInv, Owned
  <2>. QED BY <1>1, <1>2, <2>1, <2>2, <2>3, <2>4 DEF WsInv, WsTypeOK
<1>. QED BY <1>4, <1>5, <1>6, <1>7

(* The page's own connection is never lost for good.                       *)
THEOREM Stranded == WsClientSpec => []NeverStranded
<1>1. WsInv /\ [WsClientNext]_wsClientVars => WsInv'
  <2>. SUFFICES ASSUME WsInv, [WsClientNext]_wsClientVars
                PROVE  WsInv'
    OBVIOUS
  <2>1. CASE Reconnect \/ SubmitPin
    <3>1. connectWebSocket /\ UNCHANGED <<onLine, events>>
      BY <2>1 DEF Reconnect, SubmitPin
    <3>2. Announced' /\ events' \in Seq({"online", "offline"})
      BY <3>1 DEF WsInv, WsTypeOK, Announced
    <3>. QED BY <3>1, <3>2, Connected
  <2>2. ASSUME NEW g \in Generation, OnOpen(g) \/ Fails(g) \/ OnClose(g) \/ OnError(g)
        PROVE  WsInv'
    BY <2>2, SocketSteps
  <2>3. CASE NetworkChanges
    <3>1. /\ onLine' = ~onLine /\ events' = Append(events, IF onLine THEN "offline" ELSE "online")
          /\ UNCHANGED <<wsGeneration, ws, socket, timer, connection>>
      BY <2>3 DEF NetworkChanges
    <3>2. /\ events \in Seq({"online", "offline"}) /\ onLine \in BOOLEAN /\ onLine' \in BOOLEAN
      BY <3>1 DEF WsInv, WsTypeOK
    <3>3. PICK event \in {"online", "offline"} : event = IF onLine THEN "offline" ELSE "online"
      BY <3>2
    <3>4. /\ events' \in Seq({"online", "offline"}) /\ events' # <<>>
          /\ Len(events') = Len(events) + 1 /\ events'[Len(events) + 1] = event
      BY <3>1, <3>2, <3>3
    <3>5. WsTypeOK'
      BY <3>1, <3>2, <3>4 DEF WsInv, WsTypeOK
    <3>6. Announced'
      BY <3>1, <3>2, <3>3, <3>4 DEF Announced
    <3>7. NeverStranded' /\ \A g \in Generation : Owned(g)'
      BY <3>1, <3>4 DEF WsInv, NeverStranded, Owned
    <3>. QED BY <3>5, <3>6, <3>7 DEF WsInv
  <2>4. ASSUME NEW event \in {"online", "offline"}, Handle(event), UNCHANGED onLine
        PROVE  /\ events' \in Seq({"online", "offline"}) /\ Announced'
               /\ events' = <<>> => (event = "online" <=> onLine)
    <3>1. /\ events \in Seq({"online", "offline"}) /\ events # <<>> /\ Head(events) = event
          /\ events' = Tail(events)
      BY <2>4 DEF Handle, WsInv, WsTypeOK
    <3>2. /\ events' \in Seq({"online", "offline"}) /\ Len(events') = Len(events) - 1
          /\ Len(events) \in Nat /\ Len(events) > 0 /\ events[1] = event
          /\ \A i \in 1..Len(events') : events'[i] = events[i + 1]
      BY <3>1
    <3>3. events[Len(events)] = "online" <=> onLine
      BY <3>1 DEF WsInv, Announced
    <3>4. events' = <<>> <=> Len(events') = 0
      BY <3>2
    <3>5. Announced'
      <4>1. CASE events' # <<>>
        <5>1. Len(events') \in 1..Len(events') /\ Len(events') + 1 = Len(events)
          BY <3>2, <3>4, <4>1
        <5>2. events'[Len(events')] = events[Len(events)]
          BY <3>2, <5>1
        <5>. QED BY <2>4, <3>3, <5>2 DEF Announced
      <4>. QED BY <4>1 DEF Announced
    <3>6. events' = <<>> => Len(events) = 1
      BY <3>2, <3>4
    <3>. QED BY <3>2, <3>3, <3>5, <3>6
  <2>5. CASE OnOnline
    BY <2>4, <2>5, Connected DEF OnOnline
  <2>6. CASE OnOffline
    <3>1. /\ Handle("offline") /\ UNCHANGED onLine
          /\ wsGeneration < MaxGeneration /\ wsGeneration' = wsGeneration + 1
          /\ ws' = 0 /\ timer' = FALSE /\ connection' = "offline"
          /\ socket' = [g \in Generation |-> IF g = ws THEN "aborted" ELSE socket[g]]
      BY <2>6 DEF OnOffline, NextGeneration
    <3>2. /\ events' \in Seq({"online", "offline"}) /\ Announced'
          /\ events' = <<>> => ~onLine
      BY <2>4, <3>1
    <3>3. /\ wsGeneration \in Nat /\ MaxGeneration \in Nat /\ wsGeneration' \in 0..MaxGeneration
          /\ ws # 0 => ws = wsGeneration
          /\ \A g \in Generation : socket'[g] = IF g = ws THEN "aborted" ELSE socket[g]
      BY <3>1, WsClientAssumption DEF WsInv, WsTypeOK, NeverStranded
    <3>4. socket' \in [Generation -> SocketState]
      BY <3>1 DEF WsInv, WsTypeOK, SocketState
    <3>5. WsTypeOK'
      <4>1. onLine' \in BOOLEAN /\ timer' \in BOOLEAN
        BY <3>1 DEF WsInv, WsTypeOK
      <4>2. ws' \in 0..MaxGeneration
        BY <3>1, <3>3
      <4>3. connection' \in {"connecting", "connected", "offline"}
        BY <3>1
      <4>. QED BY <3>2, <3>3, <3>4, <4>1, <4>2, <4>3 DEF WsTypeOK
    <3>6. NeverStranded'
      BY <3>1, <3>2 DEF NeverStranded
    <3>7. ASSUME NEW g \in Generation
          PROVE  Owned(g)'
      BY <3>1, <3>3 DEF WsInv, Owned, Generation
    <3>. QED BY <3>2, <3>5, <3>6, <3>7 DEF WsInv
  <2>7. CASE UNCHANGED wsClientVars
    BY <2>7 DEF wsClientVars, WsInv, WsTypeOK, Announced, NeverStranded, Owned
  <2>. QED BY <2>1, <2>2, <2>3, <2>5, <2>6, <2>7 DEF WsClientNext
<1>2. WsInv => NeverStranded
  BY DEF WsInv
<1>. QED BY <1>1, <1>2, WsInit, PTL DEF WsClientSpec

-------------------------------------------------------------------------------
(* UploadClient, for any chunks, workers, retries and number of runs        *)

Worker == Chunk \X Nat

RunState == [phase : {"status", "chunks", "completing", "ended"}, pending : SUBSET Chunk,
             sending : SUBSET Worker, waiting : SUBSET Worker]

(* The chunks that the workers of a run have in hand                       *)
Busy(r) == {w[1] : w \in Workers(r)}

(* What holds of each run, the superseded ones included                    *)
Sound(r) ==
  /\ r \in RunState
  /\ \A v, w \in Workers(r) : v[1] = w[1] => v = w
  /\ r.sending \intersect r.waiting = {}
  /\ r.pending \intersect Busy(r) = {}
  /\ Cardinality(Busy(r)) <= PARALLEL_CHUNKS
  /\ r.phase \in {"status", "completing"} => Workers(r) = {}

(* What a run may do while the task is as it is: a chunk that the newest   *)
(* run still needs is acknowledged, in hand or to be taken.                *)
Role(t) ==
  /\ runs[t].sending # {} => Live(t) /\ runs[t].phase = "chunks"
  /\ runs[t].phase = "completing" => t = runToken /\ state = "finalizing"
  /\ t > runToken => runs[t] = NoRun
  /\ Live(t) /\ runs[t].phase = "chunks" =>
       Chunk \subseteq completedChunks \union runs[t].pending \union Busy(runs[t])

UploadClientTypeOK ==
  /\ state \in {"running", "paused", "failed", "cancelled", "finalizing", "done"}
  /\ runToken \in Token /\ completedChunks \subseteq Chunk /\ uploadedBytes \in Nat

UInv ==
  /\ UploadClientTypeOK /\ NeverStuck
  /\ runs = [t \in Token |-> runs[t]]
  /\ \A t \in Token : Sound(runs[t]) /\ Role(t)

(* Where an element stands in a finite set of numbers                      *)
LEMMA Rank ==
  ASSUME NEW S \in SUBSET Nat, IsFiniteSet(S)
  PROVE  [d \in S |-> Cardinality({e \in S : e < d})] \in Injection(S, 0..(Cardinality(S) - 1))
<1>. DEFINE less(d) == {e \in S : e < d}
            f == [d \in S |-> Cardinality(less(d))]
<1>1. Cardinality(S) \in Nat
  BY FS_CardinalityType
<1>2. ASSUME NEW d \in S
      PROVE  Cardinality(less(d)) \in 0..(Cardinality(S) - 1)
  <2>1. less(d) \in SUBSET S /\ d \notin less(d)
    OBVIOUS
  <2>2. /\ IsFiniteSet(less(d)) /\ Cardinality(less(d)) <= Cardinality(S)
        /\ Cardinality(S) # Cardinality(less(d))
    BY <2>1, FS_Subset
  <2>3. Cardinality(less(d)) \in Nat
    BY <2>2, FS_CardinalityType
  <2>. QED BY <1>1, <2>2, <2>3
<1>3. ASSUME NEW c \in S, NEW d \in S, c < d
      PROVE  Cardinality(less(c)) < Cardinality(less(d))
  <2>1. less(d) \in SUBSET S
    OBVIOUS
  <2>2. /\ less(c) \in SUBSET less(d) /\ c \in less(d) /\ c \notin less(c)
    <3>1. c \in Nat /\ d \in Nat /\ \A e \in S : e \in Nat
      OBVIOUS
    <3>2. \A e \in S : e < c => e < d
      BY <1>3, <3>1
    <3>3. ~(c < c)
      BY <3>1
    <3>. QED BY <1>3, <3>2, <3>3
  <2>3. IsFiniteSet(less(d))
    BY <2>1, FS_Subset
  <2>4. /\ IsFiniteSet(less(c)) /\ Cardinality(less(c)) <= Cardinality(less(d))
        /\ Cardinality(less(d)) # Cardinality(less(c))
    BY <2>2, <2>3, FS_Subset
  <2>5. Cardinality(less(c)) \in Nat /\ Cardinality(less(d)) \in Nat
    BY <2>3, <2>4, FS_CardinalityType
  <2>. QED BY <2>4, <2>5
<1>4. f \in [S -> 0..(Cardinality(S) - 1)]
  BY <1>2
<1>5. ASSUME NEW c \in S, NEW d \in S, f[c] = f[d]
      PROVE  c = d
  <2>1. Cardinality(less(c)) = Cardinality(less(d))
    BY <1>5
  <2>2. ~(c < d) /\ ~(d < c)
    <3>1. Cardinality(less(c)) \in Nat /\ Cardinality(less(d)) \in Nat
      BY <1>2, <1>1
    <3>. QED BY <1>3, <2>1, <3>1
  <2>3. c \in Nat /\ d \in Nat
    OBVIOUS
  <2>. QED BY <2>2, <2>3
<1>6. f \in Injection(S, 0..(Cardinality(S) - 1))
  BY <1>4, <1>5 DEF Injection, IsInjective
<1>. QED BY <1>6

(* Workers begin with chunks of their own, at most so many, and with one   *)
(* if there is one.                                                        *)
LEMMA Takes ==
  ASSUME NEW S \in SUBSET Chunk, NEW n \in Nat, n > 0
  PROVE  /\ Taking(S, n) \subseteq S \X {0}
         /\ IsFiniteSet({w[1] : w \in Taking(S, n)})
         /\ Cardinality({w[1] : w \in Taking(S, n)}) <= n
         /\ S # {} => Taking(S, n) # {}
<1>. DEFINE less(d) == {e \in S : e < d}
            D == {d \in S : Cardinality(less(d)) < n}
            f == [d \in S |-> Cardinality(less(d))]
            g == [d \in D |-> Cardinality(less(d))]
<1>1. S \in SUBSET Nat /\ IsFiniteSet(S)
  BY UploadClientAssumption, FS_Subset
<1>2. Cardinality(S) \in Nat
  BY <1>1, FS_CardinalityType
<1>3. f \in Injection(S, 0..(Cardinality(S) - 1))
  BY <1>1, Rank
<1>4. /\ f \in [S -> 0..(Cardinality(S) - 1)]
      /\ \A c, d \in S : f[c] = f[d] => c = d
  BY <1>3 DEF Injection, IsInjective
<1>5. Taking(S, n) = {<<c, 0>> : c \in D}
  BY DEF Taking
<1>6. {w[1] : w \in Taking(S, n)} = D
  <2>1. ASSUME NEW c \in D
        PROVE  c \in {w[1] : w \in Taking(S, n)}
    <3>1. <<c, 0>> \in Taking(S, n) /\ <<c, 0>>[1] = c
      <4>. HIDE DEF D
      <4>. QED BY <1>5
    <3>. QED BY <3>1
  <2>2. ASSUME NEW w \in Taking(S, n)
        PROVE  w[1] \in D
    <3>. HIDE DEF D
    <3>. QED BY <1>5
  <2>. HIDE DEF D
  <2>. QED BY <2>1, <2>2
<1>7. IsFiniteSet(D) /\ Cardinality(D) <= n
  <2>1. \A d \in D : f[d] = g[d] /\ g[d] \in 0..(n - 1) /\ d \in S
    <3>. SUFFICES ASSUME NEW d \in D
                  PROVE  f[d] = g[d] /\ g[d] \in 0..(n - 1) /\ d \in S
      OBVIOUS
    <3>1. d \in S /\ f[d] = Cardinality(less(d)) /\ g[d] = Cardinality(less(d)) /\ g[d] < n
      OBVIOUS
    <3>2. f[d] \in 0..(Cardinality(S) - 1)
      BY <1>4, <3>1
    <3>. HIDE DEF less, D, f, g
    <3>. QED BY <1>2, <3>1, <3>2
  <2>2. g \in [D -> 0..(n - 1)]
    BY <2>1
  <2>3. \A c, d \in D : g[c] = g[d] => c = d
    <3>. HIDE DEF less, D, f, g
    <3>. QED BY <1>4, <2>1
  <2>4. g \in Injection(D, 0..(n - 1))
    <3>. HIDE DEF less, D, f, g
    <3>. QED BY <2>2, <2>3 DEF Injection, IsInjective
  <2>5. IsFiniteSet(0..(n - 1)) /\ Cardinality(0..(n - 1)) = n
    <3>1. 0 \in Int /\ n - 1 \in Int /\ ~(0 > n - 1) /\ (n - 1) - 0 + 1 = n
      OBVIOUS
    <3>. QED BY <3>1, FS_Interval
  <2>. HIDE DEF less, D, f, g
  <2>. QED BY <2>4, <2>5, FS_Injection
<1>8. ASSUME S # {}
      PROVE  D # {}
  <2>1. Cardinality(S) # 0
    BY <1>1, <1>8, FS_EmptySet
  <2>2. /\ IsFiniteSet(0..(Cardinality(S) - 1))
        /\ Cardinality(0..(Cardinality(S) - 1)) = Cardinality(S)
    <3>1. /\ 0 \in Int /\ Cardinality(S) - 1 \in Int /\ ~(0 > Cardinality(S) - 1)
          /\ (Cardinality(S) - 1) - 0 + 1 = Cardinality(S)
      BY <1>2, <2>1
    <3>. QED BY <3>1, FS_Interval
  <2>3. f \in Surjection(S, 0..(Cardinality(S) - 1))
    <3>. HIDE DEF f
    <3>. QED BY <1>3, <2>2, FS_Injection
  <2>4. 0 \in 0..(Cardinality(S) - 1)
    BY <1>2, <2>1
  <2>5. PICK d \in S : f[d] = 0
    <3>. HIDE DEF f
    <3>. QED BY <2>3, <2>4 DEF Surjection
  <2>6. d \in D
    BY <2>5
  <2>. QED BY <2>6
<1>9. Taking(S, n) \subseteq S \X {0}
  <2>1. D \subseteq S
    OBVIOUS
  <2>. HIDE DEF D
  <2>. QED BY <1>5, <2>1
<1>10. S # {} => Taking(S, n) # {}
  BY <1>5, <1>8
<1>. QED BY <1>6, <1>7, <1>9, <1>10

LEMMA InHand ==
  ASSUME NEW r, Sound(r)
  PROVE  /\ Workers(r) \subseteq Worker /\ Busy(r) \subseteq Chunk
         /\ IsFiniteSet(Busy(r)) /\ Cardinality(Busy(r)) \in Nat
         /\ Cardinality(Workers(r)) = Cardinality(Busy(r))
<1>. DEFINE f == [w \in Workers(r) |-> w[1]]
<1>1. r.sending \subseteq Worker /\ r.waiting \subseteq Worker
  BY DEF Sound, RunState
<1>2. Workers(r) \subseteq Worker
  BY <1>1 DEF Workers
<1>3. \A w \in Workers(r) : w[1] \in Chunk
  BY <1>2 DEF Worker
<1>4. Busy(r) \subseteq Chunk
  BY <1>3 DEF Busy
<1>5. IsFiniteSet(Busy(r))
  BY <1>4, UploadClientAssumption, FS_Subset
<1>6. Cardinality(Busy(r)) \in Nat
  BY <1>5, FS_CardinalityType
<1>7. f \in [Workers(r) -> Busy(r)]
  BY DEF Busy
<1>8. \A v, w \in Workers(r) : f[v] = f[w] => v = w
  BY DEF Sound
<1>9. f \in Injection(Workers(r), Busy(r))
  <2>. HIDE DEF f
  <2>. QED BY <1>7, <1>8 DEF Injection, IsInjective
<1>10. \A c \in Busy(r) : \E w \in Workers(r) : f[w] = c
  BY DEF Busy
<1>11. f \in Surjection(Workers(r), Busy(r))
  <2>. HIDE DEF f
  <2>. QED BY <1>7, <1>10 DEF Surjection
<1>12. Cardinality(Workers(r)) = Cardinality(Busy(r))
  <2>. HIDE DEF f
  <2>. QED BY <1>5, <1>9, <1>11, FS_Injection
<1>. QED BY <1>2, <1>4, <1>5, <1>6, <1>12

(* A run that loses workers, or whose workers go on with their chunks      *)
LEMMA Lighter ==
  ASSUME NEW r, Sound(r), NEW q \in RunState, q.pending \subseteq r.pending,
         Busy(q) \subseteq Busy(r),
         \A v, w \in Workers(q) : v[1] = w[1] => v = w,
         q.sending \intersect q.waiting = {},
         q.phase \in {"status", "completing"} => Workers(q) = {}
  PROVE  Sound(q)
<1>1. IsFiniteSet(Busy(r)) /\ Cardinality(Busy(r)) \in Nat /\ Cardinality(Busy(r)) <= PARALLEL_CHUNKS
  BY InHand DEF Sound
<1>2. IsFiniteSet(Busy(q)) /\ Cardinality(Busy(q)) <= Cardinality(Busy(r))
  BY <1>1, FS_Subset
<1>3. Cardinality(Busy(q)) \in Nat
  BY <1>2, FS_CardinalityType
<1>4. Cardinality(Busy(q)) <= PARALLEL_CHUNKS
  BY <1>1, <1>2, <1>3, UploadClientAssumption
<1>5. q.pending \intersect Busy(q) = {}
  BY DEF Sound
<1>. QED BY <1>4, <1>5 DEF Sound

LEMMA DroppedRun ==
  ASSUME NEW r, Sound(r)
  PROVE  /\ Sound(Dropped(r)) /\ Workers(Dropped(r)) = Workers(r)
         /\ Dropped(r).phase = "ended" /\ Dropped(r).pending = r.pending
         /\ Dropped(r).sending = r.sending /\ Dropped(r).waiting = r.waiting
<1>1. r \in RunState
  BY DEF Sound
<1>2. /\ Dropped(r) \in RunState
      /\ Dropped(r).phase = "ended" /\ Dropped(r).pending = r.pending
      /\ Dropped(r).sending = r.sending /\ Dropped(r).waiting = r.waiting
  BY <1>1 DEF Dropped, RunState
<1>3. Workers(Dropped(r)) = Workers(r)
  BY <1>2 DEF Workers
<1>4. Busy(Dropped(r)) = Busy(r)
  BY <1>3 DEF Busy
<1>. QED BY <1>2, <1>3, <1>4 DEF Sound

(* A failed attempt, which leaves its chunk in hand                        *)
LEMMA RetriedWorker ==
  ASSUME NEW w \in Worker
  PROVE  Retried(w) \in Worker /\ Retried(w)[1] = w[1] /\ Retried(w) # w
BY DEF Retried, Worker

(* A run whose requests are given up, but for those that count as failed   *)
GaveUp(r, kept) ==
  [r EXCEPT !.sending = {}, !.waiting = @ \union {Retried(w) : w \in kept},
            !.phase = IF kept = r.sending THEN @ ELSE "ended"]

LEMMA GivenUp ==
  ASSUME NEW r, Sound(r), NEW kept \in SUBSET r.sending, NEW q, q = GaveUp(r, kept)
  PROVE  /\ Sound(q) /\ q.sending = {} /\ q.phase \in {r.phase, "ended"}
         /\ r.sending = {} => q = r
<1>1. r \in RunState /\ r.sending \subseteq Worker /\ r.waiting \subseteq Worker
  BY DEF Sound, RunState
<1>2. {Retried(w) : w \in kept} \subseteq Worker
  BY <1>1, RetriedWorker
<1>3. /\ q.sending = {} /\ q.waiting = r.waiting \union {Retried(w) : w \in kept}
      /\ q.pending = r.pending /\ q.phase \in {r.phase, "ended"}
  BY <1>1 DEF RunState, GaveUp
<1>4. q \in RunState
  <2>1. PICK late \in SUBSET Worker : late = {Retried(w) : w \in kept}
    BY <1>2
  <2>2. q = [r EXCEPT !.sending = {}, !.waiting = @ \union late,
                      !.phase = IF kept = r.sending THEN @ ELSE "ended"]
    BY <2>1 DEF GaveUp
  <2>. QED BY <1>1, <2>2 DEF RunState
<1>5. Workers(q) = r.waiting \union {Retried(w) : w \in kept}
  BY <1>3 DEF Workers
<1>6. ASSUME NEW v \in Workers(q)
      PROVE  \E u \in Workers(r) :
               /\ u[1] = v[1]
               /\ (u \in r.waiting /\ v = u) \/ (u \in kept /\ v = Retried(u))
  <2>1. CASE v \in r.waiting
    BY <2>1 DEF Workers
  <2>2. CASE v \in {Retried(w) : w \in kept}
    <3>1. PICK w \in kept : v = Retried(w)
      BY <2>2
    <3>2. w \in Worker /\ w \in Workers(r)
      BY <1>1 DEF Workers
    <3>. QED BY <3>1, <3>2, RetriedWorker
  <2>. QED BY <1>5, <2>1, <2>2
<1>7. Busy(q) \subseteq Busy(r)
  <2>1. ASSUME NEW c \in Busy(q)
        PROVE  c \in Busy(r)
    <3>1. PICK v \in Workers(q) : c = v[1]
      BY <2>1 DEF Busy
    <3>2. PICK u \in Workers(r) : u[1] = v[1]
      BY <1>6
    <3>. QED BY <3>1, <3>2 DEF Busy
  <2>. QED BY <2>1
<1>8. ASSUME NEW v \in Workers(q), NEW w \in Workers(q), v[1] = w[1]
      PROVE  v = w
  <2>1. PICK x \in Workers(r) : /\ x[1] = v[1]
                                /\ (x \in r.waiting /\ v = x) \/ (x \in kept /\ v = Retried(x))
    BY <1>6
  <2>2. PICK y \in Workers(r) : /\ y[1] = w[1]
                                /\ (y \in r.waiting /\ w = y) \/ (y \in kept /\ w = Retried(y))
    BY <1>6
  <2>3. x = y
    BY <1>8, <2>1, <2>2 DEF Sound
  <2>4. ~(x \in r.waiting /\ x \in kept)
    BY DEF Sound
  <2>. QED BY <2>1, <2>2, <2>3, <2>4
<1>9. ASSUME q.phase \in {"status", "completing"}
      PROVE  Workers(q) = {}
  <2>1. q.phase = r.phase
    BY <1>3, <1>9
  <2>2. Workers(r) = {}
    BY <1>9, <2>1 DEF Sound
  <2>. QED BY <1>6, <2>2
<1>10. Sound(q)
  BY <1>3, <1>4, <1>7, <1>8, <1>9, Lighter
<1>11. ASSUME r.sending = {}
       PROVE  q = r
  <2>1. kept = {} /\ {Retried(w) : w \in kept} = {}
    BY <1>11
  <2>2. q.sending = r.sending /\ q.waiting = r.waiting /\ q.phase = r.phase
    BY <1>1, <1>3, <1>11, <2>1 DEF RunState, GaveUp
  <2>. QED BY <1>1, <1>3, <1>4, <2>2 DEF RunState
<1>. QED BY <1>3, <1>10, <1>11

(* abortTaskRequests leaves no request, whoever calls it.                  *)
LEMMA Aborted ==
  ASSUME NEW rs, \A t \in Token : Sound(rs[t]), Abort(rs)
  PROVE  /\ runs' = [t \in Token |-> runs'[t]]
         /\ \A t \in Token :
              /\ Sound(runs'[t]) /\ runs'[t].sending = {}
              /\ runs'[t].phase \in {rs[t].phase, "ended"}
              /\ rs[t].sending = {} => runs'[t] = rs[t]
<1>1. PICK kept \in SUBSET UNION {{t} \X rs[t].sending : t \in Token} :
        runs' = [t \in Token |->
          LET retrying == {w \in rs[t].sending : <<t, w>> \in kept}
          IN  [rs[t] EXCEPT !.sending = {},
                            !.waiting = @ \union {Retried(w) : w \in retrying},
                            !.phase = IF retrying = rs[t].sending THEN @ ELSE "ended"]]
  BY DEF Abort
<1>2. ASSUME NEW t \in Token
      PROVE  /\ Sound(runs'[t]) /\ runs'[t].sending = {}
             /\ runs'[t].phase \in {rs[t].phase, "ended"}
             /\ rs[t].sending = {} => runs'[t] = rs[t]
  <2>1. PICK retrying \in SUBSET rs[t].sending :
          retrying = {w \in rs[t].sending : <<t, w>> \in kept}
    OBVIOUS
  <2>2. runs'[t] = GaveUp(rs[t], retrying)
    BY <1>1, <2>1 DEF GaveUp
  <2>3. Sound(rs[t])
    OBVIOUS
  <2>. QED BY <2>2, <2>3, GivenUp
<1>3. runs' = [t \in Token |-> runs'[t]]
  BY <1>1
<1>. QED BY <1>2, <1>3

(* One run goes on while the others stay as they are.                      *)
LEMMA Moved ==
  ASSUME UInv, NEW t \in Token, NEW q, Sound(q), runs' = [runs EXCEPT ![t] = q],
         UNCHANGED runToken, t = runToken \/ UNCHANGED <<state, completedChunks>>,
         UploadClientTypeOK', NeverStuck', Role(t)'
  PROVE  UInv'
<1>1. runs = [u \in Token |-> runs[u]] /\ \A u \in Token : Sound(runs[u]) /\ Role(u)
  BY DEF UInv
<1>2. runs'[t] = q /\ \A u \in Token : u # t => runs'[u] = runs[u]
  BY <1>1
<1>3. runs' = [u \in Token |-> runs'[u]]
  BY <1>1
<1>4. \A u \in Token : Sound(runs'[u])
  BY <1>1, <1>2
<1>5. ASSUME NEW u \in Token, u # t
      PROVE  Role(u)'
  <2>1. Role(u) /\ runs'[u] = runs[u]
    BY <1>1, <1>2, <1>5
  <2>2. CASE t = runToken
    BY <1>5, <2>1, <2>2 DEF Role, Live
  <2>3. CASE UNCHANGED <<state, completedChunks>>
    BY <2>1, <2>3 DEF Role, Live
  <2>. QED BY <2>2, <2>3
<1>6. \A u \in Token : Sound(runs[u])' /\ Role(u)'
  BY <1>4, <1>5
<1>. QED BY <1>3, <1>6 DEF UInv

LEMMA Counted ==
  ASSUME NEW S \in SUBSET Chunk
  PROVE  IsFiniteSet(S) /\ Cardinality(S) \in Nat
BY UploadClientAssumption, FS_Subset, FS_CardinalityType

(* The newest run has chunks to send, or asks for completion, and then     *)
(* each chunk was acknowledged.                                            *)
LEMMA Goes ==
  ASSUME UInv, NEW t \in Token, Live(t), NEW q, Sound(q), q.phase = "chunks", Onward(t, q),
         UNCHANGED runToken, completedChunks' \in SUBSET Chunk,
         uploadedBytes' = Cardinality(completedChunks'),
         Chunk \subseteq completedChunks' \union q.pending \union Busy(q),
         Workers(q) = {} => q.pending = {}
  PROVE  UInv'
<1>1. t = runToken /\ state = "running" /\ runToken \in Token /\ q \in RunState
  BY DEF Live, UInv, UploadClientTypeOK, Sound
<1>2. uploadedBytes' \in Nat
  BY Counted
<1>3. runs = [u \in Token |-> runs[u]]
  BY DEF UInv
<1>4. CASE Workers(q) = {}
  <2>1. PICK p : p = [q EXCEPT !.phase = "completing"]
    OBVIOUS
  <2>2. /\ runs' = [runs EXCEPT ![t] = p] /\ state' = "finalizing"
    BY <1>4, <2>1 DEF Onward
  <2>3. /\ p \in RunState /\ p.phase = "completing" /\ p.pending = q.pending
        /\ p.sending = q.sending /\ p.waiting = q.waiting
    BY <1>1, <2>1 DEF RunState
  <2>4. Workers(p) = {} /\ Busy(p) = Busy(q) /\ Busy(q) = {} /\ p.sending = {}
    BY <1>4, <2>3 DEF Workers, Busy
  <2>5. Sound(p)
    BY <2>3, <2>4 DEF Sound
  <2>6. runs'[t] = p
    BY <1>3, <2>2
  <2>7. completedChunks' = Chunk
    BY <1>4, <2>4
  <2>8. Role(t)'
    BY <1>1, <2>2, <2>3, <2>4, <2>6, SMT DEF Role, Live, Token
  <2>9. NeverStuck'
    BY <1>1, <2>2, <2>3, <2>6, <2>7 DEF NeverStuck
  <2>10. UploadClientTypeOK'
    BY <1>1, <1>2, <2>2 DEF UploadClientTypeOK
  <2>. QED BY <1>1, <2>2, <2>5, <2>8, <2>9, <2>10, Moved
<1>5. CASE Workers(q) # {}
  <2>1. runs' = [runs EXCEPT ![t] = q] /\ UNCHANGED state
    BY <1>5 DEF Onward
  <2>2. runs'[t] = q
    BY <1>3, <2>1
  <2>3. Role(t)'
    <3>1. Live(t)' /\ ~(t > runToken')
      BY <1>1, <2>1, SMT DEF Live, Token
    <3>. QED BY <2>2, <3>1 DEF Role
  <2>4. NeverStuck'
    BY <1>1, <1>5, <2>1, <2>2 DEF NeverStuck
  <2>5. UploadClientTypeOK'
    BY <1>1, <1>2, <2>1 DEF UploadClientTypeOK
  <2>. QED BY <1>1, <2>1, <2>3, <2>4, <2>5, Moved
<1>. QED BY <1>4, <1>5

(* What each action finds.                                                 *)
LEMMA Found ==
  ASSUME UInv, NEW t \in Token
  PROVE  /\ Sound(runs[t]) /\ Role(t) /\ runs[t] \in RunState
         /\ runs = [u \in Token |-> runs[u]]
         /\ runToken \in Token /\ t \in Nat /\ runToken \in Nat
         /\ completedChunks \in SUBSET Chunk /\ uploadedBytes = Cardinality(completedChunks)
BY DEF UInv, Sound, UploadClientTypeOK, Token, NeverStuck

(* A run that may no longer go on, after an action of its own that leaves  *)
(* its requests where they are.                                            *)
LEMMA Stale ==
  ASSUME UInv, NEW t \in Token, ~Live(t), NEW q, Sound(q), q.sending = {},
         q.phase \in {"ended", runs[t].phase}, t <= runToken, 
         runs[t].phase # "completing" \/ t # runToken,
         runs' = [runs EXCEPT ![t] = q],
         UNCHANGED <<state, runToken, completedChunks, uploadedBytes>>
  PROVE  UInv'
<1>1. Role(t) /\ NeverStuck /\ runs = [u \in Token |-> runs[u]] /\ runToken \in Nat /\ t \in Nat
  BY Found DEF UInv
<1>2. runs'[t] = q
  BY <1>1
<1>3. Role(t)'
  BY <1>1, <1>2 DEF Role, Live
<1>4. NeverStuck'
  <2>1. CASE t = runToken
    BY <1>1, <1>2, <2>1 DEF NeverStuck, Live
  <2>2. CASE t # runToken
    <3>1. runs'[runToken] = runs[runToken]
      BY <1>1, <2>2 DEF UInv, UploadClientTypeOK
    <3>. QED BY <1>1, <3>1 DEF NeverStuck
  <2>. QED BY <2>1, <2>2
<1>5. UploadClientTypeOK'
  BY DEF UInv, UploadClientTypeOK
<1>. QED BY <1>3, <1>4, <1>5, Moved

(* The task is stopped: nobody sends any more.                             *)
LEMMA Stopped ==
  ASSUME UInv, NEW rs, Abort(rs), \A u \in Token : Sound(rs[u]),
         \A u \in Token : rs[u] = runs[u] \/ (u = runToken /\ rs[u].phase = "ended"),
         state # "finalizing" \/ rs[runToken].phase = "ended",
         state' \in {"paused", "failed", "cancelled"},
         runToken' \in Token, runToken' >= runToken,
         UNCHANGED <<completedChunks, uploadedBytes>>
  PROVE  UInv'
<1>1. /\ runs' = [u \in Token |-> runs'[u]]
      /\ \A u \in Token :
           /\ Sound(runs'[u]) /\ runs'[u].sending = {}
           /\ runs'[u].phase \in {rs[u].phase, "ended"}
           /\ rs[u].sending = {} => runs'[u] = rs[u]
  BY Aborted
<1>2. ASSUME NEW u \in Token
      PROVE  Role(u)'
  <2>1. Role(u) /\ u \in Nat /\ runToken \in Nat /\ runToken' \in Nat
    BY Found DEF Token
  <2>2. runs'[u].phase # "completing"
    <3>1. SUFFICES ASSUME rs[u].phase = "completing"
                   PROVE  FALSE
      BY <1>1
    <3>2. rs[u] = runs[u]
      BY <3>1
    <3>3. u = runToken /\ state = "finalizing"
      BY <2>1, <3>1, <3>2 DEF Role
    <3>. QED BY <3>1, <3>3
  <2>3. ASSUME u > runToken'
        PROVE  runs'[u] = NoRun
    <3>1. u > runToken
      BY <2>1, <2>3
    <3>2. runs[u] = NoRun /\ rs[u] = runs[u]
      BY <2>1, <3>1 DEF Role
    <3>. QED BY <1>1, <3>2 DEF NoRun
  <2>4. ~Live(u)'
    BY DEF Live
  <2>. QED BY <1>1, <2>2, <2>3, <2>4 DEF Role
<1>3. NeverStuck'
  BY DEF NeverStuck, UInv
<1>4. UploadClientTypeOK'
  BY DEF UInv, UploadClientTypeOK
<1>5. \A u \in Token : Sound(runs[u])' /\ Role(u)'
  BY <1>1, <1>2
<1>. QED BY <1>1, <1>3, <1>4, <1>5 DEF UInv

(* The catch block, of which the run of the error is known                 *)
LEMMA Caught ==
  ASSUME UInv, NEW t \in Token, NEW r, Sound(r), r.sending \subseteq runs[t].sending,
         r.phase = runs[t].phase, r.phase # "ended", Fail(t, [runs EXCEPT ![t] = r])
  PROVE  UInv'
<1>1. /\ Role(t) /\ runs = [u \in Token |-> runs[u]]
      /\ runToken \in Token /\ t \in Nat /\ runToken \in Nat
      /\ \A u \in Token : Sound(runs[u])
  BY Found
<1>2. PICK rs : rs = [runs EXCEPT ![t] = r]
  OBVIOUS
<1>3. /\ rs = [u \in Token |-> rs[u]] /\ rs[t] = r
      /\ \A u \in Token : u # t => rs[u] = runs[u]
  BY <1>1, <1>2
<1>4. /\ IF Ignored(t)
           THEN runs' = [rs EXCEPT ![t] = Dropped(@)] /\ UNCHANGED state
           ELSE state' = "failed" /\ Abort([rs EXCEPT ![t] = Dropped(@)])
      /\ UNCHANGED <<runToken, completedChunks, uploadedBytes>>
  <2>1. Fail(t, rs) /\ rs[t].phase # "ended"
    BY <1>2, <1>3
  <2>. QED BY <2>1 DEF Fail
<1>5. PICK q : q = Dropped(r)
  OBVIOUS
<1>6. Sound(q) /\ q.phase = "ended" /\ q.sending = r.sending
  BY <1>5, DroppedRun
<1>7. CASE Ignored(t)
  <2>1. runs' = [runs EXCEPT ![t] = q] /\ UNCHANGED <<state, runToken, completedChunks, uploadedBytes>>
    <3>1. runs' = [rs EXCEPT ![t] = q]
      BY <1>3, <1>4, <1>5, <1>7
    <3>. QED BY <1>1, <1>2, <1>4, <1>7, <3>1
  <2>2. ~Live(t) /\ (runs[t].phase # "completing" \/ t # runToken)
    BY <1>1, <1>7 DEF Ignored, Live, Role
  <2>3. q.sending = {}
    BY <1>1, <1>6, <2>2 DEF Role
  <2>4. t <= runToken
    <3>1. ~(t > runToken)
      BY <1>1 DEF Role, NoRun
    <3>. QED BY <1>1, <3>1
  <2>. QED BY <1>6, <2>1, <2>2, <2>3, <2>4, Stale
<1>8. CASE ~Ignored(t)
  <2>1. PICK ss : ss = [rs EXCEPT ![t] = q]
    OBVIOUS
  <2>2. Abort(ss) /\ state' = "failed" /\ t = runToken
    <3>1. [rs EXCEPT ![t] = Dropped(@)] = ss
      BY <1>3, <1>5, <2>1
    <3>. QED BY <1>4, <1>8, <3>1 DEF Ignored
  <2>3. ss[t] = q /\ \A u \in Token : u # t => ss[u] = runs[u]
    BY <1>3, <2>1
  <2>4. \A u \in Token : Sound(ss[u])
    BY <1>1, <1>6, <2>3
  <2>5. \A u \in Token : ss[u] = runs[u] \/ (u = runToken /\ ss[u].phase = "ended")
    BY <1>6, <2>2, <2>3
  <2>6. ss[runToken].phase = "ended" /\ runToken' \in Token /\ runToken' >= runToken
    BY <1>1, <1>4, <1>6, <2>2, <2>3
  <2>. QED BY <1>4, <2>2, <2>4, <2>5, <2>6, Stopped
<1>. QED BY <1>7, <1>8

LEMMA StatusOkKeeps ==
  ASSUME UInv, NEW t \in Token, NEW chunks \in SUBSET Chunk, StatusOk(t, chunks)
  PROVE  UInv'
<1>1. /\ Sound(runs[t]) /\ Role(t) /\ runs[t].phase = "status" /\ UNCHANGED runToken
      /\ t \in Nat /\ runToken \in Nat /\ runs = [u \in Token |-> runs[u]]
  BY Found DEF StatusOk
<1>2. CASE Live(t)
  <2>1. PICK missing \in SUBSET Chunk : missing = Chunk \ chunks
    OBVIOUS
  <2>2. PICK taken : taken = Taking(missing, PARALLEL_CHUNKS)
    OBVIOUS
  <2>3. PICK D : D = {w[1] : w \in taken}
    OBVIOUS
  <2>4. PARALLEL_CHUNKS \in Nat /\ PARALLEL_CHUNKS > 0
    BY UploadClientAssumption
  <2>5. /\ taken \subseteq missing \X {0} /\ Cardinality(D) <= PARALLEL_CHUNKS
        /\ missing # {} => taken # {}
    BY <2>2, <2>3, <2>4, Takes
  <2>6. PICK q : q = [phase |-> "chunks", sending |-> taken, waiting |-> {},
                      pending |-> missing \ D]
    OBVIOUS
  <2>7. completedChunks' = chunks /\ uploadedBytes' = Cardinality(chunks) /\ Onward(t, q)
    BY <1>2, <2>1, <2>2, <2>3, <2>6 DEF StatusOk
  <2>8. /\ q.phase = "chunks" /\ q.sending = taken /\ q.waiting = {} /\ q.pending = missing \ D
        /\ Workers(q) = taken /\ Busy(q) = D
    BY <2>3, <2>6 DEF Workers, Busy
  <2>9. q \in RunState
    <3>1. taken \subseteq Worker
      BY <2>5 DEF Worker
    <3>. QED BY <2>6, <3>1 DEF RunState
  <2>10. \A v, w \in taken : v[1] = w[1] => v = w
    BY <2>5
  <2>11. Sound(q)
    BY <2>5, <2>8, <2>9, <2>10 DEF Sound
  <2>12. Chunk \subseteq completedChunks' \union q.pending \union Busy(q)
    BY <2>1, <2>7, <2>8
  <2>13. Workers(q) = {} => q.pending = {}
    BY <2>5, <2>8
  <2>. QED BY <1>1, <1>2, <2>7, <2>8, <2>11, <2>12, <2>13, Goes
<1>3. CASE ~Live(t)
  <2>1. PICK q : q = Dropped(runs[t])
    OBVIOUS
  <2>2. /\ runs' = [runs EXCEPT ![t] = q]
        /\ UNCHANGED <<state, completedChunks, uploadedBytes>>
    BY <1>3, <2>1 DEF StatusOk
  <2>3. Sound(q) /\ q.phase = "ended" /\ q.sending = {}
    BY <1>1, <2>1, DroppedRun DEF Sound, Workers
  <2>4. t <= runToken
    BY <1>1 DEF Role, NoRun
  <2>. QED BY <1>1, <1>3, <2>2, <2>3, <2>4, Stale
<1>. QED BY <1>2, <1>3

(* The worker of the newest run goes on with another chunk.                *)
LEMMA ChunkOkKeeps ==
  ASSUME UInv, NEW t \in Token, NEW w \in runs[t].sending, ChunkOk(t, w)
  PROVE  UInv'
<1>1. PICK r : r = runs[t]
  OBVIOUS
<1>2. /\ Sound(r) /\ r \in RunState /\ Live(t) /\ r.phase = "chunks" /\ w \in r.sending
      /\ Chunk \subseteq completedChunks \union r.pending \union Busy(r)
      /\ completedChunks \in SUBSET Chunk /\ uploadedBytes = Cardinality(completedChunks)
  BY <1>1, Found DEF Role
<1>3. PICK next : next = Taking(r.pending, 1)
  OBVIOUS
<1>4. PICK D : D = {n[1] : n \in next}
  OBVIOUS
<1>5. r.sending \subseteq Worker /\ r.waiting \subseteq Worker /\ r.pending \in SUBSET Chunk
  BY <1>2 DEF RunState
<1>6. /\ next \subseteq r.pending \X {0} /\ IsFiniteSet(D) /\ Cardinality(D) <= 1
      /\ r.pending # {} => next # {}
  <2>1. PICK n \in Nat : n = 1 /\ n > 0
    OBVIOUS
  <2>2. next = Taking(r.pending, n)
    BY <1>3, <2>1
  <2>3. /\ next \subseteq r.pending \X {0} /\ IsFiniteSet(D) /\ Cardinality(D) <= n
        /\ r.pending # {} => next # {}
    BY <1>4, <1>5, <2>1, <2>2, Takes
  <2>. QED BY <2>1, <2>3
<1>7. PICK q : q = [r EXCEPT !.pending = @ \ D, !.sending = (@ \ {w}) \union next]
  OBVIOUS
<1>8. /\ completedChunks' = completedChunks \union {w[1]}
      /\ uploadedBytes' = uploadedBytes + IF w[1] \in completedChunks THEN 0 ELSE 1
      /\ Onward(t, q) /\ UNCHANGED runToken
  BY <1>1, <1>2, <1>3, <1>4, <1>7 DEF ChunkOk
<1>9. next \subseteq Worker
  BY <1>5, <1>6 DEF Worker
<1>10. /\ q \in RunState /\ q.phase = "chunks" /\ q.pending = r.pending \ D
       /\ q.sending = (r.sending \ {w}) \union next /\ q.waiting = r.waiting
  BY <1>2, <1>5, <1>7, <1>9 DEF RunState
<1>11. w \in Workers(r) /\ w[1] \in Busy(r) /\ w \notin r.waiting /\ w[1] \in Chunk
  <2>1. w \in Workers(r)
    BY <1>2 DEF Workers
  <2>. QED BY <1>2, <2>1, InHand DEF Busy, Sound
<1>12. Workers(q) = (Workers(r) \ {w}) \union next
  BY <1>10, <1>11 DEF Workers
<1>13. Busy(q) = (Busy(r) \ {w[1]}) \union D
  <2>1. ASSUME NEW c \in Busy(q)
        PROVE  c \in (Busy(r) \ {w[1]}) \union D
    <3>1. PICK v \in Workers(q) : c = v[1]
      BY <2>1 DEF Busy
    <3>2. CASE v \in next
      BY <1>4, <3>1, <3>2
    <3>3. CASE v \in Workers(r) /\ v # w
      <4>1. v[1] # w[1]
        BY <1>2, <1>11, <3>3 DEF Sound
      <4>. QED BY <3>1, <3>3, <4>1 DEF Busy
    <3>. QED BY <1>12, <3>1, <3>2, <3>3
  <2>2. ASSUME NEW c \in (Busy(r) \ {w[1]}) \union D
        PROVE  c \in Busy(q)
    <3>1. CASE c \in D
      <4>1. PICK v \in next : c = v[1]
        BY <1>4, <3>1
      <4>. QED BY <1>12, <4>1 DEF Busy
    <3>2. CASE c \in Busy(r) \ {w[1]}
      <4>1. PICK v \in Workers(r) : c = v[1]
        BY <3>2 DEF Busy
      <4>2. v \in Workers(q)
        BY <1>12, <3>2, <4>1
      <4>. QED BY <4>1, <4>2 DEF Busy
    <3>. QED BY <2>2, <3>1, <3>2
  <2>. QED BY <2>1, <2>2
<1>14. D \subseteq r.pending /\ D \intersect Busy(r) = {}
  <2>1. D \subseteq r.pending
    BY <1>4, <1>6
  <2>. QED BY <1>2, <2>1 DEF Sound
<1>15. Cardinality(Busy(q)) <= PARALLEL_CHUNKS
  <2>1. /\ IsFiniteSet(Busy(r)) /\ Cardinality(Busy(r)) \in Nat
        /\ Cardinality(Busy(r)) <= PARALLEL_CHUNKS
    BY <1>2, InHand DEF Sound
  <2>2. /\ IsFiniteSet(Busy(r) \ {w[1]})
        /\ Cardinality(Busy(r) \ {w[1]}) = Cardinality(Busy(r)) - 1
    BY <1>11, <2>1, FS_RemoveElement
  <2>3. (Busy(r) \ {w[1]}) \intersect D = {}
    BY <1>14
  <2>4. Cardinality(Busy(q)) = Cardinality(Busy(r) \ {w[1]}) + Cardinality(D) - 0
    BY <1>6, <1>13, <2>2, <2>3, FS_Union, FS_EmptySet
  <2>5. Cardinality(D) \in Nat
    BY <1>6, FS_CardinalityType
  <2>. QED BY <1>6, <2>1, <2>2, <2>4, <2>5, UploadClientAssumption
<1>16. ASSUME NEW u \in Workers(q), NEW v \in Workers(q), u[1] = v[1]
       PROVE  u = v
  <2>1. \A x \in next : x[1] \in D /\ x[1] \notin Busy(r)
    BY <1>4, <1>14
  <2>2. \A x \in Workers(r) : x[1] \in Busy(r)
    BY DEF Busy
  <2>3. CASE u \in next /\ v \in next
    BY <1>6, <1>16, <2>3
  <2>4. CASE u \in Workers(r) /\ v \in Workers(r)
    BY <1>2, <1>16, <2>4 DEF Sound
  <2>. QED BY <1>12, <1>16, <2>1, <2>2, <2>3, <2>4
<1>17. q.sending \intersect q.waiting = {}
  <2>1. \A x \in r.waiting : x \in Workers(r) /\ x[1] \in Busy(r)
    BY DEF Busy, Workers
  <2>2. \A x \in next : x \notin r.waiting
    BY <1>4, <1>14, <2>1
  <2>. QED BY <1>2, <1>10, <2>2 DEF Sound
<1>18. q.pending \intersect Busy(q) = {}
  BY <1>2, <1>10, <1>13 DEF Sound
<1>19. Sound(q)
  BY <1>10, <1>15, <1>16, <1>17, <1>18 DEF Sound
<1>20. completedChunks' \in SUBSET Chunk /\ uploadedBytes' = Cardinality(completedChunks')
  <2>1. IsFiniteSet(completedChunks) /\ Cardinality(completedChunks) \in Nat
    BY <1>2, Counted
  <2>2. Cardinality(completedChunks \union {w[1]}) =
          IF w[1] \in completedChunks THEN Cardinality(completedChunks)
                                      ELSE Cardinality(completedChunks) + 1
    BY <2>1, FS_AddElement
  <2>. QED BY <1>2, <1>8, <1>11, <2>1, <2>2
<1>21. Chunk \subseteq completedChunks' \union q.pending \union Busy(q)
  BY <1>2, <1>8, <1>10, <1>13
<1>22. Workers(q) = {} => q.pending = {}
  BY <1>6, <1>10, <1>12
<1>. QED BY <1>2, <1>8, <1>10, <1>19, <1>20, <1>21, <1>22, Goes

LEMMA ChunkRetryKeeps ==
  ASSUME UInv, NEW t \in Token, NEW w \in runs[t].sending, ChunkRetry(t, w)
  PROVE  UInv'
<1>1. PICK r : r = runs[t]
  OBVIOUS
<1>2. /\ Sound(r) /\ r \in RunState /\ Live(t) /\ r.phase = "chunks" /\ w \in r.sending
      /\ Chunk \subseteq completedChunks \union r.pending \union Busy(r)
      /\ runs = [u \in Token |-> runs[u]] /\ t \in Nat
  BY <1>1, Found DEF Role
<1>3. r.sending \subseteq Worker /\ r.waiting \subseteq Worker
  BY <1>2 DEF RunState
<1>4. PICK late : late = Retried(w)
  OBVIOUS
<1>5. late \in Worker /\ late[1] = w[1] /\ late # w
  BY <1>2, <1>3, <1>4, RetriedWorker
<1>6. PICK q : q = [r EXCEPT !.sending = @ \ {w}, !.waiting = @ \union {late}]
  OBVIOUS
<1>7. runs' = [runs EXCEPT ![t] = q] /\ UNCHANGED <<state, runToken, completedChunks, uploadedBytes>>
  BY <1>1, <1>2, <1>4, <1>6 DEF ChunkRetry
<1>8. /\ q \in RunState /\ q.phase = "chunks" /\ q.pending = r.pending
      /\ q.sending = r.sending \ {w} /\ q.waiting = r.waiting \union {late}
  BY <1>2, <1>3, <1>5, <1>6 DEF RunState
<1>9. w \in Workers(r) /\ w \notin r.waiting
  BY <1>2 DEF Workers, Sound
<1>10. Workers(q) = (Workers(r) \ {w}) \union {late}
  BY <1>8, <1>9 DEF Workers
<1>11. Busy(q) = Busy(r)
  <2>1. ASSUME NEW c \in Busy(q)
        PROVE  c \in Busy(r)
    <3>1. PICK v \in Workers(q) : c = v[1]
      BY <2>1 DEF Busy
    <3>. QED BY <1>5, <1>9, <1>10, <3>1 DEF Busy
  <2>2. ASSUME NEW c \in Busy(r)
        PROVE  c \in Busy(q)
    <3>1. PICK v \in Workers(r) : c = v[1]
      BY <2>2 DEF Busy
    <3>. QED BY <1>5, <1>10, <3>1 DEF Busy
  <2>. QED BY <2>1, <2>2
<1>12. \A u, v \in Workers(q) : u[1] = v[1] => u = v
  <2>1. \A u, v \in Workers(r) : u[1] = v[1] => u = v
    BY <1>2 DEF Sound
  <2>. QED BY <1>5, <1>9, <1>10, <2>1
<1>13. q.sending \intersect q.waiting = {}
  <2>1. late \notin r.sending
    BY <1>2, <1>5, <1>9 DEF Sound, Workers
  <2>. QED BY <1>2, <1>8, <2>1 DEF Sound
<1>14. Sound(q)
  BY <1>2, <1>8, <1>11, <1>12, <1>13, Lighter
<1>15. runs'[t] = q
  BY <1>2, <1>7
<1>16. t = runToken /\ Live(t)' /\ ~(t > runToken')
  BY <1>2, <1>7, SMT DEF Live
<1>17. Role(t)'
  BY <1>2, <1>7, <1>8, <1>11, <1>15, <1>16 DEF Role
<1>18. late \in Workers(q)
  BY <1>10
<1>19. NeverStuck'
  BY <1>2, <1>7, <1>8, <1>15, <1>16, <1>18 DEF UInv, NeverStuck, Live
<1>20. UploadClientTypeOK'
  BY <1>7 DEF UInv, UploadClientTypeOK
<1>. QED BY <1>7, <1>14, <1>16, <1>17, <1>19, <1>20, Moved

LEMMA ChunkFailsKeeps ==
  ASSUME UInv, NEW t \in Token, NEW w \in runs[t].sending, ChunkFails(t, w)
  PROVE  UInv'
<1>1. PICK r : r = runs[t]
  OBVIOUS
<1>2. /\ Sound(r) /\ r \in RunState /\ r.phase = "chunks" /\ w \in r.sending
      /\ runs = [u \in Token |-> runs[u]]
  BY <1>1, Found DEF Role
<1>3. PICK q : q = [r EXCEPT !.sending = @ \ {w}]
  OBVIOUS
<1>4. /\ q \in RunState /\ q.phase = r.phase /\ q.pending = r.pending
      /\ q.sending = r.sending \ {w} /\ q.waiting = r.waiting
  BY <1>2, <1>3 DEF RunState
<1>5. Workers(q) \subseteq Workers(r)
  BY <1>4 DEF Workers
<1>6. Busy(q) \subseteq Busy(r)
  BY <1>5 DEF Busy
<1>7. Sound(q)
  BY <1>2, <1>4, <1>5, <1>6, Lighter DEF Sound
<1>8. Fail(t, [runs EXCEPT ![t] = q])
  <2>1. [runs EXCEPT ![t].sending = @ \ {w}] = [runs EXCEPT ![t] = q]
    BY <1>1, <1>3
  <2>. QED BY <2>1 DEF ChunkFails
<1>. QED BY <1>1, <1>2, <1>4, <1>7, <1>8, Caught

LEMMA WakeKeeps ==
  ASSUME UInv, NEW t \in Token, NEW w \in runs[t].waiting, Wake(t, w)
  PROVE  UInv'
<1>1. PICK r : r = runs[t]
  OBVIOUS
<1>2. /\ Sound(r) /\ r \in RunState /\ w \in r.waiting /\ Role(t) /\ NeverStuck
      /\ runs = [u \in Token |-> runs[u]] /\ t \in Nat /\ runToken \in Nat
  BY <1>1, Found DEF UInv
<1>3. r.sending \subseteq Worker /\ r.waiting \subseteq Worker
  BY <1>2 DEF RunState
<1>4. w \in Workers(r) /\ w \notin r.sending
  BY <1>2 DEF Workers, Sound
<1>5. r.phase \notin {"status", "completing"}
  BY <1>2, <1>4 DEF Sound
<1>6. CASE Live(t)
  <2>1. PICK q : q = [r EXCEPT !.waiting = @ \ {w}, !.sending = @ \union {w}]
    OBVIOUS
  <2>2. runs' = [runs EXCEPT ![t] = q] /\ UNCHANGED <<state, runToken, completedChunks, uploadedBytes>>
    BY <1>1, <1>2, <1>6, <2>1 DEF Wake
  <2>3. r.phase = "chunks" /\ t = runToken /\ state = "running"
    BY <1>1, <1>2, <1>5, <1>6 DEF Live, NeverStuck
  <2>4. /\ q \in RunState /\ q.phase = "chunks" /\ q.pending = r.pending
        /\ q.sending = r.sending \union {w} /\ q.waiting = r.waiting \ {w}
    BY <1>2, <1>3, <2>1, <2>3 DEF RunState
  <2>5. Workers(q) = Workers(r)
    BY <1>2, <2>4 DEF Workers
  <2>6. Busy(q) = Busy(r)
    BY <2>5 DEF Busy
  <2>7. Sound(q)
    BY <1>2, <2>3, <2>4, <2>5, <2>6 DEF Sound
  <2>8. runs'[t] = q
    BY <1>2, <2>2
  <2>9. Live(t)' /\ ~(t > runToken')
    BY <1>2, <2>2, <2>3, SMT DEF Live
  <2>10. Role(t)'
    BY <1>1, <1>2, <1>6, <2>2, <2>3, <2>4, <2>6, <2>8, <2>9 DEF Role
  <2>11. NeverStuck'
    BY <1>2, <1>4, <2>2, <2>3, <2>4, <2>5, <2>8 DEF NeverStuck
  <2>12. UploadClientTypeOK'
    BY <2>2 DEF UInv, UploadClientTypeOK
  <2>. QED BY <2>2, <2>3, <2>7, <2>10, <2>11, <2>12, Moved
<1>7. CASE ~Live(t)
  <2>1. PICK q : q = [r EXCEPT !.waiting = @ \ {w}, !.phase = "ended"]
    OBVIOUS
  <2>2. runs' = [runs EXCEPT ![t] = q] /\ UNCHANGED <<state, runToken, completedChunks, uploadedBytes>>
    BY <1>1, <1>2, <1>7, <2>1 DEF Wake
  <2>3. /\ q \in RunState /\ q.phase = "ended" /\ q.pending = r.pending
        /\ q.sending = r.sending /\ q.waiting = r.waiting \ {w}
    BY <1>2, <1>3, <2>1 DEF RunState
  <2>4. Workers(q) \subseteq Workers(r)
    BY <2>3 DEF Workers
  <2>5. Busy(q) \subseteq Busy(r)
    BY <2>4 DEF Busy
  <2>6. Sound(q)
    BY <1>2, <2>3, <2>4, <2>5, Lighter DEF Sound
  <2>7. q.sending = {} /\ runs[t].phase # "completing"
    BY <1>1, <1>2, <1>5, <1>7, <2>3 DEF Role
  <2>8. t <= runToken
    <3>1. ~(t > runToken)
      BY <1>1, <1>2 DEF Role, NoRun
    <3>. QED BY <1>2, <3>1
  <2>. QED BY <1>7, <2>2, <2>3, <2>6, <2>7, <2>8, Stale
<1>. QED BY <1>6, <1>7

LEMMA CompleteOkKeeps ==
  ASSUME UInv, NEW t \in Token, CompleteOk(t)
  PROVE  UInv'
<1>1. /\ Sound(runs[t]) /\ Role(t) /\ runs = [u \in Token |-> runs[u]]
      /\ runs[t].phase = "completing" /\ NeverStuck /\ UploadClientTypeOK /\ t \in Nat
  BY Found DEF UInv, CompleteOk
<1>2. t = runToken /\ state = "finalizing" /\ completedChunks = Chunk
  BY <1>1 DEF Role, NeverStuck
<1>3. PICK q : q = Dropped(runs[t])
  OBVIOUS
<1>4. /\ runs' = [runs EXCEPT ![t] = q] /\ state' = "done" /\ uploadedBytes' = Cardinality(Chunk)
      /\ UNCHANGED <<runToken, completedChunks>>
  BY <1>2, <1>3 DEF CompleteOk
<1>5. Sound(q) /\ q.phase = "ended" /\ q.sending = {}
  BY <1>1, <1>3, DroppedRun DEF Sound, Workers
<1>6. runs'[t] = q
  BY <1>1, <1>4
<1>7. Role(t)'
  <2>1. ~(t > runToken')
    BY <1>1, <1>2, <1>4
  <2>. QED BY <1>5, <1>6, <2>1 DEF Role
<1>8. NeverStuck'
  BY <1>2, <1>4 DEF NeverStuck
<1>9. UploadClientTypeOK'
  BY <1>1, <1>4, Counted DEF UploadClientTypeOK
<1>. QED BY <1>2, <1>4, <1>5, <1>7, <1>8, <1>9, Moved

LEMMA ResumeKeeps ==
  ASSUME UInv, resumeUpload
  PROVE  UInv'
<1>1. /\ state \in {"paused", "failed"} /\ state' = "running"
      /\ runToken < MaxToken /\ runToken' = runToken + 1
      /\ runs' = [runs EXCEPT ![runToken'] = NewRun]
      /\ UNCHANGED <<completedChunks, uploadedBytes>>
  BY DEF resumeUpload
<1>2. /\ runs = [u \in Token |-> runs[u]] /\ runToken \in Nat /\ MaxToken \in Nat
      /\ runToken' \in Token /\ NeverStuck /\ UploadClientTypeOK
      /\ \A u \in Token : Sound(runs[u]) /\ Role(u) /\ u \in Nat
  BY <1>1, UploadClientAssumption DEF UInv, UploadClientTypeOK, Token
<1>3. runs'[runToken'] = NewRun /\ \A u \in Token : u # runToken' => runs'[u] = runs[u]
  BY <1>1, <1>2
<1>4. /\ NewRun \in RunState /\ NewRun.phase = "status" /\ NewRun.sending = {}
      /\ NewRun.waiting = {} /\ NewRun.pending = {}
  BY DEF NewRun, NoRun, RunState
<1>5. Workers(NewRun) = {} /\ Busy(NewRun) = {}
  BY <1>4 DEF Workers, Busy
<1>6. Sound(NewRun)
  <2>1. Cardinality({}) <= PARALLEL_CHUNKS
    BY FS_EmptySet, UploadClientAssumption
  <2>. QED BY <1>4, <1>5, <2>1 DEF Sound
<1>7. ASSUME NEW u \in Token
      PROVE  Role(u)'
  <2>1. CASE u = runToken'
    <3>1. ~(u > runToken')
      BY <1>2, <2>1
    <3>. QED BY <1>3, <1>4, <2>1, <3>1 DEF Role
  <2>2. CASE u # runToken'
    <3>1. runs'[u] = runs[u] /\ Role(u)
      BY <1>2, <1>3, <2>2
    <3>2. u > runToken' => u > runToken
      BY <1>1, <1>2
    <3>3. runs[u].sending = {} /\ runs[u].phase # "completing"
      BY <1>1, <3>1 DEF Role, Live
    <3>4. ~Live(u)'
      BY <2>2 DEF Live
    <3>. QED BY <3>1, <3>2, <3>3, <3>4 DEF Role
  <2>. QED BY <2>1, <2>2
<1>8. NeverStuck'
  BY <1>1, <1>2, <1>3, <1>4 DEF NeverStuck
<1>9. UploadClientTypeOK'
  BY <1>1, <1>2 DEF UploadClientTypeOK
<1>10. \A u \in Token : Sound(runs[u])' /\ Role(u)'
  BY <1>2, <1>3, <1>6, <1>7
<1>11. runs' = [u \in Token |-> runs'[u]]
  BY <1>1, <1>2
<1>. QED BY <1>8, <1>9, <1>10, <1>11 DEF UInv

LEMMA UserStops ==
  ASSUME UInv, pauseUpload \/ cancelUpload
  PROVE  UInv'
<1>1. /\ state # "finalizing" /\ state' \in {"paused", "cancelled"} /\ Abort(runs)
      /\ runToken < MaxToken /\ runToken' = runToken + 1
      /\ UNCHANGED <<completedChunks, uploadedBytes>>
  BY DEF pauseUpload, cancelUpload
<1>2. runToken' \in Token /\ runToken' >= runToken
  BY <1>1, UploadClientAssumption DEF UInv, UploadClientTypeOK, Token
<1>3. \A u \in Token : Sound(runs[u])
  BY DEF UInv
<1>. QED BY <1>1, <1>2, <1>3, Stopped

LEMMA UInit == UploadClientInit => UInv
<1>. SUFFICES ASSUME UploadClientInit
              PROVE  UInv
  OBVIOUS
<1>1. /\ state = "running" /\ runToken = 1 /\ 1 \in Token
      /\ completedChunks = {} /\ uploadedBytes = 0
      /\ runs = [t \in Token |-> IF t = 1 THEN NewRun ELSE NoRun]
  BY UploadClientAssumption DEF UploadClientInit, Token
<1>2. \A r \in {NewRun, NoRun} :
        /\ r \in RunState /\ r.phase \in {"status", "ended"} /\ r.sending = {}
        /\ r.waiting = {} /\ r.pending = {}
  BY DEF NewRun, NoRun, RunState
<1>3. \A r \in {NewRun, NoRun} : Workers(r) = {} /\ Busy(r) = {}
  BY <1>2 DEF Workers, Busy
<1>4. \A r \in {NewRun, NoRun} : Sound(r)
  <2>1. Cardinality({}) <= PARALLEL_CHUNKS
    BY FS_EmptySet, UploadClientAssumption
  <2>. QED BY <1>2, <1>3, <2>1 DEF Sound
<1>5. ASSUME NEW t \in Token
      PROVE  Role(t)
  <2>1. t > 1 => runs[t] = NoRun
    BY <1>1
  <2>. QED BY <1>1, <1>2, <2>1 DEF Role
<1>6. NeverStuck
  BY <1>1, FS_EmptySet DEF NeverStuck, NewRun, NoRun
<1>7. UploadClientTypeOK
  BY <1>1 DEF UploadClientTypeOK
<1>8. \A t \in Token : Sound(runs[t])
  BY <1>1, <1>4
<1>9. runs = [t \in Token |-> runs[t]]
  BY <1>1
<1>. QED BY <1>5, <1>6, <1>7, <1>8, <1>9 DEF UInv

LEMMA UNext == UInv /\ [UploadClientNext]_uploadClientVars => UInv'
<1>. SUFFICES ASSUME UInv, [UploadClientNext]_uploadClientVars
              PROVE  UInv'
  OBVIOUS
<1>1. ASSUME NEW t \in Token, StatusFails(t) \/ CompleteFails(t)
      PROVE  UInv'
  <2>1. PICK r : r = runs[t]
    OBVIOUS
  <2>2. Sound(r) /\ r.phase # "ended" /\ runs = [u \in Token |-> runs[u]] /\ Fail(t, runs)
    BY <1>1, <2>1, Found DEF StatusFails, CompleteFails
  <2>3. runs = [runs EXCEPT ![t] = r]
    BY <2>1, <2>2
  <2>4. Fail(t, [runs EXCEPT ![t] = r])
    BY <2>2, <2>3
  <2>. QED BY <2>1, <2>2, <2>4, Caught
<1>2. CASE UNCHANGED uploadClientVars
  BY <1>2 DEF uploadClientVars, UInv, UploadClientTypeOK, NeverStuck, Role, Live
<1>. QED BY <1>1, <1>2, StatusOkKeeps, ChunkOkKeeps, ChunkRetryKeeps, ChunkFailsKeeps, WakeKeeps,
            CompleteOkKeeps, ResumeKeeps, UserStops DEF UploadClientNext

(* Only the newest run sends, and with no more workers than it may have.   *)
THEOREM OneSender == UploadClientSpec => []OneRunSends
<1>1. UInv => OneRunSends
  <2>. SUFFICES ASSUME UInv, NEW t \in Token
                PROVE  /\ runs[t].sending # {} => Live(t)
                       /\ Cardinality({w[1] : w \in Workers(runs[t])}) = Cardinality(Workers(runs[t]))
                       /\ Cardinality(Workers(runs[t])) <= PARALLEL_CHUNKS
    BY DEF OneRunSends
  <2>1. Sound(runs[t]) /\ Role(t)
    BY Found
  <2>2. Cardinality(Workers(runs[t])) = Cardinality(Busy(runs[t]))
    BY <2>1, InHand
  <2>. QED BY <2>1, <2>2 DEF Sound, Role, Busy
<1>. QED BY <1>1, UInit, UNext, PTL DEF UploadClientSpec

(* A task under way has a run that comes back, and completes whole.        *)
THEOREM NotStuck == UploadClientSpec => []NeverStuck
<1>1. UInv => NeverStuck
  BY DEF UInv
<1>. QED BY <1>1, UInit, UNext, PTL DEF UploadClientSpec

-------------------------------------------------------------------------------
(* FileView, for any files, filters, page size and number of requests       *)

(* The request that loadFiles will listen to                               *)
Awaited == \E load \in loads : Newest(load)

FileViewTypeOK ==
  /\ uploads \subseteq Name /\ news \in Seq(Int) /\ fileLoadSequence \in Nat
  /\ \A load \in loads :
       /\ load.sequence \in Nat
       /\ load = [sequence |-> load.sequence, filter |-> load.filter,
                  page |-> load.page, answer |-> load.answer, held |-> load.held]

(* Requests are told apart by their numbers.                               *)
Numbered ==
  /\ \A load \in loads : load.sequence <= fileLoadSequence
  /\ \A load, other \in loads : load.sequence = other.sequence => load = other

(* The newest request asks for what the controls show, and its answer is   *)
(* what the server has and what its index held, unless an announcement is  *)
(* to come.                                                                *)
Asks ==
  \A load \in loads :
    Newest(load) =>
      /\ load.filter = filter /\ load.page = filePage
      /\ load.answer # NoAnswer /\ news = <<>> =>
           load.answer = Listing(uploads \union load.held, filter, filePage)

(* Without such a request its answer is on the screen.                     *)
Shows ==
  ~Awaited /\ ~failed =>
    /\ fileList = cards /\ selectedFiles \subseteq cards
    /\ news = <<>> => cards = Listing(uploads \union held, filter, filePage).files

ListInv == FileViewTypeOK /\ Numbered /\ Asks /\ Shows

(* After loadFiles, whatever it was called for, its request is awaited.    *)
LEMMA Reloaded ==
  ASSUME ListInv, NEW others \in SUBSET loads, LoadAmong(others), UNCHANGED uploads,
         news' \in Seq(Int)
  PROVE  ListInv'
<1>1. PICK asked : asked = [sequence |-> fileLoadSequence', filter |-> filter',
                            page |-> filePage', answer |-> NoAnswer, held |-> {}]
  OBVIOUS
<1>2. /\ fileLoadSequence' = fileLoadSequence + 1 /\ loads' = others \union {asked}
      /\ asked.sequence = fileLoadSequence' /\ asked.filter = filter'
      /\ asked.page = filePage' /\ asked.answer = NoAnswer
      /\ fileLoadSequence \in Nat
      /\ asked = [sequence |-> asked.sequence, filter |-> asked.filter,
                  page |-> asked.page, answer |-> asked.answer, held |-> asked.held]
  BY <1>1 DEF LoadAmong, ListInv, FileViewTypeOK
<1>3. \A load \in others : /\ load \in loads /\ load.sequence \in Nat
                           /\ load.sequence <= fileLoadSequence
  BY DEF ListInv, FileViewTypeOK, Numbered
<1>4. \A load \in others : load.sequence # fileLoadSequence' /\ load.sequence <= fileLoadSequence'
  BY <1>2, <1>3
<1>5. FileViewTypeOK'
  BY <1>2, <1>3 DEF ListInv, FileViewTypeOK
<1>6. Numbered'
  BY <1>2, <1>3, <1>4 DEF ListInv, Numbered
<1>7. \A load \in loads' : Newest(load)' => load = asked
  BY <1>2, <1>4 DEF Newest
<1>8. Asks'
  BY <1>2, <1>7 DEF Asks
<1>9. Awaited'
  BY <1>2 DEF Awaited, Newest
<1>. QED BY <1>5, <1>6, <1>8, <1>9 DEF ListInv, Shows

(* Some requests are gone, the others wait as they did.                    *)
LEMMA Gone ==
  ASSUME ListInv, loads' \subseteq loads,
         UNCHANGED <<uploads, news, filter, filePage, fileLoadSequence>>, Shows'
  PROVE  ListInv'
<1>1. FileViewTypeOK'
  BY DEF ListInv, FileViewTypeOK
<1>2. Numbered'
  BY DEF ListInv, Numbered
<1>3. Asks'
  <2>1. \A load \in loads' : load \in loads /\ (Newest(load)' => Newest(load))
    BY DEF Newest
  <2>. QED BY <2>1 DEF ListInv, Asks
<1>. QED BY <1>1, <1>2, <1>3 DEF ListInv

(* What is on the screen may change while nothing is asked for.            *)
LEMMA Touched ==
  ASSUME ListInv,
         UNCHANGED <<uploads, news, filter, filePage, fileLoadSequence, loads, held, failed>>,
         fileList = cards /\ selectedFiles \subseteq cards =>
           fileList' = cards' /\ selectedFiles' \subseteq cards' /\ cards' = cards
  PROVE  ListInv'
<1>1. Awaited' <=> Awaited
  BY DEF Awaited, Newest
<1>2. Shows'
  BY <1>1 DEF ListInv, Shows
<1>. QED BY <1>2, Gone

(* The server's files change, and it says so.                              *)
LEMMA ServerChanges ==
  ASSUME ListInv, UNCHANGED <<filter, filePage, fileLoadSequence, loads, held, failed,
                              fileList, cards, selectedFiles>>,
         uploads' \subseteq Name, news' \in Seq(Int),
         news' = <<>> => news = <<>> /\ uploads' = uploads
  PROVE  ListInv'
<1>1. (Awaited' <=> Awaited) /\ \A load : Newest(load)' <=> Newest(load)
  BY DEF Awaited, Newest
<1>2. news' = <<>> => UNCHANGED <<uploads, held, filter, filePage>>
  OBVIOUS
<1>3. FileViewTypeOK' /\ Numbered'
  BY DEF ListInv, FileViewTypeOK, Numbered
<1>4. Asks'
  BY <1>1, <1>2 DEF ListInv, Asks
<1>5. Shows'
  BY <1>1, <1>2 DEF ListInv, Shows
<1>. QED BY <1>3, <1>4, <1>5 DEF ListInv

LEMMA LoadSteps ==
  ASSUME ListInv, NEW load \in loads, LoadOk(load) \/ LoadFails(load) \/ Serve(load)
  PROVE  ListInv'
<1>1. /\ load.sequence \in Nat /\ load.sequence <= fileLoadSequence /\ fileLoadSequence \in Nat
      /\ \A other \in loads : other.sequence = load.sequence => other = load
      /\ news \in Seq(Int)
  BY DEF ListInv, FileViewTypeOK, Numbered
<1>2. CASE LoadOk(load) /\ ~Newest(load)
  <2>1. /\ loads' = loads \ {load}
        /\ UNCHANGED <<uploads, news, filter, filePage, fileLoadSequence, held, failed, fileList,
                       cards, selectedFiles>>
    BY <1>2 DEF LoadOk, serverSide, list
  <2>2. Awaited => Awaited'
    BY <1>2, <2>1 DEF Awaited, Newest
  <2>3. Shows'
    BY <2>1, <2>2 DEF ListInv, Shows
  <2>. QED BY <2>1, <2>3, Gone
<1>3. CASE LoadOk(load) /\ Newest(load)
  <2>1. /\ load.answer # NoAnswer /\ fileList' = load.answer.files
        /\ UNCHANGED <<uploads, news, filter>>
        /\ IF load.page > MaxPage(fileTotal')
             THEN LoadAmong(loads \ {load})
             ELSE /\ filePage' = load.page /\ cards' = fileList' /\ selectedFiles' = {}
                  /\ loads' = loads \ {load} /\ held' = load.held
                  /\ UNCHANGED <<fileLoadSequence, failed>>
    BY <1>3 DEF LoadOk, serverSide
  <2>2. CASE load.page > MaxPage(fileTotal')
    <3>1. LoadAmong(loads \ {load}) /\ news' \in Seq(Int) /\ loads \ {load} \in SUBSET loads
      BY <1>1, <2>1, <2>2
    <3>. QED BY <2>1, <3>1, Reloaded
  <2>3. CASE ~(load.page > MaxPage(fileTotal'))
    <3>1. /\ load.filter = filter /\ load.page = filePage
          /\ news = <<>> => load.answer = Listing(uploads \union load.held, filter, filePage)
      BY <1>3, <2>1 DEF ListInv, Asks
    <3>2. /\ UNCHANGED <<uploads, news, filter, filePage, fileLoadSequence>>
          /\ loads' = loads \ {load} /\ cards' = fileList' /\ selectedFiles' = {}
          /\ held' = load.held
      BY <2>1, <2>3, <3>1
    <3>3. news' = <<>> => cards' = Listing(uploads \union held', filter, filePage).files
      BY <2>1, <3>1, <3>2
    <3>4. Shows'
      BY <3>2, <3>3 DEF Shows
    <3>. QED BY <3>2, <3>4, Gone
  <2>. QED BY <2>2, <2>3
<1>4. CASE LoadFails(load)
  <2>1. /\ loads' = loads \ {load}
        /\ failed' = (failed \/ load.sequence = fileLoadSequence)
        /\ UNCHANGED <<uploads, news, filter, filePage, fileLoadSequence, held, fileList, cards,
                       selectedFiles>>
    BY <1>4 DEF LoadFails, serverSide, list
  <2>2. Awaited /\ ~Newest(load) => Awaited'
    BY <2>1 DEF Awaited, Newest
  <2>3. Newest(load) => failed'
    BY <2>1 DEF Newest
  <2>4. ~failed' => ~failed
    BY <2>1
  <2>5. Shows'
    BY <2>1, <2>2, <2>3, <2>4 DEF ListInv, Shows
  <2>. QED BY <2>1, <2>5, Gone
<1>5. CASE Serve(load)
  <2>1. PICK index, answered :
          /\ answered = [load EXCEPT !.answer = Listing(index, load.filter, load.page),
                                     !.held = index \ uploads]
          /\ loads' = (loads \ {load}) \union {answered}
          /\ uploads \subseteq index /\ index = uploads \union (index \ uploads)
    BY <1>5 DEF Serve
  <2>2. /\ loads' = (loads \ {load}) \union {answered}
        /\ UNCHANGED <<uploads, news, filter, filePage, fileLoadSequence, held, failed, fileList,
                       cards, selectedFiles>>
    BY <1>5, <2>1 DEF Serve, list
  <2>3. load = [sequence |-> load.sequence, filter |-> load.filter,
                page |-> load.page, answer |-> load.answer, held |-> load.held]
    BY DEF ListInv, FileViewTypeOK
  <2>4. /\ answered.sequence = load.sequence /\ answered.filter = load.filter
        /\ answered.page = load.page /\ answered.held = index \ uploads
        /\ answered.answer = Listing(uploads \union (index \ uploads), load.filter, load.page)
        /\ answered = [sequence |-> answered.sequence, filter |-> answered.filter,
                       page |-> answered.page, answer |-> answered.answer,
                       held |-> answered.held]
    BY <2>1, <2>3
  <2>5. FileViewTypeOK'
    BY <1>1, <2>2, <2>4 DEF ListInv, FileViewTypeOK
  <2>6. Numbered'
    BY <1>1, <2>2, <2>4 DEF ListInv, Numbered
  <2>7. Asks'
    <3>1. ASSUME NEW other \in loads', Newest(other)'
          PROVE  /\ other.filter = filter' /\ other.page = filePage'
                 /\ other.answer # NoAnswer /\ news' = <<>> =>
                      other.answer = Listing(uploads \union other.held, filter, filePage)'
      <4>1. CASE other \in loads
        BY <2>2, <3>1, <4>1 DEF ListInv, Asks, Newest
      <4>2. CASE other = answered
        <5>1. Newest(load)
          BY <2>2, <2>4, <3>1, <4>2 DEF Newest
        <5>2. load.filter = filter /\ load.page = filePage
          BY <5>1 DEF ListInv, Asks
        <5>. QED BY <2>2, <2>4, <4>2, <5>2
      <4>. QED BY <2>2, <3>1, <4>1, <4>2
    <3>. QED BY <3>1 DEF Asks
  <2>8. Awaited <=> Awaited'
    <3>1. \A other \in loads : other # load => other \in loads'
      BY <2>2
    <3>2. answered \in loads' /\ \A other \in loads' : other \in loads \/ other = answered
      BY <2>2
    <3>3. fileLoadSequence' = fileLoadSequence /\ answered.sequence = load.sequence
      BY <2>2, <2>4
    <3>. QED BY <3>1, <3>2, <3>3 DEF Awaited, Newest
  <2>9. Shows'
    BY <2>2, <2>8 DEF ListInv, Shows
  <2>. QED BY <2>5, <2>6, <2>7, <2>9 DEF ListInv
<1>. QED BY <1>2, <1>3, <1>4, <1>5

LEMMA UserSteps ==
  ASSUME ListInv,
         \/ \E flt \in Filters : applyFileFilters(flt)
         \/ TurnPage
         \/ \E f \in Name : Select(f)
         \/ \E names : deleteFiles(names)
         \/ \E checked \in BOOLEAN : SelectAll(checked)
         \/ \E request \in deletes : DeleteOk(request) \/ DeleteFails(request)
         \/ handleWSMessage
  PROVE  ListInv'
<1>1. news \in Seq(Int) /\ loads \in SUBSET loads
  BY DEF ListInv, FileViewTypeOK
<1>2. ASSUME NEW flt \in Filters, applyFileFilters(flt)
      PROVE  ListInv'
  <2>1. LoadAmong(loads) /\ UNCHANGED <<uploads, news>>
    BY <1>2 DEF applyFileFilters, loadFiles, serverSide
  <2>. QED BY <1>1, <2>1, Reloaded
<1>3. CASE TurnPage
  <2>1. LoadAmong(loads) /\ UNCHANGED <<uploads, news>>
    BY <1>3 DEF TurnPage, loadFiles, serverSide
  <2>. QED BY <1>1, <2>1, Reloaded
<1>4. ASSUME NEW f \in Name, Select(f)
      PROVE  ListInv'
  <2>1. /\ UNCHANGED <<uploads, news, filter, filePage, fileLoadSequence, loads, held, failed,
                       fileList, cards>>
        /\ f \in cards /\ selectedFiles' \subseteq selectedFiles \union {f}
    BY <1>4 DEF Select, serverSide, loading, list
  <2>. QED BY <2>1, Touched
<1>5. ASSUME NEW names, deleteFiles(names)
      PROVE  ListInv'
  <2>1. UNCHANGED <<uploads, news, filter, filePage, fileLoadSequence, loads, held, failed, fileList,
                    cards, selectedFiles>>
    BY <1>5 DEF deleteFiles, serverSide, loading, list
  <2>. QED BY <2>1, Touched
<1>6. ASSUME NEW checked \in BOOLEAN, SelectAll(checked)
      PROVE  ListInv'
  <2>1. /\ UNCHANGED <<uploads, news, filter, filePage, fileLoadSequence, loads, held, failed,
                       fileList>>
        /\ cards' = fileList /\ selectedFiles' \subseteq selectedFiles \union fileList
    BY <1>6 DEF SelectAll, serverSide, loading
  <2>. QED BY <2>1, Touched
<1>7. ASSUME NEW request \in deletes, DeleteOk(request)
      PROVE  ListInv'
  <2>1. LoadAmong(loads) /\ UNCHANGED <<uploads, news>>
    BY <1>7 DEF DeleteOk, loadFiles, serverSide
  <2>. QED BY <1>1, <2>1, Reloaded
<1>8. ASSUME NEW request \in deletes, DeleteFails(request)
      PROVE  ListInv'
  <2>1. UNCHANGED <<uploads, news, filter, filePage, fileLoadSequence, loads, held, failed, fileList,
                    cards, selectedFiles>>
    BY <1>8 DEF DeleteFails, serverSide, loading, list
  <2>. QED BY <2>1, Touched
<1>9. CASE handleWSMessage
  <2>1. /\ LoadAmong(loads) /\ UNCHANGED uploads
        /\ news # <<>> /\ news' = Tail(news)
    BY <1>9 DEF handleWSMessage, loadFiles
  <2>2. news' \in Seq(Int)
    BY <1>1, <2>1
  <2>. QED BY <1>1, <2>1, <2>2, Reloaded
<1>. QED BY <1>2, <1>3, <1>4, <1>5, <1>6, <1>7, <1>8, <1>9

LEMMA ServerSteps ==
  ASSUME ListInv,
         \/ \E request \in deletes : \/ EndDelete(request)
                                      \/ \E f \in request.todo : DeleteOne(request, f)
         \/ OtherClients
  PROVE  ListInv'
<1>1. news \in Seq(Int) /\ uploads \subseteq Name /\ Len(news) \in Nat
  BY DEF ListInv, FileViewTypeOK
<1>2. ASSUME NEW what \in Int, Announce(what), uploads' \subseteq Name,
             UNCHANGED <<filter, filePage, fileLoadSequence, loads, held, failed, fileList, cards,
                         selectedFiles>>
      PROVE  ListInv'
  <2>1. news' \in Seq(Int) /\ news' # <<>>
    BY <1>1, <1>2 DEF Announce
  <2>. QED BY <1>2, <2>1, ServerChanges
<1>3. ASSUME NEW f, Unlink(f)
      PROVE  f \in Int /\ Announce(f) /\ uploads' \subseteq Name
  <2>1. f \in uploads /\ uploads' = uploads \ {f} /\ Announce(f)
    BY <1>3 DEF Unlink
  <2>2. f \in Nat
    BY <1>1, <2>1, FileViewAssumption
  <2>. QED BY <1>1, <2>1, <2>2
<1>4. ASSUME NEW request \in deletes, NEW f, DeleteOne(request, f) \/ EndDelete(request)
      PROVE  ListInv'
  <2>1. UNCHANGED <<filter, filePage, fileLoadSequence, loads, held, failed, fileList,
                    cards, selectedFiles>>
    BY <1>4 DEF DeleteOne, EndDelete, loading, list
  <2>2. Unlink(f) \/ UNCHANGED <<uploads, news>>
    BY <1>4 DEF DeleteOne, EndDelete, serverSide
  <2>3. CASE UNCHANGED <<uploads, news>>
    BY <2>1, <2>3, Touched
  <2>. QED BY <1>2, <1>3, <2>1, <2>2, <2>3
<1>5. CASE OtherClients
  <2>1. UNCHANGED <<filter, filePage, fileLoadSequence, loads, held, failed, fileList,
                    cards, selectedFiles>>
    BY <1>5 DEF OtherClients, loading, list
  <2>2. CASE \E f \in Name \ uploads : uploads' = uploads \union {f} /\ Announce(New)
    <3>1. New \in Int /\ Announce(New) /\ uploads' \subseteq Name
      BY <1>1, <2>2 DEF New
    <3>. QED BY <1>2, <2>1, <3>1
  <2>3. CASE \E f \in uploads : Unlink(f)
    BY <1>2, <1>3, <2>1, <2>3
  <2>4. CASE UNCHANGED <<uploads, news>>
    BY <2>1, <2>4, Touched
  <2>. QED BY <1>5, <2>2, <2>3, <2>4 DEF OtherClients
<1>. QED BY <1>4, <1>5

(* The screen comes to show what the server has, and of what was removed   *)
(* only what the index held when it answered.                              *)
THEOREM Settles == FileViewSpec => []ListSettles
<1>1. FileViewInit => ListInv
  <2>. SUFFICES ASSUME FileViewInit
                PROVE  ListInv
    OBVIOUS
  <2>1. /\ uploads \subseteq Name /\ news = <<>> /\ fileLoadSequence = 1
        /\ loads = {[sequence |-> 1, filter |-> filter, page |-> 1, answer |-> NoAnswer,
                     held |-> {}]}
        /\ filePage = 1
    BY DEF FileViewInit
  <2>2. PICK asked : asked = [sequence |-> 1, filter |-> filter, page |-> 1, answer |-> NoAnswer,
                              held |-> {}]
    OBVIOUS
  <2>3. /\ loads = {asked} /\ asked.sequence = 1 /\ asked.filter = filter /\ asked.page = 1
        /\ asked.answer = NoAnswer
    BY <2>1, <2>2
  <2>4. FileViewTypeOK
    BY <2>1, <2>2, <2>3 DEF FileViewTypeOK
  <2>5. Numbered /\ Asks /\ Awaited
    BY <2>1, <2>3 DEF Numbered, Asks, Awaited, Newest
  <2>. QED BY <2>4, <2>5 DEF ListInv, Shows
<1>2. ListInv /\ [FileViewNext]_fileViewVars => ListInv'
  <2>. SUFFICES ASSUME ListInv, [FileViewNext]_fileViewVars
                PROVE  ListInv'
    OBVIOUS
  <2>1. CASE UNCHANGED fileViewVars
    <3>1. UNCHANGED <<uploads, news, filter, filePage, fileLoadSequence, loads, held, failed, fileList,
                      cards, selectedFiles>>
      BY <2>1 DEF fileViewVars, serverSide, loading, list
    <3>. QED BY <3>1, Touched
  <2>. QED BY <2>1, LoadSteps, UserSteps, ServerSteps DEF FileViewNext
<1>3. ListInv => ListSettles
  <2>1. loads = {} => ~Awaited
    BY DEF Awaited
  <2>. QED BY <2>1 DEF ListInv, Shows, ListSettles
<1>. QED BY <1>1, <1>2, <1>3, PTL DEF FileViewSpec

===============================================================================
