---------------------------------- MODULE Hub ----------------------------------
(***************************************************************************)
(* The WebSocket hub (core/server/ws.go) and the paths that feed it: the   *)
(* goroutine WSHub.Run, the handler ServeWebSocket and the two pumps of    *)
(* each connection, the handler of /api/text and the read pumps, which     *)
(* store a text in the feed and then broadcast it.                         *)
(*                                                                         *)
(* A step is one channel operation.  Sending on the unbuffered channels    *)
(* register and unregister meets Run in its select; broadcast and every    *)
(* client's send are buffered.  h.mu is only ever taken by Run, so it      *)
(* excludes nobody.  A client is one connection: it is never reused.       *)
(***************************************************************************)
EXTENDS Feed, FiniteSets

CONSTANTS
  Client,         \* WebSocket connections
  Sender,         \* goroutines serving /api/text
  BroadcastCap,   \* capacity of WSHub.broadcast
  SendCap         \* capacity of WSClient.send

ASSUME HubAssumption ==
  /\ None \notin Client
  /\ Client \intersect Sender = {}
  /\ BroadcastCap \in Nat \ {0}
  /\ SendCap \in Nat \ {0}

Pump == {"read", "write"}
Poster == Sender \union Client    \* a client posts through its read pump

VARIABLES
  hub,         \* where Run is: in its "select", sending the "init" feed, or "stopped"
  newcomer,    \* local variable client of Run in the case of register
  clients,     \* WSHub.clients
  broadcast,   \* buffer of WSHub.broadcast
  done,        \* WSHub.done is closed
  send,        \* send[c]: buffer of WSClient.send
  closed,      \* WSClient.closed: the channel send and the connection are closed
  serving,     \* serving[c]: where ServeWebSocket is
  pump,        \* pump[c][k]: where the read and the write pump of c are
  posting,     \* posting[g]: the text g has stored and not yet broadcast, or None
  log,         \* history: texts that Run took from broadcast
  since,       \* history: Len(log) when c was registered
  shown,       \* history: the feed sent to c on connect
  got,         \* history: frames written to c
  informed     \* history: clients shown the feed since the last switch

connection == <<serving, pump>>
channels == <<broadcast, send, done, closed>>
observed == <<log, since, shown, got, informed>>
hubVars == <<feedVars, hub, newcomer, clients, channels, connection, posting, observed>>

Frame == [type : {"init_feed"}, data : Seq(Msg)] \union [type : {"new_text"}, data : Msg]

InitFeed(feed) == [type |-> "init_feed", data |-> feed]
NewText(m) == [type |-> "new_text", data |-> m]

HubInit ==
  /\ Init
  /\ hub = "select" /\ newcomer = None /\ clients = {}
  /\ broadcast = <<>> /\ done = FALSE
  /\ send = [c \in Client |-> <<>>]
  /\ closed = [c \in Client |-> FALSE]
  /\ serving = [c \in Client |-> "none"]
  /\ pump = [c \in Client |-> [k \in Pump |-> "off"]]
  /\ posting = [g \in Poster |-> None]
  /\ log = <<>>
  /\ since = [c \in Client |-> 0]
  /\ shown = [c \in Client |-> <<>>]
  /\ got = [c \in Client |-> <<>>]
  /\ informed = {}

-------------------------------------------------------------------------------
(* Connections: ServeWebSocket *)

Connect(c) ==
  /\ serving[c] = "none"
  /\ serving' = [serving EXCEPT ![c] = "registering"]
  /\ UNCHANGED <<feedVars, hub, newcomer, clients, channels, pump, posting, observed>>

(* case <-h.done *)
Refuse(c) ==
  /\ serving[c] = "registering" /\ done
  /\ serving' = [serving EXCEPT ![c] = "refused"]
  /\ UNCHANGED <<feedVars, hub, newcomer, clients, channels, pump, posting, observed>>

StartPumps(c) ==
  /\ serving[c] = "registered"
  /\ serving' = [serving EXCEPT ![c] = "served"]
  /\ pump' = [pump EXCEPT ![c] = [k \in Pump |-> "on"]]
  /\ UNCHANGED <<feedVars, hub, newcomer, clients, channels, posting, observed>>

-------------------------------------------------------------------------------
(* Posting a text: handleSendText and the text frames of readPump *)

MayPost(g) ==
  /\ posting[g] = None
  /\ g \in Client => pump[g]["read"] = "on"

Store(g, m) ==
  /\ MayPost(g)
  /\ AddTextMessage(m)
  /\ posting' = [posting EXCEPT ![g] = m]
  /\ UNCHANGED <<hub, newcomer, clients, channels, connection, observed>>

(* A full broadcast channel drops the text, as the clients' channels do. *)
Enqueue_Dropping(g) ==
  /\ posting[g] # None
  /\ broadcast' = IF Len(broadcast) < BroadcastCap THEN Append(broadcast, posting[g])
                                                   ELSE broadcast
  /\ posting' = [posting EXCEPT ![g] = None]
  /\ UNCHANGED <<feedVars, hub, newcomer, clients, send, done, closed, connection, observed>>

(* BroadcastJSON: case h.broadcast <- data *)
Enqueue(g) ==
  /\ posting[g] # None
  /\ Len(broadcast) < BroadcastCap
  /\ broadcast' = Append(broadcast, posting[g])
  /\ posting' = [posting EXCEPT ![g] = None]
  /\ UNCHANGED <<feedVars, hub, newcomer, clients, send, done, closed, connection, observed>>

(* BroadcastJSON waits for the channel alone. *)
Abandon_Never(g) == FALSE /\ UNCHANGED hubVars

(* BroadcastJSON: case <-h.done *)
Abandon(g) ==
  /\ posting[g] # None
  /\ done
  /\ posting' = [posting EXCEPT ![g] = None]
  /\ UNCHANGED <<feedVars, hub, newcomer, clients, channels, connection, observed>>

-------------------------------------------------------------------------------
(* The pumps of a connection *)

(* writePump: a frame is taken from send and written *)
Write(c) ==
  /\ pump[c]["write"] = "on"
  /\ send[c] # <<>> /\ ~ closed[c]
  /\ got' = [got EXCEPT ![c] = Append(@, Head(send[c]))]
  /\ send' = [send EXCEPT ![c] = Tail(@)]
  /\ UNCHANGED <<feedVars, hub, newcomer, clients, broadcast, done, closed, connection,
                 posting, log, since, shown, informed>>

(* A pump returns: the peer closed, broke off or was silent for 90 s, a    *)
(* write or a ping took longer than 10 s, or the hub closed the client.    *)
(* If a write failed, its frame is lost.                                   *)
PumpEnds(c, k) ==
  /\ pump[c][k] = "on"
  /\ k = "read" => posting[c] = None
  /\ \/ "net" \in Hazard
     \/ closed[c]
  /\ pump' = [pump EXCEPT ![c][k] = "leaving"]
  /\ \/ UNCHANGED send
     \/ /\ k = "write" /\ send[c] # <<>>
        /\ send' = [send EXCEPT ![c] = Tail(@)]
  /\ UNCHANGED <<feedVars, hub, newcomer, clients, broadcast, done, closed, serving,
                 posting, observed>>

(* unregisterClient sends without looking at done. *)
Depart_Never(c, k) == FALSE /\ UNCHANGED hubVars

(* unregisterClient: case <-h.done *)
Depart(c, k) ==
  /\ pump[c][k] = "leaving" /\ done
  /\ pump' = [pump EXCEPT ![c][k] = "ended"]
  /\ UNCHANGED <<feedVars, hub, newcomer, clients, channels, serving, posting, observed>>

-------------------------------------------------------------------------------
(* WSHub.Run: one action per case of its select *)

(* WSClient.Close of each of cs *)
Close(cs) == closed' = [c \in Client |-> closed[c] \/ c \in cs]

TakeDone ==
  /\ hub = "select" /\ done
  /\ Close(clients)
  /\ clients' = {}
  /\ hub' = "stopped"
  /\ UNCHANGED <<feedVars, newcomer, broadcast, send, done, connection, posting, observed>>

TakeRegister(c) ==
  /\ hub = "select"
  /\ serving[c] = "registering"
  /\ serving' = [serving EXCEPT ![c] = "registered"]
  /\ clients' = clients \union {c}
  /\ newcomer' = c
  /\ hub' = "init"
  /\ since' = [since EXCEPT ![c] = Len(log)]
  /\ UNCHANGED <<feedVars, channels, pump, posting, log, shown, got, informed>>

(* The feed is read after the client was registered. *)
SendInit ==
  /\ hub = "init"
  /\ shown' = [shown EXCEPT ![newcomer] = TextFeed]
  /\ send' = [send EXCEPT ![newcomer] =
                IF Len(@) < SendCap THEN Append(@, InitFeed(TextFeed)) ELSE @]
  /\ informed' = informed \union {newcomer}
  /\ newcomer' = None
  /\ hub' = "select"
  /\ UNCHANGED <<feedVars, clients, broadcast, done, closed, connection, posting,
                 log, since, got>>

(* The client is closed and stays in the registry. *)
StillListed_All(cs) == clients

(* The client leaves the registry and is not closed. *)
Closing_None(cs) == {}

(* delete(h.clients, client) and client.Close() belong together. *)
StillListed(cs) == clients \ cs
Closing(cs) == clients \intersect cs

TakeUnregister(c, k) ==
  /\ hub = "select"
  /\ pump[c][k] = "leaving"
  /\ pump' = [pump EXCEPT ![c][k] = "ended"]
  /\ Close(Closing({c}))
  /\ clients' = StillListed({c})
  /\ UNCHANGED <<feedVars, hub, newcomer, broadcast, send, done, serving, posting, observed>>

(* A full client misses the message and stays. *)
Stuck_Nobody == {}

(* clients whose buffer is full are treated as dead *)
Stuck == {c \in clients : Len(send[c]) >= SendCap}

TakeBroadcast ==
  /\ hub = "select"
  /\ broadcast # <<>>
  /\ broadcast' = Tail(broadcast)
  /\ log' = Append(log, Head(broadcast))
  /\ send' = [c \in Client |-> IF c \in clients /\ Len(send[c]) < SendCap
                               THEN Append(send[c], NewText(Head(broadcast)))
                               ELSE send[c]]
  /\ Close(Closing(Stuck))
  /\ clients' = StillListed(Stuck)
  /\ UNCHANGED <<feedVars, hub, newcomer, done, connection, posting, since, shown, got,
                 informed>>

(* WSHub.Shutdown *)
Shutdown ==
  /\ ~ done
  /\ done' = TRUE
  /\ UNCHANGED <<feedVars, hub, newcomer, clients, broadcast, send, closed, connection,
                 posting, observed>>

(* The operator switches directories: the feed changes under the hub. *)
SwitchFeedDir ==
  /\ \/ (\E d \in Dir : SwitchDir(d)) /\ UNCHANGED informed
     \/ SwitchFeed /\ informed' = {}
  /\ UNCHANGED <<hub, newcomer, clients, channels, connection, posting, log, since, shown,
                 got>>

HubNext ==
  \/ \E c \in Client :
       \/ Connect(c) \/ Refuse(c) \/ StartPumps(c) \/ Write(c) \/ TakeRegister(c)
       \/ \E k \in Pump : PumpEnds(c, k) \/ Depart(c, k) \/ TakeUnregister(c, k)
  \/ \E g \in Poster :
       \/ \E m \in Msg \ Added : Store(g, m)
       \/ Enqueue(g) \/ Abandon(g)
  \/ TakeDone \/ SendInit \/ TakeBroadcast \/ Shutdown
  \/ SwitchFeedDir

HubSpec == HubInit /\ [][HubNext]_hubVars

(***************************************************************************)
(* select chooses at random among its ready cases, and goroutines blocked  *)
(* on a channel are served in FIFO order: strong fairness of the cases of  *)
(* Run and of the blocked sends.  A write ends within its deadline and a   *)
(* read on a closed connection fails: weak fairness.  Nobody needs to      *)
(* connect, post, break off or shut down.                                  *)
(***************************************************************************)
HubFairness ==
  /\ SF_hubVars(TakeDone) /\ WF_hubVars(SendInit) /\ SF_hubVars(TakeBroadcast)
  /\ \A c \in Client :
       /\ SF_hubVars(TakeRegister(c)) /\ WF_hubVars(Refuse(c) \/ StartPumps(c))
       /\ WF_hubVars(send[c] # <<>> /\ (Write(c) \/ PumpEnds(c, "write")))
       /\ \A k \in Pump :
            /\ SF_hubVars(TakeUnregister(c, k))
            /\ WF_hubVars((closed[c] /\ PumpEnds(c, k)) \/ Depart(c, k))
  /\ \A g \in Poster : SF_hubVars(Enqueue(g)) /\ WF_hubVars(Abandon(g))

HubFairSpec == HubSpec /\ HubFairness

-------------------------------------------------------------------------------
HubTypeOK ==
  /\ FeedTypeOK
  /\ hub \in {"select", "init", "stopped"}
  /\ newcomer \in Client \union {None} /\ (newcomer # None <=> hub = "init")
  /\ clients \in SUBSET Client
  /\ broadcast \in Seq(Msg) /\ Len(broadcast) <= BroadcastCap
  /\ done \in BOOLEAN
  /\ send \in [Client -> Seq(Frame)] /\ \A c \in Client : Len(send[c]) <= SendCap
  /\ closed \in [Client -> BOOLEAN]
  /\ serving \in [Client -> {"none", "registering", "refused", "registered", "served"}]
  /\ pump \in [Client -> [Pump -> {"off", "on", "leaving", "ended"}]]
  /\ posting \in [Poster -> Msg \union {None}]
  /\ log \in Seq(Msg)
  /\ since \in [Client -> Nat]
  /\ shown \in [Client -> Seq(Msg)]
  /\ got \in [Client -> Seq(Frame)]
  /\ informed \in SUBSET Client

(* Run never sends to a closed channel, which would panic and take the     *)
(* server down: whoever is in the registry, or about to get the feed, is   *)
(* open, although its pumps may have ended long ago (ws.go:70-109).        *)
OpenWhileListed ==
  /\ \A c \in clients : ~ closed[c]
  /\ hub = "init" => newcomer \in clients

(* What a client registered for: the feed, then every text broadcast since *)
Due(c) ==
  <<InitFeed(shown[c])>>
    \o [i \in 1..Len(log) - since[c] |-> NewText(log[since[c] + i])]

(* Each client sees the feed first and then an unbroken part of the one    *)
(* order in which texts are broadcast: a slow client loses its connection, *)
(* never a text from the middle (ws.go:72-109, 142-160).                   *)
ContiguousDelivery == \A c \in Client :
  /\ \A i \in 1..Len(got[c]) : i <= Len(Due(c)) /\ got[c][i] = Due(c)[i]
  /\ c \in clients \ {newcomer} /\ pump[c]["write"] \in {"off", "on"} =>
       got[c] \o send[c] = Due(c)

Pending == {posting[g] : g \in Poster} \union Texts(broadcast)

(* A text that is in the feed was shown to each connected client on        *)
(* connect, was broadcast since, or is about to be: none slips between the *)
(* reading of the feed and the registration.  Relies on storing a text     *)
(* before broadcasting it (handler.go:367-371, ws.go:72-87, 202-206).  A   *)
(* switch of directories is not announced to clients, so this is about     *)
(* those that connected after the last one.                                *)
NothingMissed ==
  ~ done => \A c \in (clients \intersect informed) \ {newcomer}, m \in Texts(TextFeed) :
    \/ m \in Pending
    \/ m \in Texts(shown[c])
    \/ \E i \in since[c] + 1..Len(log) : log[i] = m

(* Whoever broadcasts gets on, whatever the clients do, also when the hub  *)
(* stops while the channel is full (BroadcastJSON, ws.go:117-125).         *)
PostReturns == \A g \in Poster : posting[g] # None ~> posting[g] = None

(* A client connected while a text is being broadcast gets the text or is  *)
(* disconnected.                                                           *)
Delivered == \A c \in Client, m \in Msg :
  c \in clients /\ m \in Texts(broadcast)
    ~> c \notin clients \/ NewText(m) \in Texts(got[c])

Gone(c) == c \notin clients /\ \A k \in Pump : pump[c][k] = "ended"

(* When one pump of a connection returns, the hub forgets the client and   *)
(* the other pump returns too: no goroutine is left behind (ws.go:89-96,   *)
(* 127-135, 213-219).                                                      *)
PumpsEndTogether == \A c \in Client, k \in Pump : pump[c][k] = "leaving" ~> Gone(c)

(* Shutdown stops Run, closes every connection and ends every pump and     *)
(* every handler that was waiting to register (ws.go:62-70, 113-115).      *)
ShutdownEnds ==
  done ~> /\ hub = "stopped"
          /\ \A c \in Client : serving[c] \in {"none", "refused"} \/ Gone(c)

===============================================================================
