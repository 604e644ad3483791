------------------------------- MODULE WsClient -------------------------------
(***************************************************************************)
(* The web client's connection (webui/assets/app.js: connectWebSocket,     *)
(* scheduleWebSocketReconnect and the online and offline events).          *)
(*                                                                         *)
(* The browser changes navigator.onLine at once and runs the event's       *)
(* handlers later; a socket fails at once and runs onerror and onclose, in *)
(* one task, later.  Each connection is known by its wsGeneration.  How    *)
(* long a retry waits is left out.                                         *)
(***************************************************************************)
EXTENDS Integers, Sequences

CONSTANTS
  MaxGeneration,  \* bound: values of wsGeneration
  MaxEvents       \* bound: online and offline events under way

ASSUME WsClientAssumption == MaxGeneration \in Nat /\ MaxEvents \in Nat

VARIABLES
  onLine,        \* navigator.onLine
  events,        \* online and offline events whose handlers are to run
  wsGeneration,
  ws,            \* the generation of the socket in ws, 0 for null
  socket,        \* socket[g]: "none", "connecting", "open" or "gone";
                 \* "failed": onerror and onclose will run; "aborted": onerror
  timer,         \* wsReconnectTimer runs, or the page is about to connect
  connection     \* what setConnectionState shows

wsClientVars == <<onLine, events, wsGeneration, ws, socket, timer, connection>>

Generation == 1..MaxGeneration

WsClientInit ==
  /\ onLine \in BOOLEAN /\ events = <<>>
  /\ wsGeneration = 0 /\ ws = 0
  /\ socket = [g \in Generation |-> "none"]
  /\ timer = TRUE /\ connection = "connecting"

(* No handler asks whether its socket was replaced. *)
Current_Any(g) == TRUE

Current(g) == g = wsGeneration

-------------------------------------------------------------------------------
NextGeneration ==
  /\ wsGeneration < MaxGeneration
  /\ wsGeneration' = wsGeneration + 1

(* The former socket is closed without its handlers. *)
connectWebSocket ==
  /\ timer' = FALSE
  /\ IF onLine
       THEN /\ NextGeneration
            /\ ws' = wsGeneration'
            /\ socket' = [g \in Generation |-> CASE g = ws' -> "connecting"
                                                 [] g = ws -> "gone"
                                                 [] OTHER -> socket[g]]
            /\ connection' = "connecting"
       ELSE connection' = "offline" /\ UNCHANGED <<wsGeneration, ws, socket>>

Reconnect == timer /\ connectWebSocket /\ UNCHANGED <<onLine, events>>

(* A PIN was accepted. *)
SubmitPin == connectWebSocket /\ UNCHANGED <<onLine, events>>

scheduleWebSocketReconnect ==
  /\ timer' = onLine
  /\ connection' = IF onLine THEN "connecting" ELSE "offline"

OnOpen(g) ==
  /\ socket[g] = "connecting"
  /\ socket' = [socket EXCEPT ![g] = "open"]
  /\ connection' = IF Current(g) THEN "connected" ELSE connection
  /\ UNCHANGED <<onLine, events, wsGeneration, ws, timer>>

(* Refused, lost, unauthorized, or closed by the server *)
Fails(g) ==
  /\ socket[g] \in {"connecting", "open"}
  /\ socket' = [socket EXCEPT ![g] = "failed"]
  /\ UNCHANGED <<onLine, events, wsGeneration, ws, timer, connection>>

OnClose(g) ==
  /\ socket[g] = "failed"
  /\ socket' = [socket EXCEPT ![g] = "gone"]
  /\ IF Current(g) THEN ws' = 0 /\ scheduleWebSocketReconnect
                   ELSE UNCHANGED <<ws, timer, connection>>
  /\ UNCHANGED <<onLine, events, wsGeneration>>

OnError(g) ==
  /\ socket[g] = "aborted"
  /\ socket' = [socket EXCEPT ![g] = "gone"]
  /\ connection' = IF Current(g) THEN "connecting" ELSE connection
  /\ UNCHANGED <<onLine, events, wsGeneration, ws, timer>>

-------------------------------------------------------------------------------
NetworkChanges ==
  /\ Len(events) < MaxEvents
  /\ onLine' = ~onLine
  /\ events' = Append(events, IF onLine THEN "offline" ELSE "online")
  /\ UNCHANGED <<wsGeneration, ws, socket, timer, connection>>

Handle(event) == events # <<>> /\ Head(events) = event /\ events' = Tail(events)

OnOnline == Handle("online") /\ connectWebSocket /\ UNCHANGED onLine

(* Only the socket's onclose is taken away before it is closed. *)
OnOffline ==
  /\ Handle("offline")
  /\ NextGeneration
  /\ ws' = 0 /\ timer' = FALSE /\ connection' = "offline"
  /\ socket' = [g \in Generation |-> IF g = ws THEN "aborted" ELSE socket[g]]
  /\ UNCHANGED onLine

WsClientNext ==
  \/ Reconnect \/ SubmitPin
  \/ \E g \in Generation : OnOpen(g) \/ Fails(g) \/ OnClose(g) \/ OnError(g)
  \/ NetworkChanges \/ OnOnline \/ OnOffline

WsClientSpec == WsClientInit /\ [][WsClientNext]_wsClientVars

-------------------------------------------------------------------------------
(* However the network flaps while sockets fail, retries wait and logins   *)
(* reconnect: when every event has been handled, an online page is not     *)
(* shown as offline, it has a socket that will report its end or a retry   *)
(* that will run, and it is shown as connected only while its own socket   *)
(* was opened (app.js 173-232, 1072-1087).                                 *)
NeverStranded ==
  /\ events = <<>> /\ onLine => connection # "offline"
  /\ connection # "offline" => timer \/ ws # 0
  /\ ws # 0 => ws = wsGeneration /\ socket[ws] \in {"connecting", "open", "failed"}
  /\ connection = "connected" => ws # 0 /\ socket[ws] # "connecting"

===============================================================================
