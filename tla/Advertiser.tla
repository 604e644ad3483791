------------------------------ MODULE Advertiser ------------------------------
(***************************************************************************)
(* How a server is announced by mDNS (core/discovery) and how the two      *)
(* programs that own it, the command-line server (main.go) and the desktop *)
(* program (desktop/main.go), start, replace and end it: the responder is  *)
(* a goroutine of its own, which goes on answering while the program       *)
(* closes it.                                                              *)
(*                                                                         *)
(* Each advertiser is a number of Advert, and its address is that of the   *)
(* time it was started.  All of them announce the same service name, so a  *)
(* listener keeps the last announcement (the records carry the cache-flush *)
(* bit) and a goodbye removes whichever it has.  Packets may be lost.      *)
(***************************************************************************)
EXTENDS Naturals

CONSTANTS
  Advert    \* bound: the advertisers that are started

ASSUME AdvertiserAssumption == Advert \subseteq Nat \ {0}

Nil == 0    \* no advertiser

VARIABLES
  program,  \* "cli" or "desktop"
  main,     \* the main goroutine, or the window's thread: its next step
  leaving,  \* the program was told to end
  mdns,     \* the advertiser it holds
  conn,     \* advertisers whose socket is open
  stop,     \* advertisers whose channel stop is closed
  run,      \* run[g]: the next step of g's responder
  cache,    \* external: the announcement a listener has
  heard     \* history: it has one of mdns, which is neither over nor revoked

advertVars == <<program, main, leaving, mdns, conn, stop, run, cache, heard>>

AdvertInit ==
  /\ program = "cli" /\ main = "off" /\ leaving = FALSE
  /\ mdns = Nil /\ conn = {} /\ stop = {}
  /\ run = [g \in Advert |-> "unborn"]
  /\ cache = Nil /\ heard = FALSE

(* sendResponse of advertiser g: nothing leaves a closed socket. *)
Send(g) ==
  \/ g \in conn /\ cache' = g /\ heard' = (heard \/ g = mdns)
  \/ UNCHANGED <<cache, heard>>

-------------------------------------------------------------------------------
(* run, the responder's goroutine *)

Step(g, from, to) == run[g] = from /\ run' = [run EXCEPT ![g] = to]

Announce(g) ==
  /\ Step(g, "announce", "read") /\ Send(g)
  /\ UNCHANGED <<program, main, leaving, mdns, conn, stop>>

(* A query for the service, or an error: the deadline of a second, a       *)
(* packet that is none, the closed socket                                  *)
Read(g) ==
  /\ Step(g, "read", "check") \/ (g \in conn /\ Step(g, "read", "answer"))
  /\ UNCHANGED <<program, main, leaving, mdns, conn, stop, cache, heard>>

Respond(g) ==
  /\ Step(g, "answer", "check") /\ Send(g)
  /\ UNCHANGED <<program, main, leaving, mdns, conn, stop>>

(* stop is looked at before the next announcement falls due. *)
CheckStop(g) ==
  /\ IF g \in stop THEN Step(g, "check", "done") ELSE Step(g, "check", "read")
  /\ UNCHANGED <<program, main, leaving, mdns, conn, stop, cache, heard>>

(* The service is announced when the responder starts and not again. *)
AnnounceAgain_Never(g) == FALSE /\ UNCHANGED advertVars

AnnounceAgain(g) ==
  /\ g \notin stop /\ Step(g, "check", "announce")
  /\ UNCHANGED <<program, main, leaving, mdns, conn, stop, cache, heard>>

Responder(g) == Announce(g) \/ Read(g) \/ Respond(g) \/ CheckStop(g)

-------------------------------------------------------------------------------
(* The owner *)

(* The command-line server announces itself before it listens. *)
Launch ==
  /\ main = "off" /\ leaving' = FALSE
  /\ \/ program' = "cli" /\ main' = "start"
     \/ program' = "desktop" /\ main' = "listen"
  /\ UNCHANGED <<mdns, conn, stop, run, cache, heard>>

Listen ==
  /\ main = "listen" /\ main' = IF program = "cli" THEN "serve" ELSE "start"
  /\ UNCHANGED <<program, leaving, mdns, conn, stop, run, cache, heard>>

(* Start, which may fail: there is no such interface any more, or the      *)
(* socket cannot be had.                                                   *)
StartAdvertiser ==
  /\ main = "start" /\ main' = IF program = "cli" THEN "listen" ELSE "serve"
  /\ heard' = FALSE
  /\ \/ /\ \E g \in Advert :
             /\ run[g] = "unborn" /\ \A h \in Advert : run[h] = "unborn" => g <= h
             /\ mdns' = g /\ conn' = conn \union {g}
             /\ run' = [run EXCEPT ![g] = "announce"]
     \/ mdns' = Nil /\ UNCHANGED <<conn, run>>
  /\ UNCHANGED <<program, leaving, stop, cache>>

(* setAdapter, up to restartDiscoveryLocked *)
ChangeAdapter ==
  /\ main = "serve" /\ program = "desktop"
  /\ main' = IF mdns = Nil THEN "start" ELSE "goodbye"
  /\ UNCHANGED <<program, leaving, mdns, conn, stop, run, cache, heard>>

(* A signal, a closed window, or in the desktop program a server error *)
Quit ==
  /\ main = "serve" /\ main' = "drain" /\ leaving' = TRUE
  /\ UNCHANGED <<program, mdns, conn, stop, run, cache, heard>>

(* httpServer.Shutdown, for five seconds at most *)
Drain ==
  /\ main = "drain" /\ main' = IF mdns = Nil THEN "off" ELSE "goodbye"
  /\ UNCHANGED <<program, leaving, mdns, conn, stop, run, cache, heard>>

(* Advertiser.Close: the goodbye, ... *)
Goodbye ==
  /\ main = "goodbye" /\ main' = "stop"
  /\ \/ mdns \in conn /\ cache' = Nil /\ heard' = FALSE
     \/ UNCHANGED <<cache, heard>>
  /\ UNCHANGED <<program, leaving, mdns, conn, stop, run>>

(* The responder is not told to stop. *)
CloseStop_Forgotten ==
  /\ main = "stop" /\ main' = "close"
  /\ UNCHANGED <<program, leaving, mdns, conn, stop, run, cache, heard>>

(* ... close(a.stop), ... *)
CloseStop ==
  /\ main = "stop" /\ main' = "close" /\ stop' = stop \union {mdns}
  /\ UNCHANGED <<program, leaving, mdns, conn, run, cache, heard>>

(* The socket is left to the responder, which is not waited for. *)
CloseConn_Left ==
  /\ main = "close" /\ mdns' = Nil
  /\ main' = IF leaving THEN "off" ELSE "start"
  /\ UNCHANGED <<program, leaving, conn, stop, run, cache, heard>>

(* ... the socket, ... *)
CloseConn ==
  /\ main = "close" /\ main' = "wait" /\ conn' = conn \ {mdns}
  /\ UNCHANGED <<program, leaving, mdns, stop, run, cache, heard>>

(* ... and the end of the responder.  The program ends with the hub's      *)
(* Shutdown, or starts the successor.                                      *)
AwaitDone ==
  /\ main = "wait" /\ run[mdns] = "done" /\ mdns' = Nil
  /\ main' = IF leaving THEN "off" ELSE "start"
  /\ UNCHANGED <<program, leaving, conn, stop, run, cache, heard>>

(* log.Fatalf when the port cannot be had or, in the command-line server,  *)
(* when serving fails; or the process is killed: no goodbye                *)
Die ==
  /\ main # "off" /\ main' = "off"
  /\ mdns' = Nil /\ conn' = {} /\ heard' = FALSE
  /\ run' = [g \in Advert |-> IF run[g] = "unborn" THEN "unborn" ELSE "done"]
  /\ UNCHANGED <<program, leaving, stop, cache>>

(* The time to live of what the listener has is over. *)
Forgets ==
  /\ cache # Nil /\ cache' = Nil /\ heard' = FALSE
  /\ UNCHANGED <<program, main, leaving, mdns, conn, stop, run>>

Owner ==
  Listen \/ StartAdvertiser \/ Drain \/ Goodbye \/ CloseStop \/ CloseConn \/ AwaitDone

AdvertNext ==
  \/ \E g \in Advert : Responder(g) \/ AnnounceAgain(g)
  \/ Owner \/ Launch \/ ChangeAdapter \/ Quit \/ Die \/ Forgets

(***************************************************************************)
(* Neither the owner nor a responder waits for anybody but the other: a    *)
(* read has a deadline of a second.  A minute passes again and again, and  *)
(* not every packet is lost.                                               *)
(***************************************************************************)
AdvertFairness ==
  /\ WF_advertVars(Owner)
  /\ \A g \in Advert :
       /\ WF_advertVars(Responder(g)) /\ SF_advertVars(AnnounceAgain(g))
       /\ SF_advertVars(Announce(g) /\ g \in conn /\ cache' = g)

AdvertSpec == AdvertInit /\ [][AdvertNext]_advertVars /\ AdvertFairness

-------------------------------------------------------------------------------
(* A listener that has heard of the advertiser that runs knows its address *)
(* until that one takes it back: neither a goodbye nor a late answer of a  *)
(* former one comes after the successor's announcement (局域网发现.go      *)
(* 117-129, desktop/main.go 304-315).                                      *)
SuccessorHeard == mdns # Nil /\ heard => cache = mdns

(* However many announcements are lost, a listener hears of an advertiser  *)
(* that keeps running (局域网发现.go 131-163).                             *)
EventuallyHeard == \A g \in Advert : mdns = g ~> cache = g \/ mdns # g

(* A program that is told to end does: closing the advertiser, which waits *)
(* for the responder, never blocks it (局域网发现.go 122-126, main.go      *)
(* 193-204, desktop/main.go 174-180).                                      *)
ProgramEnds == leaving /\ main # "off" ~> main = "off"

===============================================================================
