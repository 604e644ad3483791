------------------------------ MODULE MainActivity ------------------------------
(***************************************************************************)
(* The Android app's one activity (MainActivity.kt) around the search for  *)
(* servers: it searches while its home screen is in view, lists what is    *)
(* found there, and shows a server's page in a WebView instead once one is *)
(* chosen.  All of it runs on the main thread.  Which server is chosen,    *)
(* the list of recent ones and the WebView's own settings are left out.    *)
(***************************************************************************)
EXTENDS NsdDiscovery

VARIABLES
  activityStarted, homeVisible,
  webView,     \* the page in view: "none", "first", or "further", with a way back
  destroyed,
  listed,      \* the servers on the home screen, children of nearbyServers
  emptied      \* history: the home screen was built anew during this search, which
               \* has emitted nothing since

activityVars == <<activityStarted, homeVisible, webView, destroyed, listed, emptied>>
appVars == <<nsdVars, activityVars>>

(* onCreate, which ends with showHome *)
AppInit ==
  /\ NsdInit
  /\ activityStarted = FALSE /\ homeVisible = TRUE
  /\ webView = "none" /\ destroyed = FALSE /\ listed = {}
  /\ emptied = FALSE

(* onServersChanged, from emitServers.  stop clears serversByName without  *)
(* a call.                                                                 *)
Rendered ==
  IF homeVisible THEN listed' = serversByName' /\ emptied' = FALSE
                 ELSE UNCHANGED <<listed, emptied>>

(* start calls it with nothing, unless there is a search already. *)
StartedList ==
  IF generation' # generation THEN listed' = {} /\ emptied' = FALSE
                              ELSE UNCHANGED <<listed, emptied>>

onStart ==
  /\ ~activityStarted /\ ~destroyed
  /\ activityStarted' = TRUE
  /\ IF homeVisible THEN start /\ StartedList ELSE UNCHANGED <<nsdVars, listed, emptied>>
  /\ UNCHANGED <<homeVisible, webView, destroyed>>

onStop ==
  /\ activityStarted /\ activityStarted' = FALSE
  /\ stop
  /\ UNCHANGED <<homeVisible, webView, destroyed, listed, emptied>>

(* onDestroy, of a stopped activity *)
onDestroy ==
  /\ ~activityStarted /\ ~destroyed /\ destroyed' = TRUE
  /\ stop
  /\ webView' = "none"
  /\ UNCHANGED <<activityStarted, homeVisible, listed, emptied>>

(* nsdDiscovery.stop() is left out. *)
openWebView_Searching ==
  /\ activityStarted /\ homeVisible
  /\ homeVisible' = FALSE /\ webView' = "first" /\ listed' = {}
  /\ UNCHANGED <<nsdVars, activityStarted, destroyed, emptied>>

(* connectFromUrl and openWebView: a server is chosen on the home screen,  *)
(* or a scanned code or a typed address names it.                          *)
openWebView ==
  /\ activityStarted /\ homeVisible
  /\ homeVisible' = FALSE /\ webView' = "first" /\ listed' = {}
  /\ stop
  /\ UNCHANGED <<activityStarted, destroyed, emptied>>

(* A link within the page *)
Browse ==
  /\ activityStarted /\ webView = "first" /\ webView' = "further"
  /\ UNCHANGED <<nsdVars, activityStarted, homeVisible, destroyed, listed, emptied>>

(* The home screen is built anew, with an empty list.  A search that runs  *)
(* already is left as it is, and emits nothing for it.                     *)
showHome ==
  /\ webView' = "none" /\ homeVisible' = TRUE
  /\ listed' = {}
  /\ start
  /\ emptied' = discoveryListener

onBackPressed ==
  /\ activityStarted
  /\ IF webView = "further"
       THEN webView' = "first" /\ UNCHANGED <<nsdVars, homeVisible, listed, emptied>>
       ELSE showHome
  /\ UNCHANGED <<activityStarted, destroyed>>

(* The button beside the list *)
Refresh ==
  /\ activityStarted /\ homeVisible
  /\ restart
  /\ UNCHANGED activityVars

(* The search goes on by itself. *)
Searching ==
  /\ \E emits \in BOOLEAN : NsdNext(emits) /\ IF emits THEN Rendered ELSE StartedList
  /\ UNCHANGED <<activityStarted, homeVisible, webView, destroyed>>

AppNext ==
  \/ onStart \/ onStop \/ onDestroy
  \/ openWebView \/ Browse \/ onBackPressed \/ Refresh
  \/ Searching

AppSpec == AppInit /\ [][AppNext]_appVars

-------------------------------------------------------------------------------
(* Whatever is started, stopped, refreshed and answered late: the app      *)
(* searches, or is about to after a refresh, exactly while its home screen *)
(* is in view, unless Android refused the search; and during a search it   *)
(* lists all that the search has found, and nothing else, except after its *)
(* home screen was built anew and until the next change: then nothing      *)
(* (MainActivity.kt 87-88, 96-106, 118, 235, 263, 270, 409-416).           *)
SearchWhileHome ==
  /\ (discoveryListener \/ generation \in restarts)
       <=> (activityStarted /\ homeVisible /\ ~refused)
  /\ discoveryListener => listed = IF emptied THEN {} ELSE serversByName

(* What the README says of the app: once open it lists the computers that  *)
(* were discovered (README.md 72).                                         *)
FoundAreListed == discoveryListener => listed = serversByName

===============================================================================
