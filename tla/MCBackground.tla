----------------------------- MODULE MCBackground -----------------------------
(***************************************************************************)
(* What goes on in the background whatever the clients do: the sweeper of  *)
(* abandoned uploads, the announcement of the server and the table of the  *)
(* mutexes that the handlers and the sweeper lock.  They share no state: a *)
(* behaviour exercises one and leaves the others as they started.          *)
(***************************************************************************)
EXTENDS MCUpload, Advertiser, UploadLock

VARIABLE part   \* the component of this behaviour

backgroundVars == <<part, vars, advertVars, lockVars>>

StillLocks == fileID = [r \in Caller |-> CHOOSE id \in LockID : TRUE]

BackgroundInit ==
  /\ Init /\ AdvertInit /\ LockInit
  /\ part \in {"sweeper", "advertiser", "locks"}
  /\ part # "locks" => StillLocks

StepSweeper == part = "sweeper" /\ Next /\ UNCHANGED <<advertVars, lockVars>>
StepAdvertiser == part = "advertiser" /\ AdvertNext /\ UNCHANGED <<vars, lockVars>>
StepLocks == part = "locks" /\ LockNext /\ UNCHANGED <<vars, advertVars>>

BackgroundNext == UNCHANGED part /\ (StepSweeper \/ StepAdvertiser \/ StepLocks)

(* A component owes progress when it runs. *)
BackgroundFairness ==
  \/ part = "sweeper" /\ Fairness /\ SweeperFairness
  \/ part = "advertiser" /\ AdvertFairness
  \/ part = "locks" /\ LockFairness

BackgroundSpec == BackgroundInit /\ [][BackgroundNext]_backgroundVars /\ BackgroundFairness

===============================================================================
