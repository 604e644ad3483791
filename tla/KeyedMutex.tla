------------------------------ MODULE KeyedMutex ------------------------------
(***************************************************************************)
(* What Server.lockUpload promises its callers: one mutex per file_id.     *)
(* A request asks for a key, waits while another request is inside the     *)
(* critical section of the same key, and leaves.  Nothing is said of how   *)
(* the mutexes are found, shared or reclaimed: UploadLock says that and is *)
(* shown to implement this module.                                         *)
(***************************************************************************)
CONSTANTS Request, Key

VARIABLES
  place,    \* place[r]: "out", "want" or "in" the critical section
  wanted    \* wanted[r]: the key of the current (or last) critical section of r

vars == <<place, wanted>>

Init ==
  /\ place = [r \in Request |-> "out"]
  /\ wanted \in [Request -> Key]

Ask(r, k) ==
  /\ place[r] = "out"
  /\ place' = [place EXCEPT ![r] = "want"]
  /\ wanted' = [wanted EXCEPT ![r] = k]

(* The key is free: nobody is inside with it. *)
Enter(r) ==
  /\ place[r] = "want"
  /\ \A q \in Request : place[q] = "in" => wanted[q] # wanted[r]
  /\ place' = [place EXCEPT ![r] = "in"]
  /\ UNCHANGED wanted

Leave(r) ==
  /\ place[r] = "in"
  /\ place' = [place EXCEPT ![r] = "out"]
  /\ UNCHANGED wanted

Next == \E r \in Request : (\E k \in Key : Ask(r, k)) \/ Enter(r) \/ Leave(r)

Spec == Init /\ [][Next]_vars

===============================================================================
