-------------------------------- MODULE MCServer --------------------------------
(***************************************************************************)
(* Small instances of the server's independent tables: the text feed with  *)
(* its files, the storage reservations, the PIN attempts with the          *)
(* sessions, the file index, the frames of a WebSocket and the QR code of  *)
(* the link.  They share no state, so their product has nothing that each  *)
(* alone has not: a behaviour exercises one of them, and the others stay   *)
(* as they started.                                                        *)
(***************************************************************************)
EXTENDS Feed, Storage, Auth, FileIndex, WSFrame, QRCode, TLC

VARIABLE part   \* the component of this behaviour

serverVars == <<part, feedVars, storageVars, authVars, fileIndexVars, frameVars, qrVars>>

(* Two files with one modification time, which their names put in order *)
TwoTimes == [f \in File |-> f \div 2]

(* Texts as long as each version holds and one byte longer, with every     *)
(* byte changed from one to the next                                       *)
BoundaryTexts ==
  {[i \in 1..n |-> Bits((37 * i + n) % 256)] : n \in {0, 14, 15, 26, 27, 42, 43, 62, 63, 84, 85}}

StillFeed == uploadDir = CHOOSE d \in Dir : TRUE
StillStorage == free = [v \in Volume |-> 0]
StillAuth == now = 1
StillFileIndex == dir = {}
StillQR == text = CHOOSE t \in Text : TRUE

ServerInit ==
  /\ Init /\ StorageInit /\ AuthInit /\ FileIndexInit /\ FrameInit /\ QRInit
  /\ part \in {"feed", "storage", "auth", "index", "frames", "qr"}
  /\ part # "feed" => StillFeed
  /\ part # "storage" => StillStorage
  /\ part # "auth" => StillAuth
  /\ part # "index" => StillFileIndex
  /\ part # "qr" => StillQR

StepFeed ==
  part = "feed" /\ Next /\ UNCHANGED <<storageVars, authVars, fileIndexVars, frameVars, qrVars>>
StepStorage ==
  part = "storage" /\ StorageNext /\ UNCHANGED <<feedVars, authVars, fileIndexVars, frameVars, qrVars>>
StepAuth ==
  part = "auth" /\ AuthNext /\ UNCHANGED <<feedVars, storageVars, fileIndexVars, frameVars, qrVars>>
StepFileIndex ==
  part = "index" /\ FileIndexNext /\ UNCHANGED <<feedVars, storageVars, authVars, frameVars, qrVars>>
StepFrames ==
  part = "frames" /\ FrameNext /\ UNCHANGED <<feedVars, storageVars, authVars, fileIndexVars, qrVars>>
StepQR ==
  part = "qr" /\ EncodeText /\ UNCHANGED <<feedVars, storageVars, authVars, fileIndexVars, frameVars>>

ServerNext ==
  /\ UNCHANGED part
  /\ StepFeed \/ StepStorage \/ StepAuth \/ StepFileIndex \/ StepFrames \/ StepQR

ServerSpec == ServerInit /\ [][ServerNext]_serverVars

Symmetry == Permutations(Writer) \union Permutations(Address)

===============================================================================
