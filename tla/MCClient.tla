-------------------------------- MODULE MCClient --------------------------------
(***************************************************************************)
(* Small instances of the clients' independent parts: an upload task, the  *)
(* connection and the file list of the web page, the Android app with its  *)
(* search for servers, and the desktop program.  They share no state, so a *)
(* behaviour exercises one of them, and the others stay as they started.   *)
(***************************************************************************)
EXTENDS UploadClient, WsClient, FileView, MainActivity, Desktop

VARIABLE part   \* the component of this behaviour

clientVars == <<part, uploadClientVars, wsClientVars, fileViewVars, appVars, desktopVars>>

(* All files, and some of them *)
TwoFilters == {Name, {0}}

StillWs == onLine
StillFileView == uploads = {} /\ filter = Name
StillDesktop == saved = CHOOSE s \in Settings : TRUE

ClientInit ==
  /\ UploadClientInit /\ WsClientInit /\ FileViewInit /\ AppInit /\ DesktopInit
  /\ part \in {"upload", "socket", "files", "android", "desktop"}
  /\ part # "socket" => StillWs
  /\ part # "files" => StillFileView
  /\ part # "desktop" => StillDesktop

StepUpload == /\ part = "upload" /\ UploadClientNext
              /\ UNCHANGED <<wsClientVars, fileViewVars, appVars, desktopVars>>
StepSocket == /\ part = "socket" /\ WsClientNext
              /\ UNCHANGED <<uploadClientVars, fileViewVars, appVars, desktopVars>>
StepFiles == /\ part = "files" /\ FileViewNext
             /\ UNCHANGED <<uploadClientVars, wsClientVars, appVars, desktopVars>>
StepAndroid == /\ part = "android" /\ AppNext
               /\ UNCHANGED <<uploadClientVars, wsClientVars, fileViewVars, desktopVars>>
StepDesktop == /\ part = "desktop" /\ DesktopNext
               /\ UNCHANGED <<uploadClientVars, wsClientVars, fileViewVars, appVars>>

ClientNext == UNCHANGED part /\ (StepUpload \/ StepSocket \/ StepFiles \/ StepAndroid \/ StepDesktop)

ClientSpec == ClientInit /\ [][ClientNext]_clientVars

===============================================================================
