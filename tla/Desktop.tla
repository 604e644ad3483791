-------------------------------- MODULE Desktop --------------------------------
(***************************************************************************)
(* The Windows program (desktop/main.go with its settings file): the       *)
(* address and the upload directory the operator chose, as the settings    *)
(* file, the program's copy of the settings, the server's Config and the   *)
(* mDNS advertiser have them.                                              *)
(*                                                                         *)
(* The operator's calls arrive one at a time on the window's thread, so    *)
(* each is one action.  Whatever touches the disk or the network may fail. *)
(***************************************************************************)
EXTENDS Naturals

CONSTANTS
  IP,        \* addresses of adapters
  UploadDir, \* directories the operator may choose
  NoIP       \* nothing advertised

ASSUME DesktopAssumption == NoIP \notin IP

VARIABLES
  running,        \* the program runs
  adapters,       \* desktopRuntime.adapters: those found at the start
  hostIP, cfgDir, \* Config.hostIP, Config.uploadDir
  settings,       \* desktopRuntime.settings
  saved,          \* the settings file
  advertised,     \* the address mdns announces, NoIP without an advertiser
  unsaved,        \* history: the last save failed
  unannounced     \* history: setAdapter failed to save after mdns was started

desktopVars == <<running, adapters, hostIP, cfgDir, settings, saved, advertised,
                 unsaved, unannounced>>

Settings == [SelectedIP : IP, UploadDir : UploadDir]

DesktopInit ==
  /\ saved \in Settings /\ settings = saved
  /\ running = FALSE /\ adapters = IP
  /\ hostIP = saved.SelectedIP /\ cfgDir = saved.UploadDir
  /\ advertised = NoIP /\ unsaved = FALSE /\ unannounced = FALSE

(* saveDesktopSettings: a temporary file and a rename *)
SaveDesktopSettings ==
  \/ saved' = settings' /\ unsaved' = FALSE
  \/ UNCHANGED saved /\ unsaved' = TRUE

(* The former advertiser is closed first; the new one may not start. *)
RestartDiscoveryLocked == advertised' \in {hostIP', NoIP} /\ unannounced' = FALSE

(* The directory is noted before it is known to be usable. *)
Chosen_TooEarly(dir, usable) == dir

(* What the settings note of a directory that SetUploadDir took or refused *)
Chosen(dir, usable) == IF usable THEN dir ELSE settings.UploadDir

-------------------------------------------------------------------------------
(* main: the saved adapter is preselected if it is still there; a failure  *)
(* to save is ignored.                                                     *)
Start ==
  /\ ~running /\ running' = TRUE
  /\ adapters' \in SUBSET IP \ {{}}
  /\ \E ip \in adapters' : settings' = [saved EXCEPT !.SelectedIP = ip]
  /\ SaveDesktopSettings
  /\ hostIP' = settings'.SelectedIP /\ cfgDir' = settings'.UploadDir
  /\ RestartDiscoveryLocked

setAdapter(ip) ==
  /\ running /\ ip \in adapters
  /\ hostIP' = ip
  /\ settings' = [settings EXCEPT !.SelectedIP = ip]
  /\ SaveDesktopSettings
  /\ IF unsaved' THEN UNCHANGED advertised /\ unannounced' = TRUE
                 ELSE RestartDiscoveryLocked
  /\ UNCHANGED <<running, adapters, cfgDir>>

chooseUploadDirectory(dir, usable) ==
  /\ running
  /\ cfgDir' = IF usable THEN dir ELSE cfgDir
  /\ settings' = [settings EXCEPT !.UploadDir = Chosen(dir, usable)]
  /\ IF usable THEN SaveDesktopSettings ELSE UNCHANGED <<saved, unsaved>>
  /\ UNCHANGED <<running, adapters, hostIP, advertised, unannounced>>

(* The window is closed, or the program dies. *)
Exit ==
  /\ running /\ running' = FALSE
  /\ advertised' = NoIP /\ unannounced' = FALSE
  /\ UNCHANGED <<adapters, hostIP, cfgDir, settings, saved, unsaved>>

DesktopNext ==
  \/ Start \/ Exit
  \/ \E ip \in IP : setAdapter(ip)
  \/ \E dir \in UploadDir, usable \in BOOLEAN : chooseUploadDirectory(dir, usable)

DesktopSpec == DesktopInit /\ [][DesktopNext]_desktopVars

-------------------------------------------------------------------------------
(* However switches of the adapter and of the directory fail half-way,     *)
(* the settings are what the server uses, the file has them unless the     *)
(* last save failed, and mDNS announces no other address than the links,   *)
(* unless an adapter could not be saved (main.go 219-263, 304-315).        *)
DesktopAgrees ==
  running =>
    /\ settings = [SelectedIP |-> hostIP, UploadDir |-> cfgDir]
    /\ ~unsaved => saved = settings
    /\ ~unannounced => advertised \in {hostIP, NoIP}

(* HostIP is the address that is advertised, if any is (config.go:99, "the *)
(* currently advertised LAN address").                                     *)
HostIPAdvertised == advertised \in {hostIP, NoIP}

===============================================================================
