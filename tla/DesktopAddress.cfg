SPECIFICATION DesktopSpec
CONSTANTS
  IP = {a1, a2}
  UploadDir = {u1}
  NoIP = NoIP
INVARIANTS
  HostIPAdvertised
CHECK_DEADLOCK FALSE
