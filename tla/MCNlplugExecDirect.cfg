\* The same without an event handler: uevents are handled as they are received.
CONSTANTS
  bus = bus usb = usb tty = tty junk = junk raid = raid md = md luks = luks
  key = key root = root ovl = ovl repo = repo NoTask = NoTask
  Bus = {} Module = {} Dev = {raid, luks, md, root} Char = {} Noise = {}
  UsbStorage = {} Filtered = {}
  Emits <- ExecEmits DevType <- ExecTypes Content <- Empty
  Program = FALSE HasSearch = TRUE SearchDev = {root} ScanMedia = FALSE
  CryptOpt <- ExecOptions NotFoundOk = FALSE UeventTimeout = 250
  UseMdadm = TRUE UseLvm = TRUE MaxRunning = 1 NetlinkCap = 4 MaxTries = 1 MaxSpurious = 0
CHECK_DEADLOCK FALSE
SPECIFICATION FairSpec
PROPERTY KeyCommandRuns
