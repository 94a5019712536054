\* No event handler (-p): uevents are handled as they are received.
CONSTANTS
  bus = bus usb = usb tty = tty junk = junk raid = raid md = md luks = luks
  key = key root = root ovl = ovl repo = repo NoTask = NoTask
  Bus = {bus} Module = {} Dev = {raid, luks, key, ovl, repo} Char = {tty} Noise = {}
  UsbStorage = {} Filtered = {}
  Emits <- DirectEmits DevType <- DirectTypes Content <- DirectContent
  Program = FALSE HasSearch = FALSE SearchDev = {} ScanMedia = TRUE
  CryptOpt <- DirectOptions NotFoundOk = FALSE UeventTimeout = 250
  UseMdadm = TRUE UseLvm = TRUE MaxRunning = 1 NetlinkCap = 4 MaxTries = 1 MaxSpurious = 0
SPECIFICATION FairSpec
INVARIANT ColdplugComplete
