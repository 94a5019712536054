\* The boot configuration (-p): root on a LUKS device, its key from a command.
CONSTANTS
  bus = bus usb = usb tty = tty junk = junk raid = raid md = md luks = luks
  key = key root = root ovl = ovl repo = repo NoTask = NoTask
  Bus = {bus} Module = {usb} Dev = {raid, luks, root} Char = {tty} Noise = {junk}
  UsbStorage = {usb} Filtered = {tty}
  Emits <- BootEmits DevType <- ExecTypes Content <- Empty
  Program = TRUE HasSearch = TRUE SearchDev = {root} ScanMedia = FALSE
  CryptOpt <- ExecOptions NotFoundOk = FALSE UeventTimeout = 250
  UseMdadm = TRUE UseLvm = TRUE MaxRunning = 1 NetlinkCap = 2 MaxTries = 1 MaxSpurious = 1
SPECIFICATION FairSpec
INVARIANTS NoLostWakeup WorkConserving
PROPERTIES QuietExit CryptOnce Termination
