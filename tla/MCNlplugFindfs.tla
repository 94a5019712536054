--------------------------- MODULE MCNlplugFindfs ---------------------------
(* Machines for NlplugFindfs: what is plugged in and what it emits.        *)
EXTENDS NlplugFindfs

CONSTANTS bus, usb, tty, junk, raid, md, luks, key, root, ovl, repo

NoEmits == [x \in Path \cup Module \cup Dev \cup {"crypt"} |-> {}]
Plain   == [d \in Dev |-> "fs"]
Empty   == [d \in Dev |-> {}]
NoCrypt == [r \in Role |-> "unset"]

(* A key command, and an array that is assembled at the same time.         *)
ExecEmits ==
  [NoEmits EXCEPT !["/class"] = {raid, luks, md}, !["crypt"] = {root}]
ExecTypes == [Plain EXCEPT ![raid] = "linux_raid_member", ![luks] = "none"]
ExecOptions == [NoCrypt EXCEPT !["data"] = luks, !["key"] = "exec"]

(* The boot configuration: a LUKS device with a key command, next to a     *)
(* member of an array on USB, a terminal and a foreign message.            *)
BootEmits ==
  [NoEmits EXCEPT !["/bus"] = {bus}, ![bus] = {usb}, ![usb] = {raid},
                  !["/class"] = {luks, tty}, ![raid] = {junk}, !["crypt"] = {root}]

(* No event handler: a volume group on a LUKS device with a detached       *)
(* header and a key file.                                                  *)
DirectEmits ==
  [NoEmits EXCEPT !["/bus"] = {bus}, ![bus] = {tty},
                  !["/class"] = {ovl, luks, key}, !["crypt"] = {raid}, ![raid] = {repo}]
DirectTypes == [Plain EXCEPT ![raid] = "LVM2_member", ![luks] = "none", ![key] = "none"]
DirectContent == [Empty EXCEPT ![repo] = {"BOOTREPO", "APKOVL"}, ![ovl] = {"BOOTREPO"}]
DirectOptions == [r \in Role |-> IF r = "data" THEN luks ELSE IF r = "key" THEN "file" ELSE key]
=============================================================================
