---------------------------- MODULE MCApkInstall ----------------------------
(* Instances of ApkInstall.  a1 and a2 are two versions of one package, b is  *)
(* another package that ships one of their files.                             *)
EXTENDS ApkInstall

MCPkg == {"a1", "a2", "b"}
MCNameOf == [p \in MCPkg |-> IF p = "b" THEN "b" ELSE "a"]
MCOrigin == [p \in MCPkg |-> NoOrigin]
\* b replaces the files of a1 and conflicts with a2.
MCPrio == [p \in MCPkg |-> [q \in MCPkg |-> IF p = "b" /\ q = "a1" THEN 0 ELSE -1]]
MCNoPrio == [p \in MCPkg |-> [q \in MCPkg |-> -1]]
\* cfg is in a protected directory, bin is not; each version of a has its content.
MCPath == {"cfg", "bin"}
MCShips == [p \in MCPkg |-> IF p = "b" THEN {"bin"} ELSE {"cfg", "bin"}]
MCContent == [p \in MCPkg |-> [f \in MCPath |-> p]]
MCLoc == [f \in MCPath |-> f]
\* The merged /usr: both directories are one, and a2 has moved its file.
FixPath == {"cfg", "lib/x", "usr/lib/x"}
FixShips == [p \in MCPkg |-> IF p = "a1" THEN {"cfg", "lib/x"}
                             ELSE IF p = "a2" THEN {"cfg", "usr/lib/x"} ELSE {"cfg"}]
FixContent == [p \in MCPkg |-> [f \in FixPath |-> p]]
FixLoc == [f \in FixPath |-> IF f = "cfg" THEN "cfg" ELSE "x"]
\* a1 had the file under both names before the directories became one.
TwiceShips == [p \in MCPkg |-> IF p = "a1" THEN {"lib/x", "usr/lib/x"}
                               ELSE IF p = "a2" THEN {"usr/lib/x"} ELSE {"cfg"}]

NoFlags == {{}}
AllFlags == {{}, {"purge"}, {"clean_protected", "force_overwrite"}}
NoOverlay == {{}}
BinOverlay == {{}, {"bin"}}
=============================================================================
