------------------------------ MODULE MCApkDirs ------------------------------
(* Small instances of ApkDirs: package a in two versions, packages b and c.   *)
EXTENDS ApkDirs, TLC

CONSTANTS a1, a2, b, c, usr, bin, lib, root, m755, m700

MCNameOf == (a1 :> "a") @@ (a2 :> "a") @@ (b :> "b") @@ (c :> "c")
MCNameRank == (a1 :> 1) @@ (a2 :> 1) @@ (b :> 2) @@ (c :> 3)
MCOrigin == (a1 :> "c") @@ (a2 :> "c") @@ (b :> NoOrigin) @@ (c :> "c")
NoPrio == [p \in Pkg |-> 0]
\* b has priority.
Second == (a1 :> 0) @@ (a2 :> 0) @@ (b :> 1) @@ (c :> 0)
MCParent == (usr :> root) @@ (bin :> usr) @@ (lib :> usr)
\* The upgrade of a moves it from one directory to another; c does not list the directory above.
MCDirsOf == (a1 :> {usr, bin}) @@ (a2 :> {usr, lib}) @@ (b :> {usr, bin}) @@ (c :> {lib})
\* All packages agree about usr; b wants bin private.
MCAcl == [p \in Pkg |-> [d \in Dir |->
            IF (p = b /\ d = bin) \/ (p = a2 /\ d = lib) THEN m700 ELSE m755]]
\* a2 and b want all their directories private.
SharedAcl == [p \in Pkg |-> [d \in Dir |-> IF p \in {a2, b} THEN m700 ELSE m755]]
=============================================================================
