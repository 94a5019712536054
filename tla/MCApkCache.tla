----------------------------- MODULE MCApkCache -----------------------------
(***************************************************************************)
(* The cache of a diskless system whose user fills it with what is         *)
(* installed and then updates the index.                                   *)
(***************************************************************************)
EXTENDS ApkCache

McCacheCommands == [p \in CaProc |-> {<<"sync", TRUE, FALSE>>, <<"update", TRUE, FALSE>>}]

=============================================================================
