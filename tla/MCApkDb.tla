------------------------------- MODULE MCApkDb -------------------------------
(* Instances of ApkDb with two packages, the one of apk itself and another.   *)
EXTENDS ApkDb, TLC

CONSTANTS p1, p2, p3

Needs1 == [self |-> {"self"}, app |-> {"app"}]
Avail1 == [self |-> 2, app |-> 1]
Add(n) == [op |-> "add", name |-> n]
Del(n) == [op |-> "del", name |-> n]
Upgrade == [op |-> "upgrade", name |-> "self"]
WriterCommands == (p1 :> {Upgrade}) @@ (p2 :> {Del("app")}) @@ (p3 :> {Add("app")})
InitdbCommands == [p \in Proc |-> {Add("self"), Add("app")}]
================================================================================
