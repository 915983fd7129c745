---------------------------- MODULE MCEchoServers ----------------------------
(***************************************************************************)
(* EchoServers for TLC: two connections that differ in what they carry.    *)
(***************************************************************************)
EXTENDS EchoServers, TLC

CONSTANTS c1, c2

MCConns == {c1, c2}
MCBytes == c1 :> 2 @@ c2 :> 1
==============================================================================
