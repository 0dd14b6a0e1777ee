---------------------------- MODULE MCPingTimer ----------------------------
(* PingTimer for TLC: the constants are given in the .cfg files.            *)
EXTENDS PingTimer
=============================================================================
