----------------------------- MODULE MCSmppLink -----------------------------
(* SmppLink for TLC: the constants are given in the .cfg files.             *)
EXTENDS SmppLink, TLC

\* Descriptors are interchangeable: no definition tells one from another.
SockSymmetry == Permutations(Socks)
=============================================================================
