--------------------------- MODULE MCSmppRequest ---------------------------
(* SmppRequest for TLC: the constants are given in the .cfg files.          *)
EXTENDS SmppRequest, TLC

\* Slots are interchangeable: no definition tells one from another.
SlotSymmetry == Permutations(Slots)
=============================================================================
