----------------------------- MODULE MCSipCall -----------------------------
(* SipCall for TLC: the constants are given in the .cfg files.              *)
EXTENDS SipCall, TLC

\* Neither a thread nor a Call-ID is told from another.
CallSymmetry == Permutations(Callers) \cup Permutations(Calls)
=============================================================================
