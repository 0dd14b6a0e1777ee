------------------------------- MODULE MCJson -------------------------------
(* Json for TLC: characters of every sort.                                  *)
EXTENDS Json

\* Both sides of an escape, what an escape can be taken for, and one it has not.
SomeChars == {"\"", "\\", "LF", "n", "BS"}
=============================================================================
