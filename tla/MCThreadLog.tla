------------------------------ MODULE MCThreadLog -----------------------------
(***************************************************************************)
(* A main thread with a Thread object that is started twice, and two log   *)
(* files.                                                                  *)
(***************************************************************************)
EXTENDS ThreadLog, TLC

CONSTANTS f1, f2

MCFiles == {f1, f2}

\* The files are only compared with each other.
MCSymmetry == Permutations(MCFiles)
===============================================================================
