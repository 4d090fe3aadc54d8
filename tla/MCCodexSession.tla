---------------------------- MODULE MCCodexSession -----------------------------
(* CodexSession for TLC.  Approvals that share an item are interchangeable   *)
(* for safety.                                                               *)
EXTENDS CodexSession, TLC

Symmetry == Permutations(Approvals)
===============================================================================
