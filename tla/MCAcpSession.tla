----------------------------- MODULE MCAcpSession -----------------------------
(* AcpSession for TLC.  Prompts are interchangeable for safety.             *)
EXTENDS AcpSession, TLC

Symmetry == Permutations(Prompts)
===============================================================================
