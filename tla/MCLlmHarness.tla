----------------------------- MODULE MCLlmHarness -----------------------------
(* LlmHarness for TLC.                                                       *)
EXTENDS LlmHarness
===============================================================================
