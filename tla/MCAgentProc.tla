------------------------------ MODULE MCAgentProc ------------------------------
(* AgentProc for TLC.  Two flushes, one armed and one that comes during its  *)
(* drain, and a caller that closes or kills.                                 *)
EXTENDS AgentProc
===============================================================================
