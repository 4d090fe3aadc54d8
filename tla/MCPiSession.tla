------------------------------ MODULE MCPiSession ------------------------------
(* PiSession for TLC.                                                        *)
EXTENDS PiSession
===============================================================================
