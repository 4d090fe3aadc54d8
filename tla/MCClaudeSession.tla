---------------------------- MODULE MCClaudeSession ----------------------------
(* ClaudeSession for TLC.                                                    *)
EXTENDS ClaudeSession
===============================================================================
