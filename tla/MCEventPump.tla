------------------------------ MODULE MCEventPump ------------------------------
(* EventPump for TLC.  Two producers overlap in push, end and stopNow; three *)
(* pushes of two events make batches of one, two and three, in any order.    *)
(* There is no symmetry: liveness is checked too.                            *)
EXTENDS EventPump
===============================================================================
