------------------------------- MODULE MCRpcConn -------------------------------
(* RpcConn for TLC.  Two calls and two unread messages: replies to one while *)
(* the other waits, replies repeated, late, or read after a cancellation.    *)
EXTENDS RpcConn
===============================================================================
