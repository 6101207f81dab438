-------------------------- MODULE MCActionSessions --------------------------
(***************************************************************************)
(* ActionSessions with two servers: two requests, a request and a worker,  *)
(* or the workers of two processes.                                        *)
(***************************************************************************)
EXTENDS ActionSessions
=============================================================================
