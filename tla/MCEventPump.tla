---------------------------- MODULE MCEventPump ----------------------------
(* EventPump for TLC: more lines than the buffers keep, and as many changes *)
(* as can be announced out of step.                                         *)
EXTENDS EventPump
=============================================================================
