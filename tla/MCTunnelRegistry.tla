-------------------------- MODULE MCTunnelRegistry --------------------------
(* TunnelRegistry for TLC: two requests and the cleaner about one key.  The *)
(* answer of a task's last request guards no step and no property reads it. *)
EXTENDS TunnelRegistry

View == <<up, now, registry, pc, op, key, snap, fd, abandoned, disk, history>>
=============================================================================
