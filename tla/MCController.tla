---------------------------- MODULE MCController ----------------------------
(* Controller for TLC: three requests about one origin, a short interval. *)
EXTENDS Controller
=============================================================================
