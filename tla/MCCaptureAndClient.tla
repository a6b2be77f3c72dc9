------------------------- MODULE MCCaptureAndClient -------------------------
(***************************************************************************)
(* Capture and BrowserClient for TLC, side by side: the limit falls inside *)
(* a message, a message needs two packets, and the channel is full before  *)
(* the writer is done; two calls of the client overlap, and one answer may *)
(* be lost.                                                                *)
(*                                                                         *)
(* The two share no variable.  Either goes its way while the other is in   *)
(* its initial state, so that both are explored as they are on their own.  *)
(***************************************************************************)
EXTENDS Capture, BrowserClient

CaptureRests == Init /\ UNCHANGED vars
ClientRests  == ClientInit /\ UNCHANGED clientVars
bothVars     == <<vars, clientVars>>

BothInit == Init /\ ClientInit

BothNext ==
  \/ (Start /\ ClientRests) \/ (Observe /\ ClientRests) \/ (ProxyReturns /\ ClientRests)
  \/ (SendFinish /\ ClientRests) \/ (Audit /\ ClientRests) \/ (Writer /\ ClientRests)
  \/ (Page /\ CaptureRests) \/ (Fire /\ CaptureRests)
  \/ \E c \in Slots : \/ Serve(c) /\ CaptureRests
                      \/ Arrive(c) /\ CaptureRests
                      \/ Lose(c) /\ CaptureRests
  \/ (UserAllows /\ CaptureRests) \/ (UserRemoves /\ CaptureRests)
  \/ \E i \in Range(pool) : InstanceGoes(i) /\ CaptureRests

(* The fairness of FairSpec and FairClientSpec, for the steps that are there. *)
BothSpec ==
  /\ BothInit /\ [][BothNext]_bothVars
  /\ WF_vars(SendFinish /\ ClientRests) /\ WF_vars(Audit /\ ClientRests)
  /\ WF_vars(Writer /\ ClientRests)
  /\ WF_clientVars(Fire /\ CaptureRests)
  /\ \A c \in Slots : /\ WF_clientVars(Serve(c) /\ CaptureRests)
                      /\ WF_clientVars(Arrive(c) /\ CaptureRests)
=============================================================================
