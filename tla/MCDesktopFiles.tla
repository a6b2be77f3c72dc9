--------------------------- MODULE MCDesktopFiles ---------------------------
(***************************************************************************)
(* DesktopScopes and SingleInstance for TLC, side by side: a page and a    *)
(* user, or two pages, write at once, and one description of a site can be *)
(* written, the other cannot; two starts, one of which may crash.          *)
(*                                                                         *)
(* The two share no variable.  Either goes its way while the other is in   *)
(* its initial state, so that both are explored as they are on their own.  *)
(***************************************************************************)
EXTENDS DesktopScopes, SingleInstance

ScopesRest == Init /\ UNCHANGED vars
AppRests   == AppInit /\ UNCHANGED appVars
bothVars   == <<vars, appVars>>

BothInit == Init /\ AppInit

BothNext ==
  \/ \E t \in Pages : (Api(t) /\ AppRests) \/ (Abandon(t) /\ AppRests)
  \/ \E t \in Users : (User(t) /\ AppRests) \/ (SweepInstances(t) /\ AppRests)
  \/ \E t \in Tasks : Persist(t) /\ AppRests
  \/ (Exit /\ AppRests) \/ (Start /\ AppRests) \/ (ReadFile /\ AppRests) \/ (ApplyFile /\ AppRests)
  \/ \E p \in Procs :
       \/ StartProgram(p) /\ ScopesRest
       \/ Launch(p) /\ ScopesRest
       \/ Serve(p) /\ ScopesRest
       \/ ShowWindow(p) /\ ScopesRest
       \/ CloseToTray(p) /\ ScopesRest
       \/ ToggleTray(p) /\ ScopesRest
       \/ Quit(p) /\ ScopesRest
       \/ End(p) /\ ScopesRest
       \/ Crash(p) /\ ScopesRest

(* The fairness of FairAppSpec, for the steps that are there. *)
BothSpec ==
  /\ BothInit /\ [][BothNext]_bothVars
  /\ \A p \in Procs : /\ WF_appVars(Launch(p) /\ ScopesRest) /\ WF_appVars(Serve(p) /\ ScopesRest)
                      /\ WF_appVars(End(p) /\ ScopesRest) /\ WF_appVars(ShowWindow(p) /\ ScopesRest)
=============================================================================
