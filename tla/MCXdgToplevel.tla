---------------------------- MODULE MCXdgToplevel ----------------------------
EXTENDS XdgToplevel, TLC

(* Bounds: the misbehaving client only takes the focus away and gives it   *)
(* back, the other one does everything else as well, and neither lets more *)
(* than three events wait.                                                 *)
OneBusyWindow ==
  /\ \A t \in Misbehaving :
       connection[t] = "none" /\ grabberState[t] = "default" /\ geometry[t] = "free"
  /\ \A t \in Toplevel : Len(pendingConfigures[t]) <= 3
=============================================================================
