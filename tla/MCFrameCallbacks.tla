-------------------------- MODULE MCFrameCallbacks ---------------------------
(* For TLC: any views and windows of a surface to begin with. *)
EXTENDS FrameCallbacks
=============================================================================
