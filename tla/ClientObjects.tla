---------------------------- MODULE ClientObjects ----------------------------
(***************************************************************************)
(* What the modules of the seat share: the clients, and their surfaces.    *)
(* The name of a surface is its address: a new surface may get the one of  *)
(* a surface that has been destroyed.                                      *)
(***************************************************************************)
CONSTANTS
  Clients, Surfaces, None,
  Owner            \* waylandClient() of each surface

ASSUME OwnerAssumption == Owner \in [Surfaces -> Clients]
ASSUME NoneAssumption == None \notin Clients \cup Surfaces
=============================================================================
