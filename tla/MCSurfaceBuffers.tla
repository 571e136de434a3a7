-------------------------- MODULE MCSurfaceBuffers --------------------------
EXTENDS SurfaceBuffers, FiniteSets, TLC

(* Buffers that are painted the same way are interchangeable, and so are   *)
(* views that are drawn the same way, and surfaces.                        *)
Symmetry ==
  UNION {Permutations(S) : S \in {Surface, Item, View \ Item, Planar, Buffer \ Planar}}

(* With two views: the application has set options of one of them at a     *)
(* time, and no wl_buffer is destroyed.                                    *)
TwoViews ==
  /\ Cardinality({v \in View : bufferLocked[v] \/ allowDiscard[v]}) <= 1
  /\ \A b \in Buffer : resource[b] # "destroyed"

(* With one view: no other view's advance can discard its buffer.          *)
OneView == \A v \in View : ~allowDiscard[v]

(* Where nothing is uploaded, nothing reads textureDirty.                  *)
WithoutTextureDirty ==
  <<resource, object, committed, lent, surfaceVars, viewVars, itemVars>>
=============================================================================
