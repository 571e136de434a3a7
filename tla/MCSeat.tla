------------------------------- MODULE MCSeat -------------------------------
EXTENDS Seat, TLC

CONSTANTS c1, c2, s1, s2, s3, k1, k2, k3, p1, p2, p3, d1, d2

(* Client c1 has two surfaces, two keyboards and two pointers, c2 has one  *)
(* of each.                                                                *)
MCOwner == s1 :> c1 @@ s2 :> c1 @@ s3 :> c2
MCHolder == k1 :> c1 @@ k2 :> c1 @@ k3 :> c2
MCPointerHolder == p1 :> c1 @@ p2 :> c1 @@ p3 :> c2

(* The parts of the seat are explored one or two at a time, the others as  *)
(* they are at the start.                                                  *)
NoKeys == keys = {} /\ kept = {} /\ event = None /\ ~pendingKeymap /\ keymap = 0
NoKeyboards == \A c \in Clients : bound[c] = <<>>
NothingOffered == \A d \in Sources : mimes[d] = 0
NothingSelected == selection = None /\ current = None /\ ~owns /\ retained = NoData
ButtonsBounded == buttonCount \in -1..1

\* The keyboard focus and the keys.
KeyboardPart == SelectionInit /\ PointerInit
\* The keyboard focus and the selection, with nothing to read.
FocusPart ==
  /\ NoKeys /\ PointerInit
  /\ NothingOffered /\ time[d2] # 1 /\ s2 \notin alive /\ bound[c1] \in {<<>>, <<k1>>}
\* Reading the data of the selection, with no focus.
ReadPart == KeyboardInit /\ PointerInit /\ devices = {} /\ time[d2] # 1 /\ mimes[d2] <= 1
\* The keyboard focus and the pointer, without a drag.
PointerPart == NoKeys /\ NoKeyboards /\ SelectionInit /\ ButtonsBounded
\* The pointer and the drag.
DragPart ==
  /\ NoKeys /\ NoKeyboards /\ focus = None /\ ButtonsBounded
  /\ NothingOffered /\ NothingSelected /\ source[d2] = "unborn" /\ time[d1] # 1
  /\ pointers \in {{}, {p1, p3}} /\ s2 \notin alive

OnePart == KeyboardPart \/ FocusPart \/ ReadPart \/ PointerPart \/ DragPart

\* Nothing tells the pipes apart, nor the items.
Alike == Permutations(Pipes) \cup Permutations(Items)
=============================================================================
