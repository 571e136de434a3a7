-------------------------------- MODULE Seat --------------------------------
(***************************************************************************)
(* A seat: its keyboard, its pointer and its data device.  They share the  *)
(* surfaces of the clients, and act on each other in two places.  A change *)
(* of the keyboard focus offers the selection to the client that gets the  *)
(* focus, and set_selection offers it to the client that has it; and a     *)
(* mouse press on an item gives its surface the keyboard focus.            *)
(***************************************************************************)
EXTENDS KeyboardFocus, PointerDrag

seatVars == <<keyboardVars, selectionVars, pointerDragVars>>

TypeOK == KeyboardTypeOK /\ SelectionTypeOK /\ PointerTypeOK

Init == KeyboardInit /\ SelectionInit /\ PointerInit

\* The client of the surface with the focus is offered the selection if it is
\* the one that DataDevice::setFocus is called for, told.
ClientOf(s) == IF s = None THEN None ELSE Owner[s]
Offered(told) == SetFocus(told, ClientOf(focus), ClientOf(focus'))
NotTold == Offered(None)
WithoutOffered == <<devices, sourceVars, selection, current, owns, readVars>>
-----------------------------------------------------------------------------
(* Objects of the clients.                                                 *)

NewSurface(s) == CreateSurface(s) /\ UNCHANGED <<selectionVars, pointerDragVars>>
DeadSurface(s) ==
  DestroySurface(s) /\ SurfaceDestroyed(s) /\ NotTold /\ UNCHANGED WithoutOffered
NewKeyboard(k) == BindKeyboard(k) /\ UNCHANGED <<selectionVars, pointerDragVars>>
DeadKeyboard(k) == ReleaseKeyboard(k) /\ UNCHANGED <<selectionVars, pointerDragVars>>
-----------------------------------------------------------------------------
(* The keyboard focus.                                                     *)

FocusSurface(s) ==
  SetKeyboardFocus(s) /\ Offered(ClientOf(s)) /\ UNCHANGED <<WithoutOffered, pointerDragVars>>
PressKey(s) ==
  /\ KeyPress(s)
  /\ Offered(IF s # focus THEN Owner[s] ELSE None)
  /\ UNCHANGED <<WithoutOffered, pointerDragVars>>

\* The other steps of the keyboard.
TypeKey ==
  /\ \/ \E key \in Keys, down \in BOOLEAN : KeyEvent(key, down)
     \/ KeyRelease \/ KeyEventEnd \/ UpdateKeymap \/ ResetKeyboardState
  /\ UNCHANGED <<selectionVars, pointerDragVars>>
-----------------------------------------------------------------------------
(* The selection.                                                          *)

Select(d) == SetSelection(d, FocusClient) /\ UNCHANGED <<keyboardVars, pointerDragVars>>
Override == OverrideSelection(ClientOf(focus)) /\ UNCHANGED <<keyboardVars, pointerDragVars>>
Update(s) ==
  /\ s \in alive /\ UpdateSelection(Owner[s], ClientOf(focus))
  /\ UNCHANGED <<keyboardVars, pointerDragVars>>

\* The steps of the data device that concern neither focus.
Transfer ==
  /\ \/ \E c \in Clients : GetDataDevice(c)
     \/ \E d \in Sources : (\E t \in Times : CreateDataSource(d, t)) \/ Offer(d) \/ DestroyDataSource(d)
     \/ ReadData \/ ReadEnd
     \/ \E p \in Pipes : ReadObsolete(p) \/ ClientWrites(p) \/ ClientCloses(p)
  /\ UNCHANGED <<keyboardVars, pointerDragVars>>
-----------------------------------------------------------------------------
(* The pointer and the drag.                                               *)

\* mousePressEvent, of an item with focusOnClick or without it.
Click(i, b) ==
  /\ MousePress(i, b)
  /\ \/ /\ SetKeyboardFocus(shows[i]) /\ Offered(Owner[shows[i]])
        /\ UNCHANGED WithoutOffered
     \/ UNCHANGED <<keyboardVars, selectionVars>>

Show(i, s) == s \in alive \cup {None} /\ SetSurface(i, s)
Drag(d, s) == s \in alive /\ StartDrag(d, s)
Point ==
  /\ \/ \E i \in Items : MouseMove(i) \/ DestroyItem(i)
     \/ \E i \in Items, s \in Surfaces \cup {None} : Show(i, s)
     \/ \E p \in Pointers : BindPointer(p) \/ ReleasePointer(p)
     \/ \E s \in Surfaces : DragMove(s)
     \/ \E d \in Sources, s \in Surfaces : Drag(d, s)
     \/ \E b \in Buttons : MouseRelease(b)
     \/ HoverLeave \/ CancelDrag
  /\ UNCHANGED <<keyboardVars, selectionVars>>
-----------------------------------------------------------------------------
Next ==
  \/ \E s \in Surfaces : NewSurface(s) \/ DeadSurface(s) \/ PressKey(s) \/ Update(s)
  \/ \E k \in Keyboards : NewKeyboard(k) \/ DeadKeyboard(k)
  \/ \E s \in Surfaces \cup {None} : FocusSurface(s)
  \/ TypeKey
  \/ \E d \in Sources \cup {None} : Select(d)
  \/ Override \/ Transfer
  \/ \E i \in Items, b \in Buttons : Click(i, b)
  \/ Point

Spec == Init /\ [][Next]_seatVars
=============================================================================
