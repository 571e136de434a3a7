----------------------------- MODULE PointerDrag -----------------------------
(***************************************************************************)
(* The pointer of a seat and the drag: the items that mouse events are     *)
(* delivered to, WaylandSeat::setMouseFocus, the WaylandPointer with the   *)
(* wl_pointers of all clients, and the DataDevice's drag.                  *)
(*                                                                         *)
(* An item stands for its view, too: shows is the surface of the view, and *)
(* None while there is none or the item does not exist.  pointerIn and     *)
(* dragIn are what each wl_pointer and each client's wl_data_device make   *)
(* of the enter and leave events sent to them.                             *)
(*                                                                         *)
(* Left out: positions, cursor surfaces, the wheel, input regions, and     *)
(* items that take no input events.  A drag without a source is left out   *)
(* because the code takes it for granted that there is one, in             *)
(* setDragFocus() and in drop(), and that it still exists.                 *)
(***************************************************************************)
EXTENDS Selection

CONSTANTS
  Items, Pointers, Buttons,
  PointerHolder    \* the client of each wl_pointer

ASSUME PointerAssumption ==
  /\ PointerHolder \in [Pointers -> Clients]
  /\ None \notin Items \cup Pointers \cup Buttons

VARIABLES
  shows,           \* the surface of each item
  held,            \* the mouse buttons that are pressed
  grab,            \* the item that Qt delivers mouse events to meanwhile
  mouseFocus, enteredSurface, buttonCount,
  pointers,        \* the wl_pointers in resourceMap()
  pointerIn,
  isDragging,      \* the items with isDragging
  dragSource, dragFocus,
  dragResource,    \* the client of m_dragFocusResource
  dragIn

mouseVars == <<held, grab, buttonCount>>
pointerVars == <<mouseFocus, enteredSurface, pointers, pointerIn>>
dragVars == <<isDragging, dragSource, dragFocus, dragResource, dragIn>>
pointerDragVars == <<shows, mouseVars, pointerVars, dragVars>>

PointerTypeOK ==
  /\ shows \in [Items -> Surfaces \cup {None}]
  /\ held \subseteq Buttons /\ grab \in Items \cup {None}
  /\ mouseFocus \in Items \cup {None} /\ enteredSurface \in Surfaces \cup {None}
  /\ buttonCount \in Int
  /\ pointers \subseteq Pointers
  /\ pointerIn \in [Pointers -> Surfaces \cup {None}]
  /\ isDragging \subseteq Items /\ dragSource \in Sources \cup {None}
  /\ dragFocus \in Surfaces \cup {None} /\ dragResource \in Clients \cup {None}
  /\ dragIn \in [Clients -> Surfaces \cup {None}]

PointerInit ==
  /\ shows = [i \in Items |-> None]
  /\ held = {} /\ grab = None /\ buttonCount = 0
  /\ mouseFocus = None /\ enteredSurface = None
  /\ pointers = {} /\ pointerIn = [p \in Pointers |-> None]
  /\ isDragging = {} /\ dragSource = None
  /\ dragFocus = None /\ dragResource = None
  /\ dragIn = [c \in Clients |-> None]
-----------------------------------------------------------------------------
(* Enter and leave.                                                        *)

\* resourceMap().values(client): all of them get each event.
PointersOf(s) ==
  IF s = None THEN {} ELSE {p \in pointers : PointerHolder[p] = Owner[s]}

\* ensureEntered: leave the old surface, enter the new one.
EnsureEntered(s) ==
  /\ enteredSurface' = s
  /\ pointerIn' = [p \in Pointers |->
       IF p \in PointersOf(s) THEN s
       ELSE IF p \in PointersOf(enteredSurface) THEN None ELSE pointerIn[p]]

\* setMouseFocus and pointerFocusChanged: leave, unless the item that gets the
\* focus shows the same surface.
SetMouseFocus(i) ==
  /\ mouseFocus' = i
  /\ IF i = mouseFocus \/ (i # None /\ shows[i] = enteredSurface)
     THEN UNCHANGED <<enteredSurface, pointerIn>>
     ELSE EnsureEntered(None)

\* sendMouseMoveEvent.  What setMouseFocus leaves, ensureEntered need not.
SendMouseMoveEvent(i) == mouseFocus' = i /\ EnsureEntered(shows[i])

\* addClient: a new wl_pointer of the client that the pointer is in enters.
BindWithoutEnter(p) ==
  /\ p \notin pointers
  /\ pointers' = pointers \cup {p}
  /\ UNCHANGED <<shows, mouseVars, mouseFocus, enteredSurface, pointerIn, dragVars>>
BindPointer(p) ==
  /\ p \notin pointers
  /\ pointers' = pointers \cup {p}
  /\ pointerIn' = IF enteredSurface # None /\ Owner[enteredSurface] = PointerHolder[p]
                  THEN [pointerIn EXCEPT ![p] = enteredSurface] ELSE pointerIn
  /\ UNCHANGED <<shows, mouseVars, mouseFocus, enteredSurface, dragVars>>
ReleasePointer(p) ==
  /\ p \in pointers
  /\ pointers' = pointers \ {p}
  /\ pointerIn' = [pointerIn EXCEPT ![p] = None]
  /\ UNCHANGED <<shows, mouseVars, mouseFocus, enteredSurface, dragVars>>
-----------------------------------------------------------------------------
(* Items and surfaces.                                                     *)

\* WaylandView::setSurface, by the application.  The pointer stays where it is.
SetSurface(i, s) ==
  /\ shows[i] # s
  /\ shows' = [shows EXCEPT ![i] = s]
  /\ UNCHANGED <<mouseVars, pointerVars, dragVars>>

\* An item is destroyed, with its view: handleMouseFocusDestroyed.
DestroyItem(i) ==
  /\ shows' = [shows EXCEPT ![i] = None]
  /\ grab' = IF grab = i THEN None ELSE grab
  /\ isDragging' = isDragging \ {i}
  /\ IF mouseFocus = i THEN SetMouseFocus(None) ELSE UNCHANGED <<mouseFocus, enteredSurface, pointerIn>>
  /\ UNCHANGED <<held, buttonCount, pointers, dragSource, dragFocus, dragResource, dragIn>>

\* A surface is destroyed: enteredSurfaceDestroyed, and no view shows it any
\* more.  The data device keeps its pointer; the client forgets the surface.
SurfaceDestroyed(s) ==
  /\ shows' = [i \in Items |-> IF shows[i] = s THEN None ELSE shows[i]]
  /\ IF enteredSurface = s
     THEN mouseFocus' = None /\ enteredSurface' = None /\ buttonCount' = 0
     ELSE UNCHANGED <<mouseFocus, enteredSurface, buttonCount>>
  /\ pointerIn' = [p \in Pointers |-> IF pointerIn[p] = s THEN None ELSE pointerIn[p]]
  /\ dragIn' = [c \in Clients |-> IF dragIn[c] = s THEN None ELSE dragIn[c]]
  /\ UNCHANGED <<held, grab, pointers, isDragging, dragSource, dragFocus, dragResource>>
-----------------------------------------------------------------------------
(* The drag of the data device.                                            *)

\* data_device_start_drag and handleDragStarted, with the surface origin: the
\* items that show it lose the mouse focus and drag from now on.  Nothing is
\* checked: a button need not be pressed any more.
StartDrag(d, origin) ==
  LET dragging == {i \in Items : shows[i] = origin}
  IN /\ Owner[origin] \in devices /\ Live(d)
     /\ dragSource' = d
     /\ isDragging' = isDragging \cup dragging
     /\ IF dragging # {} THEN SetMouseFocus(None) ELSE UNCHANGED <<mouseFocus, enteredSurface, pointerIn>>
     /\ UNCHANGED <<shows, mouseVars, pointers, dragFocus, dragResource, dragIn>>

\* setDragFocus: leave, and enter if there is a surface and its client has a
\* data device.
LeavesForSurface(s) ==
  LET client == IF s # None /\ Owner[s] \in devices THEN Owner[s] ELSE None
  IN /\ client # None => Live(dragSource)
     /\ dragFocus' = IF client # None THEN s ELSE None
     /\ dragResource' = client
     /\ dragIn' = [c \in Clients |->
          IF c = client THEN s ELSE IF c = dragResource /\ client # None THEN None ELSE dragIn[c]]
SetDragFocus(s) ==
  LET client == IF s # None /\ Owner[s] \in devices THEN Owner[s] ELSE None
  IN /\ client # None => Live(dragSource)
     /\ dragFocus' = IF client # None THEN s ELSE None
     /\ dragResource' = client
     /\ dragIn' = [c \in Clients |->
          IF c = client THEN s ELSE IF c = dragResource THEN None ELSE dragIn[c]]

\* cancelDrag, by the application.
CancelDrag ==
  /\ SetDragFocus(None)
  /\ UNCHANGED <<shows, mouseVars, pointerVars, isDragging, dragSource>>
-----------------------------------------------------------------------------
(* Mouse events, as the items get them.                                    *)

\* mouseMoveEvent and the hover events of item i.
MouseMove(i) ==
  /\ shows[i] # None /\ grab \in {None, i}
  /\ grab = i => i \notin isDragging
  /\ SendMouseMoveEvent(i)
  /\ UNCHANGED <<shows, mouseVars, pointers, dragVars>>

\* mouseMoveEvent of an item that drags, over an item that shows s.
DragMove(s) ==
  /\ grab \in isDragging /\ shows[grab] # None
  /\ \E i \in Items : shows[i] = s
  /\ IF s # dragFocus THEN SetDragFocus(s) ELSE UNCHANGED <<dragFocus, dragResource, dragIn>>
  /\ UNCHANGED <<shows, mouseVars, pointerVars, isDragging, dragSource>>

\* hoverLeaveEvent of an item that shows a surface.
HoverLeave ==
  /\ grab = None
  /\ \E i \in Items : shows[i] # None
  /\ SetMouseFocus(None)
  /\ UNCHANGED <<shows, mouseVars, pointers, dragVars>>

\* mousePressEvent of item i: the pointer enters before the press is sent.
MousePress(i, b) ==
  /\ shows[i] # None /\ grab \in {None, i} /\ b \notin held
  /\ held' = held \cup {b} /\ grab' = i
  /\ SendMouseMoveEvent(i)
  /\ buttonCount' = buttonCount + 1
  /\ UNCHANGED <<shows, pointers, dragVars>>

\* A button is released.  mouseReleaseEvent of the item with the grab, if there
\* is one that shows a surface: it drops what it drags, or sends the release.
Drop ==
  /\ dragResource = None => Live(dragSource)
  /\ SetDragFocus(None)
MouseRelease(b) ==
  /\ b \in held
  /\ held' = held \ {b}
  /\ grab' = IF held' = {} THEN None ELSE grab
  /\ IF grab # None /\ shows[grab] # None
     THEN \/ /\ grab \in isDragging
             /\ isDragging' = isDragging \ {grab}
             /\ Drop
             /\ UNCHANGED buttonCount
          \/ /\ grab \notin isDragging
             /\ buttonCount' = buttonCount - 1
             /\ UNCHANGED <<isDragging, dragFocus, dragResource, dragIn>>
     ELSE UNCHANGED <<buttonCount, isDragging, dragFocus, dragResource, dragIn>>
  /\ UNCHANGED <<shows, pointerVars, dragSource>>
-----------------------------------------------------------------------------
(* Properties.                                                             *)

\* Each wl_pointer of the client the pointer is in has entered the surface, and
\* no other is in any: in whatever order pointers are bound, and surfaces,
\* views and the focus change under the mouse.
PointersPaired ==
  \A p \in Pointers :
    pointerIn[p] = IF p \in PointersOf(enteredSurface) THEN enteredSurface ELSE None

\* At most one client takes a drag to be over its surface, the one that the
\* next leave or drop is sent to: through drags that are abandoned, too.
DragPaired ==
  \A c \in Clients : dragIn[c] # None => c = dragResource /\ dragIn[c] = dragFocus
=============================================================================
