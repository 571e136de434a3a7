----------------------------- MODULE XdgToplevel -----------------------------
(***************************************************************************)
(* Toplevel windows: the states the compositor configures, the client      *)
(* acknowledges and the QtQuick integration acts on, with the keyboard     *)
(* focus that activates a window, interactive moves and resizes, and       *)
(* outputs that change under maximized and fullscreen windows.             *)
(*                                                                         *)
(* Code: WaylandXdgToplevel, the focus handling of WaylandXdgShell, and    *)
(* XdgToplevelIntegration.  All of it runs on the GUI thread; what makes   *)
(* it hard is that configure events overtake acknowledgements.             *)
(*                                                                         *)
(* A toplevel has one view, which is primary and on an output, and its     *)
(* client destroys xdg_toplevel, xdg_surface and wl_surface at one go.     *)
(***************************************************************************)
EXTENDS Naturals, Sequences, Lists

CONSTANTS
  Toplevel,      \* the toplevels clients may create
  Misbehaving,   \* those whose clients acknowledge what they were not sent
  NoToplevel,    \* the null surface, which has the focus when no window has
  MaxSerial      \* bound: the configure events sent in a behaviour

ASSUME MisbehavingAssumption == Misbehaving \subseteq Toplevel
ASSUME NoToplevelAssumption == NoToplevel \notin Toplevel
ASSUME MaxSerialAssumption == MaxSerial \in Nat

VARIABLES
  life,             \* of each toplevel
  serial,           \* what WaylandCompositor::nextSerial() returned last
  pendingConfigures, lastAckedConfigure,
  focus,            \* the surface that has the keyboard focus
  geometry,         \* the size of the surface's window geometry
  position,         \* where the item of the toplevel is
  windowedSize, windowedPosition,   \* windowedGeometry of the integration
  connection,       \* nonwindowedState.sizeChangedConnection
  grabberState,
  resizePosition,   \* resizeState.initialPosition
  resizedAway       \* history: toplevels a resize moved to the corner it began at

resizeVars == <<resizePosition, resizedAway>>
vars == <<life, serial, pendingConfigures, lastAckedConfigure, focus, geometry, position,
          windowedSize, windowedPosition, connection, grabberState, resizeVars>>

Maximized  == 1
Fullscreen == 2
Resizing   == 3
Activated  == 4
State == {Maximized, Fullscreen, Resizing, Activated}

(* Sizes, as far as they matter: chosen by the client (what 0x0 asks for), *)
(* that of a window, of the output's available area, of the whole output.  *)
Size == {"free", "windowed", "maximized", "fullscreen"}

(* Where a window is: where it was put or dragged to, or at the corner of  *)
(* the available area or of the output, by the width a resize has added on *)
(* the left or the top.                                                    *)
Place == {"own", "maximized", "fullscreen"}

Event == [states : Seq(State), size : Size, serial : Nat]

TypeOK ==
  /\ life \in [Toplevel -> {"none", "alive", "gone"}]
  /\ serial \in Nat
  /\ pendingConfigures \in [Toplevel -> Seq(Event)]
  /\ lastAckedConfigure \in [Toplevel -> Event]
  /\ focus \in Toplevel \cup {NoToplevel}
  /\ geometry \in [Toplevel -> Size]
  /\ position \in [Toplevel -> Place]
  /\ windowedSize \in [Toplevel -> Size]
  /\ windowedPosition \in [Toplevel -> Place]
  /\ connection \in [Toplevel -> {"none", "maximized", "fullscreen"}]
  /\ grabberState \in [Toplevel -> {"default", "move", "resize"}]
  /\ resizePosition \in [Toplevel -> Place] /\ resizedAway \subseteq Toplevel

NoEventOfInvalidSize == [states |-> <<>>, size |-> "invalid", serial |-> 0]
NoEvent == [states |-> <<>>, size |-> "free", serial |-> 0]

Init ==
  /\ life = [t \in Toplevel |-> "none"]
  /\ serial = 0
  /\ pendingConfigures = [t \in Toplevel |-> <<>>]
  /\ lastAckedConfigure = [t \in Toplevel |-> NoEvent]
  /\ focus = NoToplevel
  /\ geometry = [t \in Toplevel |-> "free"]
  /\ position = [t \in Toplevel |-> "own"]
  /\ windowedSize = [t \in Toplevel |-> "free"]
  /\ windowedPosition = [t \in Toplevel |-> "own"]
  /\ connection = [t \in Toplevel |-> "none"]
  /\ grabberState = [t \in Toplevel |-> "default"]
  /\ resizePosition = [t \in Toplevel |-> "own"] /\ resizedAway = {}

integrationVars == <<geometry, position, windowedSize, windowedPosition, connection, grabberState,
                     resizeVars>>

-----------------------------------------------------------------------------
(* Configure events. *)

LastSentAcked(t) == lastAckedConfigure[t]
LastSent(t) ==
  LET q == pendingConfigures[t] IN IF q = <<>> THEN lastAckedConfigure[t] ELSE q[Len(q)]

Has(states, s) == s \in SeqRange(states)
With(states, s) == IF Has(states, s) THEN states ELSE Append(states, s)
NonWindowed(states) == Has(states, Maximized) \/ Has(states, Fullscreen)

(* The states of the convenience functions: one of three modes, or none of *)
(* them, whatever the last event said, and the activation it said.         *)
MaximizedKeepsResizing(states) == Without(With(states, Maximized), Fullscreen)
MaximizedStates(states) == Without(Without(With(states, Maximized), Fullscreen), Resizing)
UnmaximizedStates(states) == Without(Without(Without(states, Maximized), Fullscreen), Resizing)
FullscreenStates(states) == Without(Without(With(states, Fullscreen), Maximized), Resizing)
ResizingStates(states) == Without(Without(With(states, Resizing), Maximized), Fullscreen)

(* sendConfigure() *)
SendConfigure(t, states, size) ==
  /\ serial < MaxSerial
  /\ serial' = serial + 1
  /\ pendingConfigures' =
       [pendingConfigures EXCEPT
          ![t] = Append(@, [states |-> states, size |-> size, serial |-> serial'])]

(* The constructor configures the toplevel with no states and no size; the *)
(* application shows it with an item and an integration.                   *)
CreateToplevel(t) ==
  /\ life[t] = "none"
  /\ life' = [life EXCEPT ![t] = "alive"]
  /\ SendConfigure(t, <<>>, "free")
  /\ UNCHANGED <<lastAckedConfigure, focus, integrationVars>>

(* handleFocusChanged(): the surface that gets the focus is told first,    *)
(* and only if it does not count as activated; the one that loses it is    *)
(* configured in any case.                                                 *)
ActivatesAgain(new) == new # NoToplevel
Activates(new) == new # NoToplevel /\ ~Has(LastSent(new).states, Activated)

FocusEvent(t, states, n) == [states |-> states, size |-> LastSent(t).size, serial |-> n]

SetFocus(new) ==
  LET old   == focus
      first == IF Activates(new) THEN serial + 1 ELSE serial
  IN
  /\ new # old
  /\ new \in {NoToplevel} \cup {t \in Toplevel : life[t] = "alive"}
  /\ focus' = new
  /\ serial' = IF old = NoToplevel THEN first ELSE first + 1
  /\ serial' <= MaxSerial
  /\ pendingConfigures' =
       [t \in Toplevel |->
          LET q == pendingConfigures[t]
              states == LastSent(t).states
          IN  CASE t = new /\ Activates(new) -> Append(q, FocusEvent(t, Append(states, Activated), first))
                [] t = old -> Append(q, FocusEvent(t, Without(states, Activated), serial'))
                [] OTHER -> q]
  /\ UNCHANGED <<life, lastAckedConfigure, integrationVars>>

-----------------------------------------------------------------------------
(* Acknowledgements. *)

(* std::set_symmetric_difference() on two lists that are not sorted: p is  *)
(* where its two iterators stand.                                          *)
SymmetricDifference(a, b) ==
  LET d[p \in (1 .. Len(a) + 1) \X (1 .. Len(b) + 1)] ==
        LET i == p[1]
            j == p[2]
        IN  IF i > Len(a) THEN SubSeq(b, j, Len(b))
            ELSE IF j > Len(b) THEN SubSeq(a, i, Len(a))
            ELSE IF a[i] < b[j] THEN <<a[i]>> \o d[<<i + 1, j>>]
            ELSE IF b[j] < a[i] THEN <<b[j]>> \o d[<<i, j + 1>>]
            ELSE d[<<i + 1, j + 1>>]
  IN  d[<<1, 1>>]

(* Where the changed signals of an acknowledgement, one after the other,   *)
(* put the item: handleMaximizedChanged() and handleFullscreenChanged().   *)
PlaceOfSwapped(t, s, states) ==
  IF Has(states, s) THEN (IF s = Maximized THEN "fullscreen" ELSE "maximized")
                    ELSE windowedPosition[t]
PlaceOf(t, s, states) ==
  IF Has(states, s) THEN (IF s = Maximized THEN "maximized" ELSE "fullscreen")
                    ELSE windowedPosition[t]
PlacedNeverBack(t, changed, states) ==
  LET moving == {i \in 1 .. Len(changed) : changed[i] \in {Maximized, Fullscreen} /\ Has(states, changed[i])}
  IN  IF moving = {} THEN position[t]
      ELSE PlaceOf(t, changed[CHOOSE i \in moving : \A j \in moving : j <= i], states)
Placed(t, changed, states) ==
  LET moving == {i \in 1 .. Len(changed) : changed[i] \in {Maximized, Fullscreen}}
  IN  IF moving = {} THEN position[t]
      ELSE PlaceOf(t, changed[CHOOSE i \in moving : \A j \in moving : j <= i], states)

(* The first element of the pending list that carries serial n.            *)
AnswersFirstOnly(q, n) == {i \in 1 .. Len(q) : i = 1 /\ q[i].serial = n}
Answers(q, n) == {i \in 1 .. Len(q) : q[i].serial = n}

RestKeepsAnswered(q, i) == SubSeq(q, i, Len(q))
Rest(q, i) == SubSeq(q, i + 1, Len(q))

(* handleAckConfigure(): events are taken off the list until the one with  *)
(* the serial is found; a serial that is not found empties the list.       *)
AckConfigure(t, n) ==
  LET q == pendingConfigures[t] IN
  /\ life[t] = "alive"
  /\ \/ \E i \in Answers(q, n) :
          LET changed == SymmetricDifference(lastAckedConfigure[t].states, q[i].states) IN
          /\ pendingConfigures' = [pendingConfigures EXCEPT ![t] = Rest(q, i)]
          /\ lastAckedConfigure' = [lastAckedConfigure EXCEPT ![t] = q[i]]
          /\ position' = [position EXCEPT ![t] = Placed(t, changed, q[i].states)]
     \/ /\ Answers(q, n) = {}
        /\ pendingConfigures' = [pendingConfigures EXCEPT ![t] = <<>>]
        /\ UNCHANGED <<lastAckedConfigure, position>>
  /\ UNCHANGED <<life, serial, focus, geometry, windowedSize, windowedPosition, connection,
                 grabberState, resizeVars>>

(* A client acknowledges any event it was sent since the last one it       *)
(* acknowledged; a misbehaving one, any serial.                            *)
Acknowledge(t) ==
  LET sent == {pendingConfigures[t][i].serial : i \in 1 .. Len(pendingConfigures[t])} IN
  \E n \in IF t \in Misbehaving THEN 1 .. serial ELSE sent : AckConfigure(t, n)

(* The client commits a window of the size the event in force asked for,   *)
(* or of its own choice when it is not maximized or fullscreen.  In a      *)
(* resize the item is put back where it was when the resize began, less    *)
(* what the dragged edge has moved: handleSurfaceSizeChanged().            *)
Commit(t, size) ==
  LET ack == lastAckedConfigure[t] IN
  /\ life[t] = "alive" /\ ack.serial # 0
  /\ size # "free"
  /\ size = ack.size \/ (size = "windowed" /\ ~NonWindowed(ack.states))
  /\ geometry' = [geometry EXCEPT ![t] = size]
  /\ position' =
       [position EXCEPT ![t] = IF grabberState[t] = "resize" THEN resizePosition[t] ELSE @]
  /\ resizedAway' = resizedAway \cup
       {u \in {t} : grabberState[u] = "resize" /\ resizePosition[u] # "own" /\ ~NonWindowed(ack.states)}
  /\ UNCHANGED <<life, serial, pendingConfigures, lastAckedConfigure, focus, windowedSize,
                 windowedPosition, connection, grabberState, resizePosition>>

-----------------------------------------------------------------------------
(* Requests of the client that the integration answers. *)

(* handleSetMaximized() and handleSetFullscreen() remember the geometry of *)
(* a toplevel that has acknowledged neither, and follow the output.        *)
Remembers(t) == ~NonWindowed(lastAckedConfigure[t].states)

Leave(t, hook) ==
  /\ life[t] = "alive"
  /\ windowedSize' = [windowedSize EXCEPT ![t] = IF Remembers(t) THEN geometry[t] ELSE @]
  /\ windowedPosition' = [windowedPosition EXCEPT ![t] = IF Remembers(t) THEN position[t] ELSE @]
  /\ connection' = [connection EXCEPT ![t] = hook]
  /\ UNCHANGED <<life, lastAckedConfigure, focus, geometry, position, grabberState, resizeVars>>

SetMaximized(t) ==
  /\ Leave(t, "maximized")
  /\ SendConfigure(t, MaximizedStates(LastSent(t).states), "maximized")

SetFullscreen(t) ==
  /\ Leave(t, "fullscreen")
  /\ SendConfigure(t, FullscreenStates(LastSent(t).states), "fullscreen")

(* handleUnsetMaximized() and handleUnsetFullscreen() *)
Unset(t) ==
  /\ life[t] = "alive"
  /\ SendConfigure(t, UnmaximizedStates(LastSent(t).states), windowedSize[t])
  /\ UNCHANGED <<life, lastAckedConfigure, focus, integrationVars>>

(* The output's geometry or its available geometry changes: the handler    *)
(* that is connected for toplevel t.                                       *)
OutputChanged(t) ==
  /\ life[t] = "alive"
  /\ \/ /\ connection[t] = "maximized"
        /\ SendConfigure(t, MaximizedStates(LastSent(t).states), "maximized")
     \/ /\ connection[t] = "fullscreen"
        /\ SendConfigure(t, FullscreenStates(LastSent(t).states), "fullscreen")
  /\ UNCHANGED <<life, lastAckedConfigure, focus, integrationVars>>

(* handleStartMove() and handleStartResize(), whatever the state of the    *)
(* window is.                                                              *)
StartGrab(t, grab) ==
  /\ life[t] = "alive"
  /\ grabberState' = [grabberState EXCEPT ![t] = grab]
  /\ resizePosition' = [resizePosition EXCEPT ![t] = IF grab = "resize" THEN position[t] ELSE @]
  /\ UNCHANGED <<life, serial, pendingConfigures, lastAckedConfigure, focus, geometry, position,
                 windowedSize, windowedPosition, connection, resizedAway>>

(* filterPointerMoveEvent(), once the initial position of the pointer has  *)
(* been noted.                                                             *)
PointerMove(t) ==
  /\ life[t] = "alive"
  /\ \/ /\ grabberState[t] = "resize"
        /\ SendConfigure(t, ResizingStates(LastSent(t).states), "windowed")
        /\ UNCHANGED position
     \/ /\ grabberState[t] = "move"
        /\ position' = [position EXCEPT ![t] = "own"]
        /\ UNCHANGED <<serial, pendingConfigures>>
  /\ UNCHANGED <<life, lastAckedConfigure, focus, geometry, windowedSize, windowedPosition,
                 connection, grabberState, resizeVars>>

(* filterPointerReleaseEvent() *)
PointerRelease(t) ==
  /\ life[t] = "alive" /\ grabberState[t] # "default"
  /\ grabberState' = [grabberState EXCEPT ![t] = "default"]
  /\ UNCHANGED <<life, serial, pendingConfigures, lastAckedConfigure, focus, geometry, position,
                 windowedSize, windowedPosition, connection, resizeVars>>

(* The client destroys the toplevel with its surface: handlers are         *)
(* disconnected, and the keyboard forgets the surface without a signal.    *)
DestroyToplevel(t) ==
  /\ life[t] = "alive"
  /\ life' = [life EXCEPT ![t] = "gone"]
  /\ pendingConfigures' = [pendingConfigures EXCEPT ![t] = <<>>]
  /\ focus' = IF focus = t THEN NoToplevel ELSE focus
  /\ connection' = [connection EXCEPT ![t] = "none"]
  /\ UNCHANGED <<serial, lastAckedConfigure, geometry, position, windowedSize, windowedPosition,
                 grabberState, resizeVars>>

-----------------------------------------------------------------------------

Next ==
  \/ \E t \in Toplevel :
       \/ CreateToplevel(t) \/ DestroyToplevel(t)
       \/ Acknowledge(t)
       \/ \E size \in Size : Commit(t, size)
       \/ SetMaximized(t) \/ SetFullscreen(t) \/ Unset(t)
       \/ OutputChanged(t)
       \/ \E grab \in {"move", "resize"} : StartGrab(t, grab)
       \/ PointerMove(t) \/ PointerRelease(t)
  \/ \E new \in Toplevel \cup {NoToplevel} : SetFocus(new)

(* A client that goes on dispatching acknowledges sooner or later the last *)
(* event it was sent, and a pressed button is released.                    *)
AcknowledgeLast(t) ==
  pendingConfigures[t] # <<>> /\ AckConfigure(t, LastSent(t).serial)

Fairness ==
  \A t \in Toplevel : WF_vars(AcknowledgeLast(t)) /\ WF_vars(PointerRelease(t))

Safety == Init /\ [][Next]_vars
Spec == Safety /\ Fairness

-----------------------------------------------------------------------------
(* Safety. *)

(* A window is told that it is active exactly as long as it has the        *)
(* keyboard focus, whatever it has acknowledged so far: no change of focus *)
(* is lost because earlier events are still on their way.                  *)
FocusIsConfigured ==
  \A t \in Toplevel \ Misbehaving :
    life[t] = "alive" => (Has(LastSent(t).states, Activated) <=> focus = t)

(* Every list of states the code builds names a state once (it is taken    *)
(* out by removing one occurrence) and at most one of the three modes.     *)
OneMode(states) ==
  /\ Distinct(states)
  /\ \A i, j \in 1 .. Len(states) : states[i] # Activated /\ states[j] # Activated => i = j
ModesExclude ==
  \A t \in Toplevel :
    /\ OneMode(lastAckedConfigure[t].states)
    /\ \A i \in 1 .. Len(pendingConfigures[t]) : OneMode(pendingConfigures[t][i].states)

(* A window that has acknowledged neither maximized nor fullscreen is      *)
(* where it was put, not where a maximized window goes: each way back      *)
(* moves the item, although the changed states are computed from lists     *)
(* that are not sorted.  One exception: a resize may begin while the item  *)
(* is at the corner of a maximized or fullscreen window, and a commit in   *)
(* it after the window has become windowed puts the item back there        *)
(* (aurorawaylandxdgshellintegration.cpp:264).                             *)
WindowedIsBack ==
  \A t \in Toplevel \ resizedAway :
    /\ windowedPosition[t] = "own"
    /\ ~NonWindowed(lastAckedConfigure[t].states) => position[t] = "own"

-----------------------------------------------------------------------------
(* Action properties. *)

Changed(t) ==
  SeqRange(SymmetricDifference(lastAckedConfigure[t].states, lastAckedConfigure'[t].states))

(* Every state an acknowledgement changes is announced, and a change of    *)
(* the activation, which raises the window, is announced only if there is  *)
(* one.                                                                    *)
AnnouncedStep ==
  \A t \in Toplevel :
    lastAckedConfigure[t] # lastAckedConfigure'[t] =>
      LET before == lastAckedConfigure[t].states
          after  == lastAckedConfigure'[t].states
      IN  /\ \A s \in State : (Has(before, s) # Has(after, s)) => s \in Changed(t)
          /\ Activated \in Changed(t) => (Has(before, Activated) # Has(after, Activated))
ChangesAnnounced == [][AnnouncedStep]_vars

(* A window that acknowledges the maximized or the fullscreen state is put *)
(* at the corner that belongs to the state.  (Between the two states it is *)
(* not: the signal of the state that was left may come last.)              *)
PlacedStep ==
  \A t \in Toplevel :
    LET before == lastAckedConfigure[t].states
        after  == lastAckedConfigure'[t].states
    IN
    ~NonWindowed(before) =>
      /\ Has(after, Maximized)  => position'[t] = "maximized"
      /\ Has(after, Fullscreen) => position'[t] = "fullscreen"
PlacedFromWindowed == [][PlacedStep]_vars

(* "the compositor will include the window geometry dimensions the window  *)
(* had prior to being maximized": what the integration remembers is never  *)
(* the size of a maximized or fullscreen window.                           *)
WindowedSizeIsRemembered ==
  \A t \in Toplevel : windowedSize[t] \in {"free", "windowed"}

-----------------------------------------------------------------------------
(* The protocol of configure and acknowledge, as other shells have it. *)

Serials(t) == {pendingConfigures[t][i].serial : i \in 1 .. Len(pendingConfigures[t])}

Protocol == INSTANCE ConfigureAck
  WITH Object <- Toplevel, last <- serial,
       outstanding <- [t \in Toplevel |-> Serials(t)],
       inForce <- [t \in Toplevel |-> lastAckedConfigure[t].serial]

(* Serials increase from event to event, an acknowledgement puts the event *)
(* with its serial in force and gives up the older ones only.              *)
ImplementsConfigureAck == Protocol!Spec

-----------------------------------------------------------------------------
(* Liveness. *)

(* A window whose client answers learns of the focus and says so, unless   *)
(* the focus moves on first.                                               *)
FocusReachesWindow ==
  \A t \in Toplevel \ Misbehaving :
    focus = t ~> (focus # t \/ Has(lastAckedConfigure[t].states, Activated))

(* "After the resize is completed, the client will receive another         *)
(* configure event without the resize state."                              *)
ResizeCompletes ==
  \A t \in Toplevel :
    (Has(LastSent(t).states, Resizing) /\ grabberState[t] = "default")
      ~> (~Has(LastSent(t).states, Resizing) \/ grabberState[t] # "default" \/ life[t] = "gone")
=============================================================================
