---------------------------- MODULE KeyboardFocus ----------------------------
(***************************************************************************)
(* The keyboard focus of a seat: WaylandSeat::setKeyboardFocus, the        *)
(* WaylandKeyboard of the seat, the wl_keyboard objects of its clients,    *)
(* and the way of a key event from the window system through the items of  *)
(* the application to a client.                                            *)
(*                                                                         *)
(* A client may have several wl_keyboards.  entered and pressed are what   *)
(* each of them makes of the events sent to it: the surface it has the     *)
(* focus of, and the keys it holds for pressed.  A surface or a keyboard   *)
(* that is destroyed may be created again, as a new object.                *)
(*                                                                         *)
(* Left out: modifiers, repeat rate and cursor surfaces (which no item     *)
(* gives the focus to), the exclusive client of a session lock, and the    *)
(* input methods and Qt's own key extension, which take key events away    *)
(* before they reach the keyboard.  Capabilities do not change: nothing in *)
(* the repository calls setCapabilities().                                 *)
(***************************************************************************)
EXTENDS Lists, ClientObjects

CONSTANTS
  Keyboards, Keys,
  Holder           \* the client of each keyboard

ASSUME KeyboardAssumption ==
  Holder \in [Keyboards -> Clients] /\ None \notin Keyboards \cup Keys

VARIABLES
  alive,           \* the surfaces whose wl_surface exists
  bound,           \* each client's keyboards in resourceMap(), the latest last
  focus, focusResource,
  keys,            \* the keys that are pressed
  pendingKeymap,
  keymap,          \* which of two keymaps the clients were sent last
  event,           \* the key event being handled, or None
  entered, pressed,
  kept             \* history: keys whose release no client was told of

focusVars == <<alive, bound, focus, focusResource>>
keyVars == <<keys, pendingKeymap, keymap, event, kept>>
toldVars == <<entered, pressed>>
keyboardVars == <<focusVars, keyVars, toldVars>>

KeyEvents == [key : Keys, down : BOOLEAN, sent : BOOLEAN]
ASSUME EventAssumption == None \notin KeyEvents

KeyboardTypeOK ==
  /\ alive \subseteq Surfaces
  /\ bound \in [Clients -> Seq(Keyboards)]
  /\ \A c \in Clients :
       Distinct(bound[c]) /\ \A k \in SeqRange(bound[c]) : Holder[k] = c
  /\ focus \in Surfaces \cup {None} /\ focusResource \in Keyboards \cup {None}
  /\ keys \subseteq Keys /\ kept \subseteq Keys
  /\ pendingKeymap \in BOOLEAN /\ keymap \in {0, 1}
  /\ event \in KeyEvents \cup {None}
  /\ entered \in [Keyboards -> Surfaces \cup {None}]
  /\ pressed \in [Keyboards -> SUBSET Keys]

KeyboardInit ==
  /\ alive = {} /\ bound = [c \in Clients |-> <<>>]
  /\ focus = None /\ focusResource = None
  /\ keys = {} /\ kept = {} /\ event = None
  /\ pendingKeymap = FALSE /\ keymap = 0
  /\ entered = [k \in Keyboards |-> None]
  /\ pressed = [k \in Keyboards |-> {}]

\* The object that resourceMap().value(client) returns: the latest one.
Latest(c) == IF bound[c] = <<>> THEN None ELSE bound[c][Len(bound[c])]

\* WaylandKeyboard::focusClient
FocusClient == IF focusResource = None THEN None ELSE Holder[focusResource]
-----------------------------------------------------------------------------
(* Surfaces and wl_keyboards.                                              *)

CreateSurface(s) ==
  /\ s \notin alive
  /\ alive' = alive \cup {s}
  /\ UNCHANGED <<bound, focus, focusResource, keyVars, toldVars>>

\* The destruction of the wl_surface; focusDestroyed() if it had the focus.
\* A client forgets a surface it destroys.
KeepsResource(s) ==
  /\ focus' = IF focus = s THEN None ELSE focus
  /\ UNCHANGED focusResource
FocusDestroyed(s) ==
  /\ focus' = IF focus = s THEN None ELSE focus
  /\ focusResource' = IF focus = s THEN None ELSE focusResource
DestroySurface(s) ==
  /\ s \in alive
  /\ alive' = alive \ {s}
  /\ FocusDestroyed(s)
  /\ entered' = [k \in Keyboards |-> IF entered[k] = s THEN None ELSE entered[k]]
  /\ pressed' = [k \in Keyboards |-> IF entered[k] = s THEN {} ELSE pressed[k]]
  /\ UNCHANGED <<bound, keyVars>>

\* keyboard_bind_resource and checkFocusResource: a new wl_keyboard of the
\* client that has the focus takes it over.
CheckFocusResource(k) ==
  IF focus # None /\ Owner[focus] = Holder[k]
  THEN /\ focusResource' = k
       /\ entered' = [entered EXCEPT ![k] = focus]
       /\ pressed' = [pressed EXCEPT ![k] = keys]
  ELSE UNCHANGED <<focusResource, toldVars>>
BindKeyboard(k) ==
  /\ k \notin SeqRange(bound[Holder[k]])
  /\ bound' = [bound EXCEPT ![Holder[k]] = Append(@, k)]
  /\ CheckFocusResource(k)
  /\ UNCHANGED <<alive, focus, keyVars>>

\* keyboard_release and keyboard_destroy_resource.
ReleaseKeyboard(k) ==
  /\ k \in SeqRange(bound[Holder[k]])
  /\ bound' = [bound EXCEPT ![Holder[k]] = Without(@, k)]
  /\ focusResource' = IF focusResource = k THEN None ELSE focusResource
  /\ entered' = [entered EXCEPT ![k] = None]
  /\ pressed' = [pressed EXCEPT ![k] = {}]
  /\ UNCHANGED <<alive, focus, keyVars>>
-----------------------------------------------------------------------------
(* The focus.                                                              *)

\* What focused(s) does: leave for the old focus, enter with the pressed
\* keys for the new one.
Resource(s) == IF s = None THEN None ELSE Latest(Owner[s])
Left(s) == IF focus # s THEN {focusResource} \ {None} ELSE {}
Entered(s) == IF focus # s \/ focusResource # Resource(s) THEN {Resource(s)} \ {None} ELSE {}
Focused(s) ==
  /\ focus' = s
  /\ focusResource' = Resource(s)
  /\ entered' = [k \in Keyboards |->
       IF k \in Entered(s) THEN s ELSE IF k \in Left(s) THEN None ELSE entered[k]]

\* WaylandSeat::setKeyboardFocus, called by the application and by the items
\* that take the focus: it refuses a destroyed surface and returns early for
\* the one that has the focus.
PressedAfter(s) == [k \in Keyboards |->
  IF k \in Entered(s) THEN keys ELSE IF k \in Left(s) THEN {} ELSE pressed[k]]
SetKeyboardFocus(s) ==
  /\ s \in alive \cup {None}
  /\ s # focus
  /\ Focused(s)
  /\ pressed' = PressedAfter(s)
  /\ UNCHANGED <<alive, bound, keyVars>>
-----------------------------------------------------------------------------
(* Key events.  handleKeyEvent records the key, has Qt deliver the event   *)
(* to the application, and then lets a waiting keymap go out; while the    *)
(* event is delivered, the application's handlers may move the focus.      *)

\* A key may go down twice, on two keyboards of the host, and a key that
\* resetKeyboardState() forgot comes up later.
KeyEvent(key, down) ==
  /\ event = None
  /\ keys' = IF down THEN keys \cup {key} ELSE keys \ {key}
  /\ event' = [key |-> key, down |-> down, sent |-> FALSE]
  /\ kept' = IF down THEN kept \ {key} ELSE kept
  /\ UNCHANGED <<focusVars, toldVars, pendingKeymap, keymap>>

\* keyPressEvent of the item of surface s, the active one: the item takes the
\* focus of the seat before it sends the key.
KeyPress(s) ==
  /\ event # None /\ event.down /\ ~event.sent
  /\ s \in alive
  /\ event' = [event EXCEPT !.sent = TRUE]
  /\ IF s = focus
     THEN /\ pressed' = [k \in Keyboards |->
               IF k = focusResource THEN pressed[k] \cup {event.key} ELSE pressed[k]]
          /\ UNCHANGED <<focus, focusResource, entered>>
     ELSE /\ Focused(s)
          /\ pressed' = [k \in Keyboards |-> IF k = Resource(s)
               THEN PressedAfter(s)[k] \cup {event.key} ELSE PressedAfter(s)[k]]
  /\ UNCHANGED <<alive, bound, keys, pendingKeymap, keymap, kept>>

\* keyReleaseEvent of some item: the release goes to the focus of the seat.
KeyReleaseFiltered ==
  /\ event # None /\ ~event.down /\ ~event.sent
  /\ event' = [event EXCEPT !.sent = TRUE]
  /\ pressed' = [k \in Keyboards |->
       IF k = focusResource /\ event.key \in keys THEN pressed[k] \ {event.key} ELSE pressed[k]]
  /\ UNCHANGED <<focusVars, entered, keys, pendingKeymap, keymap, kept>>
KeyRelease ==
  /\ event # None /\ ~event.down /\ ~event.sent
  /\ event' = [event EXCEPT !.sent = TRUE]
  /\ pressed' = [k \in Keyboards |->
       IF k = focusResource THEN pressed[k] \ {event.key} ELSE pressed[k]]
  /\ UNCHANGED <<focusVars, entered, keys, pendingKeymap, keymap, kept>>

\* maybeUpdateKeymap, in a state with the pressed keys held.
UpdateKeymapNow(pending, held) ==
  IF pending
  THEN pendingKeymap' = FALSE /\ keymap' = 1 - keymap
  ELSE pendingKeymap' = pending /\ keymap' = keymap
MaybeUpdateKeymap(pending, held) ==
  IF pending /\ held = {}
  THEN pendingKeymap' = FALSE /\ keymap' = 1 - keymap
  ELSE pendingKeymap' = pending /\ keymap' = keymap

\* The end of handleKeyEvent.  The application may have kept the event.
KeyEventEnd ==
  /\ event # None
  /\ event' = None
  /\ MaybeUpdateKeymap(pendingKeymap, keys)
  /\ kept' = IF event.down \/ event.sent THEN kept ELSE kept \cup {event.key}
  /\ UNCHANGED <<focusVars, toldVars, keys>>

\* updateKeymap: the application has changed the layout of the keymap.
UpdateKeymap ==
  /\ MaybeUpdateKeymap(TRUE, keys)
  /\ UNCHANGED <<focusVars, toldVars, keys, event, kept>>

\* resetKeyboardState, when the compositor's own window becomes inactive: all
\* keys count as released, and no client is told.
ResetKeyboardState ==
  /\ keys # {}
  /\ kept' = kept \cup keys
  /\ keys' = {}
  /\ UNCHANGED <<focusVars, toldVars, pendingKeymap, keymap, event>>
-----------------------------------------------------------------------------
KeyboardNext ==
  \/ \E s \in Surfaces : CreateSurface(s) \/ DestroySurface(s) \/ KeyPress(s)
  \/ \E s \in Surfaces \cup {None} : SetKeyboardFocus(s)
  \/ \E k \in Keyboards : BindKeyboard(k) \/ ReleaseKeyboard(k)
  \/ \E key \in Keys, down \in BOOLEAN : KeyEvent(key, down)
  \/ KeyRelease \/ KeyEventEnd \/ UpdateKeymap \/ ResetKeyboardState

KeyboardSpec == KeyboardInit /\ [][KeyboardNext]_keyboardVars
-----------------------------------------------------------------------------
(* Properties.                                                             *)

\* The wl_keyboard that key events are sent to belongs to the client of the
\* focus, which exists, and the last event it got is the enter of that
\* surface: in whatever order surfaces and keyboards come and go.
FocusEntered ==
  /\ focus # None => focus \in alive
  /\ focusResource # None =>
       /\ focus # None /\ entered[focusResource] = focus
       /\ focusResource \in SeqRange(bound[Owner[focus]])

\* Keys a wl_keyboard may hold for pressed after their release: the one whose
\* release is on its way through the application, and those the application
\* kept the release of or resetKeyboardState() forgot.
Unlifted == kept \cup (IF event # None /\ ~event.sent THEN {event.key} ELSE {})

\* A wl_keyboard that was sent an enter and no leave, and is sent no keys any
\* more: another keyboard of its client became the focusResource
\* (checkFocusResource), or the one that was has been released.
Abandoned(k) == entered[k] # None /\ k # focusResource

\* A wl_keyboard that is not abandoned holds no other key for pressed that is
\* not: none that was pressed before the focus came, that a handler moved the
\* focus at, or that it held when it lost the focus.
NoStuckKey == \A k \in Keyboards : ~Abandoned(k) => pressed[k] \subseteq keys \cup Unlifted

\* A changed layout waits for the keys that are down: when the keymap goes
\* out, to every wl_keyboard (aurorawaylandkeyboard.cpp:254), those that are
\* not abandoned hold no key but one whose release they have not been told.
KeymapWaits ==
  [][keymap' # keymap =>
       \A k \in Keyboards : ~Abandoned(k) => pressed[k] \subseteq Unlifted]_keyboardVars

\* A wl_keyboard whose surface no longer has the focus has been told so, with
\* a leave event (wayland.xml:2419).  False: focused() sends the leave to the
\* focusResource only (aurorawaylandkeyboard.cpp:80).
LeaveIsSent == \A k \in Keyboards : entered[k] # None => entered[k] = focus
=============================================================================
