# Aurora compositor: models, checks and proofs

TLA+ models of the parts of the Aurora compositor (a library for writing Wayland
compositors with Qt, and an EGL/KMS platform plug-in to show them) whose correctness
depends on the order in which clients, the application, the render threads and the kernel
act. TLC checks the models on small instances; TLAPS proves the theorems for instances of
any size. Paths below are relative to `src/src/`.

    tlc -workers 2 -config MCSurfaceBuffers.cfg MCSurfaceBuffers     # one run per .cfg
    tlapm --stretch 2 KmsFlipProofs.tla                              # proofs of one module

`PROJECT.json` lists the components, the runs, the hazards, the theorems, and for each
definition the lines of code it models.

## 1. The system

A Wayland client talks to the compositor through libwayland; requests are handled one at a
time on the GUI thread by the `*Private` classes of `compositor/`. The application (often
QML) puts `WaylandQuickItem`s on its windows; each QQuickWindow has a render thread that
synchronizes with the blocked GUI thread and then draws. On KMS every screen's render thread
hands its frame to the kernel and sleeps until the previous one is on screen; an event reader
thread wakes it.

                requests              setSurface, lock ...           beforeSync, updatePaintNode
      client ------------> WaylandSurface ------------> WaylandView <------------ render thread
         ^                    |  bufferRef                 |  current / next          |
         |  wl_buffer.release v                            v                          v  swapBuffers
         +------------- ClientBuffer <---------------------+            QEglFSKmsGbmScreen
                                                                         |   ^  wake
      client <--- configure --- WaylandXdgToplevel <--- XdgToplevel-     v   |
             --- ack_configure -->                       Integration    kernel --> event reader

### Components

| Component | State | Operations | What is hard | What makes it correct |
|---|---|---|---|---|
| Buffers (`wayland_wrapper/aurorawlclientbuffer.cpp`, `aurorawlbuffermanager.cpp`, `compositor_api/aurorawaylandbufferref.cpp`) | reference count, committed, dirty, destroyed flags | ref, deref, setDestroyed, sendRelease, upload | destruction of buffer, surface, view, node and provider in any order; several holders | no dangling reference, no leak, one release for each buffer lent and only when unused |
| Surfaces (`aurorawaylandsurface.cpp`) | pending and current buffer, views, reference count | attach, commit, destroy, ref/derefView, setPrimaryView | the list of views changes while it is told of the destruction | views and surfaces agree; the count is right |
| Views (`aurorawaylandview.cpp`) | current and next buffer, locked, discard and force flags | setSurface, advance, lock, discard | flags set in any order by client, application, other views | no commit is lost; a locked view keeps its buffer |
| Painting (`aurorawaylandquickitem.cpp`) | texture provider, node, material | beforeSync, updatePaintNode, deletion | references the scene graph keeps | superseded buffers go back |
| KMS screens (`plugins/platforms/eglfs/deviceintegration/eglfs_kms*`) | current and next buffer object, waits and completions, mode_set | waitForFlip, flip, event host, mode change | three kinds of threads, sessions that come and go, refused flips, surfaces that are replaced | no thread waits for ever; nothing is drawn into a buffer on screen; no buffer is lost |
| Xdg toplevels (`extensions/aurorawaylandxdgshell.cpp`) | pending configures, last acknowledged | sendConfigure and its variants, ack_configure, focus | events overtake acknowledgements | serials are in order; activation follows the focus; modes exclude each other |
| Toplevel integration (`aurorawaylandxdgshellintegration.cpp`) | windowed geometry, grab, hook on the output | maximize, fullscreen, move, resize | built on acknowledged states, committed geometry and sent events at once | windows come back to where they were, with the size they had |
| Popups, positioners (`aurorawaylandxdgshell.cpp`) | parent, pending configures, grabs | create, configure, dismiss | order of parent and child | configured before mapped; topmost is dismissed first |
| Outputs, QtQuick output windows, frame callbacks (`aurorawaylandoutput.cpp`, `aurorawaylandquickoutput.cpp`) | callbacks of each surface, its views on each output, has_entered | frameStarted, sendFrameCallbacks, addView, removeView | a surface on several outputs or on none; commits that overtake frames; posted events | callbacks in order, by a frame with their commit; enter and leave say what is there |
| Presentation time (`aurorawaylandpresentationtime.cpp`) | a feedback per commit | sync, swapped, presented, discard | events posted by the render thread against commits and page flips | each feedback is presented or discarded once, by a flip of its window |
| Seat, keyboard (`aurorawaylandseat.cpp`, `aurorawaylandkeyboard.cpp`) | focus and the wl_keyboard it goes to, pressed keys, a keymap that waits | setKeyboardFocus, bind, release, handleKeyEvent, updateKeymap | surfaces, keyboards and the focus come and go, also while a key is delivered | keys go to an object that has entered; the object that keys go to holds no released key but one whose release is on its way, kept or forgotten; a new keymap waits for keys that are down |
| Pointer, drag (`aurorawaylandpointer.cpp`, `aurorawaylanddrag.cpp`, input events in `aurorawaylandquickitem.cpp`) | mouse focus, entered surface, buttons, what is dragged and over what | move, press, release, hover, start_drag, drop | late-bound pointers, views that change under the mouse, drags that are abandoned | enter and leave are paired for each object |
| Data device (`wayland_wrapper/aurorawldata*.cpp`) | selection of the device and of the manager, retained data with the pipe it is read from and those to be drained | set_selection, overrideSelection, destruction of a source, readFromClient | clients that answer late, close early or die; descriptors that are reused; the focus moves meanwhile | retained data is the selection's; no dead source is used; who pastes gets the current selection, if told of it |
| Touch | points, focus per point | down, up, motion, cancel | - | - |
| Layer shell, session lock, foreign toplevels, output management, screen copy | each its own objects and serials | configure/ack, lock/unlock, apply, copy | serials that are out of date, outputs that go | like the toplevels'; locked until unlocked; a frame object is answered once |
| Text input and input method control | enabled state, serial of done | enable, commit, done | late commits | a commit applies to the state it answers |
| Sessions (`platformsupport/logind`, `eglfs/api/vthandler.cpp`) | active session, devices taken | switch, pause, resume | D-Bus signals against rendering | devices are used only while active |
| XWayland | X windows, wl_surfaces that wait for one another | pairing by surface id | either half may come or go first | each window gets its own surface |
| The rest: compositor and client lists, modes, regions, viewporter, decorations, idle inhibition, wl-shell, ivi, QtQuick glue, buffer back ends, EDID, input back ends, EGLDevice, X11, QML plug-ins | little state | setters, look-ups, parsing, EGL calls | - | - |

Clients, application and render threads share the buffers (section 3.1). The shell and its
integration share the configured states (3.2). Screens share the event reader (3.3), outputs
the surfaces' views (3.4). The groups meet only through the frame: a window's synchronization
(3.1, 3.4) happens before the frame's `waitForFlip` (3.3), neither looks at the other's state,
a callback does not look at buffers beyond whether there is content, and a window's size (3.2)
is not part of a buffer's life; so they are separate state machines here. Keyboard, pointer and
data device meet in the seat and are composed (3.5): a change of the keyboard focus offers the
selection, a new selection goes to the client with the keyboard focus, a click moves that focus,
a drag takes the pointer's away, and a surface that is destroyed leaves them all.

## 2. Plan

Done, in this order:

1. `BufferOwnership`, `SurfaceBuffers` - what the client sees and what everything else draws from.
2. `SurfaceBuffersProofs`, `BufferReleaseProofs`, `ListProofs` - its proofs.
3. `ConfigureAck`, `XdgToplevel`, `XdgToplevelProofs` - the shell every application uses.
4. `KmsFlip`, `KmsFlipProofs` - the threads that put frames on screens.
5. `FrameCallbacks`, `FrameCallbacksProofs` - what clients draw by.
6. `KeyboardFocus`, `Selection`, `PointerDrag`, composed by `Seat`, and their proofs - what
   clients type, point, copy and paste by.

Next, the most important first:

| Module | Models | Meets | Properties aimed at |
|---|---|---|---|
| `ScreenModes` | `setMode`, the choice of a mode | `KmsFlip`: what `RequestModeChange` stores | the index names the mode that was chosen, against a reference definition |
| `PresentationFeedback` | feedbacks from the request to presented or discarded, with the events the render thread posts | `FrameCallbacks` (the frame of a window) | presented or discarded once, a superseded commit's is discarded; presented by a flip of its own window |
| `XdgPopup` | popups, parents, configure, dismissal | refines `ConfigureAck`, shares the xdg_surface with `XdgToplevel` | configured before mapped, no orphan, order of dismissal |
| `ToplevelSizes` | `sizeForResize` with bounds and edges | `XdgToplevel` | never a zero or out of range dimension, opposite edge stays |
| `LayerSurface` | layer surfaces | refines `ConfigureAck` | as above; closed surfaces are not configured |
| `SessionLock` | ext-session-lock | `Seat` (the exclusive client and the saved focus) | locked once every output is covered, a dead client does not unlock |
| `TouchFocus` | touch points and their surfaces | `Seat` | each point that went down goes up or is cancelled, at the surface it went down on |
| `OutputConfiguration`, `Screencopy`, `ForeignToplevel`, `TextInput` | serial-checked requests, frames | | answered once, and for the state they name |
| `SessionSwitch`, `XWaylandPairing` | logind, X windows | `KmsFlip` (`active`) | |

Theorems to come: the safety of the modules above, as they are written. Every safety property
and every refinement that a passing run checks today has its theorem (section 5).

## 3. Modules

Shared: `Lists` (what QList's `contains`, `indexOf`, `removeOne` do). Each `MC*` module extends
one specification with what its runs need (symmetry, state constraints, a view).

### 3.1 `SurfaceBuffers`, `BufferOwnership`

A variable stands for a member of a class: `committed`, `textureDirty`, `resource` for
`ClientBuffer`; `pending`, `newlyAttached`, `bufferRef`, `views`, `refCount` for
`WaylandSurfacePrivate`; `currentBuffer`, `nextBuffer`, `nextBufferCommitted`, `bufferLocked`,
`forceAdvanceSucceed`, `allowDiscard` for `WaylandViewPrivate`; `newTexture`, `provider`,
`node`, `material` for the painting half of `WaylandQuickItem`. `m_refCount` is not a variable:
it is the number of `WaylandBufferRef`s, and the references are all there (`InUse`). `lent` is
what the client knows: it committed the buffer and no release has come.

Actions of the client: `CreateBuffer`, `DestroyBuffer` (the destroy listener), `CreateSurface`,
`Attach`, `Commit`, `DestroySurface` (with handlers of the application that lock or delete views
as they are told). Of the application: `CreateView`, `SetSurface`, `SetPrimaryView`,
`SetBufferLocked`, `SetAllowDiscardFrontBuffer`, `DiscardCurrentBuffer`, `DeleteView`. Of the
render thread: `Sync` (`beforeSync` and `updatePaintNode` of one item), `AdvanceView` (a view
without an item), `DropNode`, `DropProvider` (deferred deletion), `UploadTexture`
(`SharedMemoryBuffer::toOpenGlTexture`). Every action that can drop references ends with
`Deref`: it compares the references before and after the step and does to each buffer that
lost its last one what `ClientBuffer::deref` does.

A step is a whole handler: the GUI thread runs them one at a time and is blocked during a
synchronization. Assumed: objects are not reused after deletion, the application does not call
`WaylandSurface::destroy()`, sizes and damage do not matter, a buffer either can be painted by
a texture provider or (`Planar`) cannot.

`BufferOwnership` is the promise of `wl_buffer.release`: a buffer belongs to the client or to
the compositor; it goes back when the compositor has no use for it, and only then. The
refinement maps the owner to `lent` and `resource`, and "held" to `InUse`. It holds where
nothing is uploaded (`UploadsShm = FALSE`): an upload releases a buffer with references still
there, which `upload_after_release` shows to be a real disagreement with the documentation.

### 3.2 `XdgToplevel`, `ConfigureAck`

`pendingConfigures` and `lastAckedConfigure` are those of `WaylandXdgToplevelPrivate`, with
their lists of states in the order the code builds them (the order matters:
`std::set_symmetric_difference` is given lists that need not be sorted). `windowedSize`,
`windowedPosition`, `connection` and `grabberState` belong to `XdgToplevelIntegration`;
`geometry` and `position` are the committed window geometry and the item's place, and
`resizePosition` is `resizeState.initialPosition`. Sizes and places are reduced to which window
they are those of (`Size`, `Place`); a size dragged to counts as that of a window.

Nothing refuses a move or a resize of a maximized or fullscreen window, so the model does not
either. A resize notes where the item is; if that is the corner of the maximized or fullscreen
window, a commit in the resize puts the item back there, also when the window has become windowed in
between. `resizedAway` is the history of the toplevels this happened to; `WindowedIsBack` leaves
them out (the position of an unmaximized window is the compositor's choice, `xdg-shell.xml:1020`).

Actions: `CreateToplevel`, `SetFocus` (`handleFocusChanged` with both windows), `Acknowledge`
(`handleAckConfigure` with the changed signals and what their handlers do to the item),
`Commit`, `SetMaximized`, `SetFullscreen`, `Unset`, `OutputChanged`, `StartGrab`,
`PointerMove`, `PointerRelease`, `DestroyToplevel`. A client in `Misbehaving` acknowledges any
serial handed out so far; the code answers an unknown one by emptying the list.

Assumed: one primary view per toplevel, on an output; xdg_toplevel, xdg_surface and wl_surface
are destroyed at one go; the application sends no configure events of its own.

`ConfigureAck` is the protocol of any shell surface: serials grow from event to event, an
acknowledgement puts one event that is outstanding in force and gives up the older ones.

### 3.3 `KmsFlip`

One render thread per screen, at a point `pc` of `swapBuffers`: draw, `waitForFlip` (locked
while it posts its wait, then waiting), woken, swap, present, flip. `cur`, `next`,
`clonePending`, `modeSet` are members of `QEglFSKmsGbmScreen` and its output; `posted`, `waits`
and `completed` are the reader thread's event queue and the two arrays of
`QEglFSKmsEventHost`; `inflight`, `scanout`, `events` are the kernel's, `front` and `locked`
gbm's. The GUI thread may change a mode between any two steps: `RequestModeChange`, then
`SetSurface` if the size changed, then `EndModeChange`. `SwitchSession` toggles
`Logind::isSessionActive`.

Each function that touches the two buffer pointers is one step, except `flip()`, which the GUI
thread's `setSurface` may interrupt after the front buffer is locked. (That is
a null pointer in the code, `CrashInFlip`, after which no thread moves; no document says
anything of it, so it is listed as a hazard and not as a finding.) The kernel refuses a flip
while one is in flight or the session is not active. `m_flipPending` is not there:
`flipFinished` clears it before `updateFlipStatus` tests it. Arrays of 32 slots are sets, as a
device has no more than 32 CRTCs. Only the legacy interface is modelled; the atomic one is off
unless `QT_QPA_EGLFS_KMS_ATOMIC` is set.

`overrun` is a history variable: a flip of the screen was abandoned without being waited for.
`ShownIsLocked` and `NoBufferLost` hold only of screens without one. The code can
do it: if the session becomes inactive, `waitForFlip` returns at once, and if it is active
again when `flip()` runs, `m_gbm_bo_next` is overwritten and its buffer is never given back.
Screens that are cloned are excluded from the waiting properties for a reason of the code's:
`flipFinished` of a clone is never called, so the source never advances its buffers, and after
a session switch it waits for a flip that was never queued.

### 3.4 `FrameCallbacks`

One surface, its views, and outputs with a window each. `views` is the surface's list (the
first is the primary view), `window` that of each view's `WaylandQuickItem`, `viewOutput` what
`WaylandView::output` says, `surfaceViews` and `entered` the output's `WaylandSurfaceViewMapper`
for the surface. `waiting` is `frameCallbacks` by the number of the commit that brought them,
`canSend` those with the flag set; `told` is what the client has heard by enter and leave. An item
that leaves its window keeps the view's output, so one that comes back to the same window changes
nothing: `WaylandView::setOutput` returns early.

Actions of the client: `Commit` (with a callback or none, a buffer or none), `DestroySurface`.
Of the application: `SetSurface`, `UnsetSurface`, `SetPrimary`, `SetWindow`, `Repaint`. Of a
frame: `Sync` (`beforeSynchronizing`: `updateStarted` runs on the render thread while the GUI
thread is blocked, so it is one step), `AfterRendering` (the signal posts `doFrameCallbacks`
to the GUI thread), `SendFrameCallbacks`. Any step of the GUI thread and of the other windows
comes between them.

Assumed: automatic frame callbacks, a client that has bound all outputs, outputs that stay.
`posted[o] < 2` in `Sync` says that a second frame's signal may be posted while the first is
unhandled, and no third frame begins then: the GUI thread takes part in each synchronization
and handles what was posted before. `done`, `begun` and `steady` are history variables.

### 3.5 `Seat`: `KeyboardFocus`, `Selection`, `PointerDrag`

`ClientObjects` has what they share, the clients and their surfaces. `KeyboardFocus` and
`Selection` can be read alone; `PointerDrag` extends `Selection` (a drag has a source and a data
device), and `Seat` composes all three: its actions are theirs, joined where the code of one
calls another and with the rest unchanged. Nothing is left to chance in a joint step: `DeadSurface`
is what every listener of the surface's destruction does, `Click` is the press with the pointer's
enter and, for an item with `focusOnClick`, the change of the keyboard focus and the selection
event that goes with it.

* `KeyboardFocus`: `focus`, `focusResource`, `keys`, `pendingKeymap` are members of
  `WaylandKeyboardPrivate`, `bound` is `resourceMap()` in the order of binding. `event` is the key
  event between its start and its end in `handleKeyEvent`: handlers of the application run in
  between and may move the focus or make a client's objects go. `entered` and `pressed` are what
  each wl_keyboard makes of what it is sent; `kept` is the history of keys whose release the
  application, or `resetKeyboardState`, keeps from the clients. A wl_keyboard is `Abandoned` if it
  has entered a surface and keys do not go to it: its client bound another one while it had the
  focus, which gets the keys from then on, or released that other one again. Nothing is sent to an
  abandoned one, so it holds its keys for ever: `NoStuckKey` and `KeymapWaits` are of the others, and
  `LeaveIsSent` is the claim of the protocol that there is none once the focus has gone.
  `Unlifted` are the keys in `kept` and the one whose release is on its way through the
  application: the code does not count it as held, so a handler of the release that changes the
  layout has the new keymap go out before the release, although "There must be no keys pressed
  when changing the keymap" (`aurorawaylandkeyboard.cpp:243`).
* `Selection`: `selection` is the DataDevice's source, `current` the manager's, `owns` its
  `m_compositorOwnsSelection`; `notifier` and `obsolete` are the socket notifiers, by the pipe they
  read. A pipe remembers whom it was given to and for which mime type, so that what is read has an
  origin; a closed one can be opened again, as the system reuses descriptors. `Retained` is
  `retain()` with its end of the list and its failing `pipe()`. `offered` is what the client of the
  surface with the focus was told last. The code goes by two different clients: a change of the focus
  and `overrideSelection` by that of the surface, `set_selection` by that of the `focusResource`,
  which is null while the client has no wl_keyboard. `unheard` is the history of a selection that
  was set while that client could not be told of it, which a wl_keyboard bound later does not mend;
  `PastesCurrent` is of the other ones. The protocol makes no such exception (`wayland.xml:969`:
  a client is told "immediately before receiving keyboard focus"). `Retain`, what
  `setRetainedSelectionEnabled` sets, does not change during a behaviour.
* `PointerDrag`: items stand for their views too. `grab` and `held` are Qt Quick's mouse grab and
  buttons; `enteredSurface`, `mouseFocus`, `buttonCount` are the code's; `pointerIn` and `dragIn`
  are what each wl_pointer and each client's data device make of enter, leave and drop.

The actions follow the code's handlers: `setKeyboardFocus`, bind and release of each object,
`handleKeyEvent` in its three parts (`KeyEvent`, delivery by `KeyPress` or `KeyRelease`,
`KeyEventEnd`), `updateKeymap`, `resetKeyboardState`; `set_selection`, `overrideSelection`,
`updateSelection`, `readFromClient` for the pipe read (`ReadData`, `ReadEnd`) and for one to be
drained (`ReadObsolete`), the destruction of a source; press, move, hover and release of the items,
`start_drag`, `dragMove`, `drop`, `cancelDrag`. Steps of a client at the other end of a pipe,
`ClientWrites` and `ClientCloses`, come at any time.

Assumed: one seat, with its capabilities as they are at the start (nothing in the repository calls
`setCapabilities()`); no input method and no session lock take events away. Left undefined by the
code and therefore excluded by a guard, each listed as a hazard: a drag whose source is null or
gone, and `overrideSelection` or `updateSelection` for a client without a data device. Where the
manager compares the new source with one that was deleted, both outcomes are modelled. Data the
compositor puts in the selection itself may be mixed with data that is still being read:
`overrideSelection` does not stop the reading, and `RetainedOfCurrent` says nothing of it.

## 4. Runs

| Run | Instance | Shows |
|---|---|---|
| `buffers` | one surface, an item's view and a plain view, two buffers, no uploads; at most one view locked or discardable, buffers not destroyed (`TwoViews`) | views never miss a commit (`NextMirrorsCommit`, `Settled`), what is shown is the compositor's (`HeldIsOwned`), `LockedBufferKept`, refinement of `BufferOwnership` |
| `buffer_life` | two surfaces, one item that moves between them, two buffers that may be destroyed, uploads | `NoDanglingRef`, `UnusedIsReleased`, `DestroyedIsFreed`, `ViewsMatch` |
| `buffer_liveness` | one surface, one item, a provider and a material buffer, fair | `CommitReachesView`, `SupersededIsReleased` |
| `xdg_toplevel` | two toplevels, one with a misbehaving client, five serials (`OneBusyWindow`) | focus, modes, placement, signals, refinement of `ConfigureAck`, `FocusReachesWindow` |
| `kms_flip` | two screens, independent or cloned, three buffer objects, two session switches or one mode change | `WaitsAreMatched`, `NoEndlessWait`, `ShownIsLocked`, `NoBufferLost`, `WaitEnds` |
| `frame_callbacks` | one surface, two views, two windows, two commits, two changes by the application, fair | `CallbacksInOrder`, `DoneIsBegun`, `ToldIsThere`, `CallbackAnswered` |
| `seat` | two clients, one with two surfaces, keyboards and pointers; two data sources with two mime types, two pipes; two items, one key, one button | `FocusEntered`, `NoStuckKey`, `KeymapWaits`, `NoDeadSource`, `RetainedOfCurrent`, `PastesCurrent`, `PointersPaired`, `DragPaired` |

What these do not say: `ViewsMatch` is of whole steps, not of the list of views while a surface's
destruction is told to them; `SupersededIsReleased` allows the reference that the texture provider of
an item keeps until the item is painted again; `ShownIsLocked` and `NoBufferLost` are of screens
whose flips were waited for (`overrun`, section 3.3); `NoStuckKey`, `KeymapWaits` and
`PastesCurrent` leave out what section 3.5 says, `WindowedIsBack` what 3.2 says. Each of these is
listed as a hazard.

Each property is also checked to fail in a mutant of the code it is about: a definition with a
plausible mistake, kept in the module before the right one (`CanAdvanceLocked`, ...), is put in
its place.

**Runs that end in a violation.** The statement is one the repository makes:

| Run | The repository says | The code does |
|---|---|---|
| `upload_after_release` | "As long as a reference to the buffer exists, it is owned by the compositor and the client cannot modify it." (`aurorawaylandbufferref.cpp:56`) | `toOpenGlTexture` releases the buffer with references to it; a commit without attach marks it dirty again and the next upload reads what the client may be writing |
| `discarded_front_buffer` | the buffer is released "immediately when the throttling view is no longer using it" (`aurorawaylandquickitem.cpp:1035`) | the item's texture provider keeps it until it is painted again |
| `resize_completes` | "After the resize is completed, the client will receive another configure event without the resize state." (`3rdparty/protocol/xdg-shell.xml:800`) | nothing is sent when the button is released |
| `windowed_size` | the configure event has "the window geometry dimensions the window had prior to being maximized" (`xdg-shell.xml:1014`) | `set_maximized` between the acknowledgement and the commit of the smaller window remembers the maximized size |
| `keyboard_leave` | leave is the "Notification that this seat's keyboard focus is no longer on a certain surface." (`wayland.xml:2419`) | `focused()` sends it to the `focusResource` only; a wl_keyboard that a later one of its client replaced gets none |

### Bounds, and why they are enough

* Buffers: two suffice to have one replaced by another while a third party (view, provider)
  still holds the first; with two views one can be primary and the other locked or late; with
  two surfaces a view can move. The state constraints split two views with all options, and
  buffers destroyed in any order, into two runs; the proofs of section 5 need neither. Symmetry
  permutes buffers painted the same way, surfaces, and views drawn the same way, and is not
  used for liveness. In `buffers` the view leaves out `textureDirty`, which no action reads
  where nothing is uploaded.
* Toplevels: five serials (`MaxSerial`, the bound in `SendConfigure` and `SetFocus`) let one window
  be created, activated, maximized, made fullscreen and restored; `OneBusyWindow` lets at most
  three events wait and leaves the misbehaving window only the focus. `FocusReachesWindow` is
  of acknowledgements and not of new events, so it is not made true or vacuous by the end of
  the serials: a configure event that was sent is always answered. It is checked of the states
  within the constraint.
* Screens: two, to have one wait registered while the other's flip completes, and clones. Three
  buffer objects are the fewest that let one be shown, one in flight and one drawn at once. `MaxDisturbances`
  counts a session switch as one and a mode change as two.
* Frames: two commits are one that a frame begins with and one that comes while it is drawn. Two
  views in two windows can be primary in turn, leave an output one after the other, and have
  their frames overlap. Two changes by the application let a view go to another window and
  come back, or change the primary view twice. The windows start anywhere, so that no change
  is spent on putting views into them.
* Seat: two clients are a pair the focus, the pointer or a drag moves between; the second surface,
  keyboard and pointer of one let the focus move within a client, and one object be bound late
  or released first. Two sources let one replace the other while its pipe is read; two pipes let
  one be drained while the other is read, and be used up. The whole product is too large, so
  `OnePart` explores it in five parts that overlap: the keyboard alone, keyboard focus and
  selection, the reading alone, keyboard focus and pointer, pointer and drag. Symmetry permutes
  the pipes, and the items. The proofs of section 5 are of the whole. `buttonCount` is kept
  within -1..1 and times are 1 or 2: an older and a newer source.
* `CHECK_DEADLOCK FALSE` throughout: clients may stop and all bounded things may be used up;
  a crashed or (where cloned) frozen screen is a state the code can be in. That nothing waits
  for ever is said by `NoEndlessWait`, `WaitEnds` and the other liveness properties.

### Fairness

* `SurfaceBuffers`: windows keep rendering (`Sync` of each item, dirty and enabled), plain
  views are advanced as regularly, and the render thread drops the nodes and providers of
  deleted items. This is what QQuickWindow's render loop does for visible windows. Clients and
  application owe nothing: they may stop for ever.
* `XdgToplevel`: a client that goes on dispatching acknowledges the last event it was sent, and
  a pressed button is released. Requests are not fair.
* `KmsFlip`: the kernel completes a flip it accepted, the reader thread runs its loop, a render
  thread that has posted its wait goes to sleep. Session switches and mode changes are not fair,
  nor is rendering.
* `FrameCallbacks`: a window that is due for an update is synchronized and rendered, and the GUI
  thread handles what is posted (QQuickWindow's render loop for an exposed window, Qt's event
  loop). `CallbackAnswered` is of commits since which the surface has content and its primary
  view is the same and in some window (`steady`). The rest is not promised by the code: a view
  that becomes primary after its window was drawn waits for something else to repaint it.

## 5. Proofs

All for every value of the constants. None uses a bound of the runs.

| Theorem | States | Argument |
|---|---|---|
| `SurfaceBuffersProofs!TypeCorrect`, `ViewsAlwaysMatch` | `TypeOK`, `ViewsMatch` | Neither is inductive alone: that a surface's count never falls below zero needs that it counts its views, which needs the lists to be without duplicates. Together they are. |
| `SurfaceBuffersProofs!ViewsMirrorCommits`, `NoUpdateLost` | `NextMirrorsCommit`, `Settled` | The two are inductive together, with the types and `ViewsMatch`: a commit reaches the views in the surface's list, so the list must have all of them. Each action is sorted by what it does to what a view shows (`ShowingSteps`): most do nothing, the rest take a surface, commit, destroy, discard, or are `advance()`, for which one lemma (`AdvanceShows`) does. |
| `SurfaceBuffersProofs!LockedKeepsBuffer` | `LockedBufferKept` | an action property, by the same sorting of actions |
| `BufferReleaseProofs!NothingDangles`, `NothingKeptFromClient`, `NothingLeaks` | `NoDanglingRef`, `UnusedIsReleased`, `DestroyedIsFreed` | `BuffersInv` adds `ObjectsFollow`: a buffer never created has no object, one that exists has not lost its object. Every action but `Attach`, `Commit` and those of the buffers themselves only moves or drops references (`Shrinks`); for those one lemma on `Deref` does. |
| `BufferReleaseProofs!HeldIsAlwaysOwned` | `HeldIsOwned`, if nothing is uploaded | `LendingInv` adds `LentWillReturn`: a lent buffer is marked committed and referred to, so `deref` will release it. |
| `BufferReleaseProofs!FollowsOwnership` | `SurfaceBuffers` refines `BufferOwnership`, if nothing is uploaded | Each step maps to a `Move` of every buffer, by the same lemmas. |
| `KmsFlipProofs!TypeCorrect` | `TypeOK` | inductive |
| `KmsFlipProofs!NoThreadFreezes` | `NoEndlessWait` | `WaitInv`: a wait is registered once and by a thread that is in `waitForFlip`, and between two frames `m_gbm_bo_next` is set only while a completion is outstanding. The second part is what the check `m_gbm_bo_next == nullptr` of `waitForFlip` relies on; the first keeps a left-over wait from eating the next completion. |
| `KmsFlipProofs!FlipsAreMatched` | `WaitsAreMatched` | Inductive: a step adds one wait or one completion, so at most one pair matches and `updateStatus` may stop at the first. |
| `KmsFlipProofs!NothingIsLost` | `NoBufferLost` | `HeldInv`: the front buffer of a surface is never locked, and on a screen without clones whose flips were waited for the locked buffers are `m_gbm_bo_current` and `m_gbm_bo_next`, which differ: giving back the one does not unlock the other. |
| `KmsFlipProofs!ShownStaysLocked` | `ShownIsLocked` | `HeldInv`, `WaitInv` and `ShownInv`: what is shown is the current or the next buffer, what is in flight the next; at most one completion is on its way, and only to a thread that waits for it or will; once it is there the current buffer is no longer shown, so `updateFlipStatus` may give it back. |
| `FrameCallbacksProofs!TypeCorrect` | `TypeOK` | inductive; what an output lists of the surface's views agrees with the views through every change of surface, window and primary view |
| `FrameCallbacksProofs!OrderedCallbacks`, `CallbacksFollowFrames` | `CallbacksInOrder`, `DoneIsBegun` | `OrderInv`: the callbacks with `canSend` are older than those without, so sending all of them keeps the order; and none is newer than the commit the last frame began with. |
| `FrameCallbacksProofs!ToldOnlyWhatIsThere` | `ToldIsThere` | `EnterInv`: `has_entered` is exactly what the client was told, and an output that was entered lists a view; `TypeOK` turns that view into one of the surface's that names the output. |
| `SeatProofs!TypeCorrect` | `TypeOK` | inductive part by part; the steps of `Seat` are projected on each part |
| `SeatProofs!FocusIsEntered`, `NoKeyStaysDown`, `KeymapIsLate` | `FocusEntered`, `NoStuckKey`, `KeymapWaits` | `KeyboardFocusProofs`: every step of the seat is one of `KeyboardNext` or leaves the keyboard alone (`KeyboardProjects`). `FocusEntered` is inductive with the types; `NoStuckKey` needs in addition that a press being handled has been recorded in `keys`, or is one whose release no client was told of (`kept`), and that a wl_keyboard which has entered nothing holds no key. What the ones that are not `Abandoned` hold is then no more than `Unlifted` when `keys` is empty, which is what `maybeUpdateKeymap` tests. |
| `SeatProofs!SourcesLive`, `RetainsCurrent` | `NoDeadSource`, `RetainedOfCurrent` | `SelectionInv` adds what `readBuf` may hold while a pipe is read: answers of the current source for the mime type asked for; and that the pipe read and those to be drained differ. |
| `SeatProofs!PasteIsCurrent` | `PastesCurrent` | with `OfferedKnown`: the client of the focused surface that was offered something has a data device, so a new selection reaches it if it has a wl_keyboard too, and is `unheard` if not; and nothing unborn is offered, so a source that is created is not an old offer. |
| `SeatProofs!EnterAndLeave`, `DragIsOverOne` | `PointersPaired`, `DragPaired` | each inductive with the types; a surface that dies takes its enter with it on both sides. |
| `XdgToplevelProofs!TypeCorrect`, `OneModeAtATime` | `TypeOK`, `ModesExclude` | Inductive together: the code builds each list from the last one it sent, and taking a state out by removing one occurrence is right only if there is no second one. Every step does one of four things to a toplevel's events: leaves them, appends one, acknowledges the i-th, loses them all (`QueueSteps`). |
| `XdgToplevelProofs!FocusIsTold` | `FocusIsConfigured` | `EventsInv` adds `FocusLives`: the focus is on no window that is gone. The functions that build a mode keep the activation of the last list (`ModesFacts`), an acknowledgement does not change which event is the last. |
| `XdgToplevelProofs!AnnouncesChanges` | `ChangesAnnounced` | `SymmetricDifferenceFacts`: on lists that are not sorted, what comes out still has every value that one list has and the other has not, none that neither has, and not the largest value if both have it once. The activation is the largest state, and `ModesExclude` says that it is there once; for the other states the code may announce a change that was none. |
| `XdgToplevelProofs!BackWhereItWas`, `PlacesWindows` | `WindowedIsBack`, `PlacedFromWindowed` | `AckPlaces`, from the same facts: a window that leaves a mode gets that mode's signal, and whichever of the two signals comes last finds neither state in the list; one that enters a mode from neither gets the signal of that mode alone. `PlaceSteps`: a commit in a resize moves an item that is windowed to its own place, or the toplevel is `resizedAway` from then on. |
| `XdgToplevelProofs!FollowsConfigureAck` | `XdgToplevel` refines `ConfigureAck` | `SentInOrder`: the events that wait are in the order of their serials, which have been handed out. So dropping the first i events is dropping the serials up to that of the i-th. A change of focus is one step of `Configure` with two serials. |

Assumptions: those on the constants (`ASSUME` in each module: null values are not objects,
`Item` and `Planar` are subsets, screens are finite and at most 32, each surface, keyboard and
pointer has one client). `ListProofs` has the facts
about `Without`, `Distinct`, `Append`, `Tail` and lists with a new head that the others cite.

What `SymmetricDifference` yields is proved for all lists, although the library's induction
theorems take an operator as a parameter, which the provers cannot instantiate:
`InductionOverSet` is the same principle for a set of numbers, by the well-foundedness of `<`.
It is used over the number of elements left to merge, to show that the recursive equation has a
solution (`MergingExists`; TLA+ defines a recursive function as a value chosen among the
solutions, so without this nothing is known of it) and that the solution has the facts above;
and once more to find the last of the signals that move an item (`LastExists`).
The function takes one pair and not two numbers because the provers know functions of one
argument.

Model-checked only: liveness, which is out of the prover's reach, as is ENABLED:
`CommitReachesView`, `SupersededIsReleased`, `CallbackAnswered`, `WaitEnds` and
`FocusReachesWindow`.

## 6. Not modelled

See "components" in `PROJECT.json` for every part and its reason. In short: what the plan of
section 2 names is to come. Rendering, geometry, damage, colour and formats are data that no
property here tells apart. Buffer back ends, EDID, input back ends and X11/EGLDevice are calls
into libraries with little control of their own. QML registration, setters and look-up lists
have no interleaving. libwayland, gbm, EGL, the kernel and logind are modelled only as far as
the code uses them and are marked external in the map; data races inside libwayland (a release
sent from the render thread) are listed as a hazard and not modelled.
