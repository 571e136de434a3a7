--------------------------- MODULE SurfaceBuffers ---------------------------
(***************************************************************************)
(* The life of a wl_buffer in the compositor: the client attaches it to a  *)
(* surface and commits it, every view of the surface is told of it, the    *)
(* render thread makes it the view's current buffer and paints it, and the *)
(* last reference that is dropped gives it back to the client.             *)
(*                                                                         *)
(* Code: ClientBuffer, BufferManager, WaylandBufferRef, WaylandSurface,    *)
(* WaylandView and the painting half of WaylandQuickItem.                  *)
(*                                                                         *)
(* The GUI thread runs one handler at a time.  The render thread touches   *)
(* this state only while a QQuickWindow synchronizes, and the GUI thread   *)
(* is blocked for that long, so every handler and every synchronization is *)
(* one step.  (The deferred deletion of a texture provider is one step     *)
(* too, although the render thread makes it on its own.)                   *)
(***************************************************************************)
EXTENDS Naturals, Sequences, Lists

CONSTANTS
  Surface,        \* wl_surface objects a client may create
  View,           \* WaylandViews
  Item,           \* the views that belong to a WaylandQuickItem
  Buffer,         \* wl_buffer objects a client may create
  Planar,         \* the buffers whose EGL format cannot be painted by a texture provider
  UploadsShm,     \* does the renderer draw shm buffers through toOpenGlTexture()?
  NoSurface,      \* the null WaylandSurface pointer
  NoBuffer        \* the null WaylandBufferRef

ASSUME ItemAssumption == Item \subseteq View
ASSUME PlanarAssumption == Planar \subseteq Buffer
ASSUME UploadsShmAssumption == UploadsShm \in BOOLEAN
ASSUME NullAssumption == NoSurface \notin Surface /\ NoBuffer \notin Buffer

VARIABLES
  resource,       \* the wl_buffer resource of each buffer
  object,         \* its ClientBuffer, made on the first attach
  committed,      \* ClientBuffer::m_committed
  textureDirty,   \* ClientBuffer::m_textureDirty
  lent,           \* what the client knows: it committed the buffer and waits for release
  surface,        \* the life of each WaylandSurface
  refCount,       \* WaylandSurfacePrivate::refCount
  views,          \* WaylandSurfacePrivate::views, the primary view first
  pending,        \* pending.buffer
  newlyAttached,  \* pending.newlyAttached
  bufferRef,      \* WaylandSurfacePrivate::bufferRef
  view,           \* the life of each WaylandView and of its item
  viewSurface,    \* WaylandViewPrivate::surface
  currentBuffer, nextBuffer, nextBufferCommitted,
  bufferLocked, forceAdvanceSucceed, allowDiscard,
  newTexture,     \* WaylandQuickItemPrivate::newTexture
  node,           \* the item's node: none, painted by the provider, or by a material
  provider,       \* m_ref of the item's WaylandSurfaceTextureProvider, NoBuffer if it has none
  material        \* m_bufferRef of the node's WaylandBufferMaterial

bufferVars  == <<resource, object, committed, textureDirty, lent>>
surfaceVars == <<surface, refCount, views, pending, newlyAttached, bufferRef>>
viewVars    == <<view, viewSurface, currentBuffer, nextBuffer, nextBufferCommitted,
                 bufferLocked, forceAdvanceSucceed, allowDiscard>>
itemVars    == <<newTexture, node, provider, material>>
vars == <<bufferVars, surfaceVars, viewVars, itemVars>>

MaybeBuffer  == Buffer \cup {NoBuffer}
MaybeSurface == Surface \cup {NoSurface}
Life         == {"none", "alive", "deleted"}

TypeOK ==
  /\ resource \in [Buffer -> {"none", "live", "destroyed"}]
  /\ object \in [Buffer -> Life]
  /\ committed \in [Buffer -> BOOLEAN]
  /\ textureDirty \in [Buffer -> BOOLEAN]
  /\ lent \in [Buffer -> BOOLEAN]
  /\ surface \in [Surface -> Life]
  /\ refCount \in [Surface -> Nat]
  /\ views \in [Surface -> Seq(View)]
  /\ pending \in [Surface -> MaybeBuffer]
  /\ newlyAttached \in [Surface -> BOOLEAN]
  /\ bufferRef \in [Surface -> MaybeBuffer]
  /\ view \in [View -> Life]
  /\ viewSurface \in [View -> MaybeSurface]
  /\ currentBuffer \in [View -> MaybeBuffer]
  /\ nextBuffer \in [View -> MaybeBuffer]
  /\ nextBufferCommitted \in [View -> BOOLEAN]
  /\ bufferLocked \in [View -> BOOLEAN]
  /\ forceAdvanceSucceed \in [View -> BOOLEAN]
  /\ allowDiscard \in [View -> BOOLEAN]
  /\ newTexture \in [View -> BOOLEAN]
  /\ node \in [View -> {"none", "provider", "material"}]
  /\ provider \in [View -> MaybeBuffer]
  /\ material \in [View -> MaybeBuffer]

Init ==
  /\ resource = [b \in Buffer |-> "none"]
  /\ object = [b \in Buffer |-> "none"]
  /\ committed = [b \in Buffer |-> FALSE]
  /\ textureDirty = [b \in Buffer |-> FALSE]
  /\ lent = [b \in Buffer |-> FALSE]
  /\ surface = [s \in Surface |-> "none"]
  /\ refCount = [s \in Surface |-> 0]
  /\ views = [s \in Surface |-> <<>>]
  /\ pending = [s \in Surface |-> NoBuffer]
  /\ newlyAttached = [s \in Surface |-> FALSE]
  /\ bufferRef = [s \in Surface |-> NoBuffer]
  /\ view = [v \in View |-> "none"]
  /\ viewSurface = [v \in View |-> NoSurface]
  /\ currentBuffer = [v \in View |-> NoBuffer]
  /\ nextBuffer = [v \in View |-> NoBuffer]
  /\ nextBufferCommitted = [v \in View |-> FALSE]
  /\ bufferLocked = [v \in View |-> FALSE]
  /\ forceAdvanceSucceed = [v \in View |-> FALSE]
  /\ allowDiscard = [v \in View |-> FALSE]
  /\ newTexture = [v \in View |-> FALSE]
  /\ node = [v \in View |-> "none"]
  /\ provider = [v \in View |-> NoBuffer]
  /\ material = [v \in View |-> NoBuffer]

-----------------------------------------------------------------------------
(* References and their release. *)

(* m_refCount > 0: some WaylandBufferRef names the buffer. *)
InUseWithoutProvider(b) ==
  \/ \E s \in Surface : pending[s] = b \/ bufferRef[s] = b
  \/ \E v \in View : currentBuffer[v] = b \/ nextBuffer[v] = b \/ material[v] = b
InUse(b) ==
  \/ \E s \in Surface : pending[s] = b \/ bufferRef[s] = b
  \/ \E v \in View : \/ currentBuffer[v] = b \/ nextBuffer[v] = b
                     \/ provider[v] = b \/ material[v] = b

(* ClientBuffer::hasContent(): a buffer whose wl_buffer still exists. *)
HasContent(b) == b # NoBuffer /\ resource[b] = "live"

(* deref() sends the release of a committed buffer whose wl_buffer exists.  *)
ReleasesDestroyed(b, com) == com[b] /\ resource[b] = "destroyed"
Releases(b, com) == com[b] /\ resource[b] = "live"

(* The end of a step that drops references: what ClientBuffer::deref()     *)
(* does to the buffers that com and obj describe, com and obj being        *)
(* m_committed and the objects as the step left them.  A buffer that loses *)
(* its last reference is released if it is committed and its wl_buffer     *)
(* exists, and deleted if its wl_buffer is gone.  The client gets the      *)
(* release events, and knows what it committed with an attach in this step *)
(* (given, NoBuffer when the step is no such commit).                      *)
Deref(com, obj, given) ==
  LET dropped  == {b \in Buffer : InUse(b) /\ ~InUse(b)'}
      released == {b \in dropped : Releases(b, com)}
  IN
  /\ committed' = [b \in Buffer |-> com[b] /\ b \notin released]
  /\ object' = [b \in Buffer |-> IF b \in dropped /\ resource[b] = "destroyed"
                                 THEN "deleted" ELSE obj[b]]
  /\ lent' = [b \in Buffer |-> b = given \/ (lent[b] /\ b \notin released)]
  /\ UNCHANGED resource

-----------------------------------------------------------------------------
(* Requests of the client. *)

CreateBuffer(b) ==
  /\ resource[b] = "none"
  /\ resource' = [resource EXCEPT ![b] = "live"]
  /\ UNCHANGED <<object, committed, textureDirty, lent, surfaceVars, viewVars, itemVars>>

(* setDestroyed() deletes the ClientBuffer when nothing refers to it.       *)
FreedAtOnce(b) == object[b] = "alive"
NeverFreed(b) == FALSE
FreedByDestroy(b) == object[b] = "alive" /\ ~InUse(b)

(* The destroy listener takes the buffer from the BufferManager and calls  *)
(* setDestroyed() on it.                                                   *)
DestroyBuffer(b) ==
  /\ resource[b] = "live"
  /\ resource' = [resource EXCEPT ![b] = "destroyed"]
  /\ committed' = [committed EXCEPT ![b] = FALSE]
  /\ lent' = [lent EXCEPT ![b] = FALSE]
  /\ object' = [object EXCEPT ![b] = IF FreedByDestroy(b) THEN "deleted" ELSE @]
  /\ UNCHANGED <<textureDirty, surfaceVars, viewVars, itemVars>>

CreateSurface(s) ==
  /\ surface[s] = "none"
  /\ surface' = [surface EXCEPT ![s] = "alive"]
  /\ refCount' = [refCount EXCEPT ![s] = 1]
  /\ UNCHANGED <<bufferVars, views, pending, newlyAttached, bufferRef,
                 viewVars, itemVars>>

(* getBuffer() makes the ClientBuffer when it meets the wl_buffer for the  *)
(* first time.  Attaching a buffer no integration accepts is the same as   *)
(* attaching none.                                                         *)
Attach(s, b) ==
  /\ surface[s] = "alive"
  /\ b \in {NoBuffer} \cup {c \in Buffer : HasContent(c)}
  /\ pending' = [pending EXCEPT ![s] = b]
  /\ newlyAttached' = [newlyAttached EXCEPT ![s] = TRUE]
  /\ UNCHANGED <<surface, refCount, views, bufferRef, viewVars, itemVars>>
  /\ Deref(committed,
           [c \in Buffer |-> IF c = b /\ object[c] = "none" THEN "alive" ELSE object[c]],
           NoBuffer)
  /\ UNCHANGED textureDirty

CommittedBuffer(s) ==
  IF pending[s] # NoBuffer \/ newlyAttached[s] THEN pending[s] ELSE bufferRef[s]

(* The committed buffer is marked committed (even by a commit that         *)
(* attached nothing) and every view of the surface is handed it.           *)
Commit(s) ==
  LET b == CommittedBuffer(s)
      told == SeqRange(views[s])
  IN
  /\ surface[s] = "alive"
  /\ bufferRef' = [bufferRef EXCEPT ![s] = b]
  /\ pending' = [pending EXCEPT ![s] = NoBuffer]
  /\ newlyAttached' = [newlyAttached EXCEPT ![s] = FALSE]
  /\ nextBuffer' = [v \in View |-> IF v \in told THEN b ELSE nextBuffer[v]]
  /\ nextBufferCommitted' = [v \in View |-> v \in told \/ nextBufferCommitted[v]]
  /\ UNCHANGED <<surface, refCount, views, view, viewSurface, currentBuffer,
                 bufferLocked, forceAdvanceSucceed, allowDiscard, itemVars>>
  /\ Deref([c \in Buffer |-> c = b \/ committed[c]], object,
           IF HasContent(pending[s]) THEN pending[s] ELSE NoBuffer)
  /\ textureDirty' = [c \in Buffer |-> c = b \/ textureDirty[c]]

(* The wl_surface resource goes away: every view loses the surface         *)
(* (markSurfaceAsDestroyed), then the last reference of the surface is     *)
(* dropped and it is deleted with the buffers it holds.  While a view is   *)
(* told, its surfaceDestroyed() handler may lock its buffer (to animate    *)
(* the closing window) or delete the view.                                 *)
DestroySurface(s, lockers, deleters) ==
  LET told == SeqRange(views[s])
      keeps(v) == v \notin told \/ (v \notin deleters /\ bufferLocked'[v])
  IN
  /\ surface[s] = "alive"
  /\ lockers \subseteq told /\ deleters \subseteq told \ lockers
  /\ surface' = [surface EXCEPT ![s] = "deleted"]
  /\ refCount' = [refCount EXCEPT ![s] = 0]
  /\ views' = [views EXCEPT ![s] = <<>>]
  /\ pending' = [pending EXCEPT ![s] = NoBuffer]
  /\ newlyAttached' = [newlyAttached EXCEPT ![s] = FALSE]
  /\ bufferRef' = [bufferRef EXCEPT ![s] = NoBuffer]
  /\ viewSurface' = [v \in View |-> IF v \in told THEN NoSurface ELSE viewSurface[v]]
  /\ nextBuffer' = [v \in View |-> IF v \in told THEN NoBuffer ELSE nextBuffer[v]]
  /\ nextBufferCommitted' = [v \in View |-> v \notin told /\ nextBufferCommitted[v]]
  /\ bufferLocked' = [v \in View |-> v \in lockers \/ bufferLocked[v]]
  /\ view' = [v \in View |-> IF v \in deleters THEN "deleted" ELSE view[v]]
  /\ currentBuffer' = [v \in View |-> IF keeps(v) THEN currentBuffer[v] ELSE NoBuffer]
  /\ UNCHANGED <<forceAdvanceSucceed, allowDiscard, itemVars>>
  /\ Deref(committed, object, NoBuffer)
  /\ UNCHANGED textureDirty

-----------------------------------------------------------------------------
(* Calls of the compositor application. *)

CreateView(v) ==
  /\ view[v] = "none"
  /\ view' = [view EXCEPT ![v] = "alive"]
  /\ UNCHANGED <<bufferVars, surfaceVars, viewSurface, currentBuffer, nextBuffer,
                 nextBufferCommitted, bufferLocked, forceAdvanceSucceed, allowDiscard,
                 itemVars>>

(* The buffer refView() hands to a view that comes to surface s.           *)
HandedPending(s) == IF s = NoSurface THEN NoBuffer ELSE pending[s]
Handed(s) == IF s = NoSurface THEN NoBuffer ELSE bufferRef[s]

(* refView() and derefView(): the lists of views and the counts when view  *)
(* v leaves surface viewSurface[v] for s.                                  *)
MoveViewDerefsTwice(v, s, q) ==
  /\ views' = [t \in Surface |-> IF t = s THEN q
                                 ELSE IF t = viewSurface[v] THEN Without(views[t], v)
                                 ELSE views[t]]
  /\ refCount' = [t \in Surface |-> IF t = viewSurface[v] THEN refCount[t] - 2
                                    ELSE IF t = s THEN refCount[t] + 1 ELSE refCount[t]]
MoveView(v, s, q) ==
  /\ views' = [t \in Surface |-> IF t = s THEN q
                                 ELSE IF t = viewSurface[v] THEN Without(views[t], v)
                                 ELSE views[t]]
  /\ refCount' = [t \in Surface |-> IF t = viewSurface[v] THEN refCount[t] - 1
                                    ELSE IF t = s THEN refCount[t] + 1 ELSE refCount[t]]

(* WaylandView::setSurface(): the view starts with the buffer the new      *)
(* surface shows; a locked view keeps the one it has on screen.            *)
TakeSurface(v, s, q) ==
  /\ MoveView(v, s, q)
  /\ viewSurface' = [viewSurface EXCEPT ![v] = s]
  /\ nextBuffer' = [nextBuffer EXCEPT ![v] = Handed(s)]
  /\ nextBufferCommitted' = [nextBufferCommitted EXCEPT ![v] = (s # NoSurface)]
  /\ currentBuffer' = [currentBuffer EXCEPT ![v] = IF bufferLocked[v] THEN @ ELSE NoBuffer]
  /\ UNCHANGED <<surface, pending, newlyAttached, bufferRef,
                 view, bufferLocked, forceAdvanceSucceed, allowDiscard, itemVars>>
  /\ Deref(committed, object, NoBuffer)
  /\ UNCHANGED textureDirty

SetSurface(v, s) ==
  /\ view[v] = "alive"
  /\ s # viewSurface[v]
  /\ s \in {NoSurface} \cup {t \in Surface : surface[t] = "alive"}
  /\ TakeSurface(v, s, IF s = NoSurface THEN <<>> ELSE Append(views[s], v))

(* WaylandSurface::setPrimaryView(): a view of another surface is moved    *)
(* here first.                                                             *)
SetPrimaryView(s, v) ==
  /\ view[v] = "alive" /\ surface[s] = "alive"
  /\ \/ /\ viewSurface[v] = s
        /\ views' = [views EXCEPT ![s] = <<v>> \o Without(@, v)]
        /\ UNCHANGED <<bufferVars, surface, refCount, pending, newlyAttached, bufferRef,
                       viewVars, itemVars>>
     \/ /\ viewSurface[v] # s
        /\ TakeSurface(v, s, <<v>> \o views[s])

SetBufferLocked(v, locked) ==
  /\ view[v] = "alive"
  /\ bufferLocked' = [bufferLocked EXCEPT ![v] = locked]
  /\ UNCHANGED <<bufferVars, surfaceVars, view, viewSurface, currentBuffer, nextBuffer,
                 nextBufferCommitted, forceAdvanceSucceed, allowDiscard, itemVars>>

SetAllowDiscardFrontBuffer(v, allowed) ==
  /\ view[v] = "alive"
  /\ allowDiscard' = [allowDiscard EXCEPT ![v] = allowed]
  /\ UNCHANGED <<bufferVars, surfaceVars, view, viewSurface, currentBuffer, nextBuffer,
                 nextBufferCommitted, bufferLocked, forceAdvanceSucceed, itemVars>>

DiscardCurrentBuffer(v) ==
  /\ view[v] = "alive"
  /\ currentBuffer' = [currentBuffer EXCEPT ![v] = NoBuffer]
  /\ forceAdvanceSucceed' = [forceAdvanceSucceed EXCEPT ![v] = TRUE]
  /\ UNCHANGED <<surfaceVars, view, viewSurface, nextBuffer, nextBufferCommitted,
                 bufferLocked, allowDiscard, itemVars>>
  /\ Deref(committed, object, NoBuffer)
  /\ UNCHANGED textureDirty

(* ~WaylandQuickItem and ~WaylandView.  The texture provider and the node  *)
(* belong to the render thread and go later.                               *)
DeleteView(v) ==
  /\ view[v] = "alive"
  /\ view' = [view EXCEPT ![v] = "deleted"]
  /\ MoveView(v, NoSurface, <<>>)
  /\ viewSurface' = [viewSurface EXCEPT ![v] = NoSurface]
  /\ currentBuffer' = [currentBuffer EXCEPT ![v] = NoBuffer]
  /\ nextBuffer' = [nextBuffer EXCEPT ![v] = NoBuffer]
  /\ nextBufferCommitted' = [nextBufferCommitted EXCEPT ![v] = FALSE]
  /\ UNCHANGED <<surface, pending, newlyAttached, bufferRef, bufferLocked,
                 forceAdvanceSucceed, allowDiscard, itemVars>>
  /\ Deref(committed, object, NoBuffer)
  /\ UNCHANGED textureDirty

-----------------------------------------------------------------------------
(* The render thread. *)

CanAdvanceLocked(v) == nextBufferCommitted[v] \/ forceAdvanceSucceed[v]
CanAdvanceUnforced(v) == nextBufferCommitted[v] /\ ~bufferLocked[v]
CanAdvance(v) == (nextBufferCommitted[v] \/ forceAdvanceSucceed[v]) /\ ~bufferLocked[v]

IsPrimary(v) == viewSurface[v] # NoSurface /\ views[viewSurface[v]][1] = v

(* The other views of the surface that lose the buffer the primary view    *)
(* leaves behind.                                                          *)
Discarded(v) ==
  IF CanAdvance(v) /\ IsPrimary(v)
  THEN {w \in SeqRange(views[viewSurface[v]]) \ {v} :
          allowDiscard[w] /\ currentBuffer[w] = currentBuffer[v]}
  ELSE {}

(* WaylandView::advance(). *)
AdvanceForgetsDiscarded(v) ==
  LET moved == {w \in {v} : CanAdvance(w)} IN
  /\ currentBuffer' = [w \in View |-> IF w \in moved THEN nextBuffer[w]
                                      ELSE IF w \in Discarded(v) THEN NoBuffer
                                      ELSE currentBuffer[w]]
  /\ forceAdvanceSucceed' = [w \in View |-> forceAdvanceSucceed[w] /\ w \notin moved]
  /\ nextBufferCommitted' = [w \in View |-> nextBufferCommitted[w] /\ w \notin moved]
Advance(v) ==
  LET moved == {w \in {v} : CanAdvance(w)}
      lost  == Discarded(v)
  IN
  /\ currentBuffer' = [w \in View |-> IF w \in moved THEN nextBuffer[w]
                                      ELSE IF w \in lost THEN NoBuffer
                                      ELSE currentBuffer[w]]
  /\ forceAdvanceSucceed' = [w \in View |-> w \in lost \/ (forceAdvanceSucceed[w] /\ w \notin moved)]
  /\ nextBufferCommitted' = [w \in View |-> nextBufferCommitted[w] /\ w \notin moved]

(* Which kind of node paints the buffer the view has after the advance. *)
Shown(v, enabled) ==
  CASE ~HasContent(currentBuffer'[v]) \/ ~enabled \/ viewSurface[v] = NoSurface -> "none"
    [] OTHER -> IF currentBuffer'[v] \in Planar THEN "material" ELSE "provider"

(* WaylandQuickItem::updatePaintNode(), called when the item is dirty and  *)
(* visible.  A provider outlives the node that paints its texture; a       *)
(* material does not.                                                      *)
UpdatePaintNode(v, dirty, enabled) ==
  LET skipped == ~dirty \/ (bufferLocked[v] /\ enabled)
      shown   == IF skipped THEN node[v] ELSE Shown(v, enabled)
      fresh   == newTexture[v] \/ CanAdvance(v)
      set     == ~skipped /\ shown # "none" /\ (fresh \/ node[v] # shown)
  IN
  /\ node' = [node EXCEPT ![v] = shown]
  /\ newTexture' = [newTexture EXCEPT ![v] = fresh /\ ~set]
  /\ provider' = [provider EXCEPT ![v] = IF set /\ shown = "provider" THEN currentBuffer'[v] ELSE @]
  /\ material' = [material EXCEPT ![v] = IF shown # "material" THEN NoBuffer
                                        ELSE IF set THEN currentBuffer'[v] ELSE @]

(* One QQuickWindow synchronization, as far as the item of v goes:         *)
(* beforeSync() and updatePaintNode(), the GUI thread waiting.             *)
Sync(v, dirty, enabled) ==
  /\ v \in Item
  /\ view[v] = "alive"
  /\ Advance(v)
  /\ UpdatePaintNode(v, dirty, enabled)
  /\ UNCHANGED <<surfaceVars, view, viewSurface, nextBuffer, bufferLocked, allowDiscard>>
  /\ Deref(committed, object, NoBuffer)
  /\ UNCHANGED textureDirty

(* A view without an item is advanced by the code that draws it.           *)
AdvanceView(v) ==
  /\ v \notin Item
  /\ view[v] = "alive"
  /\ Advance(v)
  /\ UNCHANGED <<surfaceVars, view, viewSurface, nextBuffer, bufferLocked, allowDiscard,
                 itemVars>>
  /\ Deref(committed, object, NoBuffer)
  /\ UNCHANGED textureDirty

(* A scene graph node goes when its item is deleted or leaves the window,  *)
(* and its material's reference with it.                                   *)
DropNode(v) ==
  /\ node[v] # "none"
  /\ node' = [node EXCEPT ![v] = "none"]
  /\ material' = [material EXCEPT ![v] = NoBuffer]
  /\ UNCHANGED <<surfaceVars, viewVars, newTexture, provider>>
  /\ Deref(committed, object, NoBuffer)
  /\ UNCHANGED textureDirty

(* The deferred deletion of the texture provider of a deleted item. *)
DropProvider(v) ==
  /\ view[v] = "deleted" /\ provider[v] # NoBuffer
  /\ provider' = [provider EXCEPT ![v] = NoBuffer]
  /\ UNCHANGED <<surfaceVars, viewVars, newTexture, node, material>>
  /\ Deref(committed, object, NoBuffer)
  /\ UNCHANGED textureDirty

(* SharedMemoryBuffer::toOpenGlTexture(), when the application draws the   *)
(* view with OpenGL of its own: a dirty buffer is copied and released at   *)
(* once, with the references to it still there.                            *)
UploadTexture(v) ==
  LET b == currentBuffer[v] IN
  /\ UploadsShm
  /\ view[v] = "alive"
  /\ HasContent(b) /\ b \notin Planar
  /\ textureDirty[b]
  /\ textureDirty' = [textureDirty EXCEPT ![b] = FALSE]
  /\ committed' = [committed EXCEPT ![b] = FALSE]
  /\ lent' = [lent EXCEPT ![b] = @ /\ ~committed[b]]
  /\ UNCHANGED <<resource, object, surfaceVars, viewVars, itemVars>>

-----------------------------------------------------------------------------

ClientNext ==
  \/ \E b \in Buffer : CreateBuffer(b) \/ DestroyBuffer(b)
  \/ \E s \in Surface :
       \/ CreateSurface(s)
       \/ \E b \in MaybeBuffer : Attach(s, b)
       \/ Commit(s)
       \/ \E lockers, deleters \in SUBSET View : DestroySurface(s, lockers, deleters)

ApplicationNext ==
  \E v \in View :
    \/ CreateView(v)
    \/ \E s \in MaybeSurface : SetSurface(v, s)
    \/ \E s \in Surface : SetPrimaryView(s, v)
    \/ \E locked \in BOOLEAN : SetBufferLocked(v, locked)
    \/ \E allowed \in BOOLEAN : SetAllowDiscardFrontBuffer(v, allowed)
    \/ DiscardCurrentBuffer(v)
    \/ DeleteView(v)

RenderNext ==
  \E v \in View :
    \/ \E dirty, enabled \in BOOLEAN : Sync(v, dirty, enabled)
    \/ AdvanceView(v)
    \/ DropNode(v)
    \/ DropProvider(v)
    \/ UploadTexture(v)

Next == ClientNext \/ ApplicationNext \/ RenderNext

(* The window of every item keeps rendering, other views are advanced as   *)
(* regularly, and the render thread gets to what was left to it.  Clients  *)
(* and the application owe nothing.                                        *)
Fairness ==
  \A v \in View : /\ WF_vars(Sync(v, TRUE, TRUE))
                  /\ WF_vars(AdvanceView(v))
                  /\ WF_vars(view[v] = "deleted" /\ DropNode(v))
                  /\ WF_vars(DropProvider(v))

Safety == Init /\ [][Next]_vars
Spec == Safety /\ Fairness

-----------------------------------------------------------------------------
(* Safety. *)

(* A reference never outlives its ClientBuffer: whatever the order in      *)
(* which the wl_buffer, the surface, the view, the node and the provider   *)
(* go, the object is deleted only after the last of its references.        *)
NoDanglingRef == \A b \in Buffer : InUse(b) => object[b] = "alive"

(* No buffer is kept from the client for nothing: one that is committed    *)
(* and whose wl_buffer exists is named by a reference, so that a release   *)
(* is still to come when the last of them goes.                            *)
UnusedIsReleased ==
  \A b \in Buffer : committed[b] /\ resource[b] = "live" => InUse(b)

(* No ClientBuffer leaks: once the wl_buffer is gone and nothing refers to *)
(* the object, it has been deleted, whichever came last.                   *)
DestroyedIsFreed ==
  \A b \in Buffer : resource[b] = "destroyed" /\ object[b] = "alive" => InUse(b)

(* The surface's list and the views' pointers agree, neither names what is *)
(* deleted, no view is listed twice, and the count that keeps the surface  *)
(* alive is that of its resource and its views.                            *)
ViewsMatch ==
  \A s \in Surface :
    /\ \A v \in View : v \in SeqRange(views[s]) <=> viewSurface[v] = s
    /\ Distinct(views[s])
    /\ \A v \in View : viewSurface[v] = s => view[v] = "alive" /\ surface[s] = "alive"
    /\ refCount[s] = IF surface[s] = "alive" THEN 1 + Len(views[s]) ELSE 0

(* What a view will show next is what its surface has committed, however   *)
(* late the view came to the surface.                                      *)
NextMirrorsCommit ==
  \A v \in View : viewSurface[v] # NoSurface => nextBuffer[v] = bufferRef[viewSurface[v]]

(* A view that expects nothing new shows the surface's latest commit: the  *)
(* flags of advance() never lose an update, not even when another view's   *)
(* advance took the buffer away.                                           *)
Settled ==
  \A v \in View :
    viewSurface[v] # NoSurface /\ ~nextBufferCommitted[v] /\ ~forceAdvanceSucceed[v]
      => currentBuffer[v] = nextBuffer[v]

(* The references that stand for content, not for a request the client has *)
(* not committed yet.                                                      *)
Held(b) ==
  \/ \E s \in Surface : bufferRef[s] = b
  \/ \E v \in View : \/ currentBuffer[v] = b \/ nextBuffer[v] = b
                     \/ provider[v] = b \/ material[v] = b

(* WaylandBufferRef: "As long as a reference to the buffer exists, it is   *)
(* owned by the compositor and the client cannot modify it."               *)
HeldIsOwned == \A b \in Buffer : Held(b) /\ resource[b] = "live" => lent[b]

(* What makes the release of buffers inductive: a wl_buffer that does not  *)
(* exist yet has no ClientBuffer, one that exists has not lost its own,    *)
(* and nothing was committed that was never created.                       *)
ObjectsFollow ==
  \A b \in Buffer :
    /\ resource[b] = "none" => object[b] = "none" /\ ~committed[b]
    /\ resource[b] = "live" => object[b] # "deleted"

(* What the client waits for will come: a buffer it lent exists, carries   *)
(* the mark that makes deref() release it, and is referred to.  (Not where *)
(* buffers are released as they are uploaded.)                             *)
LentWillReturn ==
  \A b \in Buffer : lent[b] => resource[b] = "live" /\ committed[b] /\ InUse(b)

BuffersInv == NoDanglingRef /\ UnusedIsReleased /\ DestroyedIsFreed /\ ObjectsFollow

LendingInv == BuffersInv /\ LentWillReturn /\ HeldIsOwned

-----------------------------------------------------------------------------
(* Action properties. *)

(* A locked view keeps its buffer, whatever the client, the application or *)
(* the other views do, unless the application allowed it to be discarded   *)
(* or discards it.                                                         *)
LockedStep ==
  \A v \in View :
    bufferLocked[v] /\ bufferLocked'[v] /\ view'[v] = "alive" /\ ~allowDiscard[v]
      => currentBuffer'[v] = currentBuffer[v] \/ DiscardCurrentBuffer(v)
LockedBufferKept == [][LockedStep]_vars

(* The upload reads the client's memory only while the client leaves it    *)
(* alone.                                                                  *)
UploadStep == \A v \in View : UploadTexture(v) => lent[currentBuffer[v]]
UploadReadsOwned == [][UploadStep]_vars

(* When the primary view moves on from a buffer, a secondary view that     *)
(* allows it gives the buffer up.                                          *)
DiscardStep ==
  \A v, w \in View :
    LET b == currentBuffer[v] IN
    b \in Buffer /\ b # currentBuffer'[v] /\ w \in Discarded(v) /\ (AdvanceView(v) \/ \E d, e \in BOOLEAN : Sync(v, d, e))
      => b \notin {currentBuffer'[w], nextBuffer'[w], provider'[w], material'[w]}
DiscardFreesBuffer == [][DiscardStep]_vars

-----------------------------------------------------------------------------
(* What the compositor promises about the ownership of each buffer. *)

Owner == [b \in Buffer |-> IF resource[b] = "destroyed" THEN "gone"
                          ELSE IF lent[b] THEN "compositor" ELSE "client"]
Used == [b \in Buffer |-> InUse(b)]

Ownership == INSTANCE BufferOwnership WITH owner <- Owner, held <- Used

(* The release protocol: the client gets each buffer back once for each    *)
(* time it lent it, when nothing refers to it any more, and a buffer       *)
(* nothing refers to is never taken up again after its wl_buffer is gone.  *)
ImplementsOwnership == Ownership!Spec

-----------------------------------------------------------------------------
(* Liveness. *)

(* What a client commits reaches every view of the surface that is not     *)
(* locked, unless the client or the application changes its mind.          *)
CommitReachesView ==
  \A v \in View, s \in Surface, b \in Buffer :
    (viewSurface[v] = s /\ bufferRef[s] = b)
      ~> (currentBuffer[v] = b \/ viewSurface[v] # s \/ bufferRef[s] # b \/ bufferLocked[v])

Latest(b) == \E s \in Surface : pending[s] = b \/ bufferRef[s] = b

(* The ways the code has of keeping a superseded buffer for ever: a locked *)
(* view, a view that lost its surface while locked, and a provider whose   *)
(* item has nothing to paint with it.                                      *)
Kept(b) ==
  \E v \in View :
    \/ bufferLocked[v] /\ b \in {currentBuffer[v], provider[v], material[v]}
    \/ viewSurface[v] = NoSurface /\ currentBuffer[v] = b
    \/ provider[v] = b /\ node[v] # "provider"

(* A buffer the client has replaced comes back to it.                      *)
SupersededIsReleased ==
  \A b \in Buffer : (lent[b] /\ ~Latest(b)) ~> (~lent[b] \/ Latest(b) \/ Kept(b))
=============================================================================
