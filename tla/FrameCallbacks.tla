---------------------------- MODULE FrameCallbacks ---------------------------
(***************************************************************************)
(* The frame callbacks of a surface and the enter and leave events that    *)
(* WaylandOutput sends for it.                                             *)
(*                                                                         *)
(* One surface of one client, which has bound every output, is shown by    *)
(* views whose items the application puts into windows; each output has    *)
(* its window, and a window is named by its output.  A window is rendered  *)
(* by a thread of its own: the GUI thread stands still while the window    *)
(* synchronises, and hears of the end of the rendering by a posted event,  *)
(* which it handles at any time after.                                     *)
(*                                                                         *)
(* Commits are numbered, and the callbacks a client requests for one       *)
(* commit count as one.  Only commit looks at pendingFrameCallbacks, so    *)
(* wl_surface.frame is part of it.  Every view sends its callbacks         *)
(* automatically: automaticFrameCallback and independentFrameCallback have *)
(* their defaults.                                                         *)
(***************************************************************************)
EXTENDS FiniteSets, Lists

CONSTANTS
  Views, Outputs,
  NoView, NoOutput,
  MaxCommits,      \* bound: commits of the surface
  MaxMoves         \* bound: what the application changes, repaints included

ASSUME ViewsAssumption == IsFiniteSet(Views)
ASSUME NoneAssumption == NoView \notin Views /\ NoOutput \notin Outputs
ASSUME BoundAssumption == MaxCommits \in Nat /\ MaxMoves \in Nat

VARIABLES
  alive, commits, content, \* the surface, its commits, hasContent
  views,           \* the surface's views, the primary one first
  window,          \* the window of each view's item
  viewOutput,      \* the output of each view
  surfaceViews, entered, \* per output, the surface's views and has_entered
  told,            \* outputs whose enter was sent, and no leave since
  waiting, canSend,\* frameCallbacks by commit, and those with canSend set
  dirty,           \* per window, whether an update is due
  rendering,       \* the windows whose thread is between the two signals
  posted,          \* per window, its doFrameCallbacks not handled yet
  moves,           \* counts the application's changes
  done,            \* history: commits whose callback was sent
  begun,           \* history: the commit the last frame of any window began with
  steady           \* history: commits since which the primary view has
                   \* stayed, in a window, with content to show

clientVars == <<alive, commits, content>>
viewVars == <<views, window, viewOutput, moves>>
outputVars == <<surfaceViews, entered, told>>
callbackVars == <<waiting, canSend, done>>
renderVars == <<dirty, rendering, posted, begun>>
vars == <<clientVars, viewVars, outputVars, callbackVars, renderVars, steady>>

Commits == 1..MaxCommits
Places == Outputs \cup {NoOutput}

\* What an output keeps of the surface is what the views say of themselves.
TypeOK ==
  /\ alive \in BOOLEAN /\ content \in BOOLEAN
  /\ commits \in 0..MaxCommits /\ moves \in 0..MaxMoves /\ begun \in 0..MaxCommits
  /\ views \in Seq(Views) /\ Distinct(views)
  /\ window \in [Views -> Places] /\ viewOutput \in [Views -> Places]
  /\ surfaceViews \in [Outputs -> SUBSET Views]
  /\ \A o \in Outputs : surfaceViews[o] = {v \in SeqRange(views) : viewOutput[v] = o}
  /\ entered \in [Outputs -> BOOLEAN] /\ told \subseteq Outputs
  /\ waiting \subseteq Commits /\ canSend \subseteq waiting
  /\ done \subseteq Commits /\ steady \subseteq Commits
  /\ dirty \in [Outputs -> BOOLEAN] /\ rendering \subseteq Outputs
  /\ posted \in [Outputs -> 0..2] /\ \A o \in rendering : posted[o] < 2

\* A new surface, which the application may already have given to views: the
\* view of an item in a window has the output of the window.
Init ==
  /\ alive = TRUE /\ commits = 0 /\ content = FALSE
  /\ views \in {q \in UNION {[1..n -> Views] : n \in 0..Cardinality(Views)} : Distinct(q)}
  /\ window \in [Views -> Places] /\ moves = 0
  /\ viewOutput = [v \in Views |-> IF v \in SeqRange(views) THEN window[v] ELSE NoOutput]
  /\ surfaceViews = [o \in Outputs |-> {v \in Views : viewOutput[v] = o}]
  /\ entered = [o \in Outputs |-> FALSE] /\ dirty = entered
  /\ told = {} /\ waiting = {} /\ canSend = {} /\ done = {} /\ steady = {}
  /\ rendering = {} /\ begun = 0
  /\ posted = [o \in Outputs |-> 0]

\* WaylandSurface::primaryView
Primary == IF views = <<>> THEN NoView ELSE views[1]
-----------------------------------------------------------------------------
(* The client's requests, handled by the GUI thread.                       *)

\* The windows whose items redraw() updates: those of every view.
RedrawnOnMap == IF content THEN {} ELSE {window[v] : v \in SeqRange(views)}
Redrawn == {window[v] : v \in SeqRange(views)}

\* wl_surface.commit, asking for a callback or not, with a buffer or none.
Commit(has, asks) ==
  /\ alive /\ commits < MaxCommits
  /\ commits' = commits + 1
  /\ content' = has
  /\ waiting' = IF asks THEN waiting \cup {commits + 1} ELSE waiting
  /\ dirty' = [o \in Outputs |-> dirty[o] \/ o \in Redrawn]
  /\ steady' = IF ~has THEN {}
               ELSE IF Primary # NoView /\ window[Primary] # NoOutput
               THEN steady \cup {commits + 1} ELSE steady
  /\ UNCHANGED <<alive, viewVars, outputVars, canSend, done, rendering, posted, begun>>

\* The wl_surface is destroyed: the views let go of it, its outputs are left
\* and its callbacks are destroyed unsent.
DestroySurface ==
  /\ alive
  /\ alive' = FALSE /\ content' = FALSE
  /\ views' = <<>>
  /\ surfaceViews' = [o \in Outputs |-> {}]
  /\ entered' = [o \in Outputs |-> FALSE]
  /\ told' = {o \in told : ~entered[o]}
  /\ waiting' = {} /\ canSend' = {} /\ steady' = {}
  /\ UNCHANGED <<commits, window, viewOutput, moves, done, renderVars>>
-----------------------------------------------------------------------------
(* The application, on the GUI thread.                                     *)

Move == moves < MaxMoves /\ moves' = moves + 1

\* WaylandOutputPrivate::removeView from one output and addView to another
\* one, or to or from none: the last view to go takes has_entered with it, and
\* leave is sent.
LeftByAny(from, v) == from # NoOutput /\ surfaceViews[from] \ {v} # {}
Left(from, v) == from # NoOutput /\ surfaceViews[from] = {v}
RemovedWithLast(o, v) == IF Left(o, v) THEN {} ELSE surfaceViews[o]
Removed(o, v) == surfaceViews[o] \ {v}
MoveView(v, from, to) ==
  /\ surfaceViews' = [o \in Outputs |-> IF o = to THEN surfaceViews[o] \cup {v}
                                        ELSE IF o = from THEN Removed(o, v)
                                        ELSE surfaceViews[o]]
  /\ entered' = [o \in Outputs |-> entered[o] /\ ~(o = from /\ Left(from, v))]
  /\ told' = {o \in told : ~(o = from /\ Left(from, v) /\ entered[o])}

\* WaylandView::setSurface of the surface, and handleSurfaceChanged, which
\* gives the view the output of its item's window.
SetSurface(v) ==
  LET o == IF window[v] = NoOutput THEN viewOutput[v] ELSE window[v]
  IN /\ alive /\ v \notin SeqRange(views) /\ Move
     /\ views' = Append(views, v)
     /\ viewOutput' = [viewOutput EXCEPT ![v] = o]
     /\ MoveView(v, NoOutput, o)
     /\ UNCHANGED <<clientVars, window, callbackVars, renderVars, steady>>

\* WaylandView::setSurface of another surface or none.
UnsetSurface(v) ==
  /\ v \in SeqRange(views) /\ Move
  /\ views' = Without(views, v)
  /\ MoveView(v, viewOutput[v], NoOutput)
  /\ steady' = IF v = Primary THEN {} ELSE steady
  /\ UNCHANGED <<clientVars, window, viewOutput, callbackVars, renderVars>>

\* WaylandView::setPrimary
SetPrimary(v) ==
  /\ v \in SeqRange(views) /\ v # Primary /\ Move
  /\ views' = <<v>> \o Without(views, v)
  /\ steady' = {}
  /\ UNCHANGED <<clientVars, window, viewOutput, outputVars, callbackVars, renderVars>>

\* The item of v changes its window, or leaves it: updateWindow.  A view keeps
\* its output when its item has no window, or has no surface to find it by;
\* when it comes back to the window of that output, setOutput returns early.
SetWindow(v, w) ==
  /\ w # window[v] /\ Move
  /\ window' = [window EXCEPT ![v] = w]
  /\ IF w # NoOutput /\ v \in SeqRange(views) /\ w # viewOutput[v]
     THEN /\ viewOutput' = [viewOutput EXCEPT ![v] = w]
          /\ MoveView(v, viewOutput[v], w)
     ELSE UNCHANGED <<viewOutput, outputVars>>
  /\ dirty' = [o \in Outputs |-> dirty[o] \/ o \in {w, window[v]}]
  /\ steady' = IF v = Primary /\ w = NoOutput THEN {} ELSE steady
  /\ UNCHANGED <<clientVars, views, callbackVars, rendering, posted, begun>>

\* Anything else in the window wants to be drawn.
Repaint(o) ==
  /\ ~dirty[o] /\ Move
  /\ dirty' = [dirty EXCEPT ![o] = TRUE]
  /\ UNCHANGED <<clientVars, views, window, viewOutput, outputVars, callbackVars,
                 rendering, posted, begun, steady>>
-----------------------------------------------------------------------------
(* A frame of the window o.                                                *)

\* beforeSynchronizing, with the GUI thread standing still: frameStarted.  The
\* GUI thread handles what was posted each time it comes round, so no frame
\* begins with two callbacks of its window unhandled.
StartedLast(o) == IF Primary \in surfaceViews[o] THEN canSend \cup (waiting \cap {commits}) ELSE canSend
Started(o) == IF Primary \in surfaceViews[o] THEN waiting ELSE canSend
Sync(o) ==
  /\ o \notin rendering /\ dirty[o] /\ posted[o] < 2
  /\ rendering' = rendering \cup {o}
  /\ dirty' = [dirty EXCEPT ![o] = FALSE]
  /\ canSend' = Started(o)
  /\ begun' = commits
  /\ UNCHANGED <<clientVars, viewVars, outputVars, waiting, done, posted, steady>>

\* afterRendering
AfterRendering(o) ==
  /\ o \in rendering
  /\ rendering' = rendering \ {o}
  /\ posted' = [posted EXCEPT ![o] = @ + 1]
  /\ UNCHANGED <<clientVars, viewVars, outputVars, callbackVars, dirty, begun, steady>>

\* doFrameCallbacks on the GUI thread: WaylandOutput::sendFrameCallbacks,
\* which enters the output first, and WaylandSurface::sendFrameCallbacks.
SentAll(o) == IF Primary \in surfaceViews[o] THEN waiting ELSE {}
Sent(o) == IF Primary \in surfaceViews[o] THEN canSend ELSE {}
SendFrameCallbacks(o) ==
  /\ posted[o] > 0
  /\ posted' = [posted EXCEPT ![o] = @ - 1]
  /\ IF content /\ surfaceViews[o] # {}
     THEN /\ entered' = [entered EXCEPT ![o] = TRUE]
          /\ told' = IF entered[o] THEN told ELSE told \cup {o}
          /\ waiting' = waiting \ Sent(o)
          /\ canSend' = canSend \ Sent(o)
          /\ done' = done \cup Sent(o)
     ELSE UNCHANGED <<entered, told, callbackVars>>
  /\ UNCHANGED <<clientVars, viewVars, surfaceViews, dirty, rendering, begun, steady>>
-----------------------------------------------------------------------------
Next ==
  \/ \E has, asks \in BOOLEAN : Commit(has, asks)
  \/ DestroySurface
  \/ \E v \in Views : SetSurface(v) \/ UnsetSurface(v) \/ SetPrimary(v)
  \/ \E v \in Views, w \in Places : SetWindow(v, w)
  \/ \E o \in Outputs :
       \/ Repaint(o) \/ Sync(o) \/ AfterRendering(o) \/ SendFrameCallbacks(o)

\* A window that wants an update gets its frame, the frame is rendered, and
\* the GUI thread handles what is posted.
Fairness ==
  \A o \in Outputs :
    WF_vars(Sync(o)) /\ WF_vars(AfterRendering(o)) /\ WF_vars(SendFrameCallbacks(o))

Spec == Init /\ [][Next]_vars
FairSpec == Spec /\ Fairness
-----------------------------------------------------------------------------
(* Properties.                                                             *)

\* Callbacks are sent in the order of their commits (wayland.xml:1533),
\* whichever output sends them and however the primary view moves.
CallbacksInOrder == \A c \in done, d \in waiting : c < d

\* A callback is sent only after a frame that began with its commit or a later
\* one: canSend keeps a commit made while a frame is drawn for the next frame.
DoneIsBegun == \A c \in done : c <= begun

\* As long as the client is told that the surface is on an output, there is a
\* view of it: leave is sent when the last view goes, in whatever order views,
\* windows and the surface come and go.
ToldIsThere == \A o \in told : \E v \in SeqRange(views) : viewOutput[v] = o

\* The callback of a commit is sent, while the surface has content and its
\* primary view stays in some window, be it moved between windows meanwhile.
CallbackAnswered == \A c \in Commits : c \in waiting \cap steady ~> c \notin waiting \cap steady
=============================================================================
