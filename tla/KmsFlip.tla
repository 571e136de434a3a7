------------------------------- MODULE KmsFlip -------------------------------
(***************************************************************************)
(* How a frame reaches a KMS screen: QEglFSKmsGbmScreen::waitForFlip,      *)
(* flip and flipFinished on the render thread of each screen, the event    *)
(* host that lives in the event reader thread and pairs the page flips the *)
(* kernel completes with the threads that wait for them, and the GUI       *)
(* thread, which may change a screen's mode between any two of their       *)
(* steps.  The legacy (not the atomic) KMS interface is modelled.          *)
(*                                                                         *)
(* The kernel, gbm and EGL are modelled as the code uses them: a CRTC has  *)
(* at most one page flip in flight and refuses another, it also refuses    *)
(* when the session is not active; setting a mode waits for the flip in    *)
(* flight; eglSwapBuffers leaves a free buffer object in front of the      *)
(* surface, gbm_surface_lock_front_buffer takes it from there.             *)
(*                                                                         *)
(* Each function that touches m_gbm_bo_current or m_gbm_bo_next is one     *)
(* step, except flip(), which the GUI thread may interrupt between the     *)
(* lock of the front buffer and its use.                                   *)
(***************************************************************************)
EXTENDS FiniteSets, Lists

CONSTANTS
  Screens,         \* the screens of one DRM device, each with its CRTC
  BOs,             \* the buffer objects of a screen's gbm surface
  NoScreen, NoBO,
  Gone,            \* a buffer object destroyed together with its surface
  MaxDisturbances  \* bound: session switches plus twice the screen changes

\* A device has at most 32 CRTCs (m_crtc_allocator is 32 bits wide), as many as
\* completedFlips and pendingFlipWaits have slots: both are sets here.
ASSUME MaxFlipsAssumption == IsFiniteSet(Screens) /\ Cardinality(Screens) <= 32
ASSUME NoneAssumption == NoScreen \notin Screens /\ NoBO \notin BOs /\ Gone \notin BOs \cup {NoBO}
ASSUME BoundAssumption == MaxDisturbances \in Nat

VARIABLES
  cloneSource,     \* m_cloneSource of each screen
  pc,              \* where the screen's render thread is in swapBuffers
  cur, next,       \* m_gbm_bo_current, m_gbm_bo_next
  clonePending,    \* cloneFlipPending of the entry a clone has in m_cloneDests
  modeSet,         \* output().mode_set
  stale,           \* the frame being drawn was begun on a replaced surface
  posted,          \* RegisterWaitFlipEvents in the reader's event queue
  waits, completed,\* the keys in pendingFlipWaits and in completedFlips
  gui,             \* how far the GUI thread is with changing a screen's mode
  active,          \* Logind::isSessionActive()
  inflight,        \* per CRTC, the buffer object of the flip in flight
  scanout,         \* per CRTC, the buffer object shown
  events,          \* page flip events the reader has not read
  front, locked,   \* per gbm surface: the front buffer, the locked ones
  disturbances,    \* their counter
  overrun          \* history: a flip of this screen was abandoned unwaited for

renderVars == <<pc, cur, next, clonePending, stale>>
readerVars == <<posted, waits, completed>>
kernelVars == <<inflight, scanout, events>>
gbmVars == <<front, locked>>
guiVars == <<active, gui, modeSet, disturbances>>
vars == <<cloneSource, renderVars, readerVars, kernelVars, gbmVars, guiVars, overrun>>

Clones(s) == {c \in Screens : cloneSource[c] = s}
Renders(s) == cloneSource[s] = NoScreen

TypeOK ==
  /\ cloneSource \in [Screens -> Screens \cup {NoScreen}]
  /\ pc \in [Screens -> {"draw", "locked", "waiting", "woken", "swap", "present", "flip", "crashed"}]
  /\ cur \in [Screens -> BOs \cup {NoBO}] /\ next \in [Screens -> BOs \cup {NoBO}]
  /\ clonePending \in [Screens -> BOOLEAN] /\ modeSet \in [Screens -> BOOLEAN]
  /\ stale \in [Screens -> BOOLEAN] /\ overrun \in [Screens -> BOOLEAN]
  /\ posted \in Seq(Screens) /\ waits \subseteq Screens /\ completed \subseteq Screens
  /\ gui \in [Screens -> {"none", "same", "changed", "resized"}]
  /\ active \in BOOLEAN
  /\ inflight \in [Screens -> BOs \cup {NoBO, Gone}] /\ scanout \in [Screens -> BOs \cup {NoBO}]
  /\ events \in Seq(Screens)
  /\ front \in [Screens -> BOs \cup {NoBO}] /\ locked \in [Screens -> SUBSET BOs]
  /\ disturbances \in 0..MaxDisturbances

\* initCloning: a screen is never both the source and the destination of a clone.
Init ==
  /\ cloneSource \in {f \in [Screens -> Screens \cup {NoScreen}] :
                        \A s \in Screens : f[s] # NoScreen => f[s] # s /\ f[f[s]] = NoScreen}
  /\ pc = [s \in Screens |-> "draw"]
  /\ cur = [s \in Screens |-> NoBO] /\ next = cur
  /\ clonePending = [s \in Screens |-> FALSE]
  /\ modeSet = clonePending /\ stale = clonePending /\ overrun = clonePending
  /\ posted = <<>> /\ waits = {} /\ completed = {}
  /\ gui = [s \in Screens |-> "none"]
  /\ active = TRUE
  /\ inflight = cur /\ scanout = cur /\ events = <<>>
  /\ front = cur /\ locked = [s \in Screens |-> {}]
  /\ disturbances = 0
-----------------------------------------------------------------------------
(* The render thread of screen s, in QEglFSContext::swapBuffers.           *)

\* The early returns of waitForFlip, the last of which keeps it from waiting
\* for a flip that was never queued.
MustWaitAlways(s) == gui[s] = "none" /\ active
MustWait(s) == gui[s] = "none" /\ active /\ next[s] # NoBO

\* waitForFlip up to the post of the RegisterWaitFlipEvent, which is made
\* with m_flipMutex held.  Nothing to wait for: go on to eglSwapBuffers.
WaitForFlip(s) ==
  /\ pc[s] = "draw" /\ Renders(s)
  /\ IF MustWait(s)
     THEN /\ pc' = [pc EXCEPT ![s] = "locked"]
          /\ posted' = Append(posted, s)
     ELSE /\ pc' = [pc EXCEPT ![s] = "swap"]
          /\ UNCHANGED posted
  /\ UNCHANGED <<cloneSource, cur, next, clonePending, stale, waits, completed,
                 kernelVars, gbmVars, guiVars, overrun>>

\* m_flipCond.wait releases m_flipMutex and sleeps, in one step.
Sleep(s) ==
  /\ pc[s] = "locked"
  /\ pc' = [pc EXCEPT ![s] = "waiting"]
  /\ UNCHANGED <<cloneSource, cur, next, clonePending, stale, readerVars,
                 kernelVars, gbmVars, guiVars, overrun>>

\* The buffer that updateFlipStatus gives back to gbm.
ReplacedIsNext(s) == next[s]
Replaced(s) == cur[s]

\* flipFinished and updateFlipStatus.  m_flipPending is cleared by the one
\* before the other tests it, so only the clones can still be pending.
FlipFinished(s) ==
  /\ pc[s] = "woken"
  /\ pc' = [pc EXCEPT ![s] = "swap"]
  /\ IF \E c \in Clones(s) : clonePending[c]
     THEN UNCHANGED <<cur, next, locked>>
     ELSE /\ locked' = [locked EXCEPT ![s] = @ \ {Replaced(s)}]
          /\ cur' = [cur EXCEPT ![s] = next[s]]
          /\ next' = [next EXCEPT ![s] = NoBO]
  /\ UNCHANGED <<cloneSource, clonePending, stale, readerVars, kernelVars, front,
                 guiVars, overrun>>

\* eglSwapBuffers fails on a surface that is gone, and when no buffer is free.
\* Which free buffer was drawn into is immaterial: they are interchangeable.
Swap(s) ==
  LET free == BOs \ (locked[s] \cup {front[s]})
  IN /\ pc[s] = "swap"
     /\ pc' = [pc EXCEPT ![s] = "present"]
     /\ IF stale[s] \/ free = {}
        THEN UNCHANGED front
        ELSE front' = [front EXCEPT ![s] = CHOOSE b \in free : TRUE]
     /\ UNCHANGED <<cloneSource, cur, next, clonePending, stale, readerVars, kernelVars,
                    locked, guiVars, overrun>>

\* flip is called, and gbm has a front buffer to lock.
LocksUnchecked(s) == active /\ gui[s] = "none"
Locks(s) == active /\ gui[s] = "none" /\ front[s] # NoBO

\* presentBuffer, and flip up to the lock of the front buffer.  Whatever
\* m_gbm_bo_next held is overwritten, by a null pointer if there is no front.
Present(s) ==
  LET flips == active /\ gui[s] = "none"
  IN /\ pc[s] = "present"
     /\ pc' = [pc EXCEPT ![s] = IF Locks(s) THEN "flip" ELSE "draw"]
     /\ stale' = [stale EXCEPT ![s] = Locks(s) /\ @]
     /\ next' = [next EXCEPT ![s] = IF flips THEN front[s] ELSE @]
     /\ front' = [front EXCEPT ![s] = IF Locks(s) THEN NoBO ELSE @]
     /\ locked' = [locked EXCEPT ![s] = IF Locks(s) THEN @ \cup {front[s]} ELSE @]
     /\ overrun' = [overrun EXCEPT ![s] = @ \/ (flips /\ next[s] # NoBO)]
     /\ UNCHANGED <<cloneSource, cur, clonePending, readerVars, kernelVars, guiVars>>

\* drmModePageFlip on the CRTC of c succeeds.
Accepts(c) == active /\ inflight[c] = NoBO

\* A buffer whose flip is refused is given back to gbm.
KeptAlways(s) == locked[s]
Kept(s) == IF Accepts(s) THEN locked[s] ELSE locked[s] \ {next[s]}

\* The rest of flip: ensureModeSet, the flip, and both again for every clone.
\* A flip that is refused skips the clones.
PageFlip(s) ==
  LET crtcs == IF Accepts(s) THEN {s} \cup Clones(s) ELSE {s}
      flipped == {c \in crtcs : Accepts(c)}
  IN /\ pc[s] = "flip" /\ next[s] # NoBO
     /\ \A c \in crtcs : modeSet[c] \/ inflight[c] = NoBO
     /\ pc' = [pc EXCEPT ![s] = "draw"]
     /\ stale' = [stale EXCEPT ![s] = FALSE]
     /\ modeSet' = [c \in Screens |-> modeSet[c] \/ c \in crtcs]
     /\ scanout' = [c \in Screens |-> IF c \in crtcs /\ ~modeSet[c] /\ active THEN next[s] ELSE scanout[c]]
     /\ inflight' = [c \in Screens |-> IF c \in flipped THEN next[s] ELSE inflight[c]]
     /\ clonePending' = [c \in Screens |-> c \in flipped \ {s} \/ (c \notin crtcs /\ clonePending[c])]
     /\ locked' = [locked EXCEPT ![s] = Kept(s)]
     /\ next' = [next EXCEPT ![s] = IF s \in flipped THEN @ ELSE NoBO]
     /\ UNCHANGED <<cloneSource, cur, readerVars, events, front, active, gui, disturbances, overrun>>

\* framebufferForBufferObject on the null pointer the GUI thread has left: the
\* process is gone, and no render thread takes another step.
CrashInFlip(s) ==
  /\ pc[s] = "flip" /\ next[s] = NoBO
  /\ pc' = [t \in Screens |-> "crashed"]
  /\ UNCHANGED <<cloneSource, cur, next, clonePending, stale, readerVars, kernelVars,
                 gbmVars, guiVars, overrun>>
-----------------------------------------------------------------------------
(* The event reader thread.                                                *)

\* updateStatus over the waits w and completions d: the first pair that
\* matches is taken out and its thread woken, under that thread's mutex.
WakeWithoutMutex(w, d) ==
  IF w \cap d = {}
  THEN waits' = w /\ completed' = d /\ UNCHANGED pc
  ELSE \E k \in w \cap d :
         /\ waits' = w \ {k} /\ completed' = d \ {k}
         /\ pc' = [pc EXCEPT ![k] = IF @ = "waiting" THEN "woken" ELSE @]

UpdateStatus(w, d) ==
  IF w \cap d = {}
  THEN waits' = w /\ completed' = d /\ UNCHANGED pc
  ELSE \E k \in w \cap d :
         /\ pc[k] # "locked"
         /\ waits' = w \ {k} /\ completed' = d \ {k}
         /\ pc' = [pc EXCEPT ![k] = IF @ = "waiting" THEN "woken" ELSE @]

RegisterOnly ==
  /\ posted # <<>>
  /\ posted' = Tail(posted) /\ waits' = waits \cup {Head(posted)}
  /\ UNCHANGED <<cloneSource, renderVars, completed, kernelVars, gbmVars, guiVars, overrun>>

\* QEglFSKmsEventHost::event
RegisterWait ==
  /\ posted # <<>>
  /\ posted' = Tail(posted)
  /\ UpdateStatus(waits \cup {Head(posted)}, completed)
  /\ UNCHANGED <<cloneSource, cur, next, clonePending, stale, kernelVars, gbmVars,
                 guiVars, overrun>>

\* pageFlipHandler and handlePageFlipCompleted
HandleFlipEvent ==
  /\ events # <<>>
  /\ events' = Tail(events)
  /\ UpdateStatus(waits, completed \cup {Head(events)})
  /\ UNCHANGED <<cloneSource, cur, next, clonePending, stale, posted, inflight, scanout,
                 gbmVars, guiVars, overrun>>
-----------------------------------------------------------------------------
(* The kernel, logind and the GUI thread.                                  *)

FlipCompletes(c) ==
  /\ inflight[c] # NoBO
  /\ scanout' = [scanout EXCEPT ![c] = IF inflight[c] = Gone THEN NoBO ELSE inflight[c]]
  /\ inflight' = [inflight EXCEPT ![c] = NoBO]
  /\ events' = Append(events, c)
  /\ UNCHANGED <<cloneSource, renderVars, readerVars, gbmVars, guiVars, overrun>>

SwitchSession ==
  /\ disturbances < MaxDisturbances
  /\ disturbances' = disturbances + 1
  /\ active' = ~active
  /\ UNCHANGED <<cloneSource, renderVars, readerVars, kernelVars, gbmVars, gui, modeSet, overrun>>

\* applyScreenChanges: setModeChangeRequested(true) and setMode.
RequestModeChange(s) ==
  /\ \A t \in Screens : gui[t] = "none"
  /\ disturbances + 2 <= MaxDisturbances
  /\ disturbances' = disturbances + 2
  /\ \E found \in {"same", "changed"} :
       /\ gui' = [gui EXCEPT ![s] = found]
       /\ modeSet' = [modeSet EXCEPT ![s] = @ /\ found = "same"]
  /\ UNCHANGED <<cloneSource, renderVars, readerVars, kernelVars, gbmVars, active, overrun>>

\* resizeSurface: setSurface releases both buffers, then the old surface is
\* destroyed with its buffer objects and their framebuffers.  A thread between
\* two frames may or may not have made the old surface current.
SetSurface(s) ==
  LET crtcs == {s} \cup Clones(s)
  IN /\ gui[s] = "changed" /\ Renders(s)
     /\ gui' = [gui EXCEPT ![s] = "resized"]
     /\ cur' = [cur EXCEPT ![s] = NoBO] /\ next' = [next EXCEPT ![s] = NoBO]
     /\ locked' = [locked EXCEPT ![s] = {}] /\ front' = [front EXCEPT ![s] = NoBO]
     /\ \E begun \in BOOLEAN : /\ pc[s] = "draw" \/ begun
                               /\ stale' = [stale EXCEPT ![s] = begun]
     /\ scanout' = [c \in Screens |-> IF c \in crtcs THEN NoBO ELSE scanout[c]]
     /\ inflight' = [c \in Screens |-> IF c \in crtcs /\ inflight[c] # NoBO THEN Gone ELSE inflight[c]]
     /\ overrun' = [overrun EXCEPT ![s] = @ \/ (next[s] # NoBO /\ pc[s] \in {"draw", "swap", "present"})]
     /\ UNCHANGED <<cloneSource, pc, clonePending, readerVars, events, active, modeSet, disturbances>>

\* setModeChangeRequested(false), also when no surface could be made.
EndModeChange(s) ==
  /\ gui[s] # "none"
  /\ gui' = [gui EXCEPT ![s] = "none"]
  /\ UNCHANGED <<cloneSource, renderVars, readerVars, kernelVars, gbmVars, active,
                 modeSet, disturbances, overrun>>
-----------------------------------------------------------------------------
Next ==
  \/ RegisterWait
  \/ HandleFlipEvent
  \/ SwitchSession
  \/ \E s \in Screens :
       \/ WaitForFlip(s) \/ Sleep(s) \/ FlipFinished(s)
       \/ Swap(s) \/ Present(s) \/ PageFlip(s) \/ CrashInFlip(s)
       \/ FlipCompletes(s)
       \/ RequestModeChange(s) \/ SetSurface(s) \/ EndModeChange(s)

\* The kernel completes every flip it has accepted, the reader thread runs its
\* event loop and a render thread that has posted its wait goes to sleep.
Fairness ==
  /\ WF_vars(RegisterWait)
  /\ WF_vars(HandleFlipEvent)
  /\ \A s \in Screens : WF_vars(Sleep(s)) /\ WF_vars(FlipCompletes(s))

Spec == Init /\ [][Next]_vars
FairSpec == Spec /\ Fairness
-----------------------------------------------------------------------------
(* Properties.                                                             *)

\* The event host never holds a wait and the completion it is for: although
\* updateStatus gives up after the first pair it wakes, no pair is left over.
WaitsAreMatched == waits \cap completed = {}

\* A completion of s that the reader has stored, can read, or will get.
Outstanding(s) == inflight[s] # NoBO \/ s \in SeqRange(events) \/ s \in completed

\* A render thread sleeps only for a flip whose completion is still to come or
\* is stored, and its wait is registered or on the way: whatever waits were
\* skipped, flips refused and surfaces replaced before, it does not freeze.
\* (A screen with clones may: see Clones in FlipFinished.)
NoEndlessWait ==
  \A s \in Screens :
    pc[s] \in {"locked", "waiting"} /\ Clones(s) = {} =>
      Outstanding(s) /\ (s \in waits \/ s \in SeqRange(posted))

\* What a CRTC shows, or will show with its next flip, is a buffer the screen
\* keeps locked, so nothing is drawn into it, as long as every flip of the
\* screen was waited for before the next.
ShownIsLocked ==
  \A s \in Screens :
    ~overrun[s] /\ Clones(s) = {} /\ Renders(s) =>
      {scanout[s], inflight[s]} \subseteq locked[s] \cup {NoBO, Gone}

\* A locked buffer is the current or the next one, so it is released some day:
\* gbm has only a few, and a screen that loses one for good stops rendering.
NoBufferLost ==
  \A s \in Screens :
    ~overrun[s] /\ Clones(s) = {} => locked[s] = {cur[s], next[s]} \ {NoBO}

\* A render thread that sleeps in waitForFlip is woken.
WaitEnds ==
  \A s \in Screens :
    pc[s] = "waiting" /\ Clones(s) = {} ~> pc[s] # "waiting"
=============================================================================
