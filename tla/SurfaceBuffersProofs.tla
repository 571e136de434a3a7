------------------------ MODULE SurfaceBuffersProofs ------------------------
(***************************************************************************)
(* What holds of SurfaceBuffers for any number of surfaces, views and      *)
(* buffers.                                                                *)
(***************************************************************************)
EXTENDS SurfaceBuffers, ListProofs

(* Every buffer has its state, its object and its flags in range after     *)
(* references were dropped.                                                *)
LEMMA DerefType ==
  ASSUME NEW com \in [Buffer -> BOOLEAN], NEW obj \in [Buffer -> Life], NEW given,
         TypeOK, Deref(com, obj, given)
  PROVE  /\ resource' \in [Buffer -> {"none", "live", "destroyed"}]
         /\ object' \in [Buffer -> Life]
         /\ committed' \in [Buffer -> BOOLEAN]
         /\ lent' \in [Buffer -> BOOLEAN]
<1> DEFINE dropped == {b \in Buffer : InUse(b) /\ ~InUse(b)'}
           released == {b \in dropped : Releases(b, com)}
<1>1. /\ committed' = [b \in Buffer |-> com[b] /\ b \notin released]
      /\ object' = [b \in Buffer |-> IF b \in dropped /\ resource[b] = "destroyed"
                                     THEN "deleted" ELSE obj[b]]
      /\ lent' = [b \in Buffer |-> b = given \/ (lent[b] /\ b \notin released)]
      /\ resource' = resource
  BY DEF Deref
<1> HIDE DEF dropped, released
<1>2. committed' \in [Buffer -> BOOLEAN] /\ lent' \in [Buffer -> BOOLEAN]
  BY <1>1
<1>3. object' \in [Buffer -> Life]
  BY <1>1 DEF Life
<1> QED BY <1>1, <1>2, <1>3 DEF TypeOK

-----------------------------------------------------------------------------
(* Type correctness, action by action. *)

LEMMA InitType == Init => TypeOK
BY DEF Init, TypeOK, MaybeBuffer, MaybeSurface, Life

(* A surface some view shows is counted at least once.                     *)
LEMMA Counted ==
  ASSUME TypeOK, ViewsMatch, NEW v \in View, viewSurface[v] # NoSurface
  PROVE  /\ viewSurface[v] \in Surface
         /\ refCount[viewSurface[v]] >= 1
<1>1. viewSurface[v] \in Surface
  BY DEF TypeOK, MaybeSurface
<1>2. surface[viewSurface[v]] = "alive" /\ Len(views[viewSurface[v]]) \in Nat
  BY <1>1, LenProperties DEF ViewsMatch, TypeOK
<1> QED BY <1>1, <1>2 DEF ViewsMatch

LEMMA MoveViewType ==
  ASSUME TypeOK, ViewsMatch, NEW v \in View, NEW s \in MaybeSurface, NEW q \in Seq(View),
         MoveView(v, s, q)
  PROVE  /\ views' \in [Surface -> Seq(View)]
         /\ refCount' \in [Surface -> Nat]
<1>1. \A t \in Surface : Without(views[t], v) \in Seq(View)
  BY WithoutType DEF TypeOK
<1>2. views' \in [Surface -> Seq(View)]
  BY <1>1 DEF MoveView, TypeOK
<1>3. ASSUME NEW t \in Surface
      PROVE  (IF t = viewSurface[v] THEN refCount[t] - 1
              ELSE IF t = s THEN refCount[t] + 1 ELSE refCount[t]) \in Nat
  <2>1. refCount[t] \in Nat /\ t # NoSurface
    BY NullAssumption DEF TypeOK
  <2>2. t = viewSurface[v] => refCount[t] >= 1
    BY <2>1, Counted
  <2> QED BY <2>1, <2>2
<1> QED BY <1>2, <1>3 DEF MoveView

LEMMA TakeSurfaceType ==
  ASSUME TypeOK, ViewsMatch, NEW v \in View, NEW s \in MaybeSurface, NEW q \in Seq(View),
         TakeSurface(v, s, q)
  PROVE  TypeOK'
<1>1. MoveView(v, s, q) /\ Deref(committed, object, NoBuffer)
  BY DEF TakeSurface
<1>2. /\ views' \in [Surface -> Seq(View)]
      /\ refCount' \in [Surface -> Nat]
  BY <1>1, MoveViewType
<1>3. /\ resource' \in [Buffer -> {"none", "live", "destroyed"}]
      /\ object' \in [Buffer -> Life]
      /\ committed' \in [Buffer -> BOOLEAN]
      /\ lent' \in [Buffer -> BOOLEAN]
  BY <1>1, DerefType DEF TypeOK
<1>4. Handed(s) \in MaybeBuffer /\ NoBuffer \in MaybeBuffer
  BY DEF Handed, TypeOK, MaybeBuffer, MaybeSurface
<1>5. UNCHANGED <<surface, pending, newlyAttached, bufferRef, view, bufferLocked,
                  forceAdvanceSucceed, allowDiscard, newTexture, node, provider, material,
                  textureDirty>>
  BY DEF TakeSurface, itemVars
<1>6. /\ viewSurface' \in [View -> MaybeSurface]
      /\ nextBuffer' \in [View -> MaybeBuffer]
      /\ nextBufferCommitted' \in [View -> BOOLEAN]
      /\ currentBuffer' \in [View -> MaybeBuffer]
  BY <1>4 DEF TakeSurface, TypeOK
<1> QED BY <1>2, <1>3, <1>5, <1>6 DEF TypeOK

LEMMA SurfaceStepType ==
  ASSUME TypeOK, NEW s \in Surface
  PROVE  /\ CreateSurface(s) => TypeOK'
         /\ \A b \in MaybeBuffer : Attach(s, b) => TypeOK'
         /\ Commit(s) => TypeOK'
         /\ \A lockers, deleters \in SUBSET View :
              DestroySurface(s, lockers, deleters) => TypeOK'
<1>1. CreateSurface(s) => TypeOK'
  BY DEF CreateSurface, TypeOK, bufferVars, viewVars, itemVars, Life
<1>2. ASSUME NEW b \in MaybeBuffer, Attach(s, b)
      PROVE  TypeOK'
  <2> DEFINE obj == [c \in Buffer |-> IF c = b /\ object[c] = "none" THEN "alive" ELSE object[c]]
  <2>1. obj \in [Buffer -> Life] /\ Deref(committed, obj, NoBuffer)
    BY <1>2 DEF Attach, TypeOK, Life
  <2> HIDE DEF obj
  <2>2. /\ resource' \in [Buffer -> {"none", "live", "destroyed"}]
        /\ object' \in [Buffer -> Life]
        /\ committed' \in [Buffer -> BOOLEAN]
        /\ lent' \in [Buffer -> BOOLEAN]
    BY <2>1, DerefType DEF TypeOK
  <2> QED BY <1>2, <2>2 DEF Attach, TypeOK, viewVars, itemVars
<1>3. ASSUME Commit(s)
      PROVE  TypeOK'
  <2> DEFINE b == CommittedBuffer(s)
             com == [c \in Buffer |-> c = b \/ committed[c]]
             given == IF HasContent(pending[s]) THEN pending[s] ELSE NoBuffer
  <2>1. b \in MaybeBuffer
    BY DEF CommittedBuffer, TypeOK
  <2>2. com \in [Buffer -> BOOLEAN] /\ Deref(com, object, given)
    BY <1>3 DEF Commit, TypeOK
  <2>3. /\ bufferRef' \in [Surface -> MaybeBuffer]
        /\ pending' \in [Surface -> MaybeBuffer]
        /\ newlyAttached' \in [Surface -> BOOLEAN]
        /\ nextBuffer' \in [View -> MaybeBuffer]
        /\ nextBufferCommitted' \in [View -> BOOLEAN]
        /\ textureDirty' \in [Buffer -> BOOLEAN]
    BY <1>3, <2>1 DEF Commit, TypeOK, MaybeBuffer
  <2> HIDE DEF com, given
  <2>4. /\ resource' \in [Buffer -> {"none", "live", "destroyed"}]
        /\ object' \in [Buffer -> Life]
        /\ committed' \in [Buffer -> BOOLEAN]
        /\ lent' \in [Buffer -> BOOLEAN]
    BY <2>2, DerefType DEF TypeOK
  <2> QED BY <1>3, <2>3, <2>4 DEF Commit, TypeOK, itemVars
<1>4. ASSUME NEW lockers \in SUBSET View, NEW deleters \in SUBSET View,
             DestroySurface(s, lockers, deleters)
      PROVE  TypeOK'
  <2>1. Deref(committed, object, NoBuffer)
    BY <1>4 DEF DestroySurface
  <2>2. /\ resource' \in [Buffer -> {"none", "live", "destroyed"}]
        /\ object' \in [Buffer -> Life]
        /\ committed' \in [Buffer -> BOOLEAN]
        /\ lent' \in [Buffer -> BOOLEAN]
    BY <2>1, DerefType DEF TypeOK
  <2>3. /\ surface' \in [Surface -> Life]
        /\ refCount' \in [Surface -> Nat]
        /\ views' \in [Surface -> Seq(View)]
        /\ pending' \in [Surface -> MaybeBuffer]
        /\ newlyAttached' \in [Surface -> BOOLEAN]
        /\ bufferRef' \in [Surface -> MaybeBuffer]
    BY <1>4, EmptySeq DEF DestroySurface, TypeOK, Life, MaybeBuffer
  <2>4. /\ viewSurface' \in [View -> MaybeSurface]
        /\ nextBuffer' \in [View -> MaybeBuffer]
        /\ nextBufferCommitted' \in [View -> BOOLEAN]
        /\ bufferLocked' \in [View -> BOOLEAN]
        /\ view' \in [View -> Life]
    BY <1>4 DEF DestroySurface, TypeOK, Life, MaybeBuffer, MaybeSurface
  <2>5. currentBuffer' \in [View -> MaybeBuffer]
    BY <1>4 DEF DestroySurface, TypeOK, MaybeBuffer
  <2> QED BY <1>4, <2>2, <2>3, <2>4, <2>5 DEF DestroySurface, TypeOK, itemVars
<1> QED BY <1>1, <1>2, <1>3, <1>4

LEMMA ViewStepType ==
  ASSUME TypeOK, ViewsMatch, NEW v \in View
  PROVE  /\ CreateView(v) => TypeOK'
         /\ \A s \in MaybeSurface : SetSurface(v, s) => TypeOK'
         /\ \A s \in Surface : SetPrimaryView(s, v) => TypeOK'
         /\ \A locked \in BOOLEAN : SetBufferLocked(v, locked) => TypeOK'
         /\ \A allowed \in BOOLEAN : SetAllowDiscardFrontBuffer(v, allowed) => TypeOK'
         /\ DiscardCurrentBuffer(v) => TypeOK'
         /\ DeleteView(v) => TypeOK'
<1>1. CreateView(v) => TypeOK'
  BY DEF CreateView, TypeOK, bufferVars, surfaceVars, itemVars, Life
<1>2. ASSUME NEW s \in MaybeSurface, SetSurface(v, s)
      PROVE  TypeOK'
  <2> DEFINE q == IF s = NoSurface THEN <<>> ELSE Append(views[s], v)
  <2>1. q \in Seq(View)
    BY EmptySeq, AppendProperties DEF TypeOK, MaybeSurface
  <2>2. TakeSurface(v, s, q)
    BY <1>2 DEF SetSurface
  <2> QED BY <2>1, <2>2, TakeSurfaceType
<1>3. ASSUME NEW s \in Surface, SetPrimaryView(s, v)
      PROVE  TypeOK'
  <2>1. <<v>> \in Seq(View) /\ views[s] \in Seq(View) /\ Without(views[s], v) \in Seq(View)
    BY WithoutType DEF TypeOK
  <2>2. <<v>> \o views[s] \in Seq(View) /\ <<v>> \o Without(views[s], v) \in Seq(View)
    BY <2>1, ConcatProperties
  <2>3. CASE viewSurface[v] = s
    <3>1. /\ views' = [views EXCEPT ![s] = <<v>> \o Without(views[s], v)]
          /\ UNCHANGED <<bufferVars, surface, refCount, pending, newlyAttached,
                         bufferRef, viewVars, itemVars>>
      BY <1>3, <2>3 DEF SetPrimaryView
    <3>2. views' \in [Surface -> Seq(View)]
      BY <2>2, <3>1 DEF TypeOK
    <3> QED BY <3>1, <3>2 DEF TypeOK, bufferVars, viewVars, itemVars
  <2>4. CASE viewSurface[v] # s
    <3>1. TakeSurface(v, s, <<v>> \o views[s])
      BY <1>3, <2>4 DEF SetPrimaryView
    <3> QED BY <2>2, <3>1, TakeSurfaceType DEF MaybeSurface
  <2> QED BY <2>3, <2>4
<1>4. ASSUME NEW flag \in BOOLEAN
      PROVE  /\ SetBufferLocked(v, flag) => TypeOK'
             /\ SetAllowDiscardFrontBuffer(v, flag) => TypeOK'
  <2>1. SetBufferLocked(v, flag) => TypeOK'
    BY DEF SetBufferLocked, TypeOK, bufferVars, surfaceVars, itemVars
  <2>2. SetAllowDiscardFrontBuffer(v, flag) => TypeOK'
    BY DEF SetAllowDiscardFrontBuffer, TypeOK, bufferVars, surfaceVars, itemVars
  <2> QED BY <2>1, <2>2
<1>5. ASSUME DiscardCurrentBuffer(v)
      PROVE  TypeOK'
  <2>1. /\ resource' \in [Buffer -> {"none", "live", "destroyed"}]
        /\ object' \in [Buffer -> Life]
        /\ committed' \in [Buffer -> BOOLEAN]
        /\ lent' \in [Buffer -> BOOLEAN]
    BY <1>5, DerefType DEF TypeOK, DiscardCurrentBuffer
  <2> QED BY <1>5, <2>1 DEF DiscardCurrentBuffer, TypeOK, surfaceVars, itemVars, MaybeBuffer
<1>6. ASSUME DeleteView(v)
      PROVE  TypeOK'
  <2>1. Deref(committed, object, NoBuffer) /\ MoveView(v, NoSurface, <<>>)
    BY <1>6 DEF DeleteView
  <2>2. /\ resource' \in [Buffer -> {"none", "live", "destroyed"}]
        /\ object' \in [Buffer -> Life]
        /\ committed' \in [Buffer -> BOOLEAN]
        /\ lent' \in [Buffer -> BOOLEAN]
    BY <2>1, DerefType DEF TypeOK
  <2>3. /\ views' \in [Surface -> Seq(View)]
        /\ refCount' \in [Surface -> Nat]
    BY <2>1, MoveViewType, EmptySeq DEF MaybeSurface
  <2> QED BY <1>6, <2>2, <2>3 DEF DeleteView, TypeOK, itemVars, MaybeBuffer, MaybeSurface, Life
<1> QED BY <1>1, <1>2, <1>3, <1>4, <1>5, <1>6

LEMMA AdvanceType ==
  ASSUME TypeOK, NEW v \in View, Advance(v)
  PROVE  /\ currentBuffer' \in [View -> MaybeBuffer]
         /\ forceAdvanceSucceed' \in [View -> BOOLEAN]
         /\ nextBufferCommitted' \in [View -> BOOLEAN]
BY DEF Advance, TypeOK, MaybeBuffer

LEMMA RenderStepType ==
  ASSUME TypeOK, NEW v \in View
  PROVE  /\ \A dirty, enabled \in BOOLEAN : Sync(v, dirty, enabled) => TypeOK'
         /\ AdvanceView(v) => TypeOK'
         /\ DropNode(v) => TypeOK'
         /\ DropProvider(v) => TypeOK'
         /\ UploadTexture(v) => TypeOK'
<1> DEFINE BuffersOK == /\ resource' \in [Buffer -> {"none", "live", "destroyed"}]
                        /\ object' \in [Buffer -> Life]
                        /\ committed' \in [Buffer -> BOOLEAN]
                        /\ lent' \in [Buffer -> BOOLEAN]
<1>0. Deref(committed, object, NoBuffer) => BuffersOK
  BY DerefType DEF TypeOK
<1>1. ASSUME NEW dirty \in BOOLEAN, NEW enabled \in BOOLEAN, Sync(v, dirty, enabled)
      PROVE  TypeOK'
  <2>1. /\ currentBuffer' \in [View -> MaybeBuffer]
        /\ forceAdvanceSucceed' \in [View -> BOOLEAN]
        /\ nextBufferCommitted' \in [View -> BOOLEAN]
    BY <1>1, AdvanceType DEF Sync
  <2>2. UpdatePaintNode(v, dirty, enabled)
    BY <1>1 DEF Sync
  <2> DEFINE skipped == ~dirty \/ (bufferLocked[v] /\ enabled)
             shown   == IF skipped THEN node[v] ELSE Shown(v, enabled)
             fresh   == newTexture[v] \/ CanAdvance(v)
             set     == ~skipped /\ shown # "none" /\ (fresh \/ node[v] # shown)
  <2>3. shown \in {"none", "provider", "material"}
    BY DEF Shown, TypeOK
  <2>4. /\ node' = [node EXCEPT ![v] = shown]
        /\ newTexture' = [newTexture EXCEPT ![v] = fresh /\ ~set]
        /\ provider' = [provider EXCEPT ![v] = IF set /\ shown = "provider"
                                              THEN currentBuffer'[v] ELSE @]
        /\ material' = [material EXCEPT ![v] = IF shown # "material" THEN NoBuffer
                                              ELSE IF set THEN currentBuffer'[v] ELSE @]
    BY <2>2 DEF UpdatePaintNode
  <2> HIDE DEF shown, fresh, set
  <2>5. /\ node' \in [View -> {"none", "provider", "material"}]
        /\ newTexture' \in [View -> BOOLEAN]
        /\ provider' \in [View -> MaybeBuffer]
        /\ material' \in [View -> MaybeBuffer]
    BY <2>1, <2>3, <2>4 DEF TypeOK, MaybeBuffer
  <2>6. BuffersOK
    BY <1>0, <1>1 DEF Sync
  <2> QED BY <1>1, <2>1, <2>5, <2>6 DEF Sync, TypeOK, surfaceVars
<1>2. ASSUME AdvanceView(v)
      PROVE  TypeOK'
  <2>1. /\ currentBuffer' \in [View -> MaybeBuffer]
        /\ forceAdvanceSucceed' \in [View -> BOOLEAN]
        /\ nextBufferCommitted' \in [View -> BOOLEAN]
    BY <1>2, AdvanceType DEF AdvanceView
  <2>2. BuffersOK
    BY <1>0, <1>2 DEF AdvanceView
  <2> QED BY <1>2, <2>1, <2>2 DEF AdvanceView, TypeOK, surfaceVars, itemVars
<1>3. ASSUME DropNode(v)
      PROVE  TypeOK'
  <2>1. BuffersOK
    BY <1>0, <1>3 DEF DropNode
  <2> QED BY <1>3, <2>1 DEF DropNode, TypeOK, surfaceVars, viewVars, MaybeBuffer
<1>4. ASSUME DropProvider(v)
      PROVE  TypeOK'
  <2>1. BuffersOK
    BY <1>0, <1>4 DEF DropProvider
  <2> QED BY <1>4, <2>1 DEF DropProvider, TypeOK, surfaceVars, viewVars, MaybeBuffer
<1>5. ASSUME UploadTexture(v)
      PROVE  TypeOK'
  <2>1. UNCHANGED <<resource, object, surfaceVars, viewVars, itemVars>>
    BY <1>5 DEF UploadTexture
  <2>2. /\ textureDirty' \in [Buffer -> BOOLEAN]
        /\ committed' \in [Buffer -> BOOLEAN]
        /\ lent' \in [Buffer -> BOOLEAN]
    BY <1>5 DEF UploadTexture, TypeOK
  <2> QED BY <2>1, <2>2 DEF TypeOK, surfaceVars, viewVars, itemVars
<1> QED BY <1>1, <1>2, <1>3, <1>4, <1>5

LEMMA BufferStepType ==
  ASSUME TypeOK, NEW b \in Buffer
  PROVE  /\ CreateBuffer(b) => TypeOK'
         /\ DestroyBuffer(b) => TypeOK'
<1>1. CreateBuffer(b) => TypeOK'
  BY DEF CreateBuffer, TypeOK, surfaceVars, viewVars, itemVars
<1>2. ASSUME DestroyBuffer(b)
      PROVE  TypeOK'
  <2>1. object' \in [Buffer -> Life]
    BY <1>2 DEF DestroyBuffer, TypeOK, Life
  <2> QED BY <1>2, <2>1 DEF DestroyBuffer, TypeOK, surfaceVars, viewVars, itemVars
<1> QED BY <1>1, <1>2

LEMMA TypeStep == TypeOK /\ ViewsMatch /\ [Next]_vars => TypeOK'
<1> SUFFICES ASSUME TypeOK, ViewsMatch, [Next]_vars
             PROVE  TypeOK'
  OBVIOUS
<1>1. ClientNext => TypeOK'
  BY BufferStepType, SurfaceStepType DEF ClientNext
<1>2. ApplicationNext => TypeOK'
  BY ViewStepType DEF ApplicationNext
<1>3. RenderNext => TypeOK'
  BY RenderStepType DEF RenderNext
<1>4. UNCHANGED vars => TypeOK'
  BY DEF vars, bufferVars, surfaceVars, viewVars, itemVars, TypeOK
<1> QED BY <1>1, <1>2, <1>3, <1>4 DEF Next

-----------------------------------------------------------------------------
(* The lists of views. *)

(* A view that moves from one surface to another, or to none.              *)
LEMMA MoveViewMatch ==
  ASSUME TypeOK, ViewsMatch, NEW v \in View, NEW s \in MaybeSurface, NEW q,
         MoveView(v, s, q),
         viewSurface' = [viewSurface EXCEPT ![v] = s],
         surface' = surface,
         \A w \in View \ {v} : view'[w] = view[w],
         s # NoSurface => /\ s # viewSurface[v] /\ surface[s] = "alive" /\ view'[v] = "alive"
                          /\ Distinct(q)
                          /\ SeqRange(q) = SeqRange(views[s]) \cup {v}
                          /\ Len(q) = Len(views[s]) + 1
  PROVE  ViewsMatch'
<1> SUFFICES ASSUME NEW t \in Surface
             PROVE  /\ \A w \in View : w \in SeqRange(views'[t]) <=> viewSurface'[w] = t
                    /\ Distinct(views'[t])
                    /\ \A w \in View : viewSurface'[w] = t => view'[w] = "alive" /\ surface'[t] = "alive"
                    /\ refCount'[t] = IF surface'[t] = "alive" THEN 1 + Len(views'[t]) ELSE 0
  BY DEF ViewsMatch, SeqRange, Distinct
<1>1. /\ \A w \in View : w \in SeqRange(views[t]) <=> viewSurface[w] = t
      /\ Distinct(views[t])
      /\ \A w \in View : viewSurface[w] = t => view[w] = "alive" /\ surface[t] = "alive"
      /\ refCount[t] = IF surface[t] = "alive" THEN 1 + Len(views[t]) ELSE 0
  BY DEF ViewsMatch
<1>2. /\ views[t] \in Seq(View) /\ Len(views[t]) \in Nat
      /\ t # NoSurface
      /\ \A w \in View : viewSurface'[w] = IF w = v THEN s ELSE viewSurface[w]
  BY LenProperties, NullAssumption DEF TypeOK
<1>3. /\ views'[t] = IF t = s THEN q
                     ELSE IF t = viewSurface[v] THEN Without(views[t], v) ELSE views[t]
      /\ refCount'[t] = IF t = viewSurface[v] THEN refCount[t] - 1
                        ELSE IF t = s THEN refCount[t] + 1 ELSE refCount[t]
  BY DEF MoveView
<1>4. CASE t = s
  BY <1>1, <1>2, <1>3, <1>4
<1>5. CASE t # s /\ t = viewSurface[v]
  <2>1. /\ SeqRange(views'[t]) = SeqRange(views[t]) \ {v}
        /\ Distinct(views'[t])
        /\ Len(views'[t]) = Len(views[t]) - 1
    BY <1>1, <1>2, <1>3, <1>5, WithoutFacts
  <2> QED BY <1>1, <1>2, <1>3, <1>5, <2>1
<1>6. CASE t # s /\ t # viewSurface[v]
  BY <1>1, <1>2, <1>3, <1>6
<1> QED BY <1>4, <1>5, <1>6

(* A surface that is gone, or not there yet, lists no view.                *)
LEMMA NoViewsUnlessAlive ==
  ASSUME TypeOK, ViewsMatch, NEW s \in Surface, surface[s] # "alive"
  PROVE  views[s] = <<>> /\ \A v \in View : viewSurface[v] # s
<1>1. \A v \in View : viewSurface[v] # s /\ v \notin SeqRange(views[s])
  BY DEF ViewsMatch
<1>2. views[s] \in Seq(View) /\ Len(views[s]) \in Nat
  BY LenProperties DEF TypeOK
<1>3. Len(views[s]) = 0
  <2> SUFFICES ASSUME Len(views[s]) >= 1
               PROVE  FALSE
    BY <1>2
  <2>1. views[s][1] \in View /\ views[s][1] \in SeqRange(views[s])
    BY <1>2, ElementOfSeq DEF SeqRange
  <2> QED BY <1>1, <2>1
<1> QED BY <1>1, <1>2, <1>3, EmptySeq

(* Steps that move no view and end no surface.                             *)
LEMMA ViewsUntouched ==
  ASSUME ViewsMatch, UNCHANGED <<surface, refCount, views, view, viewSurface>>
  PROVE  ViewsMatch'
BY DEF ViewsMatch, SeqRange, Distinct

LEMMA ViewsMatchStep == TypeOK /\ ViewsMatch /\ [Next]_vars => ViewsMatch'
<1> SUFFICES ASSUME TypeOK, ViewsMatch, [Next]_vars
             PROVE  ViewsMatch'
  OBVIOUS
<1>1. ASSUME NEW b \in Buffer, CreateBuffer(b) \/ DestroyBuffer(b)
      PROVE  ViewsMatch'
  BY <1>1, ViewsUntouched DEF CreateBuffer, DestroyBuffer, surfaceVars, viewVars
<1>2. ASSUME NEW s \in Surface, CreateSurface(s)
      PROVE  ViewsMatch'
  <2>1. views[s] = <<>> /\ \A v \in View : viewSurface[v] # s
    BY <1>2, NoViewsUnlessAlive DEF CreateSurface
  <2>2. Len(<<>>) = 0
    BY EmptySeq
  <2>3. /\ surface' = [surface EXCEPT ![s] = "alive"]
        /\ refCount' = [refCount EXCEPT ![s] = 1]
        /\ UNCHANGED <<views, view, viewSurface>>
    BY <1>2 DEF CreateSurface, viewVars
  <2> QED BY <2>1, <2>2, <2>3 DEF ViewsMatch, SeqRange, Distinct, TypeOK
<1>3. ASSUME NEW s \in Surface, NEW b \in MaybeBuffer, Attach(s, b)
      PROVE  ViewsMatch'
  BY <1>3, ViewsUntouched DEF Attach, viewVars
<1>4. ASSUME NEW s \in Surface, Commit(s)
      PROVE  ViewsMatch'
  BY <1>4, ViewsUntouched DEF Commit
<1>5. ASSUME NEW s \in Surface, NEW lockers \in SUBSET View, NEW deleters \in SUBSET View,
             DestroySurface(s, lockers, deleters)
      PROVE  ViewsMatch'
  <2>1. /\ surface' = [surface EXCEPT ![s] = "deleted"]
        /\ refCount' = [refCount EXCEPT ![s] = 0]
        /\ views' = [views EXCEPT ![s] = <<>>]
        /\ viewSurface' = [v \in View |-> IF v \in SeqRange(views[s]) THEN NoSurface ELSE viewSurface[v]]
        /\ view' = [v \in View |-> IF v \in deleters THEN "deleted" ELSE view[v]]
        /\ deleters \subseteq SeqRange(views[s])
    BY <1>5 DEF DestroySurface
  <2>2. \A v \in View : v \in SeqRange(views[s]) <=> viewSurface[v] = s
    BY DEF ViewsMatch
  <2>3. Len(<<>>) = 0 /\ NoSurface \notin Surface
    BY EmptySeq, NullAssumption
  <2>4. ASSUME NEW t \in Surface, t # s
        PROVE  /\ \A w \in View : w \in SeqRange(views'[t]) <=> viewSurface'[w] = t
               /\ Distinct(views'[t])
               /\ \A w \in View : viewSurface'[w] = t => view'[w] = "alive" /\ surface'[t] = "alive"
               /\ refCount'[t] = IF surface'[t] = "alive" THEN 1 + Len(views'[t]) ELSE 0
    BY <2>1, <2>2, <2>3, <2>4 DEF ViewsMatch, TypeOK
  <2>5. /\ \A w \in View : w \in SeqRange(views'[s]) <=> viewSurface'[w] = s
        /\ Distinct(views'[s])
        /\ \A w \in View : viewSurface'[w] = s => view'[w] = "alive" /\ surface'[s] = "alive"
        /\ refCount'[s] = IF surface'[s] = "alive" THEN 1 + Len(views'[s]) ELSE 0
    <3>1. views'[s] = <<>> /\ surface'[s] = "deleted" /\ refCount'[s] = 0
      BY <2>1 DEF TypeOK
    <3>2. \A w \in View : viewSurface'[w] # s
      BY <2>1, <2>2, <2>3
    <3> QED BY <2>3, <3>1, <3>2 DEF SeqRange, Distinct
  <2> QED BY <2>4, <2>5 DEF ViewsMatch, SeqRange, Distinct
<1>6. ASSUME NEW v \in View, CreateView(v)
      PROVE  ViewsMatch'
  <2>1. /\ view' = [view EXCEPT ![v] = "alive"]
        /\ UNCHANGED <<surface, refCount, views, viewSurface>>
    BY <1>6 DEF CreateView, surfaceVars
  <2> QED BY <2>1 DEF ViewsMatch, SeqRange, Distinct, TypeOK
<1>7. ASSUME NEW v \in View, NEW s \in MaybeSurface, SetSurface(v, s)
      PROVE  ViewsMatch'
  <2> DEFINE q == IF s = NoSurface THEN <<>> ELSE Append(views[s], v)
  <2>1. /\ view[v] = "alive" /\ s # viewSurface[v]
        /\ s # NoSurface => s \in Surface /\ surface[s] = "alive"
        /\ TakeSurface(v, s, q)
    BY <1>7 DEF SetSurface, MaybeSurface
  <2>2. /\ MoveView(v, s, q)
        /\ viewSurface' = [viewSurface EXCEPT ![v] = s]
        /\ surface' = surface /\ view' = view
    BY <2>1 DEF TakeSurface
  <2>3. ASSUME s # NoSurface
        PROVE  /\ Distinct(q)
               /\ SeqRange(q) = SeqRange(views[s]) \cup {v}
               /\ Len(q) = Len(views[s]) + 1
    <3>1. /\ views[s] \in Seq(View) /\ Distinct(views[s])
          /\ v \notin SeqRange(views[s])
      BY <2>1, <2>3 DEF ViewsMatch, TypeOK
    <3> QED BY <2>3, <3>1, AppendFacts
  <2> QED BY <2>1, <2>2, <2>3, MoveViewMatch
<1>8. ASSUME NEW v \in View, NEW s \in Surface, SetPrimaryView(s, v)
      PROVE  ViewsMatch'
  <2>0. /\ views[s] \in Seq(View) /\ Distinct(views[s]) /\ Len(views[s]) \in Nat
        /\ v \in SeqRange(views[s]) <=> viewSurface[v] = s
        /\ view[v] = "alive" /\ surface[s] = "alive"
    BY <1>8, LenProperties DEF ViewsMatch, TypeOK, SetPrimaryView
  <2>1. CASE viewSurface[v] = s
    <3> DEFINE rest == Without(views[s], v)
    <3>1. /\ SeqRange(rest) = SeqRange(views[s]) \ {v}
          /\ Distinct(rest)
          /\ Len(rest) = Len(views[s]) - 1
          /\ rest \in Seq(View)
      BY <2>0, <2>1, WithoutFacts, WithoutType
    <3> HIDE DEF rest
    <3>2. /\ SeqRange(<<v>> \o rest) = SeqRange(rest) \cup {v}
          /\ Distinct(<<v>> \o rest)
          /\ Len(<<v>> \o rest) = Len(rest) + 1
      BY <3>1, PrependFacts
    <3>3. /\ views' = [views EXCEPT ![s] = <<v>> \o rest]
          /\ UNCHANGED <<surface, refCount, view, viewSurface>>
      BY <1>8, <2>1 DEF SetPrimaryView, viewVars, rest
    <3>5. SeqRange(<<v>> \o rest) = SeqRange(views[s])
      BY <2>0, <2>1, <3>1, <3>2
    <3>6. Len(<<v>> \o rest) = Len(views[s])
      BY <2>0, <2>1, <3>1, <3>2
    <3>7. /\ views'[s] = <<v>> \o rest
          /\ \A t \in Surface : t # s => views'[t] = views[t]
      BY <3>3 DEF TypeOK
    <3>4. /\ SeqRange(views'[s]) = SeqRange(views[s])
          /\ Distinct(views'[s])
          /\ Len(views'[s]) = Len(views[s])
          /\ \A t \in Surface : t # s => views'[t] = views[t]
      BY <3>2, <3>5, <3>6, <3>7
    <3> SUFFICES ASSUME NEW t \in Surface
                 PROVE  /\ \A w \in View : w \in SeqRange(views'[t]) <=> viewSurface'[w] = t
                        /\ Distinct(views'[t])
                        /\ \A w \in View : viewSurface'[w] = t => view'[w] = "alive" /\ surface'[t] = "alive"
                        /\ refCount'[t] = IF surface'[t] = "alive" THEN 1 + Len(views'[t]) ELSE 0
      BY DEF ViewsMatch, SeqRange, Distinct
    <3> QED BY <3>3, <3>4 DEF ViewsMatch
  <2>2. CASE viewSurface[v] # s
    <3>1. TakeSurface(v, s, <<v>> \o views[s])
      BY <1>8, <2>2 DEF SetPrimaryView
    <3>2. /\ MoveView(v, s, <<v>> \o views[s])
          /\ viewSurface' = [viewSurface EXCEPT ![v] = s]
          /\ surface' = surface /\ view' = view
      BY <3>1 DEF TakeSurface
    <3>3. /\ Distinct(<<v>> \o views[s])
          /\ SeqRange(<<v>> \o views[s]) = SeqRange(views[s]) \cup {v}
          /\ Len(<<v>> \o views[s]) = Len(views[s]) + 1
      BY <2>0, <2>2, PrependFacts
    <3> QED BY <2>0, <2>2, <3>2, <3>3, MoveViewMatch DEF MaybeSurface
  <2> QED BY <2>1, <2>2
<1>9. ASSUME NEW v \in View, NEW flag \in BOOLEAN,
             \/ SetBufferLocked(v, flag) \/ SetAllowDiscardFrontBuffer(v, flag)
             \/ DiscardCurrentBuffer(v)
      PROVE  ViewsMatch'
  BY <1>9, ViewsUntouched
     DEF SetBufferLocked, SetAllowDiscardFrontBuffer, DiscardCurrentBuffer, surfaceVars
<1>10. ASSUME NEW v \in View, DeleteView(v)
       PROVE  ViewsMatch'
  <2>1. /\ MoveView(v, NoSurface, <<>>)
        /\ viewSurface' = [viewSurface EXCEPT ![v] = NoSurface]
        /\ surface' = surface
        /\ view' = [view EXCEPT ![v] = "deleted"]
    BY <1>10 DEF DeleteView
  <2>2. \A w \in View \ {v} : view'[w] = view[w]
    BY <2>1 DEF TypeOK
  <2>3. NoSurface \in MaybeSurface
    BY DEF MaybeSurface
  <2> QED BY <2>1, <2>2, <2>3, MoveViewMatch
<1>11. ASSUME NEW v \in View, NEW dirty \in BOOLEAN, NEW enabled \in BOOLEAN,
              \/ Sync(v, dirty, enabled) \/ AdvanceView(v) \/ DropNode(v)
              \/ DropProvider(v) \/ UploadTexture(v)
       PROVE  ViewsMatch'
  BY <1>11, ViewsUntouched
     DEF Sync, AdvanceView, DropNode, DropProvider, UploadTexture, surfaceVars, viewVars
<1>12. CASE UNCHANGED vars
  BY <1>12, ViewsUntouched DEF vars, surfaceVars, viewVars
<1>13. CASE ClientNext
  BY <1>1, <1>2, <1>3, <1>4, <1>5, <1>13 DEF ClientNext
<1>14. CASE ApplicationNext
  BY <1>6, <1>7, <1>8, <1>9, <1>10, <1>14 DEF ApplicationNext
<1>15. CASE RenderNext
  BY <1>11, <1>15 DEF RenderNext
<1> QED BY <1>12, <1>13, <1>14, <1>15 DEF Next

LEMMA InitMatch == Init => ViewsMatch
<1> SUFFICES ASSUME Init
             PROVE  ViewsMatch
  OBVIOUS
<1>1. Len(<<>>) = 0 /\ NoSurface \notin Surface
  BY EmptySeq, NullAssumption
<1>2. \A s \in Surface : surface[s] = "none" /\ refCount[s] = 0 /\ views[s] = <<>>
  BY DEF Init
<1>3. \A v \in View : viewSurface[v] = NoSurface
  BY DEF Init
<1>4. ASSUME NEW s \in Surface
      PROVE  Distinct(views[s]) /\ \A v \in View : v \notin SeqRange(views[s])
  <2>1. 1 .. Len(views[s]) = {}
    BY <1>1, <1>2
  <2> QED BY <2>1 DEF SeqRange, Distinct
<1>5. \A s \in Surface, v \in View : viewSurface[v] # s
  BY <1>1, <1>3
<1> QED BY <1>2, <1>4, <1>5 DEF ViewsMatch

(* Every variable keeps its type, in particular no surface's count of      *)
(* references goes below zero, which is why the proof needs ViewsMatch.    *)
THEOREM TypeCorrect == Safety => []TypeOK
<1>1. Init => TypeOK /\ ViewsMatch
  BY InitType, InitMatch
<1>2. TypeOK /\ ViewsMatch /\ [Next]_vars => (TypeOK /\ ViewsMatch)'
  BY TypeStep, ViewsMatchStep
<1> QED BY <1>1, <1>2, PTL DEF Safety

(* Surfaces and views always agree about each other, and a surface's count *)
(* of references is that of its wl_surface and its views.                  *)
THEOREM ViewsAlwaysMatch == Safety => []ViewsMatch
<1>1. Init => TypeOK /\ ViewsMatch
  BY InitType, InitMatch
<1>2. TypeOK /\ ViewsMatch /\ [Next]_vars => (TypeOK /\ ViewsMatch)'
  BY TypeStep, ViewsMatchStep
<1> QED BY <1>1, <1>2, PTL DEF Safety

-----------------------------------------------------------------------------
(* What the views show. *)

(* The variables that say what surfaces have committed and views show.     *)
showing == <<bufferRef, viewSurface, currentBuffer, nextBuffer,
             nextBufferCommitted, forceAdvanceSucceed>>

(* A view's turn to advance, with an item or without.                      *)
Advances(v) ==
  Advance(v) /\ UNCHANGED <<bufferRef, view, viewSurface, nextBuffer, bufferLocked, allowDiscard>>

(* Six kinds of steps touch it; every other leaves it alone.               *)
LEMMA ShowingSteps ==
  ASSUME [Next]_vars
  PROVE  \/ UNCHANGED showing
         \/ \E s \in Surface : Commit(s)
         \/ \E s \in Surface, lockers, deleters \in SUBSET View : DestroySurface(s, lockers, deleters)
         \/ \E v \in View, s \in MaybeSurface : \E q : TakeSurface(v, s, q)
         \/ \E v \in View : DiscardCurrentBuffer(v)
         \/ \E v \in View : DeleteView(v)
         \/ \E v \in View : Advances(v)
<1>1. CASE ClientNext
  <2>1. ASSUME NEW b \in Buffer, CreateBuffer(b) \/ DestroyBuffer(b)
        PROVE  UNCHANGED showing
    BY <2>1 DEF CreateBuffer, DestroyBuffer, surfaceVars, viewVars, showing
  <2>2. ASSUME NEW s \in Surface, NEW b \in MaybeBuffer, CreateSurface(s) \/ Attach(s, b)
        PROVE  UNCHANGED showing
    BY <2>2 DEF CreateSurface, Attach, viewVars, showing
  <2> QED BY <1>1, <2>1, <2>2 DEF ClientNext, MaybeBuffer
<1>2. CASE ApplicationNext
  <2>1. ASSUME NEW v \in View, NEW flag \in BOOLEAN,
               CreateView(v) \/ SetBufferLocked(v, flag) \/ SetAllowDiscardFrontBuffer(v, flag)
        PROVE  UNCHANGED showing
    BY <2>1 DEF CreateView, SetBufferLocked, SetAllowDiscardFrontBuffer, surfaceVars, showing
  <2>2. ASSUME NEW v \in View, NEW s \in MaybeSurface, SetSurface(v, s)
        PROVE  \E q : TakeSurface(v, s, q)
    BY <2>2 DEF SetSurface
  <2>3. ASSUME NEW v \in View, NEW s \in Surface, SetPrimaryView(s, v)
        PROVE  \/ UNCHANGED showing
               \/ s \in MaybeSurface /\ \E q : TakeSurface(v, s, q)
    <3>1. CASE viewSurface[v] = s
      BY <2>3, <3>1 DEF SetPrimaryView, viewVars, showing
    <3>2. CASE viewSurface[v] # s
      BY <2>3, <3>2 DEF SetPrimaryView, MaybeSurface
    <3> QED BY <3>1, <3>2
  <2> QED BY <1>2, <2>1, <2>2, <2>3 DEF ApplicationNext
<1>3. CASE RenderNext
  <2>1. ASSUME NEW v \in View, DropNode(v) \/ DropProvider(v) \/ UploadTexture(v)
        PROVE  UNCHANGED showing
    BY <2>1 DEF DropNode, DropProvider, UploadTexture, surfaceVars, viewVars, showing
  <2>2. ASSUME NEW v \in View, NEW dirty \in BOOLEAN, NEW enabled \in BOOLEAN,
               Sync(v, dirty, enabled) \/ AdvanceView(v)
        PROVE  Advances(v)
    BY <2>2 DEF Sync, AdvanceView, Advances, surfaceVars
  <2> QED BY <1>3, <2>1, <2>2 DEF RenderNext
<1>4. CASE UNCHANGED vars
  BY <1>4 DEF vars, surfaceVars, viewVars, showing
<1> QED BY <1>1, <1>2, <1>3, <1>4 DEF Next

(* What an advance of v leaves each view with.                             *)
LEMMA AdvanceShows ==
  ASSUME TypeOK, NEW v \in View, Advances(v), NEW w \in View
  PROVE  \/ /\ currentBuffer'[w] = nextBuffer[w] /\ ~bufferLocked[w]
         \/ /\ currentBuffer'[w] = NoBuffer /\ forceAdvanceSucceed'[w] /\ allowDiscard[w]
         \/ /\ currentBuffer'[w] = currentBuffer[w]
            /\ forceAdvanceSucceed'[w] = forceAdvanceSucceed[w]
            /\ nextBufferCommitted'[w] = nextBufferCommitted[w]
<1> DEFINE moved == {u \in {v} : CanAdvance(u)}
<1>1. /\ currentBuffer'[w] = IF w \in moved THEN nextBuffer[w]
                             ELSE IF w \in Discarded(v) THEN NoBuffer ELSE currentBuffer[w]
      /\ forceAdvanceSucceed'[w] = (w \in Discarded(v) \/ (forceAdvanceSucceed[w] /\ w \notin moved))
      /\ nextBufferCommitted'[w] = (nextBufferCommitted[w] /\ w \notin moved)
  BY DEF Advances, Advance
<1>2. w \in moved => ~bufferLocked[w]
  BY DEF CanAdvance
<1>3. w \in Discarded(v) => allowDiscard[w]
  BY DEF Discarded
<1> HIDE DEF moved
<1>4. CASE w \in moved
  BY <1>1, <1>2, <1>4
<1>5. CASE w \notin moved /\ w \in Discarded(v)
  BY <1>1, <1>3, <1>5
<1>6. CASE w \notin moved /\ w \notin Discarded(v)
  <2>1. forceAdvanceSucceed[w] \in BOOLEAN /\ nextBufferCommitted[w] \in BOOLEAN
    BY DEF TypeOK
  <2> QED BY <1>1, <1>6, <2>1
<1> QED BY <1>4, <1>5, <1>6

(* NextMirrorsCommit and Settled are each inductive once surfaces and views*)
(* agree about each other: a view without surface is told of nothing, and  *)
(* every view of a surface is told of its commits.                         *)
LEMMA MirrorStep ==
  ASSUME TypeOK, ViewsMatch, NextMirrorsCommit, Settled, [Next]_vars
  PROVE  NextMirrorsCommit' /\ Settled'
<1> DEFINE Shows(w) ==
             viewSurface'[w] # NoSurface =>
               /\ nextBuffer'[w] = bufferRef'[viewSurface'[w]]
               /\ ~nextBufferCommitted'[w] /\ ~forceAdvanceSucceed'[w]
                    => currentBuffer'[w] = nextBuffer'[w]
<1> SUFFICES ASSUME NEW w \in View
             PROVE  Shows(w)
  BY DEF NextMirrorsCommit, Settled
<1>0. /\ viewSurface[w] # NoSurface =>
           /\ viewSurface[w] \in Surface
           /\ nextBuffer[w] = bufferRef[viewSurface[w]]
           /\ ~nextBufferCommitted[w] /\ ~forceAdvanceSucceed[w] => currentBuffer[w] = nextBuffer[w]
      /\ \A s \in Surface : w \in SeqRange(views[s]) <=> viewSurface[w] = s
      /\ NoSurface \notin Surface
  BY NullAssumption DEF NextMirrorsCommit, Settled, ViewsMatch, TypeOK, MaybeSurface
<1>1. CASE UNCHANGED showing
  BY <1>0, <1>1 DEF showing
<1>2. ASSUME NEW s \in Surface, Commit(s)
      PROVE  Shows(w)
  <2>1. /\ bufferRef'[s] = CommittedBuffer(s)
        /\ \A t \in Surface \ {s} : bufferRef'[t] = bufferRef[t]
        /\ nextBuffer'[w] = IF w \in SeqRange(views[s]) THEN CommittedBuffer(s) ELSE nextBuffer[w]
        /\ nextBufferCommitted'[w] = (w \in SeqRange(views[s]) \/ nextBufferCommitted[w])
        /\ UNCHANGED <<viewSurface, currentBuffer, forceAdvanceSucceed>>
    BY <1>2 DEF Commit, TypeOK
  <2> QED BY <1>0, <2>1
<1>3. ASSUME NEW s \in Surface, NEW lockers \in SUBSET View, NEW deleters \in SUBSET View,
             DestroySurface(s, lockers, deleters)
      PROVE  Shows(w)
  <2>1. /\ \A t \in Surface \ {s} : bufferRef'[t] = bufferRef[t]
        /\ viewSurface'[w] = IF w \in SeqRange(views[s]) THEN NoSurface ELSE viewSurface[w]
    BY <1>3 DEF DestroySurface, TypeOK
  <2>2. ASSUME w \notin SeqRange(views[s])
        PROVE  /\ nextBuffer'[w] = nextBuffer[w]
               /\ nextBufferCommitted'[w] = nextBufferCommitted[w]
               /\ forceAdvanceSucceed'[w] = forceAdvanceSucceed[w]
               /\ currentBuffer'[w] = currentBuffer[w]
    BY <1>3, <2>2 DEF DestroySurface, TypeOK
  <2> QED BY <1>0, <2>1, <2>2
<1>4. ASSUME NEW v \in View, NEW s \in MaybeSurface, NEW q, TakeSurface(v, s, q)
      PROVE  Shows(w)
  <2>1. /\ viewSurface'[w] = IF w = v THEN s ELSE viewSurface[w]
        /\ nextBuffer'[w] = IF w = v THEN Handed(s) ELSE nextBuffer[w]
        /\ nextBufferCommitted'[w] = IF w = v THEN s # NoSurface ELSE nextBufferCommitted[w]
        /\ w # v => currentBuffer'[w] = currentBuffer[w]
        /\ UNCHANGED <<bufferRef, forceAdvanceSucceed>>
    BY <1>4 DEF TakeSurface, TypeOK
  <2> QED BY <1>0, <2>1 DEF Handed
<1>5. ASSUME NEW v \in View, DiscardCurrentBuffer(v)
      PROVE  Shows(w)
  <2>1. /\ w # v => currentBuffer'[w] = currentBuffer[w] /\ forceAdvanceSucceed'[w] = forceAdvanceSucceed[w]
        /\ forceAdvanceSucceed'[v] = TRUE
        /\ UNCHANGED <<bufferRef, viewSurface, nextBuffer, nextBufferCommitted>>
    BY <1>5 DEF DiscardCurrentBuffer, surfaceVars, TypeOK
  <2> QED BY <1>0, <2>1
<1>6. ASSUME NEW v \in View, DeleteView(v)
      PROVE  Shows(w)
  <2>1. /\ viewSurface'[w] = IF w = v THEN NoSurface ELSE viewSurface[w]
        /\ w # v => /\ currentBuffer'[w] = currentBuffer[w]
                    /\ nextBuffer'[w] = nextBuffer[w]
                    /\ nextBufferCommitted'[w] = nextBufferCommitted[w]
        /\ UNCHANGED <<bufferRef, forceAdvanceSucceed>>
    BY <1>6 DEF DeleteView, TypeOK
  <2> QED BY <1>0, <2>1
<1>7. ASSUME NEW v \in View, Advances(v)
      PROVE  Shows(w)
  <2>1. UNCHANGED <<bufferRef, viewSurface, nextBuffer>>
    BY <1>7 DEF Advances
  <2> QED BY <1>0, <1>7, <2>1, AdvanceShows
<1> HIDE DEF Shows
<1> QED BY <1>1, <1>2, <1>3, <1>4, <1>5, <1>6, <1>7, ShowingSteps

LEMMA InitMirror == Init => NextMirrorsCommit /\ Settled
BY DEF Init, NextMirrorsCommit, Settled

(* Whatever the order of commits, view moves and destructions, the buffer  *)
(* a view is due to show is the one its surface committed last.            *)
THEOREM ViewsMirrorCommits == Safety => []NextMirrorsCommit
<1> DEFINE Inv == TypeOK /\ ViewsMatch /\ NextMirrorsCommit /\ Settled
<1>1. Init => Inv
  BY InitType, InitMatch, InitMirror
<1>2. Inv /\ [Next]_vars => Inv'
  BY TypeStep, ViewsMatchStep, MirrorStep
<1>3. Inv => NextMirrorsCommit
  OBVIOUS
<1> HIDE DEF Inv
<1> QED BY <1>1, <1>2, <1>3, PTL DEF Safety

(* No update is lost: a view with neither flag of advance() raised shows   *)
(* its surface's latest commit.                                            *)
THEOREM NoUpdateLost == Safety => []Settled
<1> DEFINE Inv == TypeOK /\ ViewsMatch /\ NextMirrorsCommit /\ Settled
<1>1. Init => Inv
  BY InitType, InitMatch, InitMirror
<1>2. Inv /\ [Next]_vars => Inv'
  BY TypeStep, ViewsMatchStep, MirrorStep
<1>3. Inv => Settled
  OBVIOUS
<1> HIDE DEF Inv
<1> QED BY <1>1, <1>2, <1>3, PTL DEF Safety

LEMMA LockedKept ==
  ASSUME TypeOK, [Next]_vars
  PROVE  LockedStep
<1> DEFINE Keeps(w) == currentBuffer'[w] = currentBuffer[w] \/ DiscardCurrentBuffer(w)
<1> SUFFICES ASSUME NEW w \in View,
                    bufferLocked[w], bufferLocked'[w], view'[w] = "alive", ~allowDiscard[w]
             PROVE  Keeps(w)
  BY DEF LockedStep
<1>1. CASE UNCHANGED showing
  BY <1>1 DEF showing
<1>2. ASSUME NEW s \in Surface, Commit(s)
      PROVE  Keeps(w)
  BY <1>2 DEF Commit
<1>3. ASSUME NEW s \in Surface, NEW lockers \in SUBSET View, NEW deleters \in SUBSET View,
             DestroySurface(s, lockers, deleters)
      PROVE  Keeps(w)
  <2>1. w \notin deleters
    BY <1>3 DEF DestroySurface
  <2> QED BY <1>3, <2>1 DEF DestroySurface
<1>4. ASSUME NEW v \in View, NEW s \in MaybeSurface, NEW q, TakeSurface(v, s, q)
      PROVE  Keeps(w)
  BY <1>4 DEF TakeSurface, TypeOK
<1>5. ASSUME NEW v \in View, DiscardCurrentBuffer(v)
      PROVE  Keeps(w)
  <2>1. v = w \/ currentBuffer'[w] = currentBuffer[w]
    BY <1>5 DEF DiscardCurrentBuffer, TypeOK
  <2> QED BY <1>5, <2>1
<1>6. ASSUME NEW v \in View, DeleteView(v)
      PROVE  Keeps(w)
  <2>1. v # w
    BY <1>6 DEF DeleteView, TypeOK
  <2> QED BY <1>6, <2>1 DEF DeleteView, TypeOK
<1>7. ASSUME NEW v \in View, Advances(v)
      PROVE  Keeps(w)
  BY <1>7, AdvanceShows
<1> HIDE DEF Keeps
<1> QED BY <1>1, <1>2, <1>3, <1>4, <1>5, <1>6, <1>7, ShowingSteps

(* A locked view keeps its buffer through commits, moves to another        *)
(* surface, the end of its surface and the advances of other views.        *)
THEOREM LockedKeepsBuffer == Safety => LockedBufferKept
<1>1. TypeOK /\ [Next]_vars => [LockedStep]_vars
  BY LockedKept
<1> QED BY <1>1, TypeCorrect, PTL DEF Safety, LockedBufferKept
=============================================================================
