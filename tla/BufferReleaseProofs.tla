------------------------- MODULE BufferReleaseProofs -------------------------
(***************************************************************************)
(* For any number of surfaces, views and buffers: no reference dangles, no *)
(* buffer leaks or is kept from its client, and SurfaceBuffers implements  *)
(* the release protocol of BufferOwnership.                                *)
(*                                                                         *)
(* Most steps are alike: they drop references, or copy one a buffer has    *)
(* already, and end with Deref.  What is proved of such a step (Shrinks)   *)
(* is proved once; the five others are looked at one by one.               *)
(***************************************************************************)
EXTENDS SurfaceBuffersProofs

(* No buffer comes into use, or into use as content, that was not.         *)
Shrinks ==
  \A b \in Buffer : (InUse(b)' => InUse(b)) /\ (Held(b)' => Held(b))

(* The variables that name buffers.                                        *)
refs == <<pending, bufferRef, currentBuffer, nextBuffer, provider, material>>

LEMMA SameReferences ==
  ASSUME UNCHANGED refs
  PROVE  \A b \in Buffer : (InUse(b)' <=> InUse(b)) /\ (Held(b)' <=> Held(b))
BY DEF refs, InUse, Held

LEMMA HeldInUse == \A b \in Buffer : Held(b) => InUse(b)
BY DEF Held, InUse

LEMMA HeldInUseNext == \A b \in Buffer : Held(b)' => InUse(b)'
BY DEF Held, InUse

-----------------------------------------------------------------------------
(* The steps that only drop or copy references. *)

LEMMA TakeSurfaceShrinks ==
  ASSUME TypeOK, NEW v \in View, NEW s \in MaybeSurface, NEW q, TakeSurface(v, s, q)
  PROVE  Deref(committed, object, NoBuffer) /\ Shrinks
<1>1. /\ \A w \in View : \/ nextBuffer'[w] = nextBuffer[w]
                         \/ nextBuffer'[w] = NoBuffer
                         \/ s \in Surface /\ nextBuffer'[w] = bufferRef[s]
      /\ \A w \in View : currentBuffer'[w] \in {currentBuffer[w], NoBuffer}
      /\ UNCHANGED <<pending, bufferRef, provider, material>>
  BY DEF TakeSurface, Handed, TypeOK, MaybeSurface, itemVars
<1>2. Shrinks
  BY <1>1, NullAssumption DEF Shrinks, InUse, Held
<1> QED BY <1>2 DEF TakeSurface

LEMMA AdvanceShrinks ==
  ASSUME TypeOK, NEW v \in View, Advance(v)
  PROVE  \A w \in View : \/ currentBuffer'[w] = currentBuffer[w]
                         \/ currentBuffer'[w] = nextBuffer[w]
                         \/ currentBuffer'[w] = NoBuffer
BY DEF Advance

LEMMA SyncShrinks ==
  ASSUME TypeOK, NEW v \in View, NEW dirty \in BOOLEAN, NEW enabled \in BOOLEAN,
         Sync(v, dirty, enabled)
  PROVE  Deref(committed, object, NoBuffer) /\ Shrinks
<1>1. \A w \in View : \/ currentBuffer'[w] = currentBuffer[w]
                      \/ currentBuffer'[w] = nextBuffer[w]
                      \/ currentBuffer'[w] = NoBuffer
  BY AdvanceShrinks DEF Sync
<1>2. /\ \A w \in View : provider'[w] \in {provider[w], currentBuffer'[w]}
      /\ \A w \in View : material'[w] \in {material[w], currentBuffer'[w], NoBuffer}
  BY DEF Sync, UpdatePaintNode, TypeOK
<1>3. UNCHANGED <<pending, bufferRef, nextBuffer>>
  BY DEF Sync, surfaceVars
<1>4. Shrinks
  BY <1>1, <1>2, <1>3, NullAssumption DEF Shrinks, InUse, Held
<1> QED BY <1>4 DEF Sync

LEMMA DestroySurfaceShrinks ==
  ASSUME TypeOK, NEW s \in Surface, NEW lockers \in SUBSET View, NEW deleters \in SUBSET View,
         DestroySurface(s, lockers, deleters)
  PROVE  Deref(committed, object, NoBuffer) /\ Shrinks
<1>1. /\ \A t \in Surface : pending'[t] \in {pending[t], NoBuffer}
      /\ \A t \in Surface : bufferRef'[t] \in {bufferRef[t], NoBuffer}
      /\ \A v \in View : nextBuffer'[v] \in {nextBuffer[v], NoBuffer}
      /\ UNCHANGED <<provider, material>>
  BY DEF DestroySurface, TypeOK, itemVars
<1>2. \A v \in View : currentBuffer'[v] \in {currentBuffer[v], NoBuffer}
  BY DEF DestroySurface
<1>3. Shrinks
  BY <1>1, <1>2, NullAssumption DEF Shrinks, InUse, Held
<1> QED BY <1>3 DEF DestroySurface

LEMMA DropShrinks ==
  ASSUME TypeOK, NEW v \in View,
         \/ DiscardCurrentBuffer(v) \/ DeleteView(v) \/ AdvanceView(v)
         \/ DropNode(v) \/ DropProvider(v)
  PROVE  Deref(committed, object, NoBuffer) /\ Shrinks
<1>1. CASE DiscardCurrentBuffer(v)
  <2>1. /\ \A w \in View : currentBuffer'[w] \in {currentBuffer[w], NoBuffer}
        /\ UNCHANGED <<pending, bufferRef, nextBuffer, provider, material>>
    BY <1>1 DEF DiscardCurrentBuffer, TypeOK, surfaceVars, itemVars
  <2>2. Shrinks
    BY <2>1, NullAssumption DEF Shrinks, InUse, Held
  <2> QED BY <1>1, <2>2 DEF DiscardCurrentBuffer
<1>2. CASE DeleteView(v)
  <2>1. /\ \A w \in View : currentBuffer'[w] \in {currentBuffer[w], NoBuffer}
        /\ \A w \in View : nextBuffer'[w] \in {nextBuffer[w], NoBuffer}
        /\ UNCHANGED <<pending, bufferRef, provider, material>>
    BY <1>2 DEF DeleteView, TypeOK, itemVars
  <2>2. Shrinks
    BY <2>1, NullAssumption DEF Shrinks, InUse, Held
  <2> QED BY <1>2, <2>2 DEF DeleteView
<1>3. CASE AdvanceView(v)
  <2>1. \A w \in View : \/ currentBuffer'[w] = currentBuffer[w]
                        \/ currentBuffer'[w] = nextBuffer[w]
                        \/ currentBuffer'[w] = NoBuffer
    BY <1>3, AdvanceShrinks DEF AdvanceView
  <2>2. UNCHANGED <<pending, bufferRef, nextBuffer, provider, material>>
    BY <1>3 DEF AdvanceView, surfaceVars, itemVars
  <2>3. Shrinks
    BY <2>1, <2>2, NullAssumption DEF Shrinks, InUse, Held
  <2> QED BY <1>3, <2>3 DEF AdvanceView
<1>4. CASE DropNode(v)
  <2>1. /\ \A w \in View : material'[w] \in {material[w], NoBuffer}
        /\ UNCHANGED <<pending, bufferRef, currentBuffer, nextBuffer, provider>>
    BY <1>4 DEF DropNode, TypeOK, surfaceVars, viewVars
  <2>2. Shrinks
    BY <2>1, NullAssumption DEF Shrinks, InUse, Held
  <2> QED BY <1>4, <2>2 DEF DropNode
<1>5. CASE DropProvider(v)
  <2>1. /\ \A w \in View : provider'[w] \in {provider[w], NoBuffer}
        /\ UNCHANGED <<pending, bufferRef, currentBuffer, nextBuffer, material>>
    BY <1>5 DEF DropProvider, TypeOK, surfaceVars, viewVars
  <2>2. Shrinks
    BY <2>1, NullAssumption DEF Shrinks, InUse, Held
  <2> QED BY <1>5, <2>2 DEF DropProvider
<1> QED BY <1>1, <1>2, <1>3, <1>4, <1>5

(* Every step drops or copies references, leaves the buffers and their     *)
(* references alone, or is one of the five that do something else.         *)
LEMMA StepKinds ==
  ASSUME TypeOK, [Next]_vars
  PROVE  \/ Deref(committed, object, NoBuffer) /\ Shrinks
         \/ UNCHANGED <<resource, object, committed, lent, refs>>
         \/ \E s \in Surface, b \in MaybeBuffer : Attach(s, b)
         \/ \E s \in Surface : Commit(s)
         \/ \E b \in Buffer : CreateBuffer(b) \/ DestroyBuffer(b)
         \/ \E v \in View : UploadTexture(v)
<1>1. CASE ClientNext
  <2>1. ASSUME NEW s \in Surface, CreateSurface(s)
        PROVE  UNCHANGED <<resource, object, committed, lent, refs>>
    BY <2>1 DEF CreateSurface, bufferVars, viewVars, itemVars, refs
  <2> QED BY <1>1, <2>1, DestroySurfaceShrinks DEF ClientNext
<1>2. CASE ApplicationNext
  <2>1. ASSUME NEW v \in View, NEW flag \in BOOLEAN,
               CreateView(v) \/ SetBufferLocked(v, flag) \/ SetAllowDiscardFrontBuffer(v, flag)
        PROVE  UNCHANGED <<resource, object, committed, lent, refs>>
    BY <2>1 DEF CreateView, SetBufferLocked, SetAllowDiscardFrontBuffer,
                bufferVars, surfaceVars, itemVars, refs
  <2>2. ASSUME NEW v \in View, NEW s \in MaybeSurface, SetSurface(v, s)
        PROVE  Deref(committed, object, NoBuffer) /\ Shrinks
    BY <2>2, TakeSurfaceShrinks DEF SetSurface
  <2>3. ASSUME NEW v \in View, NEW s \in Surface, SetPrimaryView(s, v)
        PROVE  \/ Deref(committed, object, NoBuffer) /\ Shrinks
               \/ UNCHANGED <<resource, object, committed, lent, refs>>
    <3>1. s \in MaybeSurface
      BY DEF MaybeSurface
    <3> QED BY <2>3, <3>1, TakeSurfaceShrinks
            DEF SetPrimaryView, bufferVars, viewVars, itemVars, refs
  <2> QED BY <1>2, <2>1, <2>2, <2>3, DropShrinks DEF ApplicationNext
<1>3. CASE RenderNext
  BY <1>3, SyncShrinks, DropShrinks DEF RenderNext
<1>4. CASE UNCHANGED vars
  BY <1>4 DEF vars, bufferVars, surfaceVars, viewVars, itemVars, refs
<1> QED BY <1>1, <1>2, <1>3, <1>4 DEF Next

-----------------------------------------------------------------------------
(* References, objects and the mark of committed buffers. *)

(* What a step that ends with Deref(com, obj, given) may do besides: bring  *)
(* live buffers into use, make their objects, and mark what is in use as   *)
(* committed.                                                              *)
Orderly(com, obj) ==
  \A b \in Buffer :
    /\ InUse(b)' => InUse(b) \/ (resource[b] = "live" /\ obj[b] = "alive")
    /\ \/ obj[b] = object[b]
       \/ resource[b] = "live" /\ object[b] = "none" /\ obj[b] = "alive"
    /\ com[b] => committed[b] \/ InUse(b)

LEMMA DerefKeeps ==
  ASSUME TypeOK, BuffersInv,
         NEW com \in [Buffer -> BOOLEAN], NEW obj \in [Buffer -> Life], NEW given,
         Deref(com, obj, given), Orderly(com, obj)
  PROVE  BuffersInv'
<1> SUFFICES ASSUME NEW b \in Buffer
             PROVE  /\ InUse(b)' => object'[b] = "alive"
                    /\ committed'[b] /\ resource'[b] = "live" => InUse(b)'
                    /\ resource'[b] = "destroyed" /\ object'[b] = "alive" => InUse(b)'
                    /\ resource'[b] = "none" => object'[b] = "none" /\ ~committed'[b]
                    /\ resource'[b] = "live" => object'[b] # "deleted"
  BY DEF BuffersInv, NoDanglingRef, UnusedIsReleased, DestroyedIsFreed, ObjectsFollow
<1> DEFINE lost == InUse(b) /\ ~InUse(b)'
<1>1. /\ committed'[b] = (com[b] /\ ~(lost /\ com[b] /\ resource[b] = "live"))
      /\ object'[b] = IF lost /\ resource[b] = "destroyed" THEN "deleted" ELSE obj[b]
      /\ resource'[b] = resource[b]
  BY DEF Deref, Releases
<1>3. /\ InUse(b)' => InUse(b) \/ (resource[b] = "live" /\ obj[b] = "alive")
      /\ \/ obj[b] = object[b]
         \/ resource[b] = "live" /\ object[b] = "none" /\ obj[b] = "alive"
      /\ com[b] => committed[b] \/ InUse(b)
  BY DEF Orderly
<1>2. /\ InUse(b) => object[b] = "alive"
      /\ committed[b] /\ resource[b] = "live" => InUse(b)
      /\ resource[b] = "destroyed" /\ object[b] = "alive" => InUse(b)
      /\ resource[b] = "none" => object[b] = "none" /\ ~committed[b]
      /\ resource[b] = "live" => object[b] # "deleted"
  BY DEF BuffersInv, NoDanglingRef, UnusedIsReleased, DestroyedIsFreed, ObjectsFollow
<1> QED BY <1>1, <1>2, <1>3

(* Attaching: the only buffer that comes into use exists, and has its      *)
(* ClientBuffer by then.                                                   *)
LEMMA AttachUses ==
  ASSUME TypeOK, BuffersInv, NEW s \in Surface, NEW a \in MaybeBuffer, Attach(s, a),
         NEW obj,
         obj = [c \in Buffer |-> IF c = a /\ object[c] = "none" THEN "alive" ELSE object[c]]
  PROVE  /\ obj \in [Buffer -> Life]
         /\ Deref(committed, obj, NoBuffer)
         /\ \A b \in Buffer :
              InUse(b)' => InUse(b) \/ (resource[b] = "live" /\ obj[b] = "alive")
         /\ \A b \in Buffer : Held(b)' => Held(b)
         /\ \A b \in Buffer :
              \/ obj[b] = object[b]
              \/ resource[b] = "live" /\ object[b] = "none" /\ obj[b] = "alive"
<1>1. obj \in [Buffer -> Life] /\ Deref(committed, obj, NoBuffer)
  BY DEF Attach, TypeOK, Life
<1>2. a \in Buffer => resource[a] = "live" /\ obj[a] = "alive"
  BY NullAssumption DEF Attach, HasContent, BuffersInv, ObjectsFollow, TypeOK, Life
<1>3. /\ \A t \in Surface : pending'[t] \in {pending[t], a}
      /\ UNCHANGED <<bufferRef, currentBuffer, nextBuffer, provider, material>>
  BY DEF Attach, TypeOK, viewVars, itemVars
<1>4. ASSUME NEW b \in Buffer
      PROVE  /\ InUse(b)' => InUse(b) \/ b = a
             /\ Held(b)' => Held(b)
  BY <1>3 DEF InUse, Held
<1>5. ASSUME NEW b \in Buffer
      PROVE  \/ obj[b] = object[b]
             \/ resource[b] = "live" /\ object[b] = "none" /\ obj[b] = "alive"
  BY <1>2
<1> QED BY <1>1, <1>2, <1>4, <1>5

(* Committing: nothing comes into use, and what comes into use as content, *)
(* or is marked committed, is the buffer of the commit.                    *)
LEMMA CommitUses ==
  ASSUME TypeOK, NEW s \in Surface, Commit(s),
         NEW com, com = [c \in Buffer |-> c = CommittedBuffer(s) \/ committed[c]],
         NEW given, given = IF HasContent(pending[s]) THEN pending[s] ELSE NoBuffer
  PROVE  /\ com \in [Buffer -> BOOLEAN]
         /\ Deref(com, object, given)
         /\ \A b \in Buffer : InUse(b)' => InUse(b)
         /\ \A b \in Buffer : com[b] => committed[b] \/ InUse(b)
         /\ \A b \in Buffer : Held(b)' => Held(b) \/ b = given \/ resource[b] # "live"
         /\ \A b \in Buffer : b = given => /\ resource[b] = "live"
                                           /\ com[b] /\ InUse(b) /\ InUse(b)'
<1> DEFINE a == CommittedBuffer(s)
<1>1. com \in [Buffer -> BOOLEAN] /\ Deref(com, object, given)
  BY DEF Commit, TypeOK
<1>2. /\ bufferRef' = [bufferRef EXCEPT ![s] = a]
      /\ pending' = [pending EXCEPT ![s] = NoBuffer]
      /\ \A v \in View : nextBuffer'[v] \in {nextBuffer[v], a}
      /\ UNCHANGED <<currentBuffer, provider, material>>
  BY DEF Commit, itemVars
<1>3. a \in {pending[s], bufferRef[s]} /\ (pending[s] # NoBuffer => a = pending[s])
  BY DEF CommittedBuffer
<1> HIDE DEF a
<1>4. ASSUME NEW b \in Buffer
      PROVE  /\ InUse(b)' => InUse(b)
             /\ b = a => InUse(b) /\ InUse(b)'
             /\ Held(b)' => Held(b) \/ b = pending[s]
  BY <1>2, <1>3, NullAssumption DEF InUse, Held, TypeOK
<1>5. ASSUME NEW b \in Buffer, b = given
      PROVE  resource[b] = "live" /\ b = a
  BY <1>3, <1>5, NullAssumption DEF HasContent
<1>6. ASSUME NEW b \in Buffer, b = pending[s], resource[b] = "live"
      PROVE  b = given
  BY <1>6, NullAssumption DEF HasContent
<1> QED BY <1>1, <1>4, <1>5, <1>6 DEF a

LEMMA BuffersStep == TypeOK /\ BuffersInv /\ [Next]_vars => BuffersInv'
<1> SUFFICES ASSUME TypeOK, BuffersInv, [Next]_vars
             PROVE  BuffersInv'
  OBVIOUS
<1>1. CASE Deref(committed, object, NoBuffer) /\ Shrinks
  <2>1. committed \in [Buffer -> BOOLEAN] /\ object \in [Buffer -> Life]
    BY DEF TypeOK
  <2>2. Orderly(committed, object)
    BY <1>1 DEF Shrinks, Orderly
  <2> QED BY <1>1, <2>1, <2>2, DerefKeeps
<1>2. CASE UNCHANGED <<resource, object, committed, lent, refs>>
  BY <1>2, SameReferences
     DEF BuffersInv, NoDanglingRef, UnusedIsReleased, DestroyedIsFreed, ObjectsFollow
<1>3. ASSUME NEW s \in Surface, NEW a \in MaybeBuffer, Attach(s, a)
      PROVE  BuffersInv'
  <2> DEFINE obj == [c \in Buffer |-> IF c = a /\ object[c] = "none" THEN "alive" ELSE object[c]]
  <2>1. /\ obj \in [Buffer -> Life]
        /\ Deref(committed, obj, NoBuffer)
        /\ Orderly(committed, obj)
    BY <1>3, AttachUses DEF Orderly
  <2> HIDE DEF obj
  <2>2. committed \in [Buffer -> BOOLEAN]
    BY DEF TypeOK
  <2> QED BY <2>1, <2>2, DerefKeeps
<1>4. ASSUME NEW s \in Surface, Commit(s)
      PROVE  BuffersInv'
  <2> DEFINE com   == [c \in Buffer |-> c = CommittedBuffer(s) \/ committed[c]]
             given == IF HasContent(pending[s]) THEN pending[s] ELSE NoBuffer
  <2>1. /\ com \in [Buffer -> BOOLEAN]
        /\ Deref(com, object, given)
        /\ Orderly(com, object)
    BY <1>4, CommitUses DEF Orderly
  <2> HIDE DEF com, given
  <2>2. object \in [Buffer -> Life]
    BY DEF TypeOK
  <2> QED BY <2>1, <2>2, DerefKeeps
<1>5. ASSUME NEW b \in Buffer, CreateBuffer(b) \/ DestroyBuffer(b)
      PROVE  BuffersInv'
  <2>1. UNCHANGED refs
    BY <1>5 DEF CreateBuffer, DestroyBuffer, surfaceVars, viewVars, itemVars, refs
  <2>2. \A c \in Buffer : InUse(c)' <=> InUse(c)
    BY <2>1, SameReferences
  <2>3. CASE CreateBuffer(b)
    <3>1. ~InUse(b) /\ ~committed[b] /\ object[b] = "none"
      BY <2>3 DEF CreateBuffer, BuffersInv, NoDanglingRef, ObjectsFollow
    <3> QED BY <2>2, <2>3, <3>1
            DEF CreateBuffer, BuffersInv, NoDanglingRef, UnusedIsReleased, DestroyedIsFreed,
                ObjectsFollow, TypeOK
  <2>4. CASE DestroyBuffer(b)
    BY <2>2, <2>4
       DEF DestroyBuffer, FreedByDestroy, BuffersInv, NoDanglingRef, UnusedIsReleased,
           DestroyedIsFreed, ObjectsFollow, TypeOK
  <2> QED BY <1>5, <2>3, <2>4
<1>6. ASSUME NEW v \in View, UploadTexture(v)
      PROVE  BuffersInv'
  <2>1. UNCHANGED refs
    BY <1>6 DEF UploadTexture, surfaceVars, viewVars, itemVars, refs
  <2>2. \A c \in Buffer : InUse(c)' <=> InUse(c)
    BY <2>1, SameReferences
  <2>3. /\ UNCHANGED <<resource, object>>
        /\ \A c \in Buffer : committed'[c] => committed[c]
    BY <1>6 DEF UploadTexture, TypeOK
  <2> QED BY <2>2, <2>3
          DEF BuffersInv, NoDanglingRef, UnusedIsReleased, DestroyedIsFreed, ObjectsFollow
<1> QED BY <1>1, <1>2, <1>3, <1>4, <1>5, <1>6, StepKinds

LEMMA InitUse == Init => \A b \in Buffer : ~InUse(b) /\ ~Held(b)
BY NullAssumption DEF Init, InUse, Held

LEMMA InitBuffers == Init => BuffersInv
BY InitUse DEF Init, BuffersInv, NoDanglingRef, UnusedIsReleased, DestroyedIsFreed, ObjectsFollow

(* No order of destroying wl_buffers, surfaces, views, nodes and providers *)
(* leaves a reference to a deleted ClientBuffer.                           *)
THEOREM NothingDangles == Safety => []NoDanglingRef
<1>1. Init => TypeOK /\ ViewsMatch /\ BuffersInv
  BY InitType, InitMatch, InitBuffers
<1>2. TypeOK /\ ViewsMatch /\ BuffersInv /\ [Next]_vars => (TypeOK /\ ViewsMatch /\ BuffersInv)'
  BY TypeStep, ViewsMatchStep, BuffersStep
<1>3. BuffersInv => NoDanglingRef
  BY DEF BuffersInv
<1> QED BY <1>1, <1>2, <1>3, PTL DEF Safety

(* A committed buffer nothing refers to has been released.                 *)
THEOREM NothingKeptFromClient == Safety => []UnusedIsReleased
<1>1. Init => TypeOK /\ ViewsMatch /\ BuffersInv
  BY InitType, InitMatch, InitBuffers
<1>2. TypeOK /\ ViewsMatch /\ BuffersInv /\ [Next]_vars => (TypeOK /\ ViewsMatch /\ BuffersInv)'
  BY TypeStep, ViewsMatchStep, BuffersStep
<1>3. BuffersInv => UnusedIsReleased
  BY DEF BuffersInv
<1> QED BY <1>1, <1>2, <1>3, PTL DEF Safety

(* A ClientBuffer without wl_buffer and without references has been freed. *)
THEOREM NothingLeaks == Safety => []DestroyedIsFreed
<1>1. Init => TypeOK /\ ViewsMatch /\ BuffersInv
  BY InitType, InitMatch, InitBuffers
<1>2. TypeOK /\ ViewsMatch /\ BuffersInv /\ [Next]_vars => (TypeOK /\ ViewsMatch /\ BuffersInv)'
  BY TypeStep, ViewsMatchStep, BuffersStep
<1>3. BuffersInv => DestroyedIsFreed
  BY DEF BuffersInv
<1> QED BY <1>1, <1>2, <1>3, PTL DEF Safety

-----------------------------------------------------------------------------
(* Lending and returning, where nothing is released as it is uploaded. *)

(* What a step that ends with Deref(com, obj, given) may do besides: mark  *)
(* more buffers committed, and take up as content the buffer it is given.  *)
Lends(com, given) ==
  \A b \in Buffer :
    /\ InUse(b)' => InUse(b) \/ resource[b] = "live"
    /\ Held(b)' => Held(b) \/ b = given \/ resource[b] # "live"
    /\ committed[b] => com[b]
    /\ b = given => resource[b] = "live" /\ com[b] /\ InUse(b) /\ InUse(b)'

LEMMA UsedIsInUse ==
  \A b \in Buffer : Used[b] \in BOOLEAN /\ (Used[b] <=> InUse(b))
BY DEF Used, InUse

LEMMA UsedIsInUseNext ==
  \A b \in Buffer : Used'[b] \in BOOLEAN /\ (Used'[b] <=> InUse(b)')
BY DEF Used, InUse

(* Such a step is, for each buffer, a step of the release protocol.        *)
LEMMA DerefReturns ==
  ASSUME TypeOK, LendingInv,
         NEW com \in [Buffer -> BOOLEAN], NEW obj \in [Buffer -> Life], NEW given,
         Deref(com, obj, given), Lends(com, given)
  PROVE  LentWillReturn' /\ HeldIsOwned' /\ \A b \in Buffer : Ownership!Move(b)
<1> SUFFICES ASSUME NEW b \in Buffer
             PROVE  /\ lent'[b] => resource'[b] = "live" /\ committed'[b] /\ InUse(b)'
                    /\ Held(b)' /\ resource'[b] = "live" => lent'[b]
                    /\ Ownership!Move(b)
  BY DEF LentWillReturn, HeldIsOwned
<1> DEFINE released == InUse(b) /\ ~InUse(b)' /\ com[b] /\ resource[b] = "live"
<1>1. /\ committed'[b] = (com[b] /\ ~released)
      /\ lent'[b] = (b = given \/ (lent[b] /\ ~released))
      /\ resource'[b] = resource[b]
  BY DEF Deref, Releases
<1>2. /\ InUse(b)' => InUse(b) \/ resource[b] = "live"
      /\ Held(b)' => Held(b) \/ b = given \/ resource[b] # "live"
      /\ committed[b] => com[b]
      /\ b = given => resource[b] = "live" /\ com[b] /\ InUse(b) /\ InUse(b)'
  BY DEF Lends
<1>3. /\ lent[b] => resource[b] = "live" /\ committed[b] /\ InUse(b)
      /\ Held(b) /\ resource[b] = "live" => lent[b]
      /\ Held(b)' => InUse(b)'
  BY HeldInUseNext DEF LendingInv, LentWillReturn, HeldIsOwned
<1>4. /\ lent'[b] => resource'[b] = "live" /\ committed'[b] /\ InUse(b)'
      /\ Held(b)' /\ resource'[b] = "live" => lent'[b]
  BY <1>1, <1>2, <1>3
<1>5. /\ Owner[b] = IF resource[b] = "destroyed" THEN "gone"
                    ELSE IF lent[b] THEN "compositor" ELSE "client"
      /\ Owner'[b] = IF resource'[b] = "destroyed" THEN "gone"
                     ELSE IF lent'[b] THEN "compositor" ELSE "client"
      /\ Used[b] \in BOOLEAN /\ (Used[b] <=> InUse(b))
      /\ Used'[b] \in BOOLEAN /\ (Used'[b] <=> InUse(b)')
  BY UsedIsInUse, UsedIsInUseNext DEF Owner
<1>6. Ownership!Move(b)
  <2>1. CASE resource[b] = "destroyed"
    BY <1>1, <1>2, <1>5, <2>1 DEF Ownership!Move, Ownership!Keep, Ownership!Forget
  <2>2. CASE resource[b] # "destroyed" /\ lent[b]
    BY <1>1, <1>2, <1>3, <1>5, <2>2 DEF Ownership!Move, Ownership!Keep, Ownership!Release
  <2>3. CASE resource[b] # "destroyed" /\ ~lent[b]
    BY <1>1, <1>2, <1>3, <1>5, <2>3 DEF Ownership!Move, Ownership!Request, Ownership!Lend
  <2> QED BY <2>1, <2>2, <2>3
<1> QED BY <1>4, <1>6

LEMMA LendingStep ==
  ASSUME UploadsShm = FALSE, TypeOK, LendingInv, [Next]_vars
  PROVE  LentWillReturn' /\ HeldIsOwned' /\ \A b \in Buffer : Ownership!Move(b)
<1>0. /\ committed \in [Buffer -> BOOLEAN] /\ object \in [Buffer -> Life]
      /\ lent \in [Buffer -> BOOLEAN] /\ BuffersInv
  BY DEF TypeOK, LendingInv
<1>1. CASE Deref(committed, object, NoBuffer) /\ Shrinks
  <2>1. Lends(committed, NoBuffer)
    BY <1>1, NullAssumption DEF Shrinks, Lends
  <2> QED BY <1>0, <1>1, <2>1, DerefReturns
<1>2. CASE UNCHANGED <<resource, object, committed, lent, refs>>
  <2>1. \A b \in Buffer : /\ (InUse(b)' <=> InUse(b)) /\ (Held(b)' <=> Held(b))
                         /\ Owner'[b] = Owner[b]
    BY <1>2, SameReferences DEF Owner
  <2>2. \A b \in Buffer : Used'[b] = Used[b]
    BY <2>1, UsedIsInUse, UsedIsInUseNext
  <2>3. \A b \in Buffer : Ownership!Keep(b)
    BY <2>1, <2>2 DEF Ownership!Keep
  <2> QED BY <1>2, <2>1, <2>3 DEF LendingInv, LentWillReturn, HeldIsOwned, Ownership!Move
<1>3. ASSUME NEW s \in Surface, NEW a \in MaybeBuffer, Attach(s, a)
      PROVE  LentWillReturn' /\ HeldIsOwned' /\ \A b \in Buffer : Ownership!Move(b)
  <2> DEFINE obj == [c \in Buffer |-> IF c = a /\ object[c] = "none" THEN "alive" ELSE object[c]]
  <2>1. /\ obj \in [Buffer -> Life]
        /\ Deref(committed, obj, NoBuffer)
        /\ Lends(committed, NoBuffer)
    BY <1>0, <1>3, AttachUses, NullAssumption DEF Lends
  <2> HIDE DEF obj
  <2> QED BY <1>0, <2>1, DerefReturns
<1>4. ASSUME NEW s \in Surface, Commit(s)
      PROVE  LentWillReturn' /\ HeldIsOwned' /\ \A b \in Buffer : Ownership!Move(b)
  <2> DEFINE com   == [c \in Buffer |-> c = CommittedBuffer(s) \/ committed[c]]
             given == IF HasContent(pending[s]) THEN pending[s] ELSE NoBuffer
  <2>1. /\ com \in [Buffer -> BOOLEAN]
        /\ Deref(com, object, given)
        /\ \A b \in Buffer : InUse(b)' => InUse(b)
        /\ \A b \in Buffer : Held(b)' => Held(b) \/ b = given \/ resource[b] # "live"
        /\ \A b \in Buffer : b = given => /\ resource[b] = "live"
                                          /\ com[b] /\ InUse(b) /\ InUse(b)'
    BY <1>4, CommitUses
  <2>2. \A b \in Buffer : committed[b] => com[b]
    OBVIOUS
  <2> HIDE DEF com, given
  <2>3. Lends(com, given)
    BY <2>1, <2>2 DEF Lends
  <2> QED BY <1>0, <2>1, <2>3, DerefReturns
<1>5. ASSUME NEW b \in Buffer, CreateBuffer(b) \/ DestroyBuffer(b)
      PROVE  LentWillReturn' /\ HeldIsOwned' /\ \A c \in Buffer : Ownership!Move(c)
  <2>1. UNCHANGED refs
    BY <1>5 DEF CreateBuffer, DestroyBuffer, surfaceVars, viewVars, itemVars, refs
  <2>2. \A c \in Buffer : (InUse(c)' <=> InUse(c)) /\ (Held(c)' <=> Held(c))
    BY <2>1, SameReferences
  <2>3. \A c \in Buffer : Used'[c] = Used[c]
    BY <2>2, UsedIsInUse, UsedIsInUseNext
  <2>4. \A c \in Buffer : Held(c) => InUse(c)
    BY HeldInUse
  <2>5. CASE CreateBuffer(b)
    <3>1. ~InUse(b) /\ ~lent[b] /\ resource[b] = "none"
      BY <2>5 DEF CreateBuffer, LendingInv, BuffersInv, NoDanglingRef, ObjectsFollow, LentWillReturn
    <3>2. LentWillReturn' /\ HeldIsOwned'
      BY <2>2, <2>4, <2>5, <3>1 DEF CreateBuffer, LendingInv, LentWillReturn, HeldIsOwned, TypeOK
    <3>3. \A c \in Buffer : Owner'[c] = Owner[c]
      BY <2>5 DEF CreateBuffer, Owner, TypeOK
    <3> QED BY <2>3, <3>2, <3>3 DEF Ownership!Move, Ownership!Keep
  <2>6. CASE DestroyBuffer(b)
    <3>1. LentWillReturn' /\ HeldIsOwned'
      BY <2>2, <2>6 DEF DestroyBuffer, LendingInv, LentWillReturn, HeldIsOwned, TypeOK
    <3>2. /\ Owner[b] # "gone" /\ Owner'[b] = "gone"
          /\ \A c \in Buffer \ {b} : Owner'[c] = Owner[c]
      BY <2>6 DEF DestroyBuffer, Owner, TypeOK
    <3> QED BY <2>3, <3>1, <3>2 DEF Ownership!Move, Ownership!Keep, Ownership!Destroy
  <2> QED BY <1>5, <2>5, <2>6
<1>6. ~ \E v \in View : UploadTexture(v)
  BY DEF UploadTexture
<1> QED BY <1>1, <1>2, <1>3, <1>4, <1>5, <1>6, StepKinds

(* The inductive invariant of a compositor that uploads nothing by itself. *)
AllInv == TypeOK /\ ViewsMatch /\ LendingInv

LEMMA AllInvInit == Init => AllInv
<1> SUFFICES ASSUME Init
             PROVE  AllInv
  OBVIOUS
<1>1. TypeOK /\ ViewsMatch /\ BuffersInv
  BY InitType, InitMatch, InitBuffers
<1>2. LentWillReturn /\ HeldIsOwned
  BY InitUse DEF Init, LentWillReturn, HeldIsOwned
<1> QED BY <1>1, <1>2 DEF AllInv, LendingInv

LEMMA AllInvStep ==
  ASSUME UploadsShm = FALSE
  PROVE  AllInv /\ [Next]_vars => AllInv'
BY TypeStep, ViewsMatchStep, BuffersStep, LendingStep DEF AllInv, LendingInv

(* While the compositor shows a buffer, or will, its client leaves it      *)
(* alone: WaylandBufferRef's promise, for compositors that do not draw shm *)
(* buffers through toOpenGlTexture().                                      *)
THEOREM HeldIsAlwaysOwned ==
  ASSUME UploadsShm = FALSE
  PROVE  Safety => []HeldIsOwned
<1>1. AllInv => HeldIsOwned
  BY DEF AllInv, LendingInv
<1> QED BY <1>1, AllInvInit, AllInvStep, PTL DEF Safety

(* Under the same condition the compositor follows the release protocol.   *)
THEOREM FollowsOwnership ==
  ASSUME UploadsShm = FALSE
  PROVE  Safety => ImplementsOwnership
<1>1. Init => Ownership!Init
  <2> SUFFICES ASSUME Init
               PROVE  Ownership!Init
    OBVIOUS
  <2>1. \A b \in Buffer : resource[b] = "none" /\ lent[b] = FALSE
    BY DEF Init
  <2>2. Owner = [b \in Buffer |-> "client"]
    BY <2>1 DEF Owner
  <2>3. \A b \in Buffer : Used[b] = FALSE
    BY InitUse, UsedIsInUse
  <2>4. Used = [b \in Buffer |-> FALSE]
    BY <2>3 DEF Used
  <2> QED BY <2>2, <2>4 DEF Ownership!Init
<1>2. AllInv /\ [Next]_vars => [Ownership!Next]_Ownership!vars
  <2> SUFFICES ASSUME AllInv, [Next]_vars
               PROVE  Ownership!Next
    OBVIOUS
  <2>1. \A b \in Buffer : Ownership!Move(b)
    BY LendingStep DEF AllInv
  <2>2. Owner' \in [Buffer -> {"client", "compositor", "gone"}]
    BY DEF Owner
  <2>3. Used' \in [Buffer -> BOOLEAN]
    BY DEF Used, InUse
  <2> QED BY <2>1, <2>2, <2>3 DEF Ownership!Next
<1> QED BY <1>1, <1>2, AllInvInit, AllInvStep, PTL DEF Safety, ImplementsOwnership, Ownership!Spec
=============================================================================
