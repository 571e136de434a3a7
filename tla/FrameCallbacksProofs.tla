------------------------ MODULE FrameCallbacksProofs ------------------------
(***************************************************************************)
(* What holds of FrameCallbacks for any number of views, outputs, commits  *)
(* and changes: the types, what the client is told of its outputs, and the *)
(* order of its callbacks.                                                 *)
(***************************************************************************)
EXTENDS FrameCallbacks, ListProofs, FiniteSetTheorems

-----------------------------------------------------------------------------
(* Type correctness. *)

LEMMA RangeType ==
  ASSUME NEW S, NEW q \in Seq(S)
  PROVE  SeqRange(q) \subseteq S
BY DEF SeqRange

LEMMA InitType == Init => TypeOK
<1> SUFFICES ASSUME Init PROVE TypeOK
  OBVIOUS
<1>1. Cardinality(Views) \in Nat
  BY ViewsAssumption, FS_CardinalityType
<1>2. views \in Seq(Views) /\ Distinct(views)
  <2>1. PICK n \in 0 .. Cardinality(Views) : views \in [1 .. n -> Views]
    BY DEF Init
  <2>2. n \in Nat
    BY <1>1, <2>1
  <2> QED BY <2>1, <2>2, SeqDef DEF Init
<1>3. viewOutput \in [Views -> Places]
  BY DEF Init, Places
<1>4. \A o \in Outputs : surfaceViews[o] = {v \in SeqRange(views) : viewOutput[v] = o}
  BY <1>2, NoneAssumption, RangeType DEF Init
<1>5. entered \in [Outputs -> BOOLEAN] /\ dirty \in [Outputs -> BOOLEAN]
  BY DEF Init
<1>6. surfaceViews \in [Outputs -> SUBSET Views] /\ posted \in [Outputs -> 0 .. 2]
  BY DEF Init
<1>7. /\ alive \in BOOLEAN /\ content \in BOOLEAN /\ told \subseteq Outputs
      /\ commits \in 0 .. MaxCommits /\ moves \in 0 .. MaxMoves /\ begun \in 0 .. MaxCommits
      /\ waiting \subseteq Commits /\ canSend \subseteq waiting
      /\ done \subseteq Commits /\ steady \subseteq Commits
      /\ rendering \subseteq Outputs /\ \A o \in rendering : posted[o] < 2
  <2>1. /\ alive = TRUE /\ content = FALSE /\ commits = 0 /\ moves = 0 /\ begun = 0
        /\ told = {} /\ waiting = {} /\ canSend = {} /\ done = {} /\ steady = {} /\ rendering = {}
    BY DEF Init
  <2>2. /\ commits \in 0 .. MaxCommits /\ moves \in 0 .. MaxMoves /\ begun \in 0 .. MaxCommits
    BY <2>1, BoundAssumption
  <2>3. \A o \in rendering : posted[o] < 2
    BY <2>1
  <2> QED BY <2>1, <2>2, <2>3
<1>8. window \in [Views -> Places]
  BY DEF Init
<1> QED BY <1>2, <1>3, <1>4, <1>5, <1>6, <1>7, <1>8 DEF TypeOK

(* The list of views is the same set again when one of them becomes first. *)
LEMMA PrimaryFirst ==
  ASSUME TypeOK, NEW v \in SeqRange(views), views' = <<v>> \o Without(views, v)
  PROVE  views' \in Seq(Views) /\ Distinct(views') /\ SeqRange(views') = SeqRange(views)
<1>1. views \in Seq(Views) /\ Distinct(views) /\ v \in Views
  BY RangeType DEF TypeOK
<1>2. /\ Without(views, v) \in Seq(Views) /\ Distinct(Without(views, v))
      /\ SeqRange(Without(views, v)) = SeqRange(views) \ {v}
  BY <1>1, WithoutType, WithoutFacts
<1>3. /\ SeqRange(views') = (SeqRange(views) \ {v}) \cup {v} /\ Distinct(views')
  BY <1>1, <1>2, PrependFacts
<1>4. views' \in Seq(Views)
  BY <1>1, <1>2, ConcatProperties
<1> QED BY <1>3, <1>4

(* What MoveView does to the outputs. *)
LEMMA MoveType ==
  ASSUME TypeOK, NEW v \in Views, NEW from, NEW to, MoveView(v, from, to)
  PROVE  /\ surfaceViews' \in [Outputs -> SUBSET Views]
         /\ \A o \in Outputs : surfaceViews'[o] = IF o = to THEN surfaceViews[o] \cup {v}
                                                  ELSE IF o = from THEN surfaceViews[o] \ {v}
                                                  ELSE surfaceViews[o]
         /\ entered' \in [Outputs -> BOOLEAN] /\ told' \subseteq Outputs
BY DEF TypeOK, MoveView, Removed

LEMMA MoveBound == TypeOK /\ Move => moves' \in 0 .. MaxMoves
BY BoundAssumption DEF TypeOK, Move

LEMMA NextType ==
  ASSUME TypeOK, [Next]_vars
  PROVE  TypeOK'
<1> USE NoneAssumption, BoundAssumption DEF Commits, Places
<1>1. ASSUME NEW has \in BOOLEAN, NEW asks \in BOOLEAN, Commit(has, asks)
      PROVE  TypeOK'
  <2>1. commits' \in Commits /\ commits' = commits + 1
    BY <1>1 DEF Commit, TypeOK
  <2>2. waiting' \subseteq Commits /\ waiting \subseteq waiting' /\ steady' \subseteq Commits
    BY <1>1, <2>1 DEF Commit, TypeOK
  <2> QED BY <1>1, <2>1, <2>2 DEF Commit, TypeOK, viewVars, outputVars
<1>2. CASE DestroySurface
  <2>1. views' \in Seq(Views) /\ Distinct(views') /\ SeqRange(views') = {}
    BY <1>2, EmptySeq DEF DestroySurface, Distinct, SeqRange
  <2> QED BY <1>2, <2>1 DEF DestroySurface, TypeOK, renderVars
<1>3. ASSUME NEW v \in Views, SetSurface(v)
      PROVE  TypeOK'
  <2> DEFINE o == IF window[v] = NoOutput THEN viewOutput[v] ELSE window[v]
  <2>1. /\ v \notin SeqRange(views) /\ views' = Append(views, v) /\ MoveView(v, NoOutput, o)
        /\ viewOutput' = [viewOutput EXCEPT ![v] = o]
    BY <1>3 DEF SetSurface
  <2>2. views' \in Seq(Views) /\ SeqRange(views') = SeqRange(views) \cup {v} /\ Distinct(views')
    BY <2>1, AppendFacts, AppendRange DEF TypeOK
  <2>3. o \in Places /\ viewOutput' \in [Views -> Places]
    BY <2>1 DEF TypeOK
  <2>4. /\ surfaceViews' \in [Outputs -> SUBSET Views]
        /\ entered' \in [Outputs -> BOOLEAN] /\ told' \subseteq Outputs
    BY <2>1, MoveType
  <2>5. SeqRange(views) \subseteq Views
    BY RangeType DEF TypeOK
  <2>6. ASSUME NEW p \in Outputs
        PROVE  surfaceViews'[p] = {u \in SeqRange(views') : viewOutput'[u] = p}
    <3>1. surfaceViews'[p] = IF p = o THEN surfaceViews[p] \cup {v} ELSE surfaceViews[p]
      BY <2>1 DEF MoveView
    <3>2. surfaceViews[p] = {u \in SeqRange(views) : viewOutput[u] = p}
      BY DEF TypeOK
    <3>3. /\ viewOutput'[v] = o
          /\ \A u \in SeqRange(views) : viewOutput'[u] = viewOutput[u]
      BY <2>1, <2>5 DEF TypeOK
    <3> QED BY <2>2, <3>1, <3>2, <3>3
  <2> QED BY <1>3, <2>2, <2>3, <2>4, <2>6, MoveBound DEF SetSurface, TypeOK, clientVars, callbackVars, renderVars
<1>4. ASSUME NEW v \in Views, UnsetSurface(v)
      PROVE  TypeOK'
  <2>1. v \in SeqRange(views) /\ views' = Without(views, v) /\ MoveView(v, viewOutput[v], NoOutput)
        /\ UNCHANGED viewOutput
    BY <1>4 DEF UnsetSurface
  <2>2. views' \in Seq(Views) /\ SeqRange(views') = SeqRange(views) \ {v} /\ Distinct(views')
    BY <2>1, WithoutType, WithoutFacts DEF TypeOK
  <2>3. /\ surfaceViews' \in [Outputs -> SUBSET Views]
        /\ entered' \in [Outputs -> BOOLEAN] /\ told' \subseteq Outputs
    BY <2>1, MoveType
  <2>4. ASSUME NEW p \in Outputs
        PROVE  surfaceViews'[p] = {u \in SeqRange(views') : viewOutput'[u] = p}
    <3>1. surfaceViews'[p] = IF p = viewOutput[v] THEN surfaceViews[p] \ {v} ELSE surfaceViews[p]
      BY <2>1 DEF MoveView, Removed
    <3>2. surfaceViews[p] = {u \in SeqRange(views) : viewOutput[u] = p}
      BY DEF TypeOK
    <3> QED BY <2>1, <2>2, <3>1, <3>2
  <2> QED BY <1>4, <2>2, <2>3, <2>4, MoveBound DEF UnsetSurface, TypeOK, clientVars, callbackVars, renderVars
<1>5. ASSUME NEW v \in Views, SetPrimary(v)
      PROVE  TypeOK'
  <2>1. views' \in Seq(Views) /\ SeqRange(views') = SeqRange(views) /\ Distinct(views')
    BY <1>5, PrimaryFirst DEF SetPrimary
  <2> QED BY <1>5, <2>1 DEF SetPrimary, Move, TypeOK, clientVars, outputVars, callbackVars, renderVars
<1>6. ASSUME NEW v \in Views, NEW w \in Places, SetWindow(v, w)
      PROVE  TypeOK'
  <2>1. /\ window' \in [Views -> Places] /\ dirty' \in [Outputs -> BOOLEAN]
        /\ moves' \in 0 .. MaxMoves /\ steady' \subseteq Commits
    <3>1. window' \in [Views -> Places] /\ steady' \subseteq Commits
      BY <1>6 DEF SetWindow, TypeOK
    <3>2. dirty' = [p \in Outputs |-> dirty[p] \/ p \in {w, window[v]}]
      BY <1>6 DEF SetWindow
    <3>3. dirty' \in [Outputs -> BOOLEAN]
      BY <3>2
    <3>4. moves' \in 0 .. MaxMoves
      BY <1>6, MoveBound DEF SetWindow
    <3> QED BY <3>1, <3>3, <3>4
  <2>2. CASE w # NoOutput /\ v \in SeqRange(views) /\ w # viewOutput[v]
    <3>1. MoveView(v, viewOutput[v], w) /\ viewOutput' = [viewOutput EXCEPT ![v] = w] /\ UNCHANGED views
      BY <1>6, <2>2 DEF SetWindow
    <3>2. /\ surfaceViews' \in [Outputs -> SUBSET Views]
          /\ entered' \in [Outputs -> BOOLEAN] /\ told' \subseteq Outputs
      BY <3>1, MoveType
    <3>3. SeqRange(views) \subseteq Views
      BY RangeType DEF TypeOK
    <3>4. ASSUME NEW p \in Outputs
          PROVE  surfaceViews'[p] = {u \in SeqRange(views') : viewOutput'[u] = p}
      <4>1. surfaceViews'[p] = IF p = w THEN surfaceViews[p] \cup {v}
                               ELSE IF p = viewOutput[v] THEN surfaceViews[p] \ {v}
                               ELSE surfaceViews[p]
        BY <3>1 DEF MoveView, Removed
      <4>2. surfaceViews[p] = {u \in SeqRange(views) : viewOutput[u] = p}
        BY DEF TypeOK
      <4>3. /\ viewOutput'[v] = w
            /\ \A u \in SeqRange(views) \ {v} : viewOutput'[u] = viewOutput[u]
        BY <3>1, <3>3 DEF TypeOK
      <4> QED BY <2>2, <3>1, <4>1, <4>2, <4>3
    <3> QED BY <1>6, <2>1, <3>1, <3>2, <3>4 DEF SetWindow, TypeOK, clientVars, callbackVars
  <2>3. CASE ~(w # NoOutput /\ v \in SeqRange(views) /\ w # viewOutput[v])
    BY <1>6, <2>1, <2>3 DEF SetWindow, TypeOK, clientVars, outputVars, callbackVars
  <2> QED BY <2>2, <2>3
<1>7. ASSUME NEW o \in Outputs, Repaint(o)
      PROVE  TypeOK'
  BY <1>7 DEF Repaint, Move, TypeOK, clientVars, outputVars, callbackVars
<1>8. ASSUME NEW o \in Outputs, Sync(o)
      PROVE  TypeOK'
  BY <1>8 DEF Sync, Started, TypeOK, clientVars, viewVars, outputVars
<1>9. ASSUME NEW o \in Outputs, AfterRendering(o)
      PROVE  TypeOK'
  BY <1>9 DEF AfterRendering, TypeOK, clientVars, viewVars, outputVars, callbackVars
<1>10. ASSUME NEW o \in Outputs, SendFrameCallbacks(o)
       PROVE  TypeOK'
  <2>1. posted' \in [Outputs -> 0 .. 2] /\ \A p \in rendering' : posted'[p] < 2
    BY <1>10 DEF SendFrameCallbacks, TypeOK
  <2>2. /\ entered' \in [Outputs -> BOOLEAN] /\ told' \subseteq Outputs
        /\ waiting' \subseteq Commits /\ canSend' \subseteq waiting' /\ done' \subseteq Commits
    <3>1. Sent(o) \subseteq canSend
      BY DEF Sent
    <3>2. CASE content /\ surfaceViews[o] # {}
      <4>1. /\ entered' = [entered EXCEPT ![o] = TRUE] /\ told' \subseteq told \cup {o}
            /\ waiting' = waiting \ Sent(o) /\ canSend' = canSend \ Sent(o) /\ done' = done \cup Sent(o)
        BY <1>10, <3>2 DEF SendFrameCallbacks
      <4> QED BY <3>1, <4>1 DEF TypeOK
    <3>3. CASE ~(content /\ surfaceViews[o] # {})
      BY <1>10, <3>3 DEF SendFrameCallbacks, TypeOK, callbackVars
    <3> QED BY <3>2, <3>3
  <2> QED BY <1>10, <2>1, <2>2 DEF SendFrameCallbacks, TypeOK, clientVars, viewVars
<1>11. CASE UNCHANGED vars
  BY <1>11 DEF TypeOK, vars, clientVars, viewVars, outputVars, callbackVars, renderVars
<1> QED BY <1>1, <1>2, <1>3, <1>4, <1>5, <1>6, <1>7, <1>8, <1>9, <1>10, <1>11 DEF Next

(* Every variable keeps its type, and the list of views a surface has for an *)
(* output is what its views say of themselves.                               *)
THEOREM TypeCorrect == Spec => []TypeOK
<1>1. TypeOK /\ [Next]_vars => TypeOK'
  BY NextType
<1> QED BY <1>1, InitType, PTL DEF Spec
-----------------------------------------------------------------------------
(* The order of the callbacks.                                             *)

\* The callbacks are numbered up to the last commit, and those that a frame
\* has marked are older than those that wait for the next frame.
OrderInv ==
  /\ \A c \in waiting \cup done : c <= commits
  /\ \A c \in done, d \in waiting : c < d
  /\ \A c \in canSend, d \in waiting \ canSend : c < d
  /\ \A c \in canSend \cup done : c <= begun
  /\ begun <= commits

LEMMA OrderStep ==
  ASSUME TypeOK, OrderInv, [Next]_vars
  PROVE  OrderInv'
<1>1. /\ waiting \subseteq Nat /\ canSend \subseteq waiting /\ done \subseteq Nat
      /\ commits \in Nat /\ begun \in Nat
  BY BoundAssumption DEF TypeOK, Commits
<1>2. ASSUME NEW has \in BOOLEAN, NEW asks \in BOOLEAN, Commit(has, asks)
      PROVE  OrderInv'
  <2>1. /\ commits' = commits + 1 /\ canSend' = canSend /\ done' = done /\ begun' = begun
        /\ waiting' \subseteq waiting \cup {commits + 1}
    BY <1>2 DEF Commit
  <2>2. \A d \in waiting' : d \in waiting \/ d = commits + 1
    BY <2>1
  <2>3. \A c \in waiting \cup done : c < commits + 1
    BY <1>1 DEF OrderInv
  <2>4. \A c \in waiting' \cup done' : c <= commits'
    BY <1>1, <2>1, <2>2, <2>3
  <2>5. /\ \A c \in done', d \in waiting' : c < d
        /\ \A c \in canSend', d \in waiting' \ canSend' : c < d
    BY <1>1, <2>1, <2>2, <2>3 DEF OrderInv
  <2>6. (\A c \in canSend' \cup done' : c <= begun') /\ begun' <= commits'
    BY <1>1, <2>1 DEF OrderInv
  <2> QED BY <2>4, <2>5, <2>6 DEF OrderInv
<1>3. CASE DestroySurface
  BY <1>1, <1>3 DEF DestroySurface, OrderInv, renderVars
<1>4. ASSUME NEW o \in Outputs, Sync(o)
      PROVE  OrderInv'
  <2>1. /\ UNCHANGED <<waiting, done, commits>> /\ begun' = commits
        /\ canSend' = canSend \/ canSend' = waiting
    BY <1>4 DEF Sync, Started, clientVars
  <2>2. CASE canSend' = canSend
    BY <1>1, <2>1, <2>2 DEF OrderInv
  <2>3. CASE canSend' = waiting
    BY <1>1, <2>1, <2>3 DEF OrderInv
  <2> QED BY <2>1, <2>2, <2>3
<1>5. ASSUME NEW o \in Outputs, SendFrameCallbacks(o)
      PROVE  OrderInv'
  <2>1. /\ commits' = commits /\ begun' = begun
        /\ \/ waiting' = waiting /\ canSend' = canSend /\ done' = done
           \/ waiting' = waiting \ canSend /\ canSend' = {} /\ done' = done \cup canSend
    BY <1>5 DEF SendFrameCallbacks, Sent, clientVars, callbackVars
  <2>2. CASE waiting' = waiting /\ canSend' = canSend /\ done' = done
    BY <2>1, <2>2 DEF OrderInv
  <2>3. CASE waiting' = waiting \ canSend /\ canSend' = {} /\ done' = done \cup canSend
    BY <1>1, <2>1, <2>3 DEF OrderInv
  <2> QED BY <2>1, <2>2, <2>3
<1>6. CASE UNCHANGED <<commits, waiting, canSend, done, begun>>
  BY <1>6 DEF OrderInv
<1>7. ASSUME NEW v \in Views, SetSurface(v) \/ UnsetSurface(v) \/ SetPrimary(v)
      PROVE  UNCHANGED <<commits, waiting, canSend, done, begun>>
  BY <1>7 DEF SetSurface, UnsetSurface, SetPrimary, clientVars, callbackVars, renderVars
<1>8. ASSUME NEW v \in Views, NEW w \in Places, SetWindow(v, w)
      PROVE  UNCHANGED <<commits, waiting, canSend, done, begun>>
  BY <1>8 DEF SetWindow, clientVars, callbackVars
<1>9. ASSUME NEW o \in Outputs, Repaint(o) \/ AfterRendering(o)
      PROVE  UNCHANGED <<commits, waiting, canSend, done, begun>>
  BY <1>9 DEF Repaint, AfterRendering, clientVars, callbackVars
<1>10. CASE UNCHANGED vars
  BY <1>6, <1>10 DEF vars, clientVars, callbackVars, renderVars
<1> QED BY <1>2, <1>3, <1>4, <1>5, <1>6, <1>7, <1>8, <1>9, <1>10 DEF Next

THEOREM OrderHolds == Spec => []OrderInv
<1>1. Init => OrderInv
  BY DEF Init, OrderInv
<1>2. TypeOK /\ OrderInv /\ [Next]_vars => OrderInv'
  BY OrderStep
<1> QED BY <1>1, <1>2, TypeCorrect, PTL DEF Spec

(* Callbacks are sent in the order of their commits, however many windows  *)
(* send them and wherever the application moves the views.                 *)
THEOREM OrderedCallbacks == Spec => []CallbacksInOrder
<1>1. OrderInv => CallbacksInOrder
  BY DEF OrderInv, CallbacksInOrder
<1> QED BY <1>1, OrderHolds, PTL

(* No callback is sent before a frame has begun with its commit.           *)
THEOREM CallbacksFollowFrames == Spec => []DoneIsBegun
<1>1. OrderInv => DoneIsBegun
  BY DEF OrderInv, DoneIsBegun
<1> QED BY <1>1, OrderHolds, PTL
-----------------------------------------------------------------------------
(* What the client is told of its outputs.                                 *)

\* has_entered is what the client was told, and goes with the last view.
EnterInv ==
  /\ told = {o \in Outputs : entered[o]}
  /\ \A o \in Outputs : entered[o] => surfaceViews[o] # {}

LEMMA MoveEnters ==
  ASSUME TypeOK, EnterInv, NEW v \in Views, NEW from \in Places, NEW to \in Places,
         MoveView(v, from, to)
  PROVE  EnterInv'
<1>1. /\ surfaceViews \in [Outputs -> SUBSET Views] /\ entered \in [Outputs -> BOOLEAN]
      /\ told \subseteq Outputs
  BY DEF TypeOK
<1>2. /\ told' = {o \in told : ~(o = from /\ Left(from, v) /\ entered[o])}
      /\ \A o \in Outputs : entered'[o] = (entered[o] /\ ~(o = from /\ Left(from, v)))
  BY DEF MoveView
<1>3. told' = {o \in Outputs : entered'[o]}
  BY <1>1, <1>2 DEF EnterInv
<1>4. ASSUME NEW o \in Outputs, entered'[o]
      PROVE  surfaceViews'[o] # {}
  <2>1. entered[o] /\ surfaceViews[o] # {} /\ (o = from => surfaceViews[o] # {v})
    BY <1>2, <1>4, NoneAssumption DEF EnterInv, Left
  <2>2. surfaceViews'[o] = IF o = to THEN surfaceViews[o] \cup {v}
                           ELSE IF o = from THEN surfaceViews[o] \ {v} ELSE surfaceViews[o]
    BY DEF MoveView, Removed
  <2> QED BY <2>1, <2>2
<1> QED BY <1>3, <1>4 DEF EnterInv

LEMMA EnterStep ==
  ASSUME TypeOK, EnterInv, [Next]_vars
  PROVE  EnterInv'
<1>1. /\ surfaceViews \in [Outputs -> SUBSET Views] /\ entered \in [Outputs -> BOOLEAN]
      /\ told \subseteq Outputs /\ viewOutput \in [Views -> Places] /\ window \in [Views -> Places]
  BY DEF TypeOK
<1>2. NoOutput \in Places
  BY DEF Places
<1>3. CASE UNCHANGED outputVars
  BY <1>3 DEF EnterInv, outputVars
<1>4. CASE DestroySurface
  <2>1. told' = {} /\ entered' = [o \in Outputs |-> FALSE]
    BY <1>1, <1>4 DEF DestroySurface, EnterInv
  <2> QED BY <2>1 DEF EnterInv
<1>5. ASSUME NEW v \in Views, SetSurface(v)
      PROVE  EnterInv'
  <2> DEFINE p == IF window[v] = NoOutput THEN viewOutput[v] ELSE window[v]
  <2>1. MoveView(v, NoOutput, p)
    BY <1>5 DEF SetSurface
  <2>2. p \in Places
    BY <1>1
  <2> HIDE DEF p
  <2> QED BY <1>2, <2>1, <2>2, MoveEnters
<1>6. ASSUME NEW v \in Views, UnsetSurface(v)
      PROVE  EnterInv'
  <2>1. MoveView(v, viewOutput[v], NoOutput) /\ viewOutput[v] \in Places
    BY <1>1, <1>6 DEF UnsetSurface
  <2> QED BY <1>2, <2>1, MoveEnters
<1>7. ASSUME NEW v \in Views, NEW w \in Places, SetWindow(v, w)
      PROVE  EnterInv'
  <2>1. \/ MoveView(v, viewOutput[v], w) /\ viewOutput[v] \in Places
        \/ UNCHANGED outputVars
    BY <1>1, <1>7 DEF SetWindow
  <2> QED BY <1>3, <2>1, MoveEnters
<1>8. ASSUME NEW o \in Outputs, SendFrameCallbacks(o)
      PROVE  EnterInv'
  <2>1. CASE content /\ surfaceViews[o] # {}
    <3>1. /\ surfaceViews' = surfaceViews /\ entered' = [entered EXCEPT ![o] = TRUE]
          /\ told' = IF entered[o] THEN told ELSE told \cup {o}
      BY <1>8, <2>1 DEF SendFrameCallbacks
    <3>2. \A p \in Outputs : entered'[p] = IF p = o THEN TRUE ELSE entered[p]
      BY <1>1, <3>1
    <3> QED BY <1>1, <2>1, <3>1, <3>2 DEF EnterInv
  <2>2. CASE ~(content /\ surfaceViews[o] # {})
    BY <1>3, <1>8, <2>2 DEF SendFrameCallbacks, outputVars
  <2> QED BY <2>1, <2>2
<1>9. ASSUME NEW has \in BOOLEAN, NEW asks \in BOOLEAN, Commit(has, asks)
      PROVE  EnterInv'
  BY <1>3, <1>9 DEF Commit
<1>10. ASSUME NEW v \in Views, SetPrimary(v)
       PROVE  EnterInv'
  BY <1>3, <1>10 DEF SetPrimary
<1>11. ASSUME NEW o \in Outputs, Repaint(o) \/ Sync(o) \/ AfterRendering(o)
       PROVE  EnterInv'
  BY <1>3, <1>11 DEF Repaint, Sync, AfterRendering
<1>12. CASE UNCHANGED vars
  BY <1>3, <1>12 DEF vars
<1> QED BY <1>4, <1>5, <1>6, <1>7, <1>8, <1>9, <1>10, <1>11, <1>12 DEF Next

(* While the client is told that its surface is on an output, one of the     *)
(* surface's views is there: no order of changes to views, windows and the   *)
(* surface loses a leave event.                                              *)
THEOREM ToldOnlyWhatIsThere == Spec => []ToldIsThere
<1>1. Init => EnterInv
  <2>1. ASSUME Init
        PROVE  told = {} /\ entered = [o \in Outputs |-> FALSE]
    BY <2>1 DEF Init
  <2> QED BY <2>1 DEF EnterInv
<1>2. TypeOK /\ EnterInv /\ [Next]_vars => EnterInv'
  BY EnterStep
<1>3. TypeOK /\ EnterInv => ToldIsThere
  BY DEF TypeOK, EnterInv, ToldIsThere
<1> QED BY <1>1, <1>2, <1>3, TypeCorrect, PTL DEF Spec
=============================================================================
