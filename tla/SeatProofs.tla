----------------------------- MODULE SeatProofs -----------------------------
(***************************************************************************)
(* What holds of a seat for any number of clients, surfaces, keyboards,    *)
(* keys, sources, pipes, mime types, items, pointers and buttons.  Each    *)
(* step of the seat is one of the keyboard, of the pointer and of the      *)
(* selection, or leaves them alone; the three invariants are those of the  *)
(* parts, and OfferedKnown ties the selection to the keyboard focus.       *)
(***************************************************************************)
EXTENDS Seat, KeyboardFocusProofs

(* The pointers and the drag.  *)
PointerInv == PointerTypeOK /\ PointersPaired /\ DragPaired

(* A pipe that is drained is open; what has been read so far is of the mime *)
(* type that is read, which the source has. *)
ReadInv ==
  /\ \A p \in obsolete : pipe[p] # None
  /\ notifier # None =>
       readIndex < mimes[current] /\ readBuf \subseteq {<<current, readIndex + 1>>}

SelectionInv == SelectionTypeOK /\ NoDeadSource /\ RetainedOfCurrent /\ ReadInv

(* Only a client with a data device is offered anything. *)
OfferedKnown ==
  offered # None =>
    ClientOf(focus) \in devices /\ (offered \in Sources => source[offered] # "unborn")

SeatInv == KeyboardInv /\ PointerInv /\ SelectionInv /\ PastesCurrent /\ OfferedKnown

-----------------------------------------------------------------------------
(* The pointers by themselves. *)

LEMMA PointerStart == PointerInit => PointerInv
BY DEF PointerInit, PointerInv, PointerTypeOK, PointersPaired, DragPaired, PointersOf

LEMMA PointerStill == PointerInv /\ UNCHANGED pointerDragVars => PointerInv'
BY DEF PointerInv, PointerTypeOK, PointersPaired, DragPaired, PointersOf, pointerDragVars,
   mouseVars, pointerVars, dragVars
-----------------------------------------------------------------------------
(* The mouse focus moves. *)

FocusType ==
  /\ mouseFocus \in Items \cup {None} /\ enteredSurface \in Surfaces \cup {None}
  /\ pointerIn \in [Pointers -> Surfaces \cup {None}]

LEMMA EnterKeeps ==
  ASSUME PointerInv, NEW s \in Surfaces \cup {None}, EnsureEntered(s), pointers' = pointers,
         mouseFocus' \in Items \cup {None}
  PROVE  FocusType' /\ PointersPaired'
BY DEF PointerInv, PointerTypeOK, PointersPaired, PointersOf, EnsureEntered, FocusType

LEMMA MouseFocusKeeps ==
  ASSUME PointerInv, NEW i \in Items \cup {None}, SetMouseFocus(i), pointers' = pointers
  PROVE  FocusType' /\ PointersPaired'
<1>1. mouseFocus' \in Items \cup {None}
  BY DEF SetMouseFocus
<1>2. CASE EnsureEntered(None)
  BY <1>1, <1>2, EnterKeeps
<1>3. CASE UNCHANGED <<enteredSurface, pointerIn>>
  BY <1>1, <1>3 DEF PointerInv, PointerTypeOK, PointersPaired, PointersOf, FocusType
<1> QED BY <1>2, <1>3 DEF SetMouseFocus

LEMMA MoveKeeps ==
  ASSUME PointerInv, NEW i \in Items, shows[i] # None, SendMouseMoveEvent(i), pointers' = pointers
  PROVE  FocusType' /\ PointersPaired'
BY EnterKeeps DEF SendMouseMoveEvent, PointerInv, PointerTypeOK

LEMMA DragFocusKeeps ==
  ASSUME PointerInv, NEW s \in Surfaces \cup {None}, SetDragFocus(s)
  PROVE  /\ dragFocus' \in Surfaces \cup {None} /\ dragResource' \in Clients \cup {None}
         /\ dragIn' \in [Clients -> Surfaces \cup {None}]
         /\ DragPaired'
<1> DEFINE client == IF s # None /\ Owner[s] \in devices THEN Owner[s] ELSE None
<1>1. /\ client \in Clients \cup {None}
      /\ client # None => s \in Surfaces
  BY OwnerAssumption
<1>2. /\ dragFocus' = IF client # None THEN s ELSE None
      /\ dragResource' = client
      /\ dragIn' = [c \in Clients |-> IF c = client THEN s ELSE IF c = dragResource THEN None ELSE dragIn[c]]
  BY DEF SetDragFocus
<1> HIDE DEF client
<1>3. \A c \in Clients : c # client => dragIn'[c] = None
  BY <1>2 DEF PointerInv, DragPaired
<1>4. \A c \in Clients : c = client => c # None /\ dragIn'[c] = s /\ dragFocus' = s
  BY <1>2, NoneAssumption
<1>5. DragPaired'
  BY <1>2, <1>3, <1>4 DEF DragPaired
<1>6. dragIn' \in [Clients -> Surfaces \cup {None}]
  <2>1. \A c \in Clients : dragIn'[c] \in Surfaces \cup {None}
    BY <1>3, <1>4
  <2> QED BY <1>2, <2>1
<1>7. dragFocus' \in Surfaces \cup {None} /\ dragResource' \in Clients \cup {None}
  BY <1>1, <1>2
<1> QED BY <1>5, <1>6, <1>7
-----------------------------------------------------------------------------
(* The steps. *)

LEMMA PointersChange ==
  ASSUME PointerInv, NEW p \in Pointers, BindPointer(p) \/ ReleasePointer(p)
  PROVE  PointerInv'
<1> USE DEF mouseVars, dragVars
<1>1. pointerIn' \in [Pointers -> Surfaces \cup {None}] /\ pointers' \subseteq Pointers
  BY DEF BindPointer, ReleasePointer, PointerInv, PointerTypeOK
<1>2. PointerTypeOK'
  BY <1>1 DEF BindPointer, ReleasePointer, PointerInv, PointerTypeOK
<1>3. CASE BindPointer(p)
  <2>1. PointersOf(enteredSurface)' = PointersOf(enteredSurface) \cup
          (IF enteredSurface # None /\ Owner[enteredSurface] = PointerHolder[p] THEN {p} ELSE {})
    BY <1>3 DEF BindPointer, PointersOf
  <2>2. \A q \in Pointers : pointerIn'[q] =
          IF q = p /\ enteredSurface # None /\ Owner[enteredSurface] = PointerHolder[p]
          THEN enteredSurface ELSE pointerIn[q]
    BY <1>3 DEF BindPointer, PointerInv, PointerTypeOK
  <2>3. UNCHANGED enteredSurface
    BY <1>3 DEF BindPointer
  <2>4. PointersPaired'
    BY <2>1, <2>2, <2>3 DEF PointerInv, PointersPaired
  <2> QED BY <1>2, <1>3, <2>4 DEF BindPointer, PointerInv, DragPaired
<1>4. CASE ReleasePointer(p)
  <2>1. PointersPaired'
    BY <1>4 DEF ReleasePointer, PointerInv, PointerTypeOK, PointersPaired, PointersOf
  <2> QED BY <1>2, <1>4, <2>1 DEF ReleasePointer, PointerInv, DragPaired
<1> QED BY <1>3, <1>4

LEMMA SurfaceShown ==
  ASSUME PointerInv, NEW i \in Items, NEW s \in Surfaces \cup {None}, SetSurface(i, s)
  PROVE  PointerInv'
BY DEF SetSurface, PointerInv, PointerTypeOK, PointersPaired, DragPaired, PointersOf, mouseVars,
   pointerVars, dragVars

LEMMA ItemDestroyed ==
  ASSUME PointerInv, NEW i \in Items, DestroyItem(i)
  PROVE  PointerInv'
<1> USE DEF DestroyItem
<1>1. FocusType' /\ PointersPaired'
  <2>1. CASE SetMouseFocus(None)
    BY <2>1, MouseFocusKeeps
  <2>2. CASE UNCHANGED <<mouseFocus, enteredSurface, pointerIn>>
    BY <2>2 DEF PointerInv, PointerTypeOK, PointersPaired, PointersOf, FocusType
  <2> QED BY <2>1, <2>2
<1>2. shows' \in [Items -> Surfaces \cup {None}]
  BY DEF PointerInv, PointerTypeOK
<1>3. PointerTypeOK'
  BY <1>1, <1>2 DEF PointerInv, PointerTypeOK, FocusType
<1> QED BY <1>1, <1>3 DEF PointerInv, DragPaired

LEMMA SurfaceGoes ==
  ASSUME PointerInv, NEW s \in Surfaces, SurfaceDestroyed(s)
  PROVE  PointerInv'
<1> USE DEF SurfaceDestroyed
<1>1. /\ shows' \in [Items -> Surfaces \cup {None}]
      /\ pointerIn' \in [Pointers -> Surfaces \cup {None}]
      /\ dragIn' \in [Clients -> Surfaces \cup {None}]
  BY DEF PointerInv, PointerTypeOK
<1>2. PointerTypeOK'
  BY <1>1 DEF PointerInv, PointerTypeOK
<1>3. DragPaired'
  BY DEF PointerInv, DragPaired
<1>4. PointersPaired'
  <2>1. CASE enteredSurface = s
    BY <2>1 DEF PointerInv, PointersPaired, PointersOf
  <2>2. CASE enteredSurface # s
    BY <2>2, NoneAssumption DEF PointerInv, PointersPaired, PointersOf
  <2> QED BY <2>1, <2>2
<1> QED BY <1>2, <1>3, <1>4 DEF PointerInv

LEMMA DragStarts ==
  ASSUME PointerInv, NEW d \in Sources, NEW s \in Surfaces, StartDrag(d, s)
  PROVE  PointerInv'
<1> USE DEF StartDrag, mouseVars
<1>1. FocusType' /\ PointersPaired'
  <2>1. CASE SetMouseFocus(None)
    BY <2>1, MouseFocusKeeps
  <2>2. CASE UNCHANGED <<mouseFocus, enteredSurface, pointerIn>>
    BY <2>2 DEF PointerInv, PointerTypeOK, PointersPaired, PointersOf, FocusType
  <2> QED BY <2>1, <2>2
<1>2. PointerTypeOK'
  BY <1>1 DEF PointerInv, PointerTypeOK, FocusType
<1> QED BY <1>1, <1>2 DEF PointerInv, DragPaired

LEMMA DragMoves ==
  ASSUME PointerInv,
         CancelDrag \/ \E s \in Surfaces : DragMove(s)
  PROVE  PointerInv'
<1> USE DEF CancelDrag, DragMove, mouseVars, pointerVars
<1>1. UNCHANGED <<shows, held, grab, buttonCount, mouseFocus, enteredSurface, pointers, pointerIn,
                  isDragging, dragSource>>
  OBVIOUS
<1>2. /\ dragFocus' \in Surfaces \cup {None} /\ dragResource' \in Clients \cup {None}
      /\ dragIn' \in [Clients -> Surfaces \cup {None}]
      /\ DragPaired'
  <2>1. CASE \E s \in Surfaces \cup {None} : SetDragFocus(s)
    BY <2>1, DragFocusKeeps
  <2>2. CASE UNCHANGED <<dragFocus, dragResource, dragIn>>
    BY <2>2 DEF PointerInv, PointerTypeOK, DragPaired
  <2> QED BY <2>1, <2>2
<1>3. PointerTypeOK'
  BY <1>1, <1>2 DEF PointerInv, PointerTypeOK
<1> QED BY <1>1, <1>2, <1>3 DEF PointerInv, PointersPaired, PointersOf

LEMMA MouseMoves ==
  ASSUME PointerInv, HoverLeave \/ \E i \in Items : MouseMove(i)
  PROVE  PointerInv'
<1> USE DEF HoverLeave, MouseMove, mouseVars, dragVars
<1>1. UNCHANGED <<shows, held, grab, buttonCount, pointers, isDragging, dragSource, dragFocus,
                  dragResource, dragIn>>
  OBVIOUS
<1>2. FocusType' /\ PointersPaired'
  BY <1>1, MouseFocusKeeps, MoveKeeps
<1>3. PointerTypeOK'
  BY <1>1, <1>2 DEF PointerInv, PointerTypeOK, FocusType
<1> QED BY <1>1, <1>2, <1>3 DEF PointerInv, DragPaired

LEMMA ButtonGoesDown ==
  ASSUME PointerInv, NEW i \in Items, NEW b \in Buttons, MousePress(i, b)
  PROVE  PointerInv'
<1> USE DEF MousePress, dragVars
<1>1. FocusType' /\ PointersPaired'
  BY MoveKeeps
<1>2. buttonCount' \in Int
  BY DEF PointerInv, PointerTypeOK
<1>3. PointerTypeOK'
  BY <1>1, <1>2 DEF PointerInv, PointerTypeOK, FocusType
<1> QED BY <1>1, <1>3 DEF PointerInv, DragPaired

LEMMA ButtonGoesUp ==
  ASSUME PointerInv, NEW b \in Buttons, MouseRelease(b)
  PROVE  PointerInv'
<1> USE DEF MouseRelease, pointerVars
<1>1. /\ dragFocus' \in Surfaces \cup {None} /\ dragResource' \in Clients \cup {None}
      /\ dragIn' \in [Clients -> Surfaces \cup {None}]
      /\ DragPaired'
  <2>1. CASE Drop
    BY <2>1, DragFocusKeeps DEF Drop
  <2>2. CASE UNCHANGED <<dragFocus, dragResource, dragIn>>
    BY <2>2 DEF PointerInv, PointerTypeOK, DragPaired
  <2> QED BY <2>1, <2>2
<1>2. /\ buttonCount' \in Int /\ isDragging' \subseteq Items
      /\ held' \subseteq Buttons /\ grab' \in Items \cup {None}
  BY DEF PointerInv, PointerTypeOK
<1>3. PointerTypeOK'
  BY <1>1, <1>2 DEF PointerInv, PointerTypeOK
<1> QED BY <1>1, <1>3 DEF PointerInv, PointersPaired, PointersOf
-----------------------------------------------------------------------------
(* The selection by itself. *)

LEMMA SelectionStart == SelectionInit => SelectionInv /\ PastesCurrent
<1> SUFFICES ASSUME SelectionInit PROVE SelectionInv /\ PastesCurrent
  OBVIOUS
<1>1. DOMAIN retained = {}
  BY DEF SelectionInit, NoData
<1>2. SelectionTypeOK
  <2>1. 0 \in 0 .. MaxMimes
    BY SelectionAssumption
  <2>2. /\ source \in [Sources -> {"unborn", "live", "dead"}]
        /\ time \in [Sources -> Times \cup {0}] /\ mimes \in [Sources -> 0 .. MaxMimes]
        /\ pipe \in [Pipes -> OpenPipes \cup {None}]
    BY <2>1 DEF SelectionInit
  <2>3. \A m \in DOMAIN retained : retained[m] \subseteq Data \cup {Compositor}
    BY <1>1
  <2>4. readIndex \in 0 .. MaxMimes /\ readBuf \subseteq Data
    BY <2>1 DEF SelectionInit
  <2> QED BY <1>1, <2>2, <2>3, <2>4 DEF SelectionInit, SelectionTypeOK
<1>3. NoDeadSource /\ RetainedOfCurrent /\ ReadInv
  BY DEF SelectionInit, NoDeadSource, RetainedOfCurrent, ReadInv
<1>4. PastesCurrent
  BY SelectionAssumption DEF SelectionInit, PastesCurrent
<1> QED BY <1>2, <1>3, <1>4 DEF SelectionInv

(* Everything but what the client with the focus was offered stays. *)
LEMMA SelectionStays ==
  ASSUME SelectionInv, UNCHANGED WithoutOffered, offered' \in Sources \cup {Compositor, None},
         unheard' \in BOOLEAN
  PROVE  SelectionInv'
BY DEF SelectionInv, SelectionTypeOK, NoDeadSource, RetainedOfCurrent, ReadInv, WithoutOffered,
   sourceVars, readVars, Live

(* The next mime type is asked for, if there is one. *)
LEMMA AsksForNext ==
  ASSUME SelectionTypeOK, NEW d \in Sources, NEW index \in Nat, index <= mimes[d],
         NEW pipes \in [Pipes -> OpenPipes \cup {None}], NEW drained \in SUBSET Pipes,
         \A p \in drained : pipes[p] # None,
         Retained(d, index, pipes)
  PROVE  /\ readIndex' = index /\ index \in 0 .. MaxMimes
         /\ readBuf' \subseteq Data
         /\ notifier' \in Pipes \cup {None}
         /\ pipe' \in [Pipes -> OpenPipes \cup {None}]
         /\ \A p \in drained : pipe'[p] # None
         /\ notifier' # None =>
              /\ notifier' \notin drained /\ pipe'[notifier'] # None
              /\ pipe'[notifier'].of = <<d, index + 1>>
              /\ index < mimes[d] /\ readBuf' = {}
<1>1. mimes[d] \in 0 .. MaxMimes /\ MaxMimes \in Nat
  BY SelectionAssumption DEF SelectionTypeOK
<1>2. readIndex' = index /\ index \in 0 .. MaxMimes
  BY <1>1 DEF Retained
<1>3. CASE notifier' = None /\ pipe' = pipes /\ readBuf' \in {readBuf, {}}
  BY <1>2, <1>3 DEF SelectionTypeOK
<1>4. CASE \E p \in Pipes :
             /\ index < mimes[d] /\ readBuf' = {}
             /\ pipes[p] = None /\ notifier' = p
             /\ pipe' = [pipes EXCEPT ![p] =
                  [of |-> <<d, index + 1>>, unread |-> FALSE, writer |-> TRUE]]
  <2> DEFINE new == [of |-> <<d, index + 1>>, unread |-> FALSE, writer |-> TRUE]
  <2>1. PICK p \in Pipes :
             /\ index < mimes[d] /\ readBuf' = {}
             /\ pipes[p] = None /\ notifier' = p
             /\ pipe' = [pipes EXCEPT ![p] = new]
    BY <1>4
  <2>2. index + 1 \in Mimes
    BY <1>1, <2>1 DEF Mimes
  <2>3. new \in OpenPipes /\ new # None
    <3>1. <<d, index + 1>> \in Data
      BY <2>2 DEF Data
    <3>2. new \in OpenPipes
      BY <3>1 DEF OpenPipes
    <3> QED BY <3>2, PipeAssumption
  <2>4. p \notin drained
    BY <2>1
  <2>5. pipe'[p] = new /\ new.of = <<d, index + 1>>
    BY <2>1
  <2>6. p # None
    BY SelectionAssumption
  <2> QED BY <1>2, <2>1, <2>3, <2>4, <2>5
<1>5. index >= mimes[d] \/ index < mimes[d]
  BY <1>1
<1> QED BY <1>3, <1>4, <1>5 DEF Retained

LEMMA Accepts ==
  ASSUME SelectionInv, NEW d \in Sources \cup {None}, d # None => Live(d), Accepted(d),
         UNCHANGED <<devices, sourceVars>>, selection' = d,
         offered' \in Sources \cup {Compositor, None}, unheard' \in BOOLEAN
  PROVE  SelectionInv'
<1> USE DEF Accepted, sourceVars
<1>1. SelectionTypeOK /\ ReadInv /\ NoDeadSource
  BY DEF SelectionInv
<1>2. obsolete' \subseteq Pipes /\ \A p \in obsolete' : pipe[p] # None
  BY <1>1 DEF SelectionTypeOK, ReadInv, NoDeadSource
<1>3. CASE d # None /\ Retain
  <2>1. retained' = NoData /\ Retained(d, 0, pipe)
    BY <1>3
  <2>2. d \in Sources /\ mimes[d] \in Nat /\ 0 <= mimes[d] /\ pipe \in [Pipes -> OpenPipes \cup {None}]
    BY <1>1, <1>3 DEF SelectionTypeOK
  <2>3. DOMAIN retained' = {}
    BY <2>1 DEF NoData
  <2>4. /\ readIndex' = 0 /\ 0 \in 0 .. MaxMimes
        /\ readBuf' \subseteq Data
        /\ notifier' \in Pipes \cup {None}
        /\ pipe' \in [Pipes -> OpenPipes \cup {None}]
        /\ \A p \in obsolete' : pipe'[p] # None
        /\ notifier' # None =>
             /\ notifier' \notin obsolete' /\ pipe'[notifier'] # None
             /\ pipe'[notifier'].of = <<d, 0 + 1>>
             /\ 0 < mimes[d] /\ readBuf' = {}
    BY <1>1, <1>2, <2>1, <2>2, AsksForNext
  <2>5. SelectionTypeOK'
    BY <1>1, <1>2, <2>2, <2>3, <2>4 DEF SelectionTypeOK
  <2>6. NoDeadSource' /\ RetainedOfCurrent' /\ ReadInv'
    BY <1>3, <2>3, <2>4 DEF NoDeadSource, RetainedOfCurrent, ReadInv, Live
  <2> QED BY <2>5, <2>6 DEF SelectionInv
<1>4. CASE ~(d # None /\ Retain)
  <2>1. notifier' = None /\ UNCHANGED <<readIndex, readBuf, retained, pipe>>
    BY <1>4
  <2>2. SelectionTypeOK'
    BY <1>1, <1>2, <2>1 DEF SelectionTypeOK
  <2>3. NoDeadSource' /\ RetainedOfCurrent' /\ ReadInv'
    BY <1>2, <1>4, <2>1 DEF NoDeadSource, RetainedOfCurrent, ReadInv, Live
  <2> QED BY <2>2, <2>3 DEF SelectionInv
<1> QED BY <1>3, <1>4

LEMMA SelectionSet ==
  ASSUME SelectionInv, NEW d \in Sources \cup {None}, NEW c, SetSelection(d, c)
  PROVE  SelectionInv'
<1>1. /\ d # None => Live(d)
      /\ selection' = d /\ UNCHANGED <<devices, sourceVars>>
      /\ offered' \in {d, offered}
  BY DEF SetSelection, NewlyOffered
<1>2. offered' \in Sources \cup {Compositor, None} /\ unheard' \in BOOLEAN
  BY <1>1 DEF SelectionInv, SelectionTypeOK, SetSelection
<1>3. CASE Accepted(d)
  BY <1>1, <1>2, <1>3, Accepts
<1>4. CASE UNCHANGED <<current, owns, readVars>>
  BY <1>1, <1>2, <1>4 DEF SelectionInv, SelectionTypeOK, NoDeadSource, RetainedOfCurrent, ReadInv,
     sourceVars, readVars, Live
<1> QED BY <1>3, <1>4 DEF SetSelection, SetCurrentSelectionSource

LEMMA SourcesChange ==
  ASSUME SelectionInv,
         \/ \E c \in Clients : GetDataDevice(c)
         \/ \E d \in Sources : (\E t \in Times : CreateDataSource(d, t)) \/ Offer(d)
  PROVE  SelectionInv'
<1> USE DEF sourceVars, readVars, offerVars
<1>1. SelectionTypeOK /\ NoDeadSource /\ RetainedOfCurrent /\ ReadInv
  BY DEF SelectionInv
<1>2. ASSUME NEW c \in Clients, GetDataDevice(c) PROVE SelectionInv'
  BY <1>1, <1>2 DEF GetDataDevice, SelectionInv, SelectionTypeOK, NoDeadSource, RetainedOfCurrent,
     ReadInv, Live
<1>3. ASSUME NEW d \in Sources, NEW t \in Times, CreateDataSource(d, t) PROVE SelectionInv'
  <2>1. SelectionTypeOK'
    BY <1>1, <1>3 DEF CreateDataSource, SelectionTypeOK
  <2>2. \A e \in Sources : Live(e) => Live(e)'
    BY <1>1, <1>3 DEF CreateDataSource, SelectionTypeOK, Live
  <2>3. NoDeadSource' /\ RetainedOfCurrent' /\ ReadInv'
    BY <1>1, <1>3, <2>2 DEF CreateDataSource, NoDeadSource, RetainedOfCurrent, ReadInv, SelectionTypeOK, Live
  <2> QED BY <2>1, <2>3 DEF SelectionInv
<1>4. ASSUME NEW d \in Sources, Offer(d) PROVE SelectionInv'
  <2>1. mimes[d] \in 0 .. MaxMimes /\ mimes[d] + 1 \in 0 .. MaxMimes
    BY <1>1, <1>4, SelectionAssumption DEF Offer, SelectionTypeOK
  <2>2. mimes' \in [Sources -> 0 .. MaxMimes] /\ \A e \in Sources : mimes'[e] \in {mimes[e], mimes[e] + 1}
    BY <1>1, <1>4, <2>1 DEF Offer, SelectionTypeOK
  <2>3. SelectionTypeOK'
    BY <1>1, <1>4, <2>2 DEF Offer, SelectionTypeOK
  <2>4. NoDeadSource' /\ RetainedOfCurrent'
    BY <1>1, <1>4 DEF Offer, NoDeadSource, RetainedOfCurrent, Live
  <2>5. notifier # None => current \in Sources /\ mimes[current] \in Nat /\ readIndex \in Nat
    BY <1>1, SelectionAssumption DEF NoDeadSource, SelectionTypeOK, Live
  <2>6. ReadInv'
    BY <1>1, <1>4, <2>2, <2>5 DEF Offer, ReadInv
  <2> QED BY <2>3, <2>4, <2>6 DEF SelectionInv
<1> QED BY <1>2, <1>3, <1>4

LEMMA SourceGoes ==
  ASSUME SelectionInv, NEW d \in Sources, DestroyDataSource(d)
  PROVE  SelectionInv'
<1> USE DEF DestroyDataSource, offerVars
<1>1. SelectionTypeOK /\ NoDeadSource /\ RetainedOfCurrent /\ ReadInv
  BY DEF SelectionInv
<1>2. SelectionTypeOK'
  BY <1>1 DEF SelectionTypeOK
<1>3. \A e \in Sources : e # d /\ Live(e) => Live(e)'
  BY <1>1 DEF SelectionTypeOK, Live
<1>4. NoDeadSource' /\ RetainedOfCurrent' /\ ReadInv'
  BY <1>1, <1>3 DEF NoDeadSource, RetainedOfCurrent, ReadInv, SelectionTypeOK, Live
<1> QED BY <1>2, <1>4 DEF SelectionInv

(* A pipe changes what it holds, and stays open. *)
LEMMA PipeChanges ==
  ASSUME SelectionInv, NEW p \in Pipes, pipe[p] # None,
         pipe' \in [Pipes -> OpenPipes \cup {None}],
         \A q \in Pipes : q # p => pipe'[q] = pipe[q],
         pipe'[p] # None, pipe'[p].of = pipe[p].of,
         UNCHANGED <<devices, sourceVars, selection, current, owns, notifier, obsolete, readIndex,
                     retained, offerVars>>,
         readBuf' \in {readBuf, readBuf \cup {pipe[p].of}},
         readBuf' # readBuf => p = notifier
  PROVE  SelectionInv'
<1> USE DEF sourceVars, offerVars
<1>1. SelectionTypeOK /\ NoDeadSource /\ RetainedOfCurrent /\ ReadInv
  BY DEF SelectionInv
<1>2. pipe[p].of \in Data
  BY <1>1 DEF SelectionTypeOK, OpenPipes
<1>3. SelectionTypeOK'
  BY <1>1, <1>2 DEF SelectionTypeOK
<1>4. notifier \in Pipes \cup {None} /\ obsolete \subseteq Pipes
  BY <1>1 DEF SelectionTypeOK
<1>5. NoDeadSource'
  BY <1>1, <1>4 DEF NoDeadSource, Live
<1>6. ReadInv'
  BY <1>1, <1>4 DEF NoDeadSource, ReadInv
<1>7. RetainedOfCurrent'
  BY <1>1 DEF RetainedOfCurrent
<1> QED BY <1>3, <1>5, <1>6, <1>7 DEF SelectionInv

LEMMA PipeType ==
  ASSUME SelectionTypeOK, NEW p \in Pipes, pipe[p] # None, NEW b \in BOOLEAN
  PROVE  /\ [pipe[p] EXCEPT !.unread = b] \in OpenPipes
         /\ [pipe[p] EXCEPT !.unread = b].of = pipe[p].of
         /\ [pipe[p] EXCEPT !.writer = b] \in OpenPipes
         /\ [pipe[p] EXCEPT !.writer = b].of = pipe[p].of
<1>1. pipe[p] \in OpenPipes
  BY DEF SelectionTypeOK
<1> QED BY <1>1 DEF OpenPipes

LEMMA DataMoves ==
  ASSUME SelectionInv, ReadData \/ \E p \in Pipes : ClientWrites(p) \/ ClientCloses(p)
  PROVE  SelectionInv'
<1>1. SelectionTypeOK /\ pipe \in [Pipes -> OpenPipes \cup {None}] /\ notifier \in Pipes \cup {None}
  BY DEF SelectionInv, SelectionTypeOK
<1>2. CASE ReadData
  <2> DEFINE new == [pipe[notifier] EXCEPT !.unread = FALSE]
  <2>1. notifier \in Pipes /\ pipe[notifier] # None
    BY <1>1, <1>2 DEF ReadData, SelectionInv, NoDeadSource
  <2>2. new \in OpenPipes /\ new # None /\ new.of = pipe[notifier].of
    BY <1>1, <2>1, PipeType, PipeAssumption
  <2>3. pipe' = [pipe EXCEPT ![notifier] = new]
    BY <1>2 DEF ReadData
  <2> HIDE DEF new
  <2> QED BY <1>1, <1>2, <2>1, <2>2, <2>3, PipeChanges DEF ReadData
<1>3. ASSUME NEW p \in Pipes, ClientWrites(p) PROVE SelectionInv'
  <2> DEFINE new == [pipe[p] EXCEPT !.unread = TRUE]
  <2>1. new \in OpenPipes /\ new # None /\ new.of = pipe[p].of
    BY <1>1, <1>3, PipeType, PipeAssumption DEF ClientWrites
  <2>2. pipe' = [pipe EXCEPT ![p] = new]
    BY <1>3 DEF ClientWrites
  <2> HIDE DEF new
  <2> QED BY <1>1, <1>3, <2>1, <2>2, PipeChanges DEF ClientWrites
<1>4. ASSUME NEW p \in Pipes, ClientCloses(p) PROVE SelectionInv'
  <2> DEFINE new == [pipe[p] EXCEPT !.writer = FALSE]
  <2>1. new \in OpenPipes /\ new # None /\ new.of = pipe[p].of
    BY <1>1, <1>4, PipeType, PipeAssumption DEF ClientCloses
  <2>2. pipe' = [pipe EXCEPT ![p] = new]
    BY <1>4 DEF ClientCloses
  <2> HIDE DEF new
  <2>3. /\ pipe' \in [Pipes -> OpenPipes \cup {None}]
        /\ \A q \in Pipes : q # p => pipe'[q] = pipe[q]
        /\ pipe'[p] # None /\ pipe'[p].of = pipe[p].of
    BY <1>1, <2>1, <2>2
  <2>4. pipe[p] # None /\ readBuf' = readBuf
    BY <1>4 DEF ClientCloses
  <2> QED BY <1>4, <2>3, <2>4, PipeChanges DEF ClientCloses
<1> QED BY <1>2, <1>3, <1>4

LEMMA ObsoleteIsDrained ==
  ASSUME SelectionInv, NEW p \in Pipes, ReadObsolete(p)
  PROVE  SelectionInv'
<1> USE DEF ReadObsolete, offerVars
<1>1. SelectionTypeOK /\ NoDeadSource /\ RetainedOfCurrent /\ ReadInv
  BY DEF SelectionInv
<1>2. pipe[p] # None /\ p # notifier
  BY <1>1, SelectionAssumption DEF ReadInv, NoDeadSource
<1>3. CASE pipe[p].writer
  <2> DEFINE new == [pipe[p] EXCEPT !.unread = FALSE]
  <2>1. new \in OpenPipes /\ new # None /\ new.of = pipe[p].of
    BY <1>1, <1>2, PipeType, PipeAssumption
  <2>2. pipe' = [pipe EXCEPT ![p] = new] /\ obsolete' = obsolete
    BY <1>3
  <2>3. pipe \in [Pipes -> OpenPipes \cup {None}]
    BY <1>1 DEF SelectionTypeOK
  <2> HIDE DEF new
  <2> QED BY <1>2, <2>1, <2>2, <2>3, PipeChanges
<1>4. CASE ~pipe[p].writer
  <2>1. pipe' = [pipe EXCEPT ![p] = None] /\ obsolete' = obsolete \ {p}
    BY <1>4
  <2>2. SelectionTypeOK'
    BY <1>1, <2>1 DEF SelectionTypeOK, sourceVars
  <2>3. NoDeadSource' /\ RetainedOfCurrent' /\ ReadInv'
    BY <1>1, <1>2, <2>1 DEF NoDeadSource, RetainedOfCurrent, ReadInv, SelectionTypeOK, Live, sourceVars
  <2> QED BY <2>2, <2>3 DEF SelectionInv
<1> QED BY <1>3, <1>4

(* The end of a pipe: the mime type is retained, and the next one asked for. *)
LEMMA ReadEnds ==
  ASSUME SelectionInv, ReadEnd
  PROVE  SelectionInv'
<1> USE DEF ReadEnd, sourceVars, offerVars
<1> DEFINE index == readIndex + 1
           pipes == [pipe EXCEPT ![notifier] = None]
<1>1. SelectionTypeOK /\ NoDeadSource /\ RetainedOfCurrent /\ ReadInv
  BY DEF SelectionInv
<1>2. /\ current \in Sources /\ notifier \in Pipes /\ notifier \notin obsolete
      /\ readBuf \subseteq {<<current, index>>}
  BY <1>1 DEF NoDeadSource, ReadInv, SelectionTypeOK, Live
<1>3. /\ index \in Nat /\ index <= mimes[current] /\ index \in Mimes
  BY <1>1, <1>2, SelectionAssumption DEF ReadInv, SelectionTypeOK, Mimes
<1>4. pipes \in [Pipes -> OpenPipes \cup {None}] /\ \A p \in obsolete : pipes[p] # None
  BY <1>1, <1>2 DEF ReadInv, SelectionTypeOK
<1>5. Retained(current, index, pipes) /\ obsolete \in SUBSET Pipes
  BY <1>1 DEF SelectionTypeOK
<1>6. /\ retained' = [m \in DOMAIN retained \cup {index} |-> IF m = index THEN readBuf ELSE retained[m]]
      /\ UNCHANGED <<devices, source, time, mimes, selection, current, owns, obsolete, offerVars>>
  OBVIOUS
<1> HIDE DEF index, pipes
<1>7. /\ readIndex' = index /\ index \in 0 .. MaxMimes
      /\ readBuf' \subseteq Data
      /\ notifier' \in Pipes \cup {None}
      /\ pipe' \in [Pipes -> OpenPipes \cup {None}]
      /\ \A p \in obsolete : pipe'[p] # None
      /\ notifier' # None =>
           /\ notifier' \notin obsolete /\ pipe'[notifier'] # None
           /\ pipe'[notifier'].of = <<current, index + 1>>
           /\ index < mimes[current] /\ readBuf' = {}
  BY <1>1, <1>2, <1>3, <1>4, <1>5, AsksForNext
<1>8. /\ DOMAIN retained' = DOMAIN retained \cup {index}
      /\ \A m \in DOMAIN retained' : retained'[m] = IF m = index THEN readBuf ELSE retained[m]
  BY <1>6
<1>9. SelectionTypeOK'
  <2>1. DOMAIN retained' \subseteq Mimes
    BY <1>1, <1>3, <1>8 DEF SelectionTypeOK
  <2>2. \A m \in DOMAIN retained' : retained'[m] \subseteq Data \cup {Compositor}
    BY <1>1, <1>8 DEF SelectionTypeOK
  <2> QED BY <1>1, <1>6, <1>7, <2>1, <2>2 DEF SelectionTypeOK
<1>10. RetainedOfCurrent'
  BY <1>1, <1>2, <1>6, <1>8 DEF RetainedOfCurrent
<1>11. NoDeadSource' /\ ReadInv'
  BY <1>1, <1>6, <1>7 DEF NoDeadSource, ReadInv, Live
<1> QED BY <1>9, <1>10, <1>11 DEF SelectionInv

(* The compositor takes the selection. *)
LEMMA CompositorSelects ==
  ASSUME SelectionInv, NEW c, NEW f, OverrideSelection(c) \/ UpdateSelection(c, f)
  PROVE  SelectionInv'
<1> USE DEF sourceVars, readVars, offerVars
<1>1. SelectionTypeOK /\ NoDeadSource /\ RetainedOfCurrent /\ ReadInv
  BY DEF SelectionInv
<1>2. DOMAIN retained' \subseteq Mimes /\ \A m \in DOMAIN retained' : retained'[m] \subseteq Data \cup {Compositor}
  BY <1>1 DEF OverrideSelection, UpdateSelection, SelectionTypeOK
<1>3. offered' \in Sources \cup {Compositor, None} /\ unheard' \in BOOLEAN /\ owns' = TRUE
  BY <1>1 DEF OverrideSelection, UpdateSelection, SelectionTypeOK
<1>4. SelectionTypeOK'
  BY <1>1, <1>2, <1>3 DEF OverrideSelection, UpdateSelection, SelectionTypeOK
<1>5. NoDeadSource' /\ ReadInv' /\ RetainedOfCurrent'
  BY <1>1, <1>3 DEF OverrideSelection, UpdateSelection, NoDeadSource, ReadInv, RetainedOfCurrent, Live
<1> QED BY <1>4, <1>5 DEF SelectionInv

-----------------------------------------------------------------------------
(* The steps of the seat. *)

(* To the keyboard every step is one of its own. *)
LEMMA KeyboardProjects ==
  ASSUME SeatInv, [Next]_seatVars
  PROVE  [KeyboardNext]_keyboardVars
<1>1. CASE UNCHANGED seatVars
  BY <1>1 DEF seatVars
<1>2. ASSUME NEW s \in Surfaces, NewSurface(s) \/ DeadSurface(s) \/ PressKey(s)
      PROVE  KeyboardNext
  BY <1>2 DEF NewSurface, DeadSurface, PressKey, KeyboardNext
<1>3. ASSUME NEW s \in Surfaces, Update(s) PROVE UNCHANGED keyboardVars
  BY <1>3 DEF Update
<1>4. ASSUME NEW k \in Keyboards, NewKeyboard(k) \/ DeadKeyboard(k) PROVE KeyboardNext
  BY <1>4 DEF NewKeyboard, DeadKeyboard, KeyboardNext
<1>5. ASSUME NEW s \in Surfaces \cup {None}, FocusSurface(s) PROVE KeyboardNext
  BY <1>5 DEF FocusSurface, KeyboardNext
<1>6. ASSUME TypeKey PROVE KeyboardNext
  BY <1>6 DEF TypeKey, KeyboardNext
<1>7. ASSUME \/ \E d \in Sources \cup {None} : Select(d)
             \/ Override \/ Transfer \/ Point
      PROVE  UNCHANGED keyboardVars
  BY <1>7 DEF Select, Override, Transfer, Point
<1>8. ASSUME NEW i \in Items, NEW b \in Buttons, Click(i, b) PROVE [KeyboardNext]_keyboardVars
  <2>1. shows[i] \in Surfaces \cup {None}
    BY DEF SeatInv, PointerInv, PointerTypeOK
  <2> QED BY <1>8, <2>1 DEF Click, KeyboardNext
<1> QED BY <1>1, <1>2, <1>3, <1>4, <1>5, <1>6, <1>7, <1>8 DEF Next

LEMMA PointerKeeps ==
  ASSUME SeatInv, [Next]_seatVars
  PROVE  PointerInv'
<1>1. PointerInv
  BY DEF SeatInv
<1>2. CASE UNCHANGED pointerDragVars
  BY <1>1, <1>2, PointerStill
<1>3. ASSUME NEW s \in Surfaces, DeadSurface(s) PROVE PointerInv'
  BY <1>1, <1>3, SurfaceGoes DEF DeadSurface
<1>4. ASSUME NEW i \in Items, NEW b \in Buttons, Click(i, b) PROVE PointerInv'
  BY <1>1, <1>4, ButtonGoesDown DEF Click
<1>5. CASE Point
  <2>1. ASSUME NEW i \in Items, DestroyItem(i) PROVE PointerInv'
    BY <1>1, <2>1, ItemDestroyed
  <2>2. ASSUME NEW i \in Items, NEW s \in Surfaces \cup {None}, Show(i, s) PROVE PointerInv'
    BY <1>1, <2>2, SurfaceShown DEF Show
  <2>3. ASSUME NEW p \in Pointers, BindPointer(p) \/ ReleasePointer(p) PROVE PointerInv'
    BY <1>1, <2>3, PointersChange
  <2>4. ASSUME NEW d \in Sources, NEW s \in Surfaces, Drag(d, s) PROVE PointerInv'
    BY <1>1, <2>4, DragStarts DEF Drag
  <2>5. ASSUME NEW b \in Buttons, MouseRelease(b) PROVE PointerInv'
    BY <1>1, <2>5, ButtonGoesUp
  <2>6. CASE HoverLeave \/ \E i \in Items : MouseMove(i)
    BY <1>1, <2>6, MouseMoves
  <2>7. CASE CancelDrag \/ \E s \in Surfaces : DragMove(s)
    BY <1>1, <2>7, DragMoves
  <2> QED BY <1>5, <2>1, <2>2, <2>3, <2>4, <2>5, <2>6, <2>7 DEF Point
<1>6. \/ UNCHANGED pointerDragVars \/ Point
      \/ \E s \in Surfaces : DeadSurface(s)
      \/ \E i \in Items, b \in Buttons : Click(i, b)
  <2>1. CASE UNCHANGED seatVars
    BY <2>1 DEF seatVars
  <2>2. CASE Next
    BY <2>2 DEF Next, NewSurface, PressKey, Update, NewKeyboard, DeadKeyboard, FocusSurface, TypeKey,
       Select, Override, Transfer
  <2> QED BY <2>1, <2>2
<1> QED BY <1>2, <1>3, <1>4, <1>5, <1>6
-----------------------------------------------------------------------------
(* What the client with the keyboard focus is offered. *)

LEMMA FocusTells ==
  ASSUME SeatInv, NEW told \in {ClientOf(focus'), None}, Offered(told), UNCHANGED WithoutOffered
  PROVE  SelectionInv' /\ PastesCurrent' /\ OfferedKnown'
<1> USE DEF WithoutOffered, sourceVars
<1>1. /\ SelectionInv /\ PastesCurrent /\ OfferedKnown
      /\ selection \in Sources \cup {None} /\ offered \in Sources \cup {Compositor, None}
      /\ selection # None => Live(selection)
  BY DEF SeatInv, SelectionInv, SelectionTypeOK, NoDeadSource
<1>2. UNCHANGED <<devices, source, selection>> /\ None \notin Sources
  BY SelectionAssumption
<1>3. unheard' \in BOOLEAN
  BY DEF Offered, SetFocus
<1>4. CASE offered' = None
  <2>1. PastesCurrent' /\ OfferedKnown'
    BY <1>2, <1>4 DEF PastesCurrent, OfferedKnown
  <2> QED BY <1>1, <1>3, <1>4, <2>1, SelectionStays
<1>5. CASE Tells(told) /\ offered' = selection
  <2>1. ClientOf(focus') \in devices
    BY <1>1, <1>5, NoneAssumption DEF Tells, SelectionInv, SelectionTypeOK
  <2>2. PastesCurrent' /\ OfferedKnown'
    BY <1>1, <1>2, <1>5, <2>1 DEF PastesCurrent, OfferedKnown, Live, ClientOf
  <2> QED BY <1>1, <1>3, <1>5, <2>2, SelectionStays
<1>6. CASE offered' = offered /\ (unheard => unheard') /\ ClientOf(focus') = ClientOf(focus)
  <2>1. PastesCurrent' /\ OfferedKnown'
    BY <1>1, <1>2, <1>6 DEF PastesCurrent, OfferedKnown, Live, ClientOf
  <2> QED BY <1>1, <1>3, <1>6, <2>1, SelectionStays
<1>7. Tells(told) \/ ~Tells(told)
  OBVIOUS
<1> QED BY <1>4, <1>5, <1>6, <1>7 DEF Offered, SetFocus

LEMMA OffersStay ==
  ASSUME SeatInv, UNCHANGED selectionVars, focus' = focus
  PROVE  SelectionInv' /\ PastesCurrent' /\ OfferedKnown'
<1> USE DEF selectionVars, sourceVars, offerVars
<1>1. SelectionInv'
  BY SelectionStays DEF SeatInv, SelectionInv, SelectionTypeOK, WithoutOffered
<1> QED BY <1>1 DEF SeatInv, PastesCurrent, OfferedKnown, Live, ClientOf

(* The client that keys are sent to is that of the surface with the focus. *)
LEMMA FocusClientOf ==
  ASSUME KeyboardInv, FocusClient # None
  PROVE  FocusClient = ClientOf(focus)
<1>1. focusResource # None /\ FocusClient = Holder[focusResource]
  BY DEF FocusClient
<1>2. focus \in Surfaces /\ focus # None /\ focusResource \in SeqRange(bound[Owner[focus]])
  BY <1>1 DEF KeyboardInv, FocusEntered, KeyboardTypeOK
<1>3. Owner[focus] \in Clients
  BY <1>2, OwnerAssumption
<1>4. Holder[focusResource] = Owner[focus]
  BY <1>2, <1>3 DEF KeyboardInv, KeyboardTypeOK
<1> QED BY <1>1, <1>2, <1>4 DEF ClientOf

LEMMA SelectTells ==
  ASSUME SeatInv, NEW d \in Sources \cup {None}, Select(d)
  PROVE  SelectionInv' /\ PastesCurrent' /\ OfferedKnown'
<1>1. SelectionInv /\ OfferedKnown /\ SetSelection(d, FocusClient)
  BY DEF SeatInv, Select
<1>2. /\ d # None => Live(d)
      /\ selection' = d /\ UNCHANGED <<devices, source>>
      /\ offered' = IF FocusClient \in devices THEN d ELSE offered
      /\ unheard' = (FocusClient \notin devices)
  BY <1>1 DEF SetSelection, NewlyOffered, sourceVars
<1>3. focus' = focus
  BY DEF Select, keyboardVars, focusVars
<1>4. PastesCurrent'
  BY <1>2 DEF PastesCurrent
<1>5. FocusClient \in devices => ClientOf(focus) \in devices
  <2>1. None \notin devices
    BY <1>1, NoneAssumption DEF SelectionInv, SelectionTypeOK
  <2> QED BY <2>1, FocusClientOf DEF SeatInv
<1>6. OfferedKnown'
  BY <1>1, <1>2, <1>3, <1>5 DEF OfferedKnown, Live, ClientOf
<1> QED BY <1>1, <1>4, <1>6, SelectionSet

LEMMA CompositorTells ==
  ASSUME SeatInv, Override \/ \E s \in Surfaces : Update(s)
  PROVE  SelectionInv' /\ PastesCurrent' /\ OfferedKnown'
<1>1. SelectionInv /\ PastesCurrent /\ OfferedKnown
  BY DEF SeatInv
<1>2. OverrideSelection(ClientOf(focus)) \/ \E c : UpdateSelection(c, ClientOf(focus))
  BY DEF Override, Update
<1>3. focus' = focus
  BY DEF Override, Update, keyboardVars, focusVars
<1>4. /\ UNCHANGED <<devices, source, selection>>
      /\ \/ offered' = offered /\ (unheard => unheard')
         \/ offered' = Compositor /\ ClientOf(focus) \in devices
  BY <1>2 DEF OverrideSelection, UpdateSelection, sourceVars
<1>5. PastesCurrent' /\ OfferedKnown'
  BY <1>1, <1>3, <1>4, SelectionAssumption DEF PastesCurrent, OfferedKnown, Live, ClientOf
<1>6. SelectionInv'
  BY <1>1, <1>2, CompositorSelects
<1> QED BY <1>5, <1>6

LEMMA TransferTells ==
  ASSUME SeatInv, Transfer
  PROVE  SelectionInv' /\ PastesCurrent' /\ OfferedKnown'
<1>1. SelectionInv /\ PastesCurrent /\ OfferedKnown /\ SelectionTypeOK
  BY DEF SeatInv, SelectionInv
<1>2. ClientOf(focus)' = ClientOf(focus)
  BY DEF Transfer, keyboardVars, focusVars, ClientOf
<1>3. ASSUME UNCHANGED <<source, selection, offered, unheard>>, devices \subseteq devices'
      PROVE  PastesCurrent' /\ OfferedKnown'
  BY <1>1, <1>2, <1>3 DEF PastesCurrent, OfferedKnown, Live
<1>4. ASSUME NEW d \in Sources, NEW t \in Times, CreateDataSource(d, t)
      PROVE  PastesCurrent' /\ OfferedKnown'
  <2>1. /\ UNCHANGED <<devices, selection, offered, unheard>> /\ source[d] = "unborn"
        /\ \A e \in Sources : e # d => source'[e] = source[e]
        /\ source'[d] = "live"
    BY <1>1, <1>4 DEF CreateDataSource, SelectionTypeOK, offerVars
  <2>2. offered # d
    BY <1>1, <2>1, SelectionAssumption DEF OfferedKnown
  <2> QED BY <1>1, <1>2, <2>1, <2>2 DEF PastesCurrent, OfferedKnown, Live
<1>5. ASSUME NEW d \in Sources, DestroyDataSource(d)
      PROVE  PastesCurrent' /\ OfferedKnown'
  <2>1. /\ UNCHANGED <<devices, offered, unheard>>
        /\ \A e \in Sources : e # d => source'[e] = source[e]
        /\ source'[d] = "dead"
        /\ selection' = IF selection = d THEN None ELSE selection
    BY <1>1, <1>5 DEF DestroyDataSource, SelectionTypeOK, offerVars
  <2> QED BY <1>1, <1>2, <2>1 DEF PastesCurrent, OfferedKnown, Live
<1>6. \/ \E c \in Clients : GetDataDevice(c)
      \/ \E d \in Sources : (\E t \in Times : CreateDataSource(d, t)) \/ Offer(d) \/ DestroyDataSource(d)
      \/ ReadData \/ ReadEnd
      \/ \E p \in Pipes : ReadObsolete(p) \/ ClientWrites(p) \/ ClientCloses(p)
  BY DEF Transfer
<1>7. PastesCurrent' /\ OfferedKnown'
  <2>1. \/ UNCHANGED <<source, selection, offered, unheard>> /\ devices \subseteq devices'
        \/ \E d \in Sources : (\E t \in Times : CreateDataSource(d, t)) \/ DestroyDataSource(d)
    BY <1>6 DEF GetDataDevice, Offer, ReadData, ReadEnd, ReadObsolete, ClientWrites, ClientCloses, sourceVars,
       offerVars
  <2> QED BY <1>3, <1>4, <1>5, <2>1
<1>8. SelectionInv'
  BY <1>1, <1>6, SourcesChange, SourceGoes, DataMoves, ObsoleteIsDrained, ReadEnds
<1> QED BY <1>7, <1>8

LEMMA SelectionKeeps ==
  ASSUME SeatInv, [Next]_seatVars
  PROVE  SelectionInv' /\ PastesCurrent' /\ OfferedKnown'
<1>1. CASE UNCHANGED seatVars
  BY <1>1, OffersStay DEF seatVars, keyboardVars, focusVars
<1>2. ASSUME NEW s \in Surfaces, NewSurface(s) \/ DeadSurface(s) \/ PressKey(s) \/ Update(s)
      PROVE  SelectionInv' /\ PastesCurrent' /\ OfferedKnown'
  <2>1. CASE NewSurface(s)
    BY <2>1, OffersStay DEF NewSurface, CreateSurface
  <2>2. CASE DeadSurface(s)
    BY <2>2, FocusTells DEF DeadSurface, NotTold
  <2>3. CASE PressKey(s)
    <3>1. (IF s # focus THEN Owner[s] ELSE None) \in {ClientOf(focus'), None}
      BY <2>3, NoneAssumption DEF PressKey, KeyPress, Focused, ClientOf
    <3> QED BY <2>3, <3>1, FocusTells DEF PressKey
  <2>4. CASE Update(s)
    BY <2>4, CompositorTells
  <2> QED BY <1>2, <2>1, <2>2, <2>3, <2>4
<1>3. ASSUME NEW k \in Keyboards, NewKeyboard(k) \/ DeadKeyboard(k)
      PROVE  SelectionInv' /\ PastesCurrent' /\ OfferedKnown'
  BY <1>3, OffersStay DEF NewKeyboard, DeadKeyboard, BindKeyboard, ReleaseKeyboard
<1>4. ASSUME NEW s \in Surfaces \cup {None}, FocusSurface(s)
      PROVE  SelectionInv' /\ PastesCurrent' /\ OfferedKnown'
  <2>1. ClientOf(s) \in {ClientOf(focus'), None}
    BY <1>4 DEF FocusSurface, SetKeyboardFocus, Focused
  <2> QED BY <1>4, <2>1, FocusTells DEF FocusSurface
<1>5. CASE TypeKey
  BY <1>5, OffersStay DEF TypeKey, KeyEvent, KeyRelease, KeyEventEnd, UpdateKeymap, ResetKeyboardState,
     focusVars
<1>6. CASE Point
  BY <1>6, OffersStay DEF Point, keyboardVars, focusVars
<1>7. ASSUME NEW i \in Items, NEW b \in Buttons, Click(i, b)
      PROVE  SelectionInv' /\ PastesCurrent' /\ OfferedKnown'
  <2>1. CASE UNCHANGED <<keyboardVars, selectionVars>>
    BY <2>1, OffersStay DEF keyboardVars, focusVars
  <2>2. CASE SetKeyboardFocus(shows[i]) /\ Offered(Owner[shows[i]]) /\ UNCHANGED WithoutOffered
    <3>1. shows[i] \in Surfaces
      BY <1>7 DEF Click, MousePress, SeatInv, PointerInv, PointerTypeOK
    <3>2. Owner[shows[i]] \in {ClientOf(focus'), None}
      BY <2>2, <3>1, NoneAssumption DEF SetKeyboardFocus, Focused, ClientOf
    <3> QED BY <2>2, <3>2, FocusTells
  <2> QED BY <1>7, <2>1, <2>2 DEF Click
<1>8. ASSUME NEW d \in Sources \cup {None}, Select(d)
      PROVE  SelectionInv' /\ PastesCurrent' /\ OfferedKnown'
  BY <1>8, SelectTells
<1>9. CASE Override
  BY <1>9, CompositorTells
<1>10. CASE Transfer
  BY <1>10, TransferTells
<1> QED BY <1>1, <1>2, <1>3, <1>4, <1>5, <1>6, <1>7, <1>8, <1>9, <1>10 DEF Next

LEMMA SeatStep == SeatInv /\ [Next]_seatVars => SeatInv'
<1> SUFFICES ASSUME SeatInv, [Next]_seatVars PROVE SeatInv'
  OBVIOUS
<1>1. KeyboardInv'
  BY KeyboardProjects, KeyboardStep DEF SeatInv
<1>2. PointerInv'
  BY PointerKeeps
<1>3. SelectionInv' /\ PastesCurrent' /\ OfferedKnown'
  BY SelectionKeeps
<1> QED BY <1>1, <1>2, <1>3 DEF SeatInv

LEMMA SeatHolds == Spec => []SeatInv
<1>1. Init => SeatInv
  <2>1. Init => KeyboardInv /\ PointerInv /\ SelectionInv /\ PastesCurrent
    BY KeyboardStart, PointerStart, SelectionStart DEF Init
  <2>2. Init => OfferedKnown
    BY DEF Init, SelectionInit, OfferedKnown
  <2> QED BY <2>1, <2>2 DEF SeatInv
<1> QED BY <1>1, SeatStep, PTL DEF Spec
-----------------------------------------------------------------------------
(* The theorems. *)

(* Every variable keeps its type. *)
THEOREM TypeCorrect == Spec => []TypeOK
<1>1. SeatInv => TypeOK
  BY DEF SeatInv, KeyboardInv, PointerInv, SelectionInv, TypeOK
<1> QED BY <1>1, SeatHolds, PTL

(* The wl_keyboard that keys are sent to has entered the surface with the   *)
(* focus, which exists (WaylandSeat::setKeyboardFocus, WaylandKeyboard).    *)
THEOREM FocusIsEntered == Spec => []FocusEntered
<1>1. SeatInv => FocusEntered
  BY DEF SeatInv, KeyboardInv
<1> QED BY <1>1, SeatHolds, PTL

(* A wl_keyboard holds no key that is not pressed, but for those whose      *)
(* release the application has or resetKeyboardState() kept, and but for a  *)
(* wl_keyboard that was left with its enter when keys went to another one   *)
(* (Abandoned).                                                             *)
THEOREM NoKeyStaysDown == Spec => []NoStuckKey
<1>1. SeatInv => NoStuckKey
  BY KeyboardSafe DEF SeatInv
<1> QED BY <1>1, SeatHolds, PTL

(* maybeUpdateKeymap() sends no keymap while a wl_keyboard that is not      *)
(* abandoned holds a key, but for one whose release it has not been told.   *)
THEOREM KeymapIsLate == Spec => KeymapWaits
<1>1. SeatInv /\ [Next]_seatVars =>
        [keymap' # keymap =>
           \A k \in Keyboards : ~Abandoned(k) => pressed[k] \subseteq Unlifted]_keyboardVars
  BY KeyboardProjects, KeymapStep DEF SeatInv
<1> QED BY <1>1, SeatHolds, PTL DEF Spec, KeymapWaits

(* The data device's selection is not a source that is gone, and what is    *)
(* read is the current source's answer, through a pipe of its own.          *)
THEOREM SourcesLive == Spec => []NoDeadSource
<1>1. SeatInv => NoDeadSource
  BY DEF SeatInv, SelectionInv
<1> QED BY <1>1, SeatHolds, PTL

(* What is retained is the current source's, each under its mime type.      *)
THEOREM RetainsCurrent == Spec => []RetainedOfCurrent
<1>1. SeatInv => RetainedOfCurrent
  BY DEF SeatInv, SelectionInv
<1> QED BY <1>1, SeatHolds, PTL

(* The source offered last to the client of the surface with the keyboard   *)
(* focus is the selection, or gone, unless the selection was set while that *)
(* client had no wl_keyboard or no data device (unheard).                   *)
THEOREM PasteIsCurrent == Spec => []PastesCurrent
<1>1. SeatInv => PastesCurrent
  BY DEF SeatInv
<1> QED BY <1>1, SeatHolds, PTL

(* Enter and leave of the pointer match, for each wl_pointer.               *)
THEOREM EnterAndLeave == Spec => []PointersPaired
<1>1. SeatInv => PointersPaired
  BY DEF SeatInv, PointerInv
<1> QED BY <1>1, SeatHolds, PTL

(* A drag is over one client at most, the one that is sent the drop.        *)
THEOREM DragIsOverOne == Spec => []DragPaired
<1>1. SeatInv => DragPaired
  BY DEF SeatInv, PointerInv
<1> QED BY <1>1, SeatHolds, PTL
=============================================================================
