------------------------ MODULE KeyboardFocusProofs ------------------------
(***************************************************************************)
(* The inductive invariant of KeyboardFocus, for any number of clients,    *)
(* surfaces, keyboards and keys.  SeatProofs has the theorems that use it. *)
(***************************************************************************)
EXTENDS KeyboardFocus, ListProofs

(* A key whose press is being handled is pressed, or counts as kept. *)
EventCounts == event # None /\ event.down => event.key \in keys \cup kept

(* A keyboard that has entered no surface holds no key; one that keys are    *)
(* sent to holds none but those that are pressed, or not lifted yet.         *)
HoldsNone == \A k \in Keyboards : entered[k] = None => pressed[k] = {}
FocusHolds == focusResource # None => pressed[focusResource] \subseteq keys \cup Unlifted

KeyboardInv == KeyboardTypeOK /\ FocusEntered /\ EventCounts /\ HoldsNone /\ FocusHolds

LEMMA KeyboardSafe == KeyboardInv => FocusEntered /\ NoStuckKey
<1> SUFFICES ASSUME KeyboardInv, NEW k \in Keyboards, ~Abandoned(k)
             PROVE  pressed[k] \subseteq keys \cup Unlifted
  BY DEF KeyboardInv, NoStuckKey
<1>1. CASE entered[k] = None
  BY <1>1 DEF KeyboardInv, HoldsNone
<1>2. CASE k = focusResource
  BY <1>2, KeyboardAssumption DEF KeyboardInv, FocusHolds
<1> QED BY <1>1, <1>2 DEF Abandoned

LEMMA KeyboardStart == KeyboardInit => KeyboardInv
<1> SUFFICES ASSUME KeyboardInit PROVE KeyboardInv
  OBVIOUS
<1>1. \A c \in Clients : bound[c] = <<>> /\ Distinct(bound[c]) /\ SeqRange(bound[c]) = {}
  BY DEF KeyboardInit, Distinct, SeqRange
<1>2. bound \in [Clients -> Seq(Keyboards)]
  BY DEF KeyboardInit
<1>3. KeyboardTypeOK
  BY <1>1, <1>2 DEF KeyboardInit, KeyboardTypeOK
<1>4. FocusEntered /\ EventCounts /\ HoldsNone /\ FocusHolds
  BY DEF KeyboardInit, FocusEntered, EventCounts, HoldsNone, FocusHolds
<1> QED BY <1>3, <1>4 DEF KeyboardInv

-----------------------------------------------------------------------------
(* What the latest keyboard of a client is. *)
LEMMA LatestType ==
  ASSUME KeyboardTypeOK, NEW c \in Clients, Latest(c) # None
  PROVE  /\ Latest(c) \in Keyboards /\ Latest(c) \in SeqRange(bound[c])
         /\ Holder[Latest(c)] = c
<1>1. bound[c] \in Seq(Keyboards) /\ bound[c] # <<>> /\ Latest(c) = bound[c][Len(bound[c])]
  BY DEF KeyboardTypeOK, Latest
<1>2. Len(bound[c]) \in 1 .. Len(bound[c])
  BY <1>1
<1>3. Latest(c) \in Keyboards /\ Latest(c) \in SeqRange(bound[c])
  BY <1>1, <1>2 DEF SeqRange
<1> QED BY <1>3 DEF KeyboardTypeOK

LEMMA ResourceType ==
  ASSUME KeyboardTypeOK, NEW s \in Surfaces \cup {None}
  PROVE  /\ Resource(s) \in Keyboards \cup {None}
         /\ Resource(s) # None =>
              s # None /\ s \in Surfaces /\ Resource(s) \in SeqRange(bound[Owner[s]])
<1>1. CASE s = None
  BY <1>1 DEF Resource
<1>2. CASE s # None
  <2>1. Owner[s] \in Clients /\ Resource(s) = Latest(Owner[s])
    BY <1>2, OwnerAssumption DEF Resource
  <2> QED BY <1>2, <2>1, LatestType
<1> QED BY <1>1, <1>2

(* The focus moves to s: the types, and the focus is entered. *)
LEMMA FocusMoves ==
  ASSUME KeyboardTypeOK, NEW s \in alive \cup {None}, s # focus, Focused(s),
         UNCHANGED <<alive, bound>>
  PROVE  /\ focus' \in Surfaces \cup {None} /\ focusResource' \in Keyboards \cup {None}
         /\ entered' \in [Keyboards -> Surfaces \cup {None}]
         /\ FocusEntered'
         /\ focusResource' # None => focusResource' \in Entered(s)
<1>1. s \in Surfaces \cup {None}
  BY DEF KeyboardTypeOK
<1>2. /\ Resource(s) \in Keyboards \cup {None}
      /\ Resource(s) # None => s # None /\ s \in Surfaces /\ Resource(s) \in SeqRange(bound[Owner[s]])
  BY <1>1, ResourceType
<1>3. Entered(s) = {Resource(s)} \ {None}
  BY DEF Entered
<1>4. focus' = s /\ focusResource' = Resource(s)
  BY DEF Focused
<1>5. entered' \in [Keyboards -> Surfaces \cup {None}]
  BY <1>1 DEF Focused, KeyboardTypeOK
<1>6. focusResource' # None => entered'[focusResource'] = s
  BY <1>2, <1>3, <1>4 DEF Focused
<1>7. FocusEntered'
  BY <1>2, <1>4, <1>6 DEF FocusEntered
<1> QED BY <1>1, <1>2, <1>3, <1>4, <1>5, <1>7

LEMMA PressedType ==
  ASSUME KeyboardTypeOK, NEW s
  PROVE  PressedAfter(s) \in [Keyboards -> SUBSET Keys]
BY DEF PressedAfter, KeyboardTypeOK

LEMMA MovedHolds ==
  ASSUME KeyboardInv, NEW s \in Surfaces \cup {None}, Focused(s), NEW k \in Keyboards,
         entered'[k] = None
  PROVE  k \notin Entered(s) /\ PressedAfter(s)[k] = {}
<1>1. KeyboardTypeOK /\ (entered[k] = None => pressed[k] = {})
  BY DEF KeyboardInv, HoldsNone
<1>2. Entered(s) \subseteq {Resource(s)} \ {None}
  BY DEF Entered
<1>3. Entered(s) # {} => s # None
  BY <1>2 DEF Resource
<1>4. k \notin Entered(s)
  BY <1>3 DEF Focused
<1>5. k \in Left(s) \/ entered[k] = None
  BY <1>4 DEF Focused
<1>6. PressedAfter(s)[k] = {}
  BY <1>1, <1>4, <1>5 DEF PressedAfter
<1> QED BY <1>4, <1>6
-----------------------------------------------------------------------------
(* The steps, in the order of KeyboardNext. *)

LEMMA CreateKeeps ==
  ASSUME KeyboardInv, NEW s \in Surfaces, CreateSurface(s) PROVE KeyboardInv'
<1> USE DEF CreateSurface, keyVars, toldVars
<1>1. KeyboardTypeOK'
  BY DEF KeyboardInv, KeyboardTypeOK
<1>2. FocusEntered'
  BY DEF KeyboardInv, FocusEntered
<1>3. EventCounts' /\ HoldsNone' /\ FocusHolds'
  BY DEF KeyboardInv, EventCounts, HoldsNone, FocusHolds, Unlifted
<1> QED BY <1>1, <1>2, <1>3 DEF KeyboardInv

LEMMA DestroyKeeps ==
  ASSUME KeyboardInv, NEW s \in Surfaces, DestroySurface(s) PROVE KeyboardInv'
<1> USE DEF DestroySurface, keyVars, FocusDestroyed
<1>1. KeyboardTypeOK'
  BY DEF KeyboardInv, KeyboardTypeOK
<1>2. focus # s /\ focusResource # None =>
        /\ focusResource \in Keyboards /\ entered[focusResource] = focus
        /\ entered'[focusResource] = focus /\ pressed'[focusResource] = pressed[focusResource]
  BY DEF KeyboardInv, KeyboardTypeOK, FocusEntered
<1>3. FocusEntered'
  BY <1>2 DEF KeyboardInv, FocusEntered
<1>4. EventCounts'
  BY DEF KeyboardInv, EventCounts
<1>5. FocusHolds'
  BY <1>2 DEF KeyboardInv, FocusHolds, Unlifted
<1>6. HoldsNone'
  BY DEF KeyboardInv, KeyboardTypeOK, HoldsNone
<1> QED BY <1>1, <1>3, <1>4, <1>5, <1>6 DEF KeyboardInv

LEMMA BindKeeps ==
  ASSUME KeyboardInv, NEW k \in Keyboards, BindKeyboard(k) PROVE KeyboardInv'
<1> DEFINE c == Holder[k]
<1> USE DEF BindKeyboard, keyVars
<1>1. KeyboardTypeOK /\ c \in Clients /\ bound[c] \in Seq(Keyboards) /\ Distinct(bound[c])
  BY KeyboardAssumption DEF KeyboardInv, KeyboardTypeOK
<1>2. /\ Append(bound[c], k) \in Seq(Keyboards)
      /\ SeqRange(Append(bound[c], k)) = SeqRange(bound[c]) \cup {k}
      /\ Distinct(Append(bound[c], k))
  BY <1>1, AppendFacts, AppendRange
<1>3. bound' = [bound EXCEPT ![c] = Append(bound[c], k)]
  OBVIOUS
<1>4. /\ bound' \in [Clients -> Seq(Keyboards)]
      /\ \A d \in Clients : Distinct(bound'[d]) /\ \A j \in SeqRange(bound'[d]) : Holder[j] = d
  BY <1>1, <1>2, <1>3 DEF KeyboardTypeOK
<1>5. \A d \in Clients : SeqRange(bound[d]) \subseteq SeqRange(bound'[d])
  BY <1>1, <1>2, <1>3 DEF KeyboardTypeOK
<1>6. CASE focus # None /\ Owner[focus] = c
  <2>1. focusResource' = k /\ entered' = [entered EXCEPT ![k] = focus] /\ pressed' = [pressed EXCEPT ![k] = keys]
    BY <1>6 DEF CheckFocusResource
  <2>2. k \in SeqRange(bound'[c])
    BY <1>1, <1>2, <1>3 DEF KeyboardTypeOK
  <2>3. entered'[k] = focus /\ pressed'[k] = keys
    BY <1>1, <2>1 DEF KeyboardTypeOK
  <2>4. KeyboardTypeOK'
    BY <1>1, <1>4, <2>1 DEF KeyboardTypeOK
  <2>5. FocusEntered'
    BY <1>6, <2>1, <2>2, <2>3 DEF KeyboardInv, FocusEntered
  <2>6. EventCounts' /\ HoldsNone' /\ FocusHolds'
    BY <1>1, <1>6, <2>1, <2>3 DEF KeyboardInv, KeyboardTypeOK, EventCounts, HoldsNone, FocusHolds
  <2> QED BY <2>4, <2>5, <2>6 DEF KeyboardInv
<1>7. CASE ~(focus # None /\ Owner[focus] = c)
  <2>1. UNCHANGED <<focusResource, entered, pressed>>
    BY <1>7 DEF CheckFocusResource, toldVars
  <2>2. KeyboardTypeOK'
    BY <1>1, <1>4, <2>1 DEF KeyboardTypeOK
  <2>3. FocusEntered'
    BY <1>1, <1>5, <2>1, OwnerAssumption DEF KeyboardInv, FocusEntered, KeyboardTypeOK
  <2>4. EventCounts' /\ HoldsNone' /\ FocusHolds'
    BY <2>1 DEF KeyboardInv, EventCounts, HoldsNone, FocusHolds, Unlifted
  <2> QED BY <2>2, <2>3, <2>4 DEF KeyboardInv
<1> QED BY <1>6, <1>7

LEMMA ReleaseKeeps ==
  ASSUME KeyboardInv, NEW k \in Keyboards, ReleaseKeyboard(k) PROVE KeyboardInv'
<1> DEFINE c == Holder[k]
<1> USE DEF ReleaseKeyboard, keyVars
<1>1. KeyboardTypeOK /\ c \in Clients /\ bound[c] \in Seq(Keyboards) /\ Distinct(bound[c])
  BY KeyboardAssumption DEF KeyboardInv, KeyboardTypeOK
<1>2. /\ Without(bound[c], k) \in Seq(Keyboards)
      /\ SeqRange(Without(bound[c], k)) = SeqRange(bound[c]) \ {k}
      /\ Distinct(Without(bound[c], k))
  BY <1>1, WithoutType, WithoutFacts
<1>3. bound' = [bound EXCEPT ![c] = Without(bound[c], k)]
  OBVIOUS
<1>4. /\ bound' \in [Clients -> Seq(Keyboards)]
      /\ \A d \in Clients : Distinct(bound'[d]) /\ \A j \in SeqRange(bound'[d]) : Holder[j] = d
  BY <1>1, <1>2, <1>3 DEF KeyboardTypeOK
<1>5. \A d \in Clients : \A j \in SeqRange(bound[d]) : j # k => j \in SeqRange(bound'[d])
  BY <1>1, <1>2, <1>3 DEF KeyboardTypeOK
<1>6. KeyboardTypeOK'
  BY <1>1, <1>4 DEF KeyboardTypeOK
<1>7. focusResource' # None =>
        /\ focusResource' = focusResource /\ focusResource # k /\ focusResource \in Keyboards
        /\ entered'[focusResource] = entered[focusResource]
        /\ pressed'[focusResource] = pressed[focusResource]
  BY <1>1 DEF KeyboardTypeOK
<1>8. FocusEntered'
  BY <1>1, <1>5, <1>7, OwnerAssumption DEF KeyboardInv, FocusEntered, KeyboardTypeOK
<1>9. EventCounts' /\ FocusHolds'
  BY <1>7 DEF KeyboardInv, EventCounts, FocusHolds, Unlifted
<1>10. HoldsNone'
  BY <1>1 DEF KeyboardInv, KeyboardTypeOK, HoldsNone
<1> QED BY <1>6, <1>8, <1>9, <1>10 DEF KeyboardInv

LEMMA FocusKeeps ==
  ASSUME KeyboardInv, NEW s \in Surfaces \cup {None}, SetKeyboardFocus(s) PROVE KeyboardInv'
<1> USE DEF SetKeyboardFocus, keyVars
<1>1. KeyboardTypeOK
  BY DEF KeyboardInv
<1>2. /\ focus' \in Surfaces \cup {None} /\ focusResource' \in Keyboards \cup {None}
      /\ entered' \in [Keyboards -> Surfaces \cup {None}]
      /\ FocusEntered'
      /\ focusResource' # None => focusResource' \in Entered(s)
  BY <1>1, FocusMoves
<1>3. pressed' \in [Keyboards -> SUBSET Keys]
  BY <1>1, PressedType
<1>4. KeyboardTypeOK'
  BY <1>1, <1>2, <1>3 DEF KeyboardTypeOK
<1>5. focusResource' # None => pressed'[focusResource'] = keys
  BY <1>2 DEF PressedAfter
<1>6. EventCounts' /\ FocusHolds'
  BY <1>5 DEF KeyboardInv, EventCounts, FocusHolds
<1>7. HoldsNone'
  BY MovedHolds DEF HoldsNone
<1> QED BY <1>2, <1>4, <1>6, <1>7 DEF KeyboardInv

LEMMA KeyEventKeeps ==
  ASSUME KeyboardInv, NEW key \in Keys, NEW down \in BOOLEAN, KeyEvent(key, down)
  PROVE  KeyboardInv'
<1> USE DEF KeyEvent, focusVars, toldVars
<1>1. KeyboardTypeOK /\ event = None
  BY DEF KeyboardInv
<1>2. event' \in KeyEvents /\ event'.key = key /\ event'.down = down /\ ~event'.sent
  BY DEF KeyEvents
<1>3. keys' \subseteq Keys /\ kept' \subseteq Keys
  BY <1>1 DEF KeyboardTypeOK
<1>4. KeyboardTypeOK'
  BY <1>1, <1>2, <1>3 DEF KeyboardTypeOK
<1>5. FocusEntered'
  BY DEF KeyboardInv, FocusEntered
<1>6. EventCounts'
  BY <1>2 DEF EventCounts
<1>7. event' # None
  BY <1>2, EventAssumption
<1>8. keys \cup kept \subseteq keys' \cup kept' \cup {key}
  OBVIOUS
<1>9. HoldsNone' /\ FocusHolds'
  BY <1>1, <1>2, <1>7, <1>8 DEF KeyboardInv, HoldsNone, FocusHolds, Unlifted
<1> QED BY <1>4, <1>5, <1>6, <1>9 DEF KeyboardInv

LEMMA KeyPressKeeps ==
  ASSUME KeyboardInv, NEW s \in Surfaces, KeyPress(s) PROVE KeyboardInv'
<1> DEFINE key == event.key
<1> USE DEF KeyPress
<1>1. KeyboardTypeOK /\ event \in KeyEvents /\ event.down /\ ~event.sent
  BY DEF KeyboardInv, KeyboardTypeOK
<1>2. key \in Keys /\ key \in keys \cup kept
  BY <1>1 DEF KeyboardInv, EventCounts, KeyEvents
<1>3. event' \in KeyEvents /\ event'.key = key /\ event'.down /\ event'.sent
  BY <1>1 DEF KeyEvents
<1>4. EventCounts'
  BY <1>2, <1>3 DEF EventCounts
<1>5. CASE s = focus
  <2>1. /\ UNCHANGED <<focus, focusResource, entered>>
        /\ pressed' = [k \in Keyboards |-> IF k = focusResource THEN pressed[k] \cup {key} ELSE pressed[k]]
    BY <1>5
  <2>2. pressed' \in [Keyboards -> SUBSET Keys]
    BY <1>1, <1>2, <2>1 DEF KeyboardTypeOK
  <2>3. KeyboardTypeOK'
    BY <1>1, <1>3, <2>1, <2>2 DEF KeyboardTypeOK
  <2>4. FocusEntered'
    BY <2>1 DEF KeyboardInv, FocusEntered
  <2>5. focusResource # None => pressed'[focusResource] = pressed[focusResource] \cup {key}
    BY <1>1, <2>1 DEF KeyboardTypeOK
  <2>6. FocusHolds'
    BY <1>2, <2>1, <2>5 DEF KeyboardInv, FocusHolds, Unlifted
  <2>7. HoldsNone'
    <3>1. focusResource # None => entered[focusResource] # None
      BY DEF KeyboardInv, FocusEntered
    <3> QED BY <1>1, <2>1, <3>1, KeyboardAssumption DEF KeyboardInv, HoldsNone
  <2> QED BY <1>4, <2>3, <2>4, <2>6, <2>7 DEF KeyboardInv
<1>6. CASE s # focus
  <2>1. /\ Focused(s) /\ UNCHANGED <<alive, bound>> /\ s \in alive
        /\ pressed' = [k \in Keyboards |-> IF k = Resource(s) THEN PressedAfter(s)[k] \cup {key}
                                                              ELSE PressedAfter(s)[k]]
    BY <1>6
  <2>2. /\ focus' \in Surfaces \cup {None} /\ focusResource' \in Keyboards \cup {None}
        /\ entered' \in [Keyboards -> Surfaces \cup {None}]
        /\ FocusEntered'
        /\ focusResource' # None => focusResource' \in Entered(s)
    BY <1>1, <1>6, <2>1, FocusMoves
  <2>3. pressed' \in [Keyboards -> SUBSET Keys]
    BY <1>1, <1>2, <2>1, PressedType
  <2>4. KeyboardTypeOK'
    BY <1>1, <1>3, <2>1, <2>2, <2>3 DEF KeyboardTypeOK
  <2>5. focusResource' # None => pressed'[focusResource'] = keys \cup {key}
    BY <2>1, <2>2 DEF PressedAfter, Focused
  <2>6. FocusHolds'
    BY <1>2, <2>5 DEF FocusHolds, Unlifted
  <2>7. ASSUME NEW k \in Keyboards, entered'[k] = None
        PROVE  pressed'[k] = {}
    <3>1. k \notin Entered(s) /\ PressedAfter(s)[k] = {}
      BY <2>1, <2>7, MovedHolds
    <3>2. k # Resource(s)
      BY <1>6, <3>1, KeyboardAssumption DEF Entered
    <3> QED BY <2>1, <3>1, <3>2
  <2>8. HoldsNone'
    BY <2>7 DEF HoldsNone
  <2> QED BY <1>4, <2>2, <2>4, <2>6, <2>8 DEF KeyboardInv
<1> QED BY <1>5, <1>6

LEMMA KeyReleaseKeeps == KeyboardInv /\ KeyRelease => KeyboardInv'
<1> SUFFICES ASSUME KeyboardInv, KeyRelease PROVE KeyboardInv'
  OBVIOUS
<1> USE DEF KeyRelease, focusVars
<1>1. KeyboardTypeOK /\ event \in KeyEvents /\ ~event.down /\ ~event.sent
  BY DEF KeyboardInv, KeyboardTypeOK
<1>2. event' \in KeyEvents /\ event'.key = event.key /\ ~event'.down /\ event'.sent
  BY <1>1 DEF KeyEvents
<1>3. pressed' \in [Keyboards -> SUBSET Keys]
  BY <1>1 DEF KeyboardTypeOK
<1>4. KeyboardTypeOK'
  BY <1>1, <1>2, <1>3 DEF KeyboardTypeOK
<1>5. FocusEntered'
  BY DEF KeyboardInv, FocusEntered
<1>6. EventCounts'
  BY <1>2 DEF EventCounts
<1>7. focusResource # None => pressed'[focusResource] = pressed[focusResource] \ {event.key}
  BY <1>1 DEF KeyboardTypeOK
<1>8. FocusHolds'
  BY <1>7 DEF KeyboardInv, FocusHolds, Unlifted
<1>9. HoldsNone'
  BY DEF KeyboardInv, HoldsNone
<1> QED BY <1>4, <1>5, <1>6, <1>8, <1>9 DEF KeyboardInv

LEMMA KeymapType ==
  ASSUME KeyboardTypeOK, NEW pending \in BOOLEAN, NEW held, MaybeUpdateKeymap(pending, held)
  PROVE  pendingKeymap' \in BOOLEAN /\ keymap' \in {0, 1}
<1>1. keymap = 0 \/ keymap = 1
  BY DEF KeyboardTypeOK
<1>2. 1 - keymap \in {0, 1}
  <2>1. CASE keymap = 0
    BY <2>1
  <2>2. CASE keymap = 1
    BY <2>2
  <2> QED BY <1>1, <2>1, <2>2
<1>3. CASE pending /\ held = {}
  BY <1>2, <1>3 DEF MaybeUpdateKeymap
<1>4. CASE ~(pending /\ held = {})
  BY <1>1, <1>4 DEF MaybeUpdateKeymap
<1> QED BY <1>3, <1>4

LEMMA KeyEventEndKeeps == KeyboardInv /\ KeyEventEnd => KeyboardInv'
<1> SUFFICES ASSUME KeyboardInv, KeyEventEnd PROVE KeyboardInv'
  OBVIOUS
<1> USE DEF KeyEventEnd, focusVars, toldVars
<1>1. KeyboardTypeOK /\ event \in KeyEvents
  BY DEF KeyboardInv, KeyboardTypeOK
<1>2. pendingKeymap' \in BOOLEAN /\ keymap' \in {0, 1}
  BY <1>1, KeymapType DEF KeyboardTypeOK
<1>3. kept' \subseteq Keys
  BY <1>1 DEF KeyboardTypeOK, KeyEvents
<1>4. KeyboardTypeOK'
  BY <1>1, <1>2, <1>3 DEF KeyboardTypeOK
<1>5. FocusEntered' /\ EventCounts'
  BY DEF KeyboardInv, FocusEntered, EventCounts
<1>6. keys \cup Unlifted \subseteq keys' \cup kept'
  BY <1>1 DEF KeyboardInv, EventCounts, Unlifted
<1>7. HoldsNone' /\ FocusHolds'
  BY <1>6 DEF KeyboardInv, HoldsNone, FocusHolds, Unlifted
<1> QED BY <1>4, <1>5, <1>7 DEF KeyboardInv

LEMMA UpdateKeymapKeeps == KeyboardInv /\ UpdateKeymap => KeyboardInv'
<1> SUFFICES ASSUME KeyboardInv, UpdateKeymap PROVE KeyboardInv'
  OBVIOUS
<1> USE DEF UpdateKeymap, focusVars, toldVars
<1>1. pendingKeymap' \in BOOLEAN /\ keymap' \in {0, 1}
  BY KeymapType DEF KeyboardInv
<1>2. KeyboardTypeOK'
  BY <1>1 DEF KeyboardInv, KeyboardTypeOK
<1>3. FocusEntered' /\ EventCounts' /\ HoldsNone' /\ FocusHolds'
  BY DEF KeyboardInv, FocusEntered, EventCounts, HoldsNone, FocusHolds, Unlifted
<1> QED BY <1>2, <1>3 DEF KeyboardInv

LEMMA ResetKeeps == KeyboardInv /\ ResetKeyboardState => KeyboardInv'
<1> SUFFICES ASSUME KeyboardInv, ResetKeyboardState PROVE KeyboardInv'
  OBVIOUS
<1> USE DEF ResetKeyboardState, focusVars, toldVars
<1>1. KeyboardTypeOK'
  BY DEF KeyboardInv, KeyboardTypeOK
<1>2. FocusEntered' /\ EventCounts' /\ HoldsNone' /\ FocusHolds'
  BY DEF KeyboardInv, FocusEntered, EventCounts, HoldsNone, FocusHolds, Unlifted
<1> QED BY <1>1, <1>2 DEF KeyboardInv

LEMMA KeyboardStep == KeyboardInv /\ [KeyboardNext]_keyboardVars => KeyboardInv'
<1> SUFFICES ASSUME KeyboardInv, [KeyboardNext]_keyboardVars PROVE KeyboardInv'
  OBVIOUS
<1>1. ASSUME NEW s \in Surfaces, CreateSurface(s) \/ DestroySurface(s) \/ KeyPress(s)
      PROVE  KeyboardInv'
  BY <1>1, CreateKeeps, DestroyKeeps, KeyPressKeeps
<1>2. ASSUME NEW s \in Surfaces \cup {None}, SetKeyboardFocus(s) PROVE KeyboardInv'
  BY <1>2, FocusKeeps
<1>3. ASSUME NEW k \in Keyboards, BindKeyboard(k) \/ ReleaseKeyboard(k) PROVE KeyboardInv'
  BY <1>3, BindKeeps, ReleaseKeeps
<1>4. ASSUME NEW key \in Keys, NEW down \in BOOLEAN, KeyEvent(key, down) PROVE KeyboardInv'
  BY <1>4, KeyEventKeeps
<1>5. CASE KeyRelease \/ KeyEventEnd \/ UpdateKeymap \/ ResetKeyboardState
  BY <1>5, KeyReleaseKeeps, KeyEventEndKeeps, UpdateKeymapKeeps, ResetKeeps
<1>6. CASE UNCHANGED keyboardVars
  <2> USE <1>6 DEF keyboardVars, focusVars, keyVars, toldVars
  <2>1. KeyboardTypeOK'
    BY DEF KeyboardInv, KeyboardTypeOK
  <2>2. FocusEntered' /\ EventCounts' /\ HoldsNone' /\ FocusHolds'
    BY DEF KeyboardInv, FocusEntered, EventCounts, HoldsNone, FocusHolds, Unlifted
  <2> QED BY <2>1, <2>2 DEF KeyboardInv
<1> QED BY <1>1, <1>2, <1>3, <1>4, <1>5, <1>6 DEF KeyboardNext

(* A new keymap goes out when no key is pressed: what a keyboard holds then  *)
(* is what NoStuckKey leaves.                                                *)
LEMMA KeymapStep ==
  KeyboardInv /\ [KeyboardNext]_keyboardVars /\ keymap' # keymap
    => \A k \in Keyboards : ~Abandoned(k) => pressed[k] \subseteq Unlifted
<1> SUFFICES ASSUME KeyboardInv, [KeyboardNext]_keyboardVars, keymap' # keymap
             PROVE  \A k \in Keyboards : ~Abandoned(k) => pressed[k] \subseteq Unlifted
  OBVIOUS
<1>1. keys = {}
  BY DEF KeyboardNext, keyboardVars, keyVars, CreateSurface, DestroySurface, KeyPress, SetKeyboardFocus,
     BindKeyboard, ReleaseKeyboard, KeyEvent, KeyRelease, KeyEventEnd, UpdateKeymap, ResetKeyboardState,
     MaybeUpdateKeymap
<1> QED BY <1>1, KeyboardSafe DEF NoStuckKey
=============================================================================
