---------------------------- MODULE KmsFlipProofs ---------------------------
(***************************************************************************)
(* What holds of KmsFlip for any number of screens and buffers, any        *)
(* cloning and any number of session switches and screen changes: the      *)
(* types, that no render thread sleeps for a flip that is not under way,   *)
(* and that no buffer is lost, nor drawn into while it is shown.           *)
(***************************************************************************)
EXTENDS KmsFlip, ListProofs

-----------------------------------------------------------------------------
(* Type correctness. *)

LEMMA InitType == Init => TypeOK
<1> SUFFICES ASSUME Init PROVE TypeOK
  OBVIOUS
<1>1. <<>> \in Seq(Screens)
  BY EmptySeq
<1>2. disturbances \in 0 .. MaxDisturbances
  BY BoundAssumption DEF Init
<1> QED BY <1>1, <1>2 DEF Init, TypeOK

(* What updateStatus leaves of the waits and the completions.              *)
LEMMA UpdateType ==
  ASSUME TypeOK, NEW w \in SUBSET Screens, NEW d \in SUBSET Screens, UpdateStatus(w, d)
  PROVE  /\ waits' \subseteq w /\ completed' \subseteq d
         /\ pc' \in [Screens -> {"draw", "locked", "waiting", "woken", "swap", "present", "flip", "crashed"}]
BY DEF TypeOK, UpdateStatus

LEMMA NextType ==
  ASSUME TypeOK, [Next]_vars
  PROVE  TypeOK'
<1> USE NoneAssumption
<1>1. CASE RegisterWait
  <2>1. Head(posted) \in Screens /\ Tail(posted) \in Seq(Screens)
    BY <1>1, TailFacts DEF RegisterWait, TypeOK
  <2>2. /\ waits' \subseteq waits \cup {Head(posted)} /\ completed' \subseteq completed
        /\ pc' \in [Screens -> {"draw", "locked", "waiting", "woken", "swap", "present", "flip", "crashed"}]
    BY <1>1, <2>1, UpdateType DEF RegisterWait, TypeOK
  <2> QED BY <1>1, <2>1, <2>2 DEF RegisterWait, TypeOK, kernelVars, gbmVars, guiVars
<1>2. CASE HandleFlipEvent
  <2>1. Head(events) \in Screens /\ Tail(events) \in Seq(Screens)
    BY <1>2, TailFacts DEF HandleFlipEvent, TypeOK
  <2>2. /\ waits' \subseteq waits /\ completed' \subseteq completed \cup {Head(events)}
        /\ pc' \in [Screens -> {"draw", "locked", "waiting", "woken", "swap", "present", "flip", "crashed"}]
    BY <1>2, <2>1, UpdateType DEF HandleFlipEvent, TypeOK
  <2> QED BY <1>2, <2>1, <2>2 DEF HandleFlipEvent, TypeOK, gbmVars, guiVars
<1>3. CASE SwitchSession
  BY <1>3, BoundAssumption DEF SwitchSession, TypeOK, renderVars, readerVars, kernelVars, gbmVars
<1>4. ASSUME NEW s \in Screens, WaitForFlip(s)
      PROVE  TypeOK'
  <2>1. Append(posted, s) \in Seq(Screens)
    BY AppendProperties DEF TypeOK
  <2> QED BY <1>4, <2>1 DEF WaitForFlip, TypeOK, kernelVars, gbmVars, guiVars
<1>5. ASSUME NEW s \in Screens, Sleep(s)
      PROVE  TypeOK'
  BY <1>5 DEF Sleep, TypeOK, readerVars, kernelVars, gbmVars, guiVars
<1>6. ASSUME NEW s \in Screens, FlipFinished(s)
      PROVE  TypeOK'
  <2>1. /\ locked' \in [Screens -> SUBSET BOs]
        /\ cur' \in [Screens -> BOs \cup {NoBO}] /\ next' \in [Screens -> BOs \cup {NoBO}]
    <3>1. CASE \E c \in Clones(s) : clonePending[c]
      BY <1>6, <3>1 DEF FlipFinished, TypeOK
    <3>2. CASE ~\E c \in Clones(s) : clonePending[c]
      <4>1. locked' = [locked EXCEPT ![s] = @ \ {Replaced(s)}]
        BY <1>6, <3>2 DEF FlipFinished
      <4>2. locked[s] \ {Replaced(s)} \in SUBSET BOs
        BY DEF TypeOK
      <4>3. locked' \in [Screens -> SUBSET BOs]
        BY <4>1, <4>2 DEF TypeOK
      <4> QED BY <1>6, <3>2, <4>3 DEF FlipFinished, TypeOK
    <3> QED BY <3>1, <3>2
  <2> QED BY <1>6, <2>1 DEF FlipFinished, TypeOK, readerVars, kernelVars, guiVars
<1>7. ASSUME NEW s \in Screens, Swap(s)
      PROVE  TypeOK'
  <2> DEFINE free == BOs \ (locked[s] \cup {front[s]})
             back == CHOOSE b \in free : TRUE
  <2>1. free # {} => back \in BOs
    OBVIOUS
  <2>2. front' = front \/ (free # {} /\ front' = [front EXCEPT ![s] = back])
    BY <1>7 DEF Swap
  <2> HIDE DEF back, free
  <2>3. front' \in [Screens -> BOs \cup {NoBO}]
    BY <2>1, <2>2 DEF TypeOK
  <2> QED BY <1>7, <2>3 DEF Swap, TypeOK, readerVars, kernelVars, guiVars
<1>8. ASSUME NEW s \in Screens, Present(s)
      PROVE  TypeOK'
  BY <1>8 DEF Present, Locks, TypeOK, readerVars, kernelVars, guiVars
<1>9. ASSUME NEW s \in Screens, PageFlip(s)
      PROVE  TypeOK'
  <2>1. Kept(s) \in SUBSET BOs
    BY DEF Kept, TypeOK
  <2> DEFINE crtcs == IF Accepts(s) THEN {s} \cup Clones(s) ELSE {s}
             flipped == {c \in crtcs : Accepts(c)}
  <2>2. /\ pc' = [pc EXCEPT ![s] = "draw"]
        /\ stale' = [stale EXCEPT ![s] = FALSE]
        /\ modeSet' = [c \in Screens |-> modeSet[c] \/ c \in crtcs]
        /\ scanout' = [c \in Screens |-> IF c \in crtcs /\ ~modeSet[c] /\ active THEN next[s] ELSE scanout[c]]
        /\ inflight' = [c \in Screens |-> IF c \in flipped THEN next[s] ELSE inflight[c]]
        /\ clonePending' = [c \in Screens |-> c \in flipped \ {s} \/ (c \notin crtcs /\ clonePending[c])]
        /\ locked' = [locked EXCEPT ![s] = Kept(s)]
        /\ next' = [next EXCEPT ![s] = IF s \in flipped THEN @ ELSE NoBO]
        /\ UNCHANGED <<cloneSource, cur, readerVars, events, front, active, gui, disturbances, overrun>>
    BY <1>9 DEF PageFlip
  <2> HIDE DEF crtcs, flipped
  <2>3. modeSet' \in [Screens -> BOOLEAN] /\ clonePending' \in [Screens -> BOOLEAN]
    <3>1. \A c \in Screens : (modeSet[c] \/ c \in crtcs) \in BOOLEAN
      OBVIOUS
    <3>2. \A c \in Screens : (c \in flipped \ {s} \/ (c \notin crtcs /\ clonePending[c])) \in BOOLEAN
      OBVIOUS
    <3>3. modeSet' \in [Screens -> BOOLEAN]
      BY <2>2, <3>1, Zenon
    <3>4. clonePending' \in [Screens -> BOOLEAN]
      BY <2>2, <3>2, Zenon
    <3> QED BY <3>3, <3>4
  <2>4. scanout' \in [Screens -> BOs \cup {NoBO}] /\ inflight' \in [Screens -> BOs \cup {NoBO, Gone}]
    BY <2>2 DEF TypeOK
  <2>5. locked' \in [Screens -> SUBSET BOs] /\ next' \in [Screens -> BOs \cup {NoBO}]
    BY <2>1, <2>2 DEF TypeOK
  <2> QED BY <2>2, <2>3, <2>4, <2>5 DEF TypeOK, readerVars
<1>10. ASSUME NEW s \in Screens, CrashInFlip(s)
       PROVE  TypeOK'
  BY <1>10 DEF CrashInFlip, TypeOK, readerVars, kernelVars, gbmVars, guiVars
<1>11. ASSUME NEW c \in Screens, FlipCompletes(c)
       PROVE  TypeOK'
  <2>1. Append(events, c) \in Seq(Screens)
    BY AppendProperties DEF TypeOK
  <2> QED BY <1>11, <2>1 DEF FlipCompletes, TypeOK, renderVars, readerVars, gbmVars, guiVars
<1>12. ASSUME NEW s \in Screens, RequestModeChange(s)
       PROVE  TypeOK'
  BY <1>12, BoundAssumption DEF RequestModeChange, TypeOK, renderVars, readerVars, kernelVars, gbmVars
<1>13. ASSUME NEW s \in Screens, SetSurface(s)
       PROVE  TypeOK'
  BY <1>13 DEF SetSurface, TypeOK, readerVars
<1>14. ASSUME NEW s \in Screens, EndModeChange(s)
       PROVE  TypeOK'
  BY <1>14 DEF EndModeChange, TypeOK, renderVars, readerVars, kernelVars, gbmVars
<1>15. CASE UNCHANGED vars
  BY <1>15 DEF vars, TypeOK, renderVars, readerVars, kernelVars, gbmVars, guiVars
<1> QED BY <1>1, <1>2, <1>3, <1>4, <1>5, <1>6, <1>7, <1>8, <1>9, <1>10, <1>11, <1>12, <1>13, <1>14, <1>15
        DEF Next

(* Every variable of a KMS screen and of the event reader keeps its type,  *)
(* with any number of screens, buffers and disturbances.                   *)
THEOREM TypeCorrect == Spec => []TypeOK
<1>1. Init => TypeOK
  BY InitType
<1>2. TypeOK /\ [Next]_vars => TypeOK'
  BY NextType
<1> QED BY <1>1, <1>2, PTL DEF Spec
-----------------------------------------------------------------------------
(* No endless wait. *)

(* A thread that is registered or on the way to be is in waitForFlip, and   *)
(* it is registered once: one that is woken leaves nothing behind that      *)
(* would use up its next completion.                                        *)
RegisteredOnce ==
  /\ Distinct(posted) /\ waits \cap SeqRange(posted) = {}
  /\ \A s \in waits \cup SeqRange(posted) : pc[s] \in {"locked", "waiting", "crashed"}
  /\ \A s \in Screens : pc[s] \in {"locked", "waiting"} => s \in waits \cup SeqRange(posted)

(* Between two frames m_gbm_bo_next is set only while a flip is under way:  *)
(* the check that sends a thread to sleep relies on it.                     *)
Relies(s) == pc[s] \in {"locked", "waiting"} \/ (next[s] # NoBO /\ pc[s] \in {"draw", "swap", "present"})
FlipUnderWay(s) == Relies(s) => Outstanding(s)

WaitInv == RegisteredOnce /\ \A s \in Screens : Clones(s) = {} => FlipUnderWay(s)

LEMMA InitWait == Init => WaitInv
<1> SUFFICES ASSUME Init PROVE WaitInv
  OBVIOUS
<1>1. SeqRange(posted) = {} /\ Distinct(posted)
  BY DEF Init, SeqRange, Distinct
<1> QED BY <1>1 DEF Init, WaitInv, RegisteredOnce, FlipUnderWay, Relies

(* Steps outside the event host and waitForFlip leave the registrations    *)
(* alone: no thread enters or leaves waitForFlip, except by a crash.       *)
LEMMA RegisteredKept ==
  ASSUME RegisteredOnce, UNCHANGED <<posted, waits>>,
         \A s \in Screens : \/ (pc[s] \in {"locked", "waiting"}) = (pc'[s] \in {"locked", "waiting"})
                            \/ pc'[s] = "crashed",
         \A s \in Screens : pc[s] = "crashed" => pc'[s] = "crashed",
         TypeOK
  PROVE  RegisteredOnce'
<1>1. waits \cup SeqRange(posted) \subseteq Screens
  BY DEF TypeOK, SeqRange
<1>2. SeqRange(posted)' = SeqRange(posted) /\ Distinct(posted)' = Distinct(posted)
  BY DEF SeqRange, Distinct
<1> QED BY <1>1, <1>2 DEF RegisteredOnce

(* A flip stays under way if nothing is taken from what is outstanding and *)
(* the thread does not come to rely on it by this step.                    *)
LEMMA UnderWayKept ==
  ASSUME NEW s \in Screens, FlipUnderWay(s), Outstanding(s) => Outstanding(s)',
         Relies(s)' => Relies(s)
  PROVE  FlipUnderWay(s)'
BY DEF FlipUnderWay, Relies

(* updateStatus takes a completion only from the thread it wakes.          *)
LEMMA UpdateWait ==
  ASSUME TypeOK, NEW w \in SUBSET Screens, NEW d \in SUBSET Screens, UpdateStatus(w, d),
         \A s \in w : pc[s] \in {"locked", "waiting", "crashed"}
  PROVE  /\ \A s \in Screens : \/ pc'[s] = pc[s] /\ (s \in w <=> s \in waits') /\ (s \in d <=> s \in completed')
                               \/ s \in w /\ s \notin waits' /\ pc'[s] \in {"woken", "crashed"}
         /\ waits' \subseteq w /\ completed' \subseteq d
<1>1. CASE w \cap d = {}
  BY <1>1 DEF UpdateStatus
<1>2. CASE w \cap d # {}
  <2>1. PICK k \in w \cap d :
          /\ pc[k] # "locked"
          /\ waits' = w \ {k} /\ completed' = d \ {k}
          /\ pc' = [pc EXCEPT ![k] = IF @ = "waiting" THEN "woken" ELSE @]
    BY <1>2 DEF UpdateStatus
  <2>2. pc'[k] \in {"woken", "crashed"} /\ \A s \in Screens \ {k} : pc'[s] = pc[s]
    BY <2>1 DEF TypeOK
  <2> QED BY <2>1, <2>2
<1> QED BY <1>1, <1>2

LEMMA NextWait ==
  ASSUME TypeOK, TypeOK', WaitInv, [Next]_vars
  PROVE  WaitInv'
<1> USE NoneAssumption
<1>0. RegisteredOnce /\ (UNCHANGED cloneSource => \A s \in Screens : Clones(s)' = Clones(s))
  BY DEF WaitInv, Clones
<1>1. CASE RegisterWait
  <2>1. /\ Head(posted) \in Screens /\ SeqRange(posted) = SeqRange(posted') \cup {Head(posted)}
        /\ Distinct(posted') /\ Head(posted) \notin SeqRange(posted')
        /\ UNCHANGED <<cloneSource, next, inflight, events>>
    BY <1>0, <1>1, TailFacts DEF RegisterWait, TypeOK, RegisteredOnce, kernelVars
  <2>2. \A s \in waits \cup {Head(posted)} : pc[s] \in {"locked", "waiting", "crashed"}
    BY <1>0, <2>1 DEF RegisteredOnce
  <2>3. /\ \A s \in Screens :
             \/ pc'[s] = pc[s] /\ (s \in waits \cup {Head(posted)} <=> s \in waits') /\ (s \in completed <=> s \in completed')
             \/ s \in waits \cup {Head(posted)} /\ s \notin waits' /\ pc'[s] \in {"woken", "crashed"}
        /\ waits' \subseteq waits \cup {Head(posted)}
    <3>1. /\ UpdateStatus(waits \cup {Head(posted)}, completed)
          /\ waits \cup {Head(posted)} \in SUBSET Screens /\ completed \in SUBSET Screens
      BY <1>1, <2>1 DEF RegisterWait, TypeOK
    <3> QED BY <2>2, <3>1, UpdateWait
  <2>4. RegisteredOnce'
    <3>1. waits' \cap SeqRange(posted') = {}
      BY <1>0, <2>1, <2>3 DEF RegisteredOnce
    <3>2. ASSUME NEW s \in waits' \cup SeqRange(posted')
          PROVE  pc'[s] \in {"locked", "waiting", "crashed"}
      <4>0. s \in waits \cup SeqRange(posted)
        BY <2>1, <2>3, <3>2
      <4>1. s \in Screens /\ s \in waits \cup SeqRange(posted)
        BY <4>0 DEF TypeOK, SeqRange
      <4>2. s \notin waits' => s \notin waits \cup {Head(posted)}
        BY <1>0, <2>1, <3>2 DEF RegisteredOnce
      <4> QED BY <1>0, <2>3, <4>1, <4>2 DEF RegisteredOnce
    <3>3. ASSUME NEW s \in Screens, pc'[s] \in {"locked", "waiting"}
          PROVE  s \in waits' \cup SeqRange(posted')
      BY <1>0, <2>1, <2>3, <3>3 DEF RegisteredOnce
    <3> QED BY <2>1, <3>1, <3>2, <3>3 DEF RegisteredOnce, SeqRange
  <2>5. ASSUME NEW s \in Screens, Clones(s) = {}
        PROVE  FlipUnderWay(s)'
    BY <2>1, <2>3, <2>5 DEF WaitInv, FlipUnderWay, Relies, Outstanding, SeqRange
  <2> QED BY <1>0, <2>1, <2>4, <2>5 DEF WaitInv
<1>2. CASE HandleFlipEvent
  <2>1. /\ Head(events) \in Screens /\ SeqRange(events) = SeqRange(events') \cup {Head(events)}
        /\ UNCHANGED <<cloneSource, next, inflight, posted>>
    BY <1>2, TailFacts DEF HandleFlipEvent, TypeOK
  <2>2. \A s \in waits : pc[s] \in {"locked", "waiting", "crashed"}
    BY <1>0 DEF RegisteredOnce
  <2>3. /\ \A s \in Screens :
             \/ pc'[s] = pc[s] /\ (s \in waits <=> s \in waits')
                /\ (s \in completed \cup {Head(events)} <=> s \in completed')
             \/ s \in waits /\ s \notin waits' /\ pc'[s] \in {"woken", "crashed"}
        /\ waits' \subseteq waits
    <3>1. /\ UpdateStatus(waits, completed \cup {Head(events)})
          /\ waits \in SUBSET Screens /\ completed \cup {Head(events)} \in SUBSET Screens
      BY <1>2, <2>1 DEF HandleFlipEvent, TypeOK
    <3> QED BY <2>2, <3>1, UpdateWait
  <2>4. RegisteredOnce'
    <3>1. SeqRange(posted)' = SeqRange(posted) /\ Distinct(posted)' = Distinct(posted)
      BY <2>1 DEF SeqRange, Distinct
    <3>2. waits \cup SeqRange(posted) \subseteq Screens
      BY DEF TypeOK, SeqRange
    <3> QED BY <1>0, <2>3, <3>1, <3>2 DEF RegisteredOnce
  <2>5. ASSUME NEW s \in Screens, Clones(s) = {}
        PROVE  FlipUnderWay(s)'
    BY <2>1, <2>3, <2>5 DEF WaitInv, FlipUnderWay, Relies, Outstanding, SeqRange
  <2> QED BY <1>0, <2>1, <2>4, <2>5 DEF WaitInv
<1>3. CASE SwitchSession
  BY <1>3 DEF SwitchSession, WaitInv, RegisteredOnce, Distinct, SeqRange, FlipUnderWay, Relies, Outstanding, Clones,
              renderVars, readerVars, kernelVars
<1>4. ASSUME NEW s \in Screens, WaitForFlip(s)
      PROVE  WaitInv'
  <2>1. /\ pc[s] = "draw" /\ UNCHANGED <<cloneSource, next, waits, completed, inflight, events>>
        /\ s \notin waits \cup SeqRange(posted)
    BY <1>0, <1>4 DEF WaitForFlip, RegisteredOnce, kernelVars
  <2>2. CASE MustWait(s)
    <3>1. /\ posted' = Append(posted, s) /\ pc' = [pc EXCEPT ![s] = "locked"] /\ next[s] # NoBO
      BY <1>4, <2>2 DEF WaitForFlip, MustWait
    <3>2. SeqRange(posted') = SeqRange(posted) \cup {s} /\ Distinct(posted')
      BY <1>0, <2>1, <3>1, AppendFacts DEF TypeOK, RegisteredOnce
    <3>3. RegisteredOnce'
      BY <1>0, <2>1, <3>1, <3>2 DEF RegisteredOnce, TypeOK
    <3>4. ASSUME NEW t \in Screens, Clones(t) = {}
          PROVE  FlipUnderWay(t)'
      BY <2>1, <3>1, <3>4 DEF WaitInv, FlipUnderWay, Relies, Outstanding, SeqRange, TypeOK
    <3> QED BY <1>0, <2>1, <3>3, <3>4 DEF WaitInv
  <2>3. CASE ~MustWait(s)
    <3>1. UNCHANGED posted /\ pc' = [pc EXCEPT ![s] = "swap"]
      BY <1>4, <2>3 DEF WaitForFlip
    <3>2. RegisteredOnce'
      BY <1>0, <2>1, <3>1, RegisteredKept DEF TypeOK
    <3>3. ASSUME NEW t \in Screens, Clones(t) = {}
          PROVE  FlipUnderWay(t)'
      BY <2>1, <3>1, <3>3 DEF WaitInv, FlipUnderWay, Relies, Outstanding, SeqRange, TypeOK
    <3> QED BY <1>0, <2>1, <3>2, <3>3 DEF WaitInv
  <2> QED BY <2>2, <2>3
<1>5. ASSUME NEW s \in Screens, Sleep(s)
      PROVE  WaitInv'
  <2>1. /\ pc[s] = "locked" /\ pc' = [pc EXCEPT ![s] = "waiting"]
        /\ UNCHANGED <<cloneSource, next, posted, waits, completed, inflight, events>>
    BY <1>5 DEF Sleep, readerVars, kernelVars
  <2>2. RegisteredOnce'
    BY <1>0, <2>1, RegisteredKept DEF TypeOK
  <2>3. ASSUME NEW t \in Screens, Clones(t) = {}
        PROVE  FlipUnderWay(t)'
    <3>1. Clones(t) = {} /\ FlipUnderWay(t)
      BY <1>0, <2>1, <2>3 DEF WaitInv
    <3>2. Outstanding(t) => Outstanding(t)'
      BY <2>1 DEF Outstanding, SeqRange
    <3>3. Relies(t)' => Relies(t)
      BY <2>1 DEF Relies, TypeOK
    <3> QED BY <3>1, <3>2, <3>3, UnderWayKept
  <2> QED BY <1>0, <2>1, <2>2, <2>3 DEF WaitInv
<1>6. ASSUME NEW s \in Screens, FlipFinished(s)
      PROVE  WaitInv'
  <2>1. /\ pc[s] = "woken" /\ pc' = [pc EXCEPT ![s] = "swap"]
        /\ UNCHANGED <<cloneSource, posted, waits, completed, inflight, events>>
    BY <1>6 DEF FlipFinished, readerVars, kernelVars
  <2>4. /\ Clones(s) = {} => next' = [next EXCEPT ![s] = NoBO]
        /\ next' = next \/ next' = [next EXCEPT ![s] = NoBO]
    <3>1. (\E c \in Clones(s) : clonePending[c]) \/ next' = [next EXCEPT ![s] = NoBO]
      BY <1>6 DEF FlipFinished
    <3>2. (\E c \in Clones(s) : clonePending[c]) => next' = next
      BY <1>6 DEF FlipFinished
    <3> QED BY <3>1, <3>2
  <2>2. RegisteredOnce'
    BY <1>0, <2>1, RegisteredKept DEF TypeOK
  <2>3. ASSUME NEW t \in Screens, Clones(t) = {}
        PROVE  FlipUnderWay(t)'
    BY <2>1, <2>4, <2>3 DEF WaitInv, FlipUnderWay, Relies, Outstanding, SeqRange, TypeOK
  <2> QED BY <1>0, <2>1, <2>2, <2>3 DEF WaitInv
<1>7. ASSUME NEW s \in Screens, Swap(s)
      PROVE  WaitInv'
  <2>1. /\ pc[s] = "swap" /\ pc' = [pc EXCEPT ![s] = "present"]
        /\ UNCHANGED <<cloneSource, next, posted, waits, completed, inflight, events>>
    BY <1>7 DEF Swap, readerVars, kernelVars
  <2>2. RegisteredOnce'
    BY <1>0, <2>1, RegisteredKept DEF TypeOK
  <2>3. ASSUME NEW t \in Screens, Clones(t) = {}
        PROVE  FlipUnderWay(t)'
    BY <2>1, <2>3 DEF WaitInv, FlipUnderWay, Relies, Outstanding, SeqRange, TypeOK
  <2> QED BY <1>0, <2>1, <2>2, <2>3 DEF WaitInv
<1>8. ASSUME NEW s \in Screens, Present(s)
      PROVE  WaitInv'
  <2>1. /\ pc[s] = "present" /\ pc' = [pc EXCEPT ![s] = IF Locks(s) THEN "flip" ELSE "draw"]
        /\ UNCHANGED <<cloneSource, posted, waits, completed, inflight, events>>
        /\ next' = [next EXCEPT ![s] = IF active /\ gui[s] = "none" THEN front[s] ELSE @]
        /\ active /\ gui[s] = "none" /\ ~Locks(s) => front[s] = NoBO
    BY <1>8 DEF Present, Locks, readerVars, kernelVars
  <2>2. RegisteredOnce'
    BY <1>0, <2>1, RegisteredKept DEF TypeOK
  <2>3. ASSUME NEW t \in Screens, Clones(t) = {}
        PROVE  FlipUnderWay(t)'
    BY <2>1, <2>3 DEF WaitInv, FlipUnderWay, Relies, Outstanding, SeqRange, TypeOK
  <2> QED BY <1>0, <2>1, <2>2, <2>3 DEF WaitInv
<1>9. ASSUME NEW s \in Screens, PageFlip(s)
      PROVE  WaitInv'
  <2>1. /\ pc[s] = "flip" /\ next[s] # NoBO /\ pc' = [pc EXCEPT ![s] = "draw"]
        /\ UNCHANGED <<cloneSource, posted, waits, completed, events>>
    BY <1>9 DEF PageFlip, readerVars
  <2> DEFINE crtcs == IF Accepts(s) THEN {s} \cup Clones(s) ELSE {s}
             flipped == {c \in crtcs : Accepts(c)}
  <2>4. /\ inflight' = [c \in Screens |-> IF c \in flipped THEN next[s] ELSE inflight[c]]
        /\ next' = [next EXCEPT ![s] = IF s \in flipped THEN @ ELSE NoBO]
    BY <1>9 DEF PageFlip
  <2> HIDE DEF flipped, crtcs
  <2>5. /\ \A t \in Screens : inflight[t] # NoBO => inflight'[t] # NoBO
        /\ inflight'[s] = NoBO => next'[s] = NoBO
        /\ \A t \in Screens \ {s} : next'[t] = next[t]
    BY <2>1, <2>4 DEF TypeOK
  <2>2. RegisteredOnce'
    BY <1>0, <2>1, RegisteredKept DEF TypeOK
  <2>3. ASSUME NEW t \in Screens, Clones(t) = {}
        PROVE  FlipUnderWay(t)'
    <3>1. Clones(t) = {} /\ FlipUnderWay(t)
      BY <1>0, <2>1, <2>3 DEF WaitInv
    <3>2. Outstanding(t) => Outstanding(t)'
      BY <2>1, <2>5 DEF Outstanding, SeqRange
    <3>3. CASE t # s
      <4>1. Relies(t)' => Relies(t)
        BY <2>1, <2>5, <3>3 DEF Relies, TypeOK
      <4> QED BY <3>1, <3>2, <4>1, UnderWayKept
    <3>4. CASE t = s
      <4>1. pc'[s] = "draw"
        BY <2>1 DEF TypeOK
      <4>2. next'[s] # NoBO => Outstanding(s)'
        BY <2>5 DEF Outstanding
      <4> QED BY <3>4, <4>1, <4>2 DEF FlipUnderWay, Relies
    <3> QED BY <3>3, <3>4
  <2> QED BY <1>0, <2>1, <2>2, <2>3 DEF WaitInv
<1>10. ASSUME NEW s \in Screens, CrashInFlip(s)
       PROVE  WaitInv'
  <2>1. pc' = [t \in Screens |-> "crashed"] /\ UNCHANGED <<cloneSource, posted, waits>>
    BY <1>10 DEF CrashInFlip, readerVars
  <2>2. RegisteredOnce'
    BY <1>0, <2>1, RegisteredKept
  <2>3. \A t \in Screens : FlipUnderWay(t)'
    BY <2>1 DEF FlipUnderWay, Relies
  <2> QED BY <2>2, <2>3 DEF WaitInv
<1>11. ASSUME NEW c \in Screens, FlipCompletes(c)
       PROVE  WaitInv'
  <2>1. /\ UNCHANGED <<cloneSource, pc, next, posted, waits, completed>>
        /\ inflight' = [inflight EXCEPT ![c] = NoBO] /\ events' = Append(events, c)
    BY <1>11 DEF FlipCompletes, renderVars, readerVars
  <2>2. SeqRange(events') = SeqRange(events) \cup {c}
    BY <2>1, AppendRange DEF TypeOK
  <2>3. RegisteredOnce'
    BY <1>0, <2>1, RegisteredKept
  <2>4. ASSUME NEW t \in Screens, Clones(t) = {}
        PROVE  FlipUnderWay(t)'
    BY <2>1, <2>2, <2>4 DEF WaitInv, FlipUnderWay, Relies, Outstanding, SeqRange, TypeOK
  <2> QED BY <1>0, <2>1, <2>3, <2>4 DEF WaitInv
<1>12. ASSUME NEW s \in Screens, RequestModeChange(s)
       PROVE  WaitInv'
  BY <1>12 DEF RequestModeChange, WaitInv, RegisteredOnce, Distinct, SeqRange, FlipUnderWay, Relies, Outstanding, Clones,
               renderVars, readerVars, kernelVars
<1>13. ASSUME NEW s \in Screens, SetSurface(s)
       PROVE  WaitInv'
  <2>1. /\ UNCHANGED <<cloneSource, pc, posted, waits, completed, events>>
        /\ next' = [next EXCEPT ![s] = NoBO]
        /\ \A t \in Screens : inflight[t] # NoBO => inflight'[t] # NoBO
    BY <1>13 DEF SetSurface, readerVars
  <2>2. RegisteredOnce'
    BY <1>0, <2>1, RegisteredKept
  <2>3. ASSUME NEW t \in Screens, Clones(t) = {}
        PROVE  FlipUnderWay(t)'
    BY <2>1, <2>3 DEF WaitInv, FlipUnderWay, Relies, Outstanding, SeqRange, TypeOK
  <2> QED BY <1>0, <2>1, <2>2, <2>3 DEF WaitInv
<1>14. ASSUME NEW s \in Screens, EndModeChange(s)
       PROVE  WaitInv'
  BY <1>14 DEF EndModeChange, WaitInv, RegisteredOnce, Distinct, SeqRange, FlipUnderWay, Relies, Outstanding, Clones,
               renderVars, readerVars, kernelVars
<1>15. CASE UNCHANGED vars
  BY <1>15 DEF vars, WaitInv, RegisteredOnce, Distinct, SeqRange, FlipUnderWay, Relies, Outstanding, Clones,
               renderVars, readerVars, kernelVars
<1> QED BY <1>1, <1>2, <1>3, <1>4, <1>5, <1>6, <1>7, <1>8, <1>9, <1>10, <1>11, <1>12, <1>13, <1>14, <1>15
        DEF Next

(* A render thread sleeps in waitForFlip only for a flip whose completion  *)
(* is stored or still to come, and its wait is registered or about to be,  *)
(* for any number of screens, buffers, session switches and mode changes.  *)
THEOREM NoThreadFreezes == Spec => []NoEndlessWait
<1>1. Init => TypeOK /\ WaitInv
  BY InitType, InitWait
<1>2. TypeOK /\ WaitInv /\ [Next]_vars => (TypeOK /\ WaitInv)'
  BY NextType, NextWait
<1>3. WaitInv => NoEndlessWait
  BY DEF WaitInv, RegisteredOnce, FlipUnderWay, Relies, NoEndlessWait
<1> QED BY <1>1, <1>2, <1>3, PTL DEF Spec
-----------------------------------------------------------------------------
(* The event host pairs waits and completions. *)

(* One key is added at a time, so there is one pair at most to take out.   *)
LEMMA UpdateMatches ==
  ASSUME TypeOK, NEW w \in SUBSET Screens, NEW d \in SUBSET Screens, NEW k, w \cap d \subseteq {k},
         UpdateStatus(w, d)
  PROVE  waits' \cap completed' = {}
BY DEF UpdateStatus

LEMMA NextMatched ==
  ASSUME TypeOK, WaitsAreMatched, [Next]_vars
  PROVE  WaitsAreMatched'
<1>1. CASE RegisterWait
  <2>1. Head(posted) \in Screens
    BY <1>1, TailFacts DEF RegisterWait, TypeOK
  <2>2. UpdateStatus(waits \cup {Head(posted)}, completed)
    BY <1>1 DEF RegisterWait
  <2>3. (waits \cup {Head(posted)}) \cap completed \subseteq {Head(posted)}
    BY DEF WaitsAreMatched
  <2>4. waits \cup {Head(posted)} \in SUBSET Screens /\ completed \in SUBSET Screens
    BY <2>1 DEF TypeOK
  <2> QED BY <2>2, <2>3, <2>4, UpdateMatches DEF WaitsAreMatched
<1>2. CASE HandleFlipEvent
  <2>1. Head(events) \in Screens
    BY <1>2, TailFacts DEF HandleFlipEvent, TypeOK
  <2>2. UpdateStatus(waits, completed \cup {Head(events)})
    BY <1>2 DEF HandleFlipEvent
  <2>3. waits \cap (completed \cup {Head(events)}) \subseteq {Head(events)}
    BY DEF WaitsAreMatched
  <2>4. waits \in SUBSET Screens /\ completed \cup {Head(events)} \in SUBSET Screens
    BY <2>1 DEF TypeOK
  <2> QED BY <2>2, <2>3, <2>4, UpdateMatches DEF WaitsAreMatched
<1>3. CASE ~(RegisterWait \/ HandleFlipEvent)
  <2>1. UNCHANGED <<waits, completed>>
    BY <1>3 DEF Next, vars, readerVars, SwitchSession, WaitForFlip, Sleep, FlipFinished, Swap, Present,
                PageFlip, CrashInFlip, FlipCompletes, RequestModeChange, SetSurface, EndModeChange
  <2> QED BY <2>1 DEF WaitsAreMatched
<1> QED BY <1>1, <1>2, <1>3

(* The event host never keeps a wait and the completion it is for, for any *)
(* number of screens: a thread that can be woken is.                       *)
THEOREM FlipsAreMatched == Spec => []WaitsAreMatched
<1>1. Init => TypeOK /\ WaitsAreMatched
  BY InitType DEF Init, WaitsAreMatched
<1>2. TypeOK /\ WaitsAreMatched /\ [Next]_vars => (TypeOK /\ WaitsAreMatched)'
  BY NextType, NextMatched
<1> QED BY <1>1, <1>2, PTL DEF Spec
-----------------------------------------------------------------------------
(* Buffers. *)

(* A screen whose flips were all waited for, and that has no clones: the    *)
(* locked buffers are the current and the next one, and they differ.        *)
Clean(s) == ~overrun[s] /\ Clones(s) = {}
BuffersHeld(s) ==
  locked[s] = {cur[s], next[s]} \ {NoBO} /\ (next[s] # NoBO => cur[s] # next[s])

HeldInv ==
  /\ \A s \in Screens : front[s] \notin locked[s]
  /\ \A s \in Screens : Clean(s) => BuffersHeld(s)

(* What was overrun stays so, and the clones stay the same.                 *)
LEMMA CleanStays ==
  ASSUME TypeOK, [Next]_vars, NEW t \in Screens
  PROVE  (Clean(t)' => Clean(t)) /\ (Renders(t)' <=> Renders(t))
<1>1. UNCHANGED cloneSource
  BY DEF Next, vars, RegisterWait, HandleFlipEvent, SwitchSession, WaitForFlip, Sleep, FlipFinished, Swap,
         Present, PageFlip, CrashInFlip, FlipCompletes, RequestModeChange, SetSurface, EndModeChange
<1>2. overrun[t] => overrun'[t]
  <2>1. CASE UNCHANGED overrun
    BY <2>1
  <2>2. ASSUME NEW s \in Screens, Present(s) PROVE overrun[t] => overrun'[t]
    BY <2>2 DEF Present, TypeOK
  <2>3. ASSUME NEW s \in Screens, SetSurface(s) PROVE overrun[t] => overrun'[t]
    BY <2>3 DEF SetSurface, TypeOK
  <2>4. UNCHANGED overrun \/ \E s \in Screens : Present(s) \/ SetSurface(s)
    BY DEF Next, vars, RegisterWait, HandleFlipEvent, SwitchSession, WaitForFlip, Sleep, FlipFinished, Swap,
           PageFlip, CrashInFlip, FlipCompletes, RequestModeChange, EndModeChange
  <2> QED BY <2>1, <2>2, <2>3, <2>4
<1> QED BY <1>1, <1>2 DEF Clean, Clones, Renders

LEMMA NextHeld ==
  ASSUME TypeOK, HeldInv, [Next]_vars
  PROVE  HeldInv'
<1> USE NoneAssumption
<1>1. CASE UNCHANGED <<cur, next, front, locked>>
  BY <1>1, CleanStays DEF HeldInv, BuffersHeld
<1>2. ASSUME NEW s \in Screens, FlipFinished(s)
      PROVE  HeldInv'
  <2>1. UNCHANGED front
    BY <1>2 DEF FlipFinished
  <2>2. CASE UNCHANGED <<cur, next, locked>>
    BY <1>1, <2>1, <2>2
  <2>3. CASE /\ locked' = [locked EXCEPT ![s] = @ \ {cur[s]}]
             /\ cur' = [cur EXCEPT ![s] = next[s]]
             /\ next' = [next EXCEPT ![s] = NoBO]
    <3>1. ASSUME NEW t \in Screens, Clean(t)' PROVE BuffersHeld(t)'
      <4>1. BuffersHeld(t)
        BY <3>1, CleanStays DEF HeldInv
      <4>2. CASE t = s
        <5>1. locked'[s] = locked[s] \ {cur[s]} /\ cur'[s] = next[s] /\ next'[s] = NoBO
          BY <2>3 DEF TypeOK
        <5> QED BY <4>1, <4>2, <5>1 DEF BuffersHeld
      <4>3. CASE t # s
        BY <2>3, <4>1, <4>3 DEF BuffersHeld, TypeOK
      <4> QED BY <4>2, <4>3
    <3>2. ASSUME NEW t \in Screens PROVE front'[t] \notin locked'[t]
      <4>1. locked'[t] \subseteq locked[t]
        BY <2>3 DEF TypeOK
      <4> QED BY <2>1, <4>1 DEF HeldInv
    <3> QED BY <3>1, <3>2 DEF HeldInv
  <2> QED BY <1>2, <2>2, <2>3 DEF FlipFinished, Replaced
<1>3. ASSUME NEW s \in Screens, Swap(s)
      PROVE  HeldInv'
  <2> DEFINE free == BOs \ (locked[s] \cup {front[s]})
             back == CHOOSE b \in free : TRUE
  <2>1. free # {} => back \notin locked[s]
    OBVIOUS
  <2>2. front' = front \/ (free # {} /\ front' = [front EXCEPT ![s] = back])
    BY <1>3 DEF Swap
  <2> HIDE DEF back, free
  <2>3. UNCHANGED <<cur, next, locked>>
    BY <1>3 DEF Swap
  <2>4. \A t \in Screens : front'[t] \notin locked'[t]
    BY <2>1, <2>2, <2>3 DEF HeldInv, TypeOK
  <2> QED BY <2>3, <2>4, CleanStays DEF HeldInv, BuffersHeld
<1>4. ASSUME NEW s \in Screens, Present(s)
      PROVE  HeldInv'
  <2> DEFINE flips == active /\ gui[s] = "none"
  <2>1. /\ next' = [next EXCEPT ![s] = IF flips THEN front[s] ELSE @]
        /\ front' = [front EXCEPT ![s] = IF Locks(s) THEN NoBO ELSE @]
        /\ locked' = [locked EXCEPT ![s] = IF Locks(s) THEN @ \cup {front[s]} ELSE @]
        /\ overrun' = [overrun EXCEPT ![s] = @ \/ (flips /\ next[s] # NoBO)]
        /\ UNCHANGED cur
    BY <1>4 DEF Present
  <2>2. Locks(s) <=> flips /\ front[s] # NoBO
    BY DEF Locks
  <2> HIDE DEF flips
  <2>3. ASSUME NEW t \in Screens PROVE front'[t] \notin locked'[t]
    <3>1. CASE t = s /\ Locks(s)
      <4>1. front'[s] = NoBO /\ locked'[s] = locked[s] \cup {front[s]} /\ front[s] # NoBO
        BY <2>1, <2>2, <3>1 DEF TypeOK
      <4> QED BY <3>1, <4>1 DEF TypeOK
    <3>2. CASE ~(t = s /\ Locks(s))
      <4>1. front'[t] = front[t] /\ locked'[t] = locked[t]
        BY <2>1, <3>2 DEF TypeOK
      <4> QED BY <4>1 DEF HeldInv
    <3> QED BY <3>1, <3>2
  <2>4. ASSUME NEW t \in Screens, Clean(t)' PROVE BuffersHeld(t)'
    <3>1. BuffersHeld(t) /\ front[t] \notin locked[t]
      BY <2>4, CleanStays DEF HeldInv
    <3>2. CASE t # s
      BY <2>1, <3>1, <3>2 DEF BuffersHeld, TypeOK
    <3>3. CASE t = s
      <4>1. flips => next[s] = NoBO
        BY <2>1, <2>4, <3>3 DEF Clean, TypeOK
      <4>2. /\ next'[s] = IF flips THEN front[s] ELSE next[s]
            /\ locked'[s] = IF Locks(s) THEN locked[s] \cup {front[s]} ELSE locked[s]
            /\ cur'[s] = cur[s]
        BY <2>1 DEF TypeOK
      <4>3. CASE Locks(s)
        BY <2>2, <3>1, <3>3, <4>1, <4>2, <4>3 DEF BuffersHeld
      <4>4. CASE ~Locks(s)
        BY <2>2, <3>1, <3>3, <4>1, <4>2, <4>4 DEF BuffersHeld
      <4> QED BY <4>3, <4>4
    <3> QED BY <3>2, <3>3
  <2> QED BY <2>3, <2>4 DEF HeldInv
<1>5. ASSUME NEW s \in Screens, PageFlip(s)
      PROVE  HeldInv'
  <2>1. /\ next[s] # NoBO
        /\ locked' = [locked EXCEPT ![s] = IF Accepts(s) THEN @ ELSE @ \ {next[s]}]
        /\ next' = [next EXCEPT ![s] = IF Accepts(s) THEN @ ELSE NoBO]
        /\ UNCHANGED <<cur, front>>
    BY <1>5 DEF PageFlip, Kept
  <2>2. ASSUME NEW t \in Screens PROVE front'[t] \notin locked'[t]
    <3>1. locked'[t] \subseteq locked[t]
      BY <2>1 DEF TypeOK
    <3> QED BY <2>1, <3>1 DEF HeldInv
  <2>3. ASSUME NEW t \in Screens, Clean(t)' PROVE BuffersHeld(t)'
    <3>1. BuffersHeld(t)
      BY <2>3, CleanStays DEF HeldInv
    <3>2. CASE t # s \/ Accepts(s)
      <4>1. next'[t] = next[t] /\ locked'[t] = locked[t] /\ cur'[t] = cur[t]
        BY <2>1, <3>2 DEF TypeOK
      <4> QED BY <3>1, <4>1 DEF BuffersHeld
    <3>3. CASE t = s /\ ~Accepts(s)
      <4>1. next'[s] = NoBO /\ locked'[s] = locked[s] \ {next[s]} /\ cur'[s] = cur[s]
        BY <2>1, <3>3 DEF TypeOK
      <4> QED BY <2>1, <3>1, <3>3, <4>1 DEF BuffersHeld
    <3> QED BY <3>2, <3>3
  <2> QED BY <2>2, <2>3 DEF HeldInv
<1>6. ASSUME NEW s \in Screens, SetSurface(s)
      PROVE  HeldInv'
  <2>1. /\ cur' = [cur EXCEPT ![s] = NoBO] /\ next' = [next EXCEPT ![s] = NoBO]
        /\ locked' = [locked EXCEPT ![s] = {}] /\ front' = [front EXCEPT ![s] = NoBO]
    BY <1>6 DEF SetSurface
  <2>2. ASSUME NEW t \in Screens PROVE front'[t] \notin locked'[t] /\ (Clean(t)' => BuffersHeld(t)')
    <3>1. CASE t = s
      BY <2>1, <3>1 DEF BuffersHeld, TypeOK
    <3>2. CASE t # s
      BY <2>1, <3>2, CleanStays DEF HeldInv, BuffersHeld, TypeOK
    <3> QED BY <3>1, <3>2
  <2> QED BY <2>2 DEF HeldInv
<1>7. UNCHANGED <<cur, next, front, locked>> \/
        \E s \in Screens : FlipFinished(s) \/ Swap(s) \/ Present(s) \/ PageFlip(s) \/ SetSurface(s)
  BY DEF Next, vars, renderVars, gbmVars, RegisterWait, HandleFlipEvent, SwitchSession, WaitForFlip, Sleep,
         CrashInFlip, FlipCompletes, RequestModeChange, EndModeChange
<1> QED BY <1>1, <1>2, <1>3, <1>4, <1>5, <1>6, <1>7

(* A locked buffer is the current or the next one of its screen, whatever   *)
(* flips were refused or surfaces replaced, if each flip was waited for:    *)
(* no buffer is lost to gbm.                                                *)
THEOREM NothingIsLost == Spec => []NoBufferLost
<1>1. Init => TypeOK /\ HeldInv
  BY InitType, NoneAssumption DEF Init, HeldInv, BuffersHeld, Clean
<1>2. TypeOK /\ HeldInv /\ [Next]_vars => (TypeOK /\ HeldInv)'
  BY NextType, NextHeld
<1>3. HeldInv => NoBufferLost
  BY DEF HeldInv, BuffersHeld, Clean, NoBufferLost
<1> QED BY <1>1, <1>2, <1>3, PTL DEF Spec
-----------------------------------------------------------------------------
(* What is shown. *)

Once(q, v) == \A i, j \in 1 .. Len(q) : q[i] = v /\ q[j] = v => i = j

LEMMA OnceAppend ==
  ASSUME NEW S, NEW q \in Seq(S), NEW v \in S, NEW c \in S, Once(q, v), c = v => v \notin SeqRange(q)
  PROVE  Once(Append(q, c), v)
<1>1. /\ Len(q) \in Nat /\ Len(Append(q, c)) = Len(q) + 1
      /\ \A k \in 1 .. Len(q) : Append(q, c)[k] = q[k]
      /\ Append(q, c)[Len(q) + 1] = c
  BY AppendProperties, LenProperties
<1> DEFINE w == Append(q, c)
<1> HIDE DEF w
<1>2. /\ Len(w) = Len(q) + 1 /\ w[Len(q) + 1] = c
      /\ \A k \in 1 .. Len(q) : w[k] = q[k]
  BY <1>1 DEF w
<1>3. Once(w, v)
  BY <1>1, <1>2 DEF Once, SeqRange
<1> QED BY <1>3 DEF w

LEMMA OnceTail ==
  ASSUME NEW S, NEW q \in Seq(S), q # <<>>, NEW v, Once(q, v)
  PROVE  Once(Tail(q), v) /\ (Head(q) = v => v \notin SeqRange(Tail(q)))
<1>1. /\ Len(q) \in Nat /\ Len(q) >= 1 /\ Head(q) = q[1] /\ Len(Tail(q)) = Len(q) - 1
      /\ \A i \in 1 .. Len(q) - 1 : Tail(q)[i] = q[i + 1]
  BY HeadTailProperties, EmptySeq, LenProperties
<1>2. Once(Tail(q), v)
  BY <1>1 DEF Once
<1>3. Head(q) = v => v \notin SeqRange(Tail(q))
  BY <1>1 DEF Once, SeqRange
<1> QED BY <1>2, <1>3

(* The flip in flight is of the next buffer, and the current or the next   *)
(* one is shown, unless their surface was replaced.                        *)
ShownHeld(s) == inflight[s] \in {NoBO, Gone, next[s]} /\ scanout[s] \in {NoBO, cur[s], next[s]}

(* At most one completion is on its way to the thread of s ...             *)
OneCompletion(s) ==
  /\ Once(events, s)
  /\ inflight[s] # NoBO => s \notin SeqRange(events) /\ s \notin completed
  /\ s \in SeqRange(events) => s \notin completed

(* ... which then waits for it, or will before the next flip ...           *)
OnlyReliedOn(s) == Outstanding(s) => Relies(s)

(* ... and once the flip is complete the current buffer is not shown, so   *)
(* it can be given back, nor is the next one before it is flipped to.      *)
Replacing(s) ==
  /\ pc[s] = "woken" \/ s \in SeqRange(events) \/ s \in completed => scanout[s] \in {NoBO, next[s]}
  /\ pc[s] = "flip" => scanout[s] \in {NoBO, cur[s]}

OwnInv(s) ==
  /\ ShownHeld(s)
  /\ pc[s] # "crashed" => OneCompletion(s) /\ OnlyReliedOn(s) /\ Replacing(s)
ShownInv == \A s \in Screens : Clean(s) /\ Renders(s) => OwnInv(s)

(* updateStatus wakes the thread whose completion it takes.                *)
LEMMA UpdateWakes ==
  ASSUME TypeOK, NEW w \in SUBSET Screens, NEW d \in SUBSET Screens, UpdateStatus(w, d),
         \A s \in w : pc[s] \in {"locked", "waiting", "crashed"}, NEW s \in Screens
  PROVE  \/ pc'[s] = pc[s] /\ (s \in d <=> s \in completed')
         \/ s \in d /\ s \notin completed' /\ pc[s] = "waiting" /\ pc'[s] = "woken"
         \/ pc'[s] = "crashed"
<1>1. CASE w \cap d = {}
  BY <1>1 DEF UpdateStatus
<1>2. CASE w \cap d # {}
  <2>1. PICK k \in w \cap d :
          /\ pc[k] # "locked"
          /\ waits' = w \ {k} /\ completed' = d \ {k}
          /\ pc' = [pc EXCEPT ![k] = IF @ = "waiting" THEN "woken" ELSE @]
    BY <1>2 DEF UpdateStatus
  <2>2. pc[k] = "waiting" \/ pc[k] = "crashed"
    BY <2>1
  <2>3. CASE s = k
    BY <2>1, <2>2, <2>3 DEF TypeOK
  <2>4. CASE s # k
    BY <2>1, <2>4 DEF TypeOK
  <2> QED BY <2>3, <2>4
<1> QED BY <1>1, <1>2

(* A step that leaves the buffers and the completions of s alone, and lets *)
(* its thread at most go on to wait or to swap.                            *)
LEMMA OwnKept ==
  ASSUME NEW s \in Screens, OwnInv(s),
         cur'[s] = cur[s], next'[s] = next[s], inflight'[s] = inflight[s], scanout'[s] = scanout[s],
         s \in SeqRange(events)' <=> s \in SeqRange(events), Once(events, s) => Once(events, s)',
         s \in completed' <=> s \in completed,
         \/ pc'[s] \in {pc[s], "crashed"}
         \/ pc[s] = "draw" /\ pc'[s] \in {"locked", "swap"}
         \/ pc[s] = "locked" /\ pc'[s] = "waiting"
         \/ pc[s] = "swap" /\ pc'[s] = "present"
  PROVE  OwnInv(s)'
<1>1. ShownHeld(s)'
  BY DEF OwnInv, ShownHeld
<1>2. CASE pc'[s] # "crashed"
  <2>1. pc[s] # "crashed"
    BY <1>2
  <2>2. OneCompletion(s) /\ OnlyReliedOn(s) /\ Replacing(s)
    BY <2>1 DEF OwnInv
  <2>3. OneCompletion(s)'
    BY <2>2 DEF OneCompletion
  <2>4. Relies(s) => Relies(s)'
    BY <1>2 DEF Relies
  <2>7. Outstanding(s)' => Outstanding(s)
    BY DEF Outstanding
  <2>5. OnlyReliedOn(s)'
    BY <2>2, <2>4, <2>7 DEF OnlyReliedOn
  <2>6. Replacing(s)'
    BY <2>2 DEF Replacing
  <2> QED BY <1>1, <2>3, <2>5, <2>6 DEF OwnInv
<1> QED BY <1>1, <1>2 DEF OwnInv

LEMMA NextShown ==
  ASSUME TypeOK, TypeOK', RegisteredOnce, ShownInv, [Next]_vars
  PROVE  ShownInv'
<1> USE NoneAssumption
<1> SUFFICES ASSUME NEW s \in Screens, Clean(s)', Renders(s)'
             PROVE  OwnInv(s)'
  BY DEF ShownInv
<1>0. Clean(s) /\ Renders(s) /\ OwnInv(s)
  BY CleanStays DEF ShownInv
<1>1. CASE RegisterWait
  <2>1. UNCHANGED <<cur, next, inflight, scanout, events>>
    BY <1>1 DEF RegisterWait, kernelVars
  <2>2. \/ pc'[s] = pc[s] /\ (s \in completed <=> s \in completed')
        \/ s \in completed /\ s \notin completed' /\ pc[s] = "waiting" /\ pc'[s] = "woken"
        \/ pc'[s] = "crashed"
    <3>1. Head(posted) \in Screens /\ Head(posted) \in SeqRange(posted)
      BY <1>1, TailFacts DEF RegisterWait, TypeOK
    <3>2. /\ UpdateStatus(waits \cup {Head(posted)}, completed)
          /\ waits \cup {Head(posted)} \in SUBSET Screens /\ completed \in SUBSET Screens
          /\ \A t \in waits \cup {Head(posted)} : pc[t] \in {"locked", "waiting", "crashed"}
      BY <1>1, <3>1 DEF RegisterWait, TypeOK, RegisteredOnce
    <3> QED BY <3>2, UpdateWakes
  <2>3. CASE pc'[s] = pc[s] /\ (s \in completed <=> s \in completed')
    BY <1>0, <2>1, <2>3, OwnKept DEF SeqRange, Once
  <2>4. CASE s \in completed /\ s \notin completed' /\ pc[s] = "waiting" /\ pc'[s] = "woken"
    BY <1>0, <2>1, <2>4 DEF OwnInv, ShownHeld, OneCompletion, OnlyReliedOn, Replacing, Outstanding, SeqRange, Once
  <2>5. CASE pc'[s] = "crashed"
    BY <1>0, <2>1, <2>5 DEF OwnInv, ShownHeld
  <2> QED BY <2>2, <2>3, <2>4, <2>5
<1>2. CASE HandleFlipEvent
  <2>1. UNCHANGED <<cur, next, inflight, scanout>> /\ events \in Seq(Screens) /\ events # <<>> /\ events' = Tail(events)
    BY <1>2 DEF HandleFlipEvent, TypeOK
  <2>2. Head(events) \in Screens /\ SeqRange(events) = SeqRange(events') \cup {Head(events)}
    BY <2>1, TailFacts
  <2>3. Once(events, s) => Once(events', s) /\ (Head(events) = s => s \notin SeqRange(events'))
    BY <2>1, OnceTail
  <2>4. \/ pc'[s] = pc[s] /\ (s \in completed \cup {Head(events)} <=> s \in completed')
        \/ /\ s \in completed \cup {Head(events)} /\ s \notin completed'
           /\ pc[s] = "waiting" /\ pc'[s] = "woken"
        \/ pc'[s] = "crashed"
    <3>1. /\ UpdateStatus(waits, completed \cup {Head(events)})
          /\ waits \in SUBSET Screens /\ completed \cup {Head(events)} \in SUBSET Screens
          /\ \A t \in waits : pc[t] \in {"locked", "waiting", "crashed"}
      BY <1>2, <2>2 DEF HandleFlipEvent, TypeOK, RegisteredOnce
    <3> QED BY <3>1, UpdateWakes
  <2>5. SeqRange(events)' = SeqRange(events') /\ Once(events, s)' = Once(events', s)
    BY DEF SeqRange, Once
  <2>6. ShownHeld(s)'
    BY <1>0, <2>1 DEF OwnInv, ShownHeld
  <2>7. CASE pc[s] # "crashed" /\ pc'[s] # "crashed"
    <3>1. OneCompletion(s) /\ OnlyReliedOn(s) /\ Replacing(s)
      BY <1>0, <2>7 DEF OwnInv
    <3>2. OneCompletion(s)'
      BY <2>1, <2>2, <2>3, <2>4, <2>5, <2>7, <3>1 DEF OneCompletion
    <3>3. OnlyReliedOn(s)'
      <4>1. CASE pc'[s] = pc[s]
        <5>1. s \in completed \cup {Head(events)} <=> s \in completed'
          BY <2>4, <2>7, <4>1
        <5>2. Outstanding(s)' => Outstanding(s)
          BY <2>1, <2>2, <2>5, <5>1 DEF Outstanding
        <5>3. Relies(s) => Relies(s)'
          BY <2>1, <4>1 DEF Relies
        <5> QED BY <3>1, <5>2, <5>3 DEF OnlyReliedOn
      <4>2. CASE pc'[s] # pc[s]
        <5>1. s \notin SeqRange(events') /\ s \notin completed' /\ inflight'[s] = NoBO
          BY <2>1, <2>2, <2>3, <2>4, <2>7, <3>1, <4>2 DEF OneCompletion
        <5> QED BY <2>5, <5>1 DEF OnlyReliedOn, Outstanding
      <4> QED BY <4>1, <4>2
    <3>4. Replacing(s)'
      BY <2>1, <2>2, <2>4, <2>5, <2>7, <3>1 DEF Replacing
    <3> QED BY <2>6, <3>2, <3>3, <3>4 DEF OwnInv
  <2>8. CASE pc[s] = "crashed" \/ pc'[s] = "crashed"
    <3>1. pc'[s] = "crashed"
      BY <2>4, <2>8
    <3> QED BY <2>6, <3>1 DEF OwnInv
  <2> QED BY <2>7, <2>8
<1>3. CASE /\ UNCHANGED <<cur, next, inflight, scanout, events, completed>>
           /\ \/ pc'[s] \in {pc[s], "crashed"}
              \/ pc[s] = "draw" /\ pc'[s] \in {"locked", "swap"}
              \/ pc[s] = "locked" /\ pc'[s] = "waiting"
              \/ pc[s] = "swap" /\ pc'[s] = "present"
  BY <1>0, <1>3, OwnKept DEF SeqRange, Once
<1>4. ASSUME NEW t \in Screens, WaitForFlip(t) \/ Sleep(t) \/ Swap(t) \/ CrashInFlip(t)
      PROVE  OwnInv(s)'
  <2>1. UNCHANGED <<cur, next, inflight, scanout, events, completed>>
    BY <1>4 DEF WaitForFlip, Sleep, Swap, CrashInFlip, kernelVars, readerVars
  <2>2. CASE CrashInFlip(t)
    BY <1>3, <2>1, <2>2 DEF CrashInFlip
  <2>3. CASE WaitForFlip(t) \/ Sleep(t) \/ Swap(t)
    <3>1. \/ pc[t] = "draw" /\ pc' = [pc EXCEPT ![t] = "locked"]
          \/ pc[t] = "draw" /\ pc' = [pc EXCEPT ![t] = "swap"]
          \/ pc[t] = "locked" /\ pc' = [pc EXCEPT ![t] = "waiting"]
          \/ pc[t] = "swap" /\ pc' = [pc EXCEPT ![t] = "present"]
      BY <2>3 DEF WaitForFlip, Sleep, Swap
    <3>2. \/ pc'[s] = pc[s]
          \/ pc[s] = "draw" /\ pc'[s] \in {"locked", "swap"}
          \/ pc[s] = "locked" /\ pc'[s] = "waiting"
          \/ pc[s] = "swap" /\ pc'[s] = "present"
      BY <3>1 DEF TypeOK
    <3> QED BY <1>3, <2>1, <3>2
  <2> QED BY <1>4, <2>2, <2>3
<1>5. CASE UNCHANGED <<pc, cur, next, inflight, scanout, events, completed>>
  BY <1>3, <1>5
<1>6. ASSUME NEW t \in Screens, FlipFinished(t)
      PROVE  OwnInv(s)'
  <2>1. /\ pc[t] = "woken" /\ pc' = [pc EXCEPT ![t] = "swap"]
        /\ UNCHANGED <<inflight, scanout, events, completed>>
    BY <1>6 DEF FlipFinished, kernelVars, readerVars
  <2>2. CASE t # s
    <3>1. pc'[s] = pc[s] /\ cur'[s] = cur[s] /\ next'[s] = next[s]
      BY <1>6, <2>1, <2>2 DEF FlipFinished, TypeOK
    <3> QED BY <1>0, <2>1, <3>1, OwnKept DEF SeqRange, Once
  <2>3. CASE t = s
    <3>1. cur'[s] = next[s] /\ next'[s] = NoBO /\ pc'[s] = "swap"
      BY <1>0, <1>6, <2>1, <2>3 DEF FlipFinished, Clean, TypeOK
    <3>2. /\ OneCompletion(s) /\ ~Outstanding(s) /\ scanout[s] \in {NoBO, next[s]}
      BY <1>0, <2>1, <2>3 DEF OwnInv, OnlyReliedOn, Relies, Replacing
    <3> QED BY <2>1, <3>1, <3>2 DEF OwnInv, ShownHeld, OneCompletion, OnlyReliedOn, Outstanding, Replacing, SeqRange, Once
  <2> QED BY <2>2, <2>3
<1>7. ASSUME NEW t \in Screens, Present(t)
      PROVE  OwnInv(s)'
  <2> DEFINE flips == active /\ gui[t] = "none"
  <2>1. /\ pc[t] = "present" /\ pc' = [pc EXCEPT ![t] = IF Locks(t) THEN "flip" ELSE "draw"]
        /\ next' = [next EXCEPT ![t] = IF flips THEN front[t] ELSE @]
        /\ overrun' = [overrun EXCEPT ![t] = @ \/ (flips /\ next[t] # NoBO)]
        /\ UNCHANGED <<cur, inflight, scanout, events, completed>>
    BY <1>7 DEF Present, kernelVars, readerVars
  <2>2. Locks(t) <=> flips /\ front[t] # NoBO
    BY DEF Locks
  <2> HIDE DEF flips
  <2>3. CASE t # s
    <3>1. pc'[s] = pc[s] /\ cur'[s] = cur[s] /\ next'[s] = next[s]
      BY <2>1, <2>3 DEF TypeOK
    <3> QED BY <1>0, <2>1, <3>1, OwnKept DEF SeqRange, Once
  <2>4. CASE t = s
    <3>1. /\ pc'[s] = IF Locks(s) THEN "flip" ELSE "draw"
          /\ next'[s] = IF flips THEN front[s] ELSE next[s]
      BY <2>1, <2>4 DEF TypeOK
    <3>2. flips => next[s] = NoBO
      BY <2>1, <2>4 DEF Clean, TypeOK
    <3>3. OwnInv(s) /\ OneCompletion(s) /\ OnlyReliedOn(s) /\ Replacing(s) /\ ShownHeld(s)
      BY <1>0, <2>1, <2>4 DEF OwnInv
    <3>4. Outstanding(s)' = Outstanding(s) /\ OneCompletion(s)'
      BY <2>1, <3>3 DEF Outstanding, OneCompletion, SeqRange, Once
    <3>5. CASE flips
      <4>1. ~Outstanding(s)
        BY <2>1, <2>4, <3>2, <3>3, <3>5 DEF OnlyReliedOn, Relies
      <4>2. inflight[s] = NoBO /\ s \notin SeqRange(events) /\ s \notin completed
        BY <4>1 DEF Outstanding
      <4>3. ShownHeld(s)' /\ Replacing(s)'
        BY <2>1, <3>1, <3>2, <3>3, <3>5, <4>2 DEF ShownHeld, Replacing, SeqRange
      <4> QED BY <3>4, <4>1, <4>3 DEF OwnInv, OnlyReliedOn
    <3>6. CASE ~flips
      <4>1. pc'[s] = "draw" /\ next'[s] = next[s]
        BY <2>2, <2>4, <3>1, <3>6
      <4>2. ShownHeld(s)' /\ Replacing(s)'
        BY <2>1, <3>3, <4>1 DEF ShownHeld, Replacing, SeqRange
      <4>3. OnlyReliedOn(s)'
        BY <2>1, <2>4, <3>3, <3>4, <4>1 DEF OnlyReliedOn, Relies
      <4> QED BY <3>4, <4>2, <4>3 DEF OwnInv
    <3> QED BY <3>5, <3>6
  <2> QED BY <2>3, <2>4
<1>8. ASSUME NEW t \in Screens, PageFlip(t)
      PROVE  OwnInv(s)'
  <2> DEFINE crtcs == IF Accepts(t) THEN {t} \cup Clones(t) ELSE {t}
             flipped == {c \in crtcs : Accepts(c)}
  <2>1. /\ pc[t] = "flip" /\ pc' = [pc EXCEPT ![t] = "draw"]
        /\ next[t] # NoBO
        /\ scanout' = [c \in Screens |-> IF c \in crtcs /\ ~modeSet[c] /\ active THEN next[t] ELSE scanout[c]]
        /\ inflight' = [c \in Screens |-> IF c \in flipped THEN next[t] ELSE inflight[c]]
        /\ next' = [next EXCEPT ![t] = IF t \in flipped THEN @ ELSE NoBO]
        /\ UNCHANGED <<cur, events, completed>>
    BY <1>8 DEF PageFlip, readerVars
  <2>2. /\ t # s => s \notin crtcs /\ s \notin flipped
        /\ t \in crtcs /\ (t \in flipped <=> Accepts(t))
    BY <1>0 DEF Clones, Renders
  <2> HIDE DEF crtcs, flipped
  <2>3. CASE t # s
    <3>1. pc'[s] = pc[s] /\ cur'[s] = cur[s] /\ next'[s] = next[s] /\ inflight'[s] = inflight[s] /\ scanout'[s] = scanout[s]
      BY <2>1, <2>2, <2>3 DEF TypeOK
    <3> QED BY <1>0, <2>1, <3>1, OwnKept DEF SeqRange, Once
  <2>4. CASE t = s
    <3>1. /\ pc'[s] = "draw" /\ cur'[s] = cur[s]
          /\ next'[s] = IF Accepts(s) THEN next[s] ELSE NoBO
          /\ inflight'[s] = IF Accepts(s) THEN next[s] ELSE inflight[s]
          /\ scanout'[s] = scanout[s] \/ (scanout'[s] = next[s] /\ active)
      BY <2>1, <2>2, <2>4 DEF TypeOK
    <3>2. /\ OneCompletion(s) /\ ~Outstanding(s) /\ scanout[s] \in {NoBO, cur[s]}
      BY <1>0, <2>1, <2>4 DEF OwnInv, OnlyReliedOn, Relies, Replacing
    <3>3. inflight[s] = NoBO /\ s \notin SeqRange(events) /\ s \notin completed
      BY <3>2 DEF Outstanding
    <3>4. Accepts(s) <=> active
      BY <3>3 DEF Accepts
    <3>5. ShownHeld(s)'
      BY <3>1, <3>2, <3>3, <3>4 DEF ShownHeld
    <3>6. OneCompletion(s)' /\ Replacing(s)'
      BY <2>1, <3>1, <3>2, <3>3 DEF OneCompletion, Replacing, SeqRange, Once
    <3>7. OnlyReliedOn(s)'
      BY <2>1, <2>4, <3>1, <3>3 DEF OnlyReliedOn, Outstanding, Relies, SeqRange
    <3> QED BY <3>5, <3>6, <3>7 DEF OwnInv
  <2> QED BY <2>3, <2>4
<1>9. ASSUME NEW c \in Screens, FlipCompletes(c)
      PROVE  OwnInv(s)'
  <2>1. /\ UNCHANGED <<pc, cur, next, completed>> /\ inflight[c] # NoBO
        /\ scanout' = [scanout EXCEPT ![c] = IF inflight[c] = Gone THEN NoBO ELSE inflight[c]]
        /\ inflight' = [inflight EXCEPT ![c] = NoBO] /\ events' = Append(events, c)
    BY <1>9 DEF FlipCompletes, renderVars, readerVars
  <2>2. SeqRange(events)' = SeqRange(events) \cup {c}
    <3>1. SeqRange(Append(events, c)) = SeqRange(events) \cup {c}
      BY AppendRange DEF TypeOK
    <3> QED BY <2>1, <3>1 DEF SeqRange
  <2>3. Once(events, s) /\ (c = s => s \notin SeqRange(events)) => Once(events, s)'
    <3>1. Once(events, s) /\ (c = s => s \notin SeqRange(events)) => Once(Append(events, c), s)
      BY OnceAppend DEF TypeOK
    <3> QED BY <2>1, <3>1 DEF Once
  <2>4. CASE c # s
    <3>1. inflight'[s] = inflight[s] /\ scanout'[s] = scanout[s]
      BY <2>1, <2>4 DEF TypeOK
    <3> QED BY <1>0, <2>1, <2>2, <2>3, <2>4, <3>1, OwnKept
  <2>5. CASE c = s
    <3>1. /\ inflight'[s] = NoBO
          /\ scanout'[s] = IF inflight[s] = Gone THEN NoBO ELSE inflight[s]
      BY <2>1, <2>5 DEF TypeOK
    <3>2. ShownHeld(s) /\ inflight[s] # NoBO /\ scanout'[s] \in {NoBO, next[s]}
      BY <1>0, <2>1, <2>5, <3>1 DEF OwnInv, ShownHeld
    <3>3. ShownHeld(s)'
      BY <2>1, <3>1, <3>2 DEF ShownHeld
    <3>4. CASE pc[s] = "crashed"
      BY <2>1, <3>3, <3>4 DEF OwnInv
    <3>5. CASE pc[s] # "crashed"
      <4>1. OneCompletion(s) /\ OnlyReliedOn(s) /\ Replacing(s)
        BY <1>0, <3>5 DEF OwnInv
      <4>2. s \notin SeqRange(events) /\ s \notin completed /\ Once(events, s)
        BY <3>2, <4>1 DEF OneCompletion
      <4>3. Relies(s) /\ Relies(s)'
        BY <2>1, <3>2, <4>1 DEF OnlyReliedOn, Outstanding, Relies
      <4>4. OneCompletion(s)'
        BY <2>1, <2>3, <3>1, <4>2 DEF OneCompletion
      <4>5. Replacing(s)'
        BY <2>1, <3>2, <4>3 DEF Replacing, Relies
      <4> QED BY <3>3, <4>3, <4>4, <4>5 DEF OwnInv, OnlyReliedOn
    <3> QED BY <3>4, <3>5
  <2> QED BY <2>4, <2>5
<1>10. ASSUME NEW t \in Screens, SetSurface(t)
       PROVE  OwnInv(s)'
  <2> DEFINE crtcs == {t} \cup Clones(t)
  <2>1. /\ UNCHANGED <<pc, events, completed>>
        /\ cur' = [cur EXCEPT ![t] = NoBO] /\ next' = [next EXCEPT ![t] = NoBO]
        /\ scanout' = [c \in Screens |-> IF c \in crtcs THEN NoBO ELSE scanout[c]]
        /\ inflight' = [c \in Screens |-> IF c \in crtcs /\ inflight[c] # NoBO THEN Gone ELSE inflight[c]]
        /\ overrun' = [overrun EXCEPT ![t] = @ \/ (next[t] # NoBO /\ pc[t] \in {"draw", "swap", "present"})]
    BY <1>10 DEF SetSurface, readerVars
  <2>2. t \in crtcs /\ (t # s => s \notin crtcs)
    BY <1>0 DEF Clones, Renders
  <2> HIDE DEF crtcs
  <2>3. CASE t # s
    <3>1. cur'[s] = cur[s] /\ next'[s] = next[s] /\ inflight'[s] = inflight[s] /\ scanout'[s] = scanout[s]
      BY <2>1, <2>2, <2>3 DEF TypeOK
    <3> QED BY <1>0, <2>1, <3>1, OwnKept DEF SeqRange, Once
  <2>4. CASE t = s
    <3>1. /\ next'[s] = NoBO /\ scanout'[s] = NoBO
          /\ inflight'[s] = IF inflight[s] # NoBO THEN Gone ELSE NoBO
      BY <2>1, <2>2, <2>4 DEF TypeOK
    <3>2. ~(next[s] # NoBO /\ pc[s] \in {"draw", "swap", "present"})
      BY <2>1, <2>4 DEF Clean, TypeOK
    <3>3. ShownHeld(s)' /\ Replacing(s)'
      BY <3>1 DEF ShownHeld, Replacing
    <3>4. CASE pc[s] = "crashed"
      BY <2>1, <3>3, <3>4 DEF OwnInv
    <3>5. CASE pc[s] # "crashed"
      <4>1. OneCompletion(s) /\ OnlyReliedOn(s)
        BY <1>0, <3>5 DEF OwnInv
      <4>2. OneCompletion(s)'
        BY <2>1, <3>1, <4>1 DEF OneCompletion, SeqRange, Once
      <4>3. OnlyReliedOn(s)'
        BY <2>1, <3>1, <3>2, <4>1 DEF OnlyReliedOn, Outstanding, Relies, SeqRange
      <4> QED BY <3>3, <4>2, <4>3 DEF OwnInv
    <3> QED BY <3>4, <3>5
  <2> QED BY <2>3, <2>4
<1>11. \/ RegisterWait \/ HandleFlipEvent
       \/ UNCHANGED <<pc, cur, next, inflight, scanout, events, completed>>
       \/ \E t \in Screens : \/ WaitForFlip(t) \/ Sleep(t) \/ Swap(t) \/ CrashInFlip(t)
                             \/ FlipFinished(t) \/ Present(t) \/ PageFlip(t) \/ FlipCompletes(t) \/ SetSurface(t)
  BY DEF Next, vars, renderVars, readerVars, kernelVars, SwitchSession, RequestModeChange, EndModeChange
<1> QED BY <1>1, <1>2, <1>4, <1>5, <1>6, <1>7, <1>8, <1>9, <1>10, <1>11

LEMMA InitShown == Init => ShownInv
<1> SUFFICES ASSUME Init, NEW s \in Screens PROVE OwnInv(s)
  BY DEF ShownInv
<1>1. SeqRange(events) = {} /\ Once(events, s)
  BY DEF Init, SeqRange, Once
<1> QED BY <1>1 DEF Init, OwnInv, ShownHeld, OneCompletion, OnlyReliedOn, Outstanding, Replacing

(* What a CRTC shows or will show next is locked, so nothing draws into it, *)
(* if the flips were waited for: whatever the session, the mode changes and *)
(* the order in which completions and waits reach the event host.           *)
THEOREM ShownStaysLocked == Spec => []ShownIsLocked
<1>1. Init => TypeOK /\ WaitInv /\ HeldInv /\ ShownInv
  BY InitType, InitWait, InitShown, NoneAssumption DEF Init, HeldInv, BuffersHeld, Clean
<1>2. TypeOK /\ WaitInv /\ HeldInv /\ ShownInv /\ [Next]_vars => (TypeOK /\ WaitInv /\ HeldInv /\ ShownInv)'
  BY NextType, NextWait, NextHeld, NextShown DEF WaitInv
<1>3. HeldInv /\ ShownInv => ShownIsLocked
  <2> SUFFICES ASSUME HeldInv, ShownInv, NEW s \in Screens, Clean(s), Renders(s)
               PROVE  {scanout[s], inflight[s]} \subseteq locked[s] \cup {NoBO, Gone}
    BY DEF ShownIsLocked, Clean
  <2> QED BY DEF HeldInv, BuffersHeld, ShownInv, OwnInv, ShownHeld
<1> QED BY <1>1, <1>2, <1>3, PTL DEF Spec
=============================================================================
