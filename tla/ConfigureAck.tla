---------------------------- MODULE ConfigureAck ----------------------------
(***************************************************************************)
(* What every shell surface promises its client: each configure event      *)
(* carries a serial larger than all before it, the client takes up one of  *)
(* the events it was sent by acknowledging its serial, and with it gives   *)
(* up the older ones.  What is in force never goes back to an older event. *)
(***************************************************************************)
EXTENDS Naturals

CONSTANTS
  Object      \* the shell surfaces

VARIABLES
  last,         \* the serial the display handed out last
  outstanding,  \* the serials each surface was sent and may still acknowledge
  inForce       \* the serial each surface acknowledged last

Init ==
  /\ last = 0
  /\ outstanding = [o \in Object |-> {}]
  /\ inForce = [o \in Object |-> 0]

(* Some surfaces are sent an event each, each with a new serial.           *)
Configure ==
  /\ last' >= last
  /\ \A o \in Object : /\ outstanding[o] \subseteq outstanding'[o]
                       /\ outstanding'[o] \ outstanding[o] \subseteq last + 1 .. last'
  /\ \A o, p \in Object :
       o # p => (outstanding'[o] \ outstanding[o]) \cap (outstanding'[p] \ outstanding[p]) = {}
  /\ UNCHANGED inForce

Acknowledge(o, n) ==
  /\ n \in outstanding[o]
  /\ inForce' = [inForce EXCEPT ![o] = n]
  /\ outstanding' = [outstanding EXCEPT ![o] = {m \in @ : m > n}]
  /\ UNCHANGED last

(* The surface goes away, or its client acknowledges what it was not sent. *)
Forget(o) ==
  /\ outstanding' = [outstanding EXCEPT ![o] = {}]
  /\ UNCHANGED <<last, inForce>>

Next ==
  \/ Configure
  \/ \E o \in Object : Forget(o) \/ \E n \in outstanding[o] : Acknowledge(o, n)

Spec == Init /\ [][Next]_<<last, outstanding, inForce>>
=============================================================================
