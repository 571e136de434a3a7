-------------------------- MODULE BufferOwnership --------------------------
(***************************************************************************)
(* Who may write to a wl_buffer: the promise of wl_buffer.release, without *)
(* surfaces, views or reference counts.  A client lends a buffer to the    *)
(* compositor by committing it and gets it back by a release event, or     *)
(* destroys it and never hears of it again.                                *)
(***************************************************************************)
CONSTANT Buffer

VARIABLES
  owner,   \* who may touch the content: the client, the compositor, or nobody
  held     \* does the compositor refer to the buffer?

vars == <<owner, held>>

TypeOK ==
  /\ owner \in [Buffer -> {"client", "compositor", "gone"}]
  /\ held \in [Buffer -> BOOLEAN]

Init ==
  /\ owner = [b \in Buffer |-> "client"]
  /\ held = [b \in Buffer |-> FALSE]

(* Attached or replaced before any commit.                                 *)
Request(b) == owner[b] = "client" /\ owner'[b] = "client"

(* Only a buffer the client has named can be lent.                         *)
Lend(b) ==
  /\ owner[b] = "client" /\ held[b]
  /\ owner'[b] = "compositor" /\ held'[b]

Keep(b) == owner'[b] = owner[b] /\ held'[b] = held[b]

(* The buffer goes back exactly when the compositor has no use for it.     *)
Release(b) ==
  /\ owner[b] = "compositor" /\ held[b]
  /\ owner'[b] = "client" /\ ~held'[b]

Destroy(b) ==
  /\ owner[b] # "gone"
  /\ owner'[b] = "gone" /\ held'[b] = held[b]

(* The last reference to a destroyed buffer.                               *)
Forget(b) == owner[b] = "gone" /\ owner'[b] = "gone" /\ held[b] /\ ~held'[b]

Move(b) ==
  Request(b) \/ Lend(b) \/ Keep(b) \/ Release(b) \/ Destroy(b) \/ Forget(b)

Next ==
  /\ \A b \in Buffer : Move(b)
  /\ owner' \in [Buffer -> {"client", "compositor", "gone"}]
  /\ held' \in [Buffer -> BOOLEAN]

Spec == Init /\ [][Next]_vars
=============================================================================
