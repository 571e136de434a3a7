-------------------------------- MODULE Lists --------------------------------
(***************************************************************************)
(* The operations on QList that the code builds its lists of views and of  *)
(* window states with; SeqRange and Distinct also serve for event queues.  *)
(***************************************************************************)
EXTENDS Naturals, Sequences

(* contains() *)
SeqRange(q) == {q[i] : i \in 1 .. Len(q)}

(* indexOf() *)
Position(q, v) == CHOOSE i \in 1 .. Len(q) : q[i] = v

(* removeOne(), and removeAll() of a list without duplicates *)
WithoutNone(q, v) == q
Without(q, v) ==
  IF v \in SeqRange(q)
  THEN SubSeq(q, 1, Position(q, v) - 1) \o SubSeq(q, Position(q, v) + 1, Len(q))
  ELSE q

Distinct(q) == \A i, j \in 1 .. Len(q) : q[i] = q[j] => i = j
=============================================================================
