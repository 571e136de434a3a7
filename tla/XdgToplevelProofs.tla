-------------------------- MODULE XdgToplevelProofs -------------------------
(***************************************************************************)
(* What holds of any number of toplevels, some of whose clients may be     *)
(* misbehaving: the lists of states in configure events stay well-formed,  *)
(* the last event sent tells whether the window is active, an              *)
(* acknowledgement announces what changed and moves the item accordingly,  *)
(* and events and acknowledgements follow the protocol of ConfigureAck.    *)
(*                                                                         *)
(* The argument has three layers: what the merge of two lists gives, by an *)
(* induction over the elements left to merge; what the lists of states the *)
(* code builds have in common; and what one step does to the queue of      *)
(* events of one toplevel.                                                 *)
(***************************************************************************)
EXTENDS XdgToplevel, ListProofs, WellFoundedInduction

-----------------------------------------------------------------------------
(* SymmetricDifference is a recursive function over pairs of positions. *)

(* What a table d of all pairs of positions has at (i, j): the two lists   *)
(* merged from there on.                                                   *)
Merged(d, a, b, i, j) ==
  IF i > Len(a) THEN SubSeq(b, j, Len(b))
  ELSE IF j > Len(b) THEN SubSeq(a, i, Len(a))
  ELSE IF a[i] < b[j] THEN <<a[i]>> \o d[<<i + 1, j>>]
  ELSE IF b[j] < a[i] THEN <<b[j]>> \o d[<<i, j + 1>>]
  ELSE d[<<i + 1, j + 1>>]

(* The table solves the equation of SymmetricDifference for a and b.       *)
Pairs(a, b) == (1 .. Len(a) + 1) \X (1 .. Len(b) + 1)
Merging(d, a, b) == d = [p \in Pairs(a, b) |-> Merged(d, a, b, p[1], p[2])]

(* A recursive function is the table that its equation chooses.            *)
LEMMA DifferenceUnfolds ==
  ASSUME NEW a, NEW b, \E d : Merging(d, a, b)
  PROVE  \E d : Merging(d, a, b) /\ SymmetricDifference(a, b) = d[<<1, 1>>]
<1> DEFINE d == CHOOSE d : Merging(d, a, b)
<1>1. Merging(d, a, b)
  OBVIOUS
<1>2. SymmetricDifference(a, b) = d[<<1, 1>>]
  BY DEF SymmetricDifference, Merging, Merged, Pairs
<1> QED BY <1>1, <1>2

(* What the table has at one pair of positions.                            *)
LEMMA MergingAt ==
  ASSUME NEW a, NEW b, NEW d, Merging(d, a, b),
         NEW i \in 1 .. Len(a) + 1, NEW j \in 1 .. Len(b) + 1
  PROVE  d[<<i, j>>] = Merged(d, a, b, i, j)
<1> <<i, j>> \in Pairs(a, b)
  BY DEF Pairs
<1> QED BY DEF Merging

(* Induction over the natural numbers, for a set of them.                  *)
LEMMA InductionOverSet ==
  ASSUME NEW T \in SUBSET Nat, 0 \in T, \A n \in T : n + 1 \in T
  PROVE  T = Nat
<1> DEFINE Less == OpToRel(<, Nat)
<1>1. \A k, m \in Nat : <<k, m>> \in Less <=> k < m
  BY DEF OpToRel
<1>2. IsWellFoundedOn(Less, Nat)
  BY ONLY NatLessThanWellFounded, Zenon
<1> HIDE DEF Less
<1> SUFFICES ASSUME Nat \ T # {}
             PROVE  FALSE
  OBVIOUS
<1>3. PICK m \in Nat \ T : \A k \in Nat \ T : ~(<<k, m>> \in Less)
  BY <1>2, WFMin
<1>4. /\ m # 0 /\ m - 1 \in Nat /\ m - 1 < m /\ m - 1 + 1 = m
  BY <1>3
<1>5. m - 1 \in T
  BY <1>1, <1>3, <1>4
<1> QED BY <1>3, <1>4, <1>5

(* The elements that are still to be merged at (i, j).                     *)
Left(a, b, i, j) == (Len(a) + 1 - i) + (Len(b) + 1 - j)

(* The equation has a solution: by induction over the number of elements   *)
(* that are left, one that is right where fewer are left.                  *)
LEMMA MergingExists ==
  ASSUME NEW a, NEW b, Len(a) \in Nat, Len(b) \in Nat
  PROVE  \E d : Merging(d, a, b)
<1> DEFINE Good(d, n) ==
             /\ d = [p \in Pairs(a, b) |-> d[p]]
             /\ \A i \in 1 .. Len(a) + 1, j \in 1 .. Len(b) + 1 :
                  Left(a, b, i, j) < n => d[<<i, j>>] = Merged(d, a, b, i, j)
           T == {n \in Nat : \E d : Good(d, n)}
<1>1. 0 \in T
  <2> DEFINE d == [p \in Pairs(a, b) |-> p]
  <2>1. Good(d, 0)
    BY DEF Left
  <2> QED BY <2>1
<1>2. ASSUME NEW n \in Nat, NEW d, Good(d, n)
      PROVE  n + 1 \in T
  <2> DEFINE e == [p \in Pairs(a, b) |-> Merged(d, a, b, p[1], p[2])]
  <2>1. \A i \in 1 .. Len(a) + 1, j \in 1 .. Len(b) + 1 : e[<<i, j>>] = Merged(d, a, b, i, j)
    BY DEF Pairs
  <2>2. e = [p \in Pairs(a, b) |-> e[p]]
    OBVIOUS
  <2> HIDE DEF e
  <2>3. ASSUME NEW i \in 1 .. Len(a) + 1, NEW j \in 1 .. Len(b) + 1, Left(a, b, i, j) < n + 1
        PROVE  e[<<i, j>>] = Merged(e, a, b, i, j)
    <3>1. CASE i > Len(a)
      <4>1. Merged(d, a, b, i, j) = Merged(e, a, b, i, j)
        BY <3>1 DEF Merged
      <4> QED BY <2>1, <4>1
    <3>2. CASE i <= Len(a) /\ j > Len(b)
      <4>1. Merged(d, a, b, i, j) = Merged(e, a, b, i, j)
        BY <3>2 DEF Merged
      <4> QED BY <2>1, <4>1
    <3>3. CASE i <= Len(a) /\ j <= Len(b)
      <4>1. /\ i + 1 \in 1 .. Len(a) + 1 /\ j + 1 \in 1 .. Len(b) + 1
            /\ Left(a, b, i + 1, j) < n /\ Left(a, b, i, j + 1) < n /\ Left(a, b, i + 1, j + 1) < n
        BY <2>3, <3>3 DEF Left
      <4>2. /\ e[<<i + 1, j>>] = d[<<i + 1, j>>]
            /\ e[<<i, j + 1>>] = d[<<i, j + 1>>]
            /\ e[<<i + 1, j + 1>>] = d[<<i + 1, j + 1>>]
        BY <1>2, <2>1, <4>1
      <4>3. Merged(d, a, b, i, j) = Merged(e, a, b, i, j)
        BY <4>2 DEF Merged
      <4> QED BY <2>1, <4>3
    <3> QED BY <3>1, <3>2, <3>3
  <2>4. Good(e, n + 1)
    BY <2>2, <2>3
  <2> QED BY <2>4
<1> HIDE DEF Good
<1>3. T = Nat
  BY <1>1, <1>2, InductionOverSet
<1> HIDE DEF T
<1>4. PICK d : Good(d, Len(a) + Len(b) + 1)
  <2>1. Len(a) + Len(b) + 1 \in T
    BY <1>3
  <2> QED BY <2>1 DEF T
<1>5. \A i \in 1 .. Len(a) + 1, j \in 1 .. Len(b) + 1 :
        Left(a, b, i, j) < Len(a) + Len(b) + 1
  BY DEF Left
<1>6. \A p \in Pairs(a, b) : d[p] = Merged(d, a, b, p[1], p[2])
  <2> SUFFICES ASSUME NEW p \in Pairs(a, b)
               PROVE  d[p] = Merged(d, a, b, p[1], p[2])
    OBVIOUS
  <2>1. p[1] \in 1 .. Len(a) + 1 /\ p[2] \in 1 .. Len(b) + 1 /\ p = <<p[1], p[2]>>
    BY DEF Pairs
  <2> QED BY <1>4, <1>5, <2>1 DEF Good
<1> QED BY <1>4, <1>6 DEF Good, Merging

(* What a list has from its element i on.                                  *)
From(q, i) == {q[k] : k \in i .. Len(q)}

(* A list from its element i on is a list of what it has from there on.    *)
LEMMA SubSeqFrom ==
  ASSUME NEW S, NEW q \in Seq(S), NEW i \in 1 .. Len(q) + 1
  PROVE  /\ SubSeq(q, i, Len(q)) \in Seq(S)
         /\ SeqRange(SubSeq(q, i, Len(q))) = From(q, i)
<1> DEFINE w == SubSeq(q, i, Len(q))
<1>1. Len(q) \in Nat /\ i \in 1 .. Len(q) + 1
  BY LenProperties
<1>2. CASE i <= Len(q)
  <2>1. /\ w \in Seq(S) /\ Len(w) = Len(q) - i + 1
        /\ \A k \in 1 .. Len(q) - i + 1 : w[k] = q[i + k - 1]
    BY <1>1, <1>2, SubSeqProperties
  <2> HIDE DEF w
  <2>2. ASSUME NEW k \in 1 .. Len(w)
        PROVE  w[k] \in From(q, i)
    <3>1. i + k - 1 \in i .. Len(q) /\ w[k] = q[i + k - 1]
      BY <1>1, <1>2, <2>1
    <3> QED BY <3>1 DEF From
  <2>3. ASSUME NEW k \in i .. Len(q)
        PROVE  q[k] \in SeqRange(w)
    <3>1. k - i + 1 \in 1 .. Len(w) /\ w[k - i + 1] = q[k]
      BY <1>1, <1>2, <2>1
    <3> QED BY <3>1 DEF SeqRange
  <2> QED BY <2>1, <2>2, <2>3 DEF SeqRange, From, w
<1>3. CASE i = Len(q) + 1
  <2>1. w \in Seq(S) /\ Len(w) = 0
    BY <1>1, <1>3, SubSeqProperties
  <2> HIDE DEF w
  <2>2. SeqRange(w) = {} /\ From(q, i) = {}
    BY <1>1, <1>3, <2>1 DEF SeqRange, From
  <2> QED BY <2>1, <2>2 DEF w
<1> QED BY <1>1, <1>2, <1>3

(* One element more.                                                       *)
LEMMA FromNext ==
  ASSUME NEW S, NEW q \in Seq(S), NEW i \in 1 .. Len(q)
  PROVE  /\ From(q, i) = From(q, i + 1) \cup {q[i]}
         /\ q[i] \in S
         /\ i + 1 \in 1 .. Len(q) + 1
         /\ From(q, i) \subseteq SeqRange(q)
         /\ Distinct(q) => q[i] \notin From(q, i + 1)
<1>1. Len(q) \in Nat /\ q[i] \in S /\ i \in Nat /\ i >= 1
  BY LenProperties, ElementOfSeq
<1>2. i .. Len(q) = (i + 1 .. Len(q)) \cup {i}
  BY <1>1
<1>3. i .. Len(q) \subseteq 1 .. Len(q) /\ i \notin i + 1 .. Len(q)
  BY <1>1
<1>4. i + 1 \in 1 .. Len(q) + 1
  BY <1>1
<1> QED BY <1>1, <1>2, <1>3, <1>4 DEF From, SeqRange, Distinct

(* What is left of two lists has been merged into q: q names every value   *)
(* that one of them has and the other has not, it names no value that none *)
(* has, and the largest of all, if both have it once, it does not name.    *)
Largest(v, a, b) == \A w \in SeqRange(a) \cup SeqRange(b) : w <= v
Differs(q, a, b, A, B) ==
  /\ q \in Seq(Nat)
  /\ SeqRange(q) \subseteq A \cup B
  /\ \A v \in A \cup B : ~(v \in A /\ v \in B) => v \in SeqRange(q)
  /\ Distinct(a) /\ Distinct(b) =>
       \A v \in A \cap B : Largest(v, a, b) => v \notin SeqRange(q)

(* So it is wherever fewer than n elements are left.                       *)
Below(d, a, b, n) ==
  \A k \in 1 .. Len(a) + 1, l \in 1 .. Len(b) + 1 :
    Left(a, b, k, l) < n => Differs(d[<<k, l>>], a, b, From(a, k), From(b, l))

(* One turn of the merge.                                                  *)
LEMMA MergeTurn ==
  ASSUME NEW a \in Seq(Nat), NEW b \in Seq(Nat), NEW d, Merging(d, a, b),
         NEW i \in 1 .. Len(a) + 1, NEW j \in 1 .. Len(b) + 1,
         Below(d, a, b, Left(a, b, i, j))
  PROVE  Differs(d[<<i, j>>], a, b, From(a, i), From(b, j))
<1>1. Len(a) \in Nat /\ Len(b) \in Nat
  BY LenProperties
<1>2. d[<<i, j>>] = Merged(d, a, b, i, j)
  BY MergingAt
<1>3. CASE i > Len(a)
  <2>1. From(a, i) = {}
    BY <1>1, <1>3 DEF From
  <2>2. d[<<i, j>>] = SubSeq(b, j, Len(b))
    BY <1>2, <1>3, Zenon DEF Merged
  <2> QED BY <2>1, <2>2, SubSeqFrom DEF Differs
<1>4. CASE i <= Len(a) /\ j > Len(b)
  <2>1. From(b, j) = {}
    BY <1>1, <1>4 DEF From
  <2>2. d[<<i, j>>] = SubSeq(a, i, Len(a))
    <3>1. ~(i > Len(a)) /\ j > Len(b)
      BY <1>1, <1>4
    <3> QED BY <1>2, <3>1, Zenon DEF Merged
  <2> QED BY <2>1, <2>2, SubSeqFrom DEF Differs
<1>5. CASE i <= Len(a) /\ j <= Len(b)
  <2>1. /\ i \in 1 .. Len(a) /\ j \in 1 .. Len(b)
        /\ Left(a, b, i + 1, j) < Left(a, b, i, j)
        /\ Left(a, b, i, j + 1) < Left(a, b, i, j)
        /\ Left(a, b, i + 1, j + 1) < Left(a, b, i, j)
    BY <1>1, <1>5 DEF Left
  <2>2. /\ From(a, i) = From(a, i + 1) \cup {a[i]} /\ a[i] \in Nat
        /\ i + 1 \in 1 .. Len(a) + 1 /\ From(a, i) \subseteq SeqRange(a)
        /\ Distinct(a) => a[i] \notin From(a, i + 1)
    BY <2>1, FromNext
  <2>3. /\ From(b, j) = From(b, j + 1) \cup {b[j]} /\ b[j] \in Nat
        /\ j + 1 \in 1 .. Len(b) + 1 /\ From(b, j) \subseteq SeqRange(b)
        /\ Distinct(b) => b[j] \notin From(b, j + 1)
    BY <2>1, FromNext
  <2>4. /\ Differs(d[<<i + 1, j>>], a, b, From(a, i + 1), From(b, j))
        /\ Differs(d[<<i, j + 1>>], a, b, From(a, i), From(b, j + 1))
        /\ Differs(d[<<i + 1, j + 1>>], a, b, From(a, i + 1), From(b, j + 1))
    BY <2>1, <2>2, <2>3 DEF Below
  <2>5. d[<<i, j>>] = IF a[i] < b[j] THEN <<a[i]>> \o d[<<i + 1, j>>]
                      ELSE IF b[j] < a[i] THEN <<b[j]>> \o d[<<i, j + 1>>]
                      ELSE d[<<i + 1, j + 1>>]
    <3>1. ~(i > Len(a)) /\ ~(j > Len(b))
      BY <1>1, <1>5
    <3> QED BY <1>2, <3>1, Zenon DEF Merged
  <2>6. /\ a[i] \in Nat /\ b[j] \in Nat
        /\ a[i] \in SeqRange(a) /\ b[j] \in SeqRange(b)
    BY <2>2, <2>3
  <2>7. CASE a[i] < b[j]
    <3> DEFINE q == d[<<i + 1, j>>]
    <3>1. d[<<i, j>>] = <<a[i]>> \o q
      BY <2>5, <2>6, <2>7
    <3>2. q \in Seq(Nat)
      BY <2>4 DEF Differs
    <3> HIDE DEF q
    <3>3. d[<<i, j>>] \in Seq(Nat) /\ SeqRange(d[<<i, j>>]) = SeqRange(q) \cup {a[i]}
      BY <2>6, <3>1, <3>2, PrependRange
    <3>4. ~Largest(a[i], a, b)
      BY <2>6, <2>7 DEF Largest
    <3>5. Differs(q, a, b, From(a, i + 1), From(b, j))
      BY <2>4 DEF q
    <3> QED BY <2>2, <2>3, <3>3, <3>4, <3>5 DEF Differs
  <2>8. CASE b[j] < a[i]
    <3> DEFINE q == d[<<i, j + 1>>]
    <3>0. ~(a[i] < b[j])
      BY <2>8, <2>6
    <3>1. d[<<i, j>>] = <<b[j]>> \o q
      BY <2>5, <2>8, <3>0, Zenon
    <3>2. q \in Seq(Nat)
      BY <2>4 DEF Differs
    <3> HIDE DEF q
    <3>3. d[<<i, j>>] \in Seq(Nat) /\ SeqRange(d[<<i, j>>]) = SeqRange(q) \cup {b[j]}
      BY <2>6, <3>1, <3>2, PrependRange
    <3>4. ~Largest(b[j], a, b)
      BY <2>6, <2>8 DEF Largest
    <3>5. Differs(q, a, b, From(a, i), From(b, j + 1))
      BY <2>4 DEF q
    <3> QED BY <2>2, <2>3, <3>3, <3>4, <3>5 DEF Differs
  <2>9. CASE a[i] = b[j]
    <3>1. d[<<i, j>>] = d[<<i + 1, j + 1>>]
      BY <2>5, <2>9, <2>6
    <3> QED BY <2>2, <2>3, <2>4, <2>9, <3>1 DEF Differs
  <2> QED BY <2>7, <2>8, <2>9, <2>6
<1> QED BY <1>1, <1>3, <1>4, <1>5

(* What std::set_symmetric_difference leaves of lists that are not sorted. *)
LEMMA SymmetricDifferenceFacts ==
  ASSUME NEW a \in Seq(Nat), NEW b \in Seq(Nat)
  PROVE  Differs(SymmetricDifference(a, b), a, b, SeqRange(a), SeqRange(b))
<1>1. Len(a) \in Nat /\ Len(b) \in Nat
  BY LenProperties
<1>2. PICK d : Merging(d, a, b) /\ SymmetricDifference(a, b) = d[<<1, 1>>]
  BY <1>1, MergingExists, DifferenceUnfolds
<1> DEFINE T == {n \in Nat : Below(d, a, b, n)}
<1>3. 0 \in T
  BY <1>1 DEF Left, Below
<1>4. ASSUME NEW n \in T
      PROVE  n + 1 \in T
  <2> SUFFICES ASSUME NEW i \in 1 .. Len(a) + 1, NEW j \in 1 .. Len(b) + 1, Left(a, b, i, j) < n + 1
               PROVE  Differs(d[<<i, j>>], a, b, From(a, i), From(b, j))
    BY DEF Below
  <2>1. Left(a, b, i, j) <= n
    BY <1>1 DEF Left
  <2>2. \A k \in 1 .. Len(a) + 1, l \in 1 .. Len(b) + 1 :
          Left(a, b, k, l) < Left(a, b, i, j) => Left(a, b, k, l) < n
    BY <1>1, <2>1 DEF Left
  <2>3. Below(d, a, b, Left(a, b, i, j))
    BY <2>2 DEF Below
  <2> QED BY <1>2, <2>3, MergeTurn
<1> HIDE DEF T
<1>5. T = Nat
  BY <1>3, <1>4, InductionOverSet DEF T
<1>6. Differs(d[<<1, 1>>], a, b, From(a, 1), From(b, 1))
  <2>1. /\ 1 \in 1 .. Len(a) + 1 /\ 1 \in 1 .. Len(b) + 1
        /\ Len(a) + Len(b) + 1 \in Nat /\ Left(a, b, 1, 1) < Len(a) + Len(b) + 1
    BY <1>1 DEF Left
  <2>2. Len(a) + Len(b) + 1 \in T
    BY <1>5, <2>1
  <2> QED BY <2>1, <2>2 DEF T, Below
<1> QED BY <1>2, <1>6 DEF From, SeqRange

-----------------------------------------------------------------------------
(* Lists of states. *)

(* The states of the protocol, and its three modes.                        *)
LEMMA StateFacts ==
  /\ State = {1, 2, 3, 4}
  /\ Maximized = 1 /\ Fullscreen = 2 /\ Resizing = 3 /\ Activated = 4
BY DEF State, Maximized, Fullscreen, Resizing, Activated

(* A list of states as the code builds them.                               *)
Wellformed(q) == q \in Seq(State) /\ OneMode(q)

(* For a list without duplicates, what OneMode says of its elements.       *)
LEMMA OneModeOfRange ==
  ASSUME NEW q \in Seq(State)
  PROVE  OneMode(q) <=>
           /\ Distinct(q)
           /\ \A s, r \in SeqRange(q) : s # Activated /\ r # Activated => s = r
<1>1. ASSUME OneMode(q), NEW s \in SeqRange(q), NEW r \in SeqRange(q), s # Activated, r # Activated
      PROVE  s = r
  <2>1. PICK i \in 1 .. Len(q) : q[i] = s
    BY DEF SeqRange
  <2>2. PICK j \in 1 .. Len(q) : q[j] = r
    BY DEF SeqRange
  <2> QED BY <1>1, <2>1, <2>2 DEF OneMode
<1>2. ASSUME Distinct(q), \A s, r \in SeqRange(q) : s # Activated /\ r # Activated => s = r
      PROVE  OneMode(q)
  BY <1>2 DEF OneMode, Distinct, SeqRange
<1> QED BY <1>1, <1>2 DEF OneMode

(* A state is put into a list, or taken out of it.                         *)
LEMMA WithFacts ==
  ASSUME NEW q \in Seq(State), Distinct(q), NEW s \in State
  PROVE  /\ With(q, s) \in Seq(State)
         /\ Distinct(With(q, s))
         /\ SeqRange(With(q, s)) = SeqRange(q) \cup {s}
BY AppendFacts, AppendRange DEF With, Has

LEMMA TakenOut ==
  ASSUME NEW q \in Seq(State), Distinct(q), NEW s
  PROVE  /\ Without(q, s) \in Seq(State)
         /\ Distinct(Without(q, s))
         /\ SeqRange(Without(q, s)) = SeqRange(q) \ {s}
BY WithoutFacts, WithoutType

(* The lists the convenience functions make of the last one.               *)
ModesOf(q) == {MaximizedStates(q), FullscreenStates(q), ResizingStates(q), UnmaximizedStates(q)}

(* They are well-formed and say of the activation what the last one said.  *)
LEMMA ModesFacts ==
  ASSUME NEW q, Wellformed(q), NEW r \in ModesOf(q)
  PROVE  Wellformed(r) /\ (Has(r, Activated) <=> Has(q, Activated))
<1>0. q \in Seq(State) /\ Distinct(q) /\ SeqRange(q) \subseteq State
  BY ElementOfSeq DEF Wellformed, OneMode, SeqRange
<1> DEFINE Good(p) == /\ p \in Seq(State) /\ Distinct(p)
                      /\ \A s, t \in SeqRange(p) : s # Activated /\ t # Activated => s = t
                      /\ Activated \in SeqRange(p) <=> Activated \in SeqRange(q)
<1>1. ASSUME NEW m \in State, NEW n \in State, NEW o \in State, {m, n, o} = State \ {Activated}
      PROVE  Good(Without(Without(With(q, m), n), o))
  <2>1. /\ With(q, m) \in Seq(State) /\ Distinct(With(q, m))
        /\ SeqRange(With(q, m)) = SeqRange(q) \cup {m}
    BY <1>0, WithFacts
  <2>2. /\ Without(With(q, m), n) \in Seq(State) /\ Distinct(Without(With(q, m), n))
        /\ SeqRange(Without(With(q, m), n)) = (SeqRange(q) \cup {m}) \ {n}
    BY <2>1, TakenOut
  <2>3. /\ Without(Without(With(q, m), n), o) \in Seq(State)
        /\ Distinct(Without(Without(With(q, m), n), o))
        /\ SeqRange(Without(Without(With(q, m), n), o)) = ((SeqRange(q) \cup {m}) \ {n}) \ {o}
    BY <2>2, TakenOut
  <2> QED BY <1>0, <1>1, <2>3
<1>2. Good(UnmaximizedStates(q))
  <2>1. /\ Without(q, Maximized) \in Seq(State) /\ Distinct(Without(q, Maximized))
        /\ SeqRange(Without(q, Maximized)) = SeqRange(q) \ {Maximized}
    BY <1>0, TakenOut
  <2>2. /\ Without(Without(q, Maximized), Fullscreen) \in Seq(State)
        /\ Distinct(Without(Without(q, Maximized), Fullscreen))
        /\ SeqRange(Without(Without(q, Maximized), Fullscreen)) = (SeqRange(q) \ {Maximized}) \ {Fullscreen}
    BY <2>1, TakenOut
  <2>3. /\ UnmaximizedStates(q) \in Seq(State) /\ Distinct(UnmaximizedStates(q))
        /\ SeqRange(UnmaximizedStates(q)) = ((SeqRange(q) \ {Maximized}) \ {Fullscreen}) \ {Resizing}
    BY <2>2, TakenOut DEF UnmaximizedStates
  <2> QED BY <1>0, <2>3, StateFacts
<1> HIDE DEF Good
<1>3. Good(MaximizedStates(q))
  BY <1>1, StateFacts DEF MaximizedStates
<1>4. Good(FullscreenStates(q))
  BY <1>1, StateFacts DEF FullscreenStates
<1>5. Good(ResizingStates(q))
  BY <1>1, StateFacts DEF ResizingStates
<1>6. Good(r)
  BY <1>2, <1>3, <1>4, <1>5 DEF ModesOf
<1> QED BY <1>6, OneModeOfRange DEF Good, Wellformed, Has

(* The lists of a change of focus.                                         *)
LEMMA ActivationFacts ==
  ASSUME NEW q, Wellformed(q)
  PROVE  /\ ~Has(q, Activated) => /\ Wellformed(Append(q, Activated))
                                  /\ Has(Append(q, Activated), Activated)
         /\ Wellformed(Without(q, Activated))
         /\ ~Has(Without(q, Activated), Activated)
<1>1. /\ q \in Seq(State) /\ Distinct(q) /\ Activated \in State
      /\ \A s, t \in SeqRange(q) : s # Activated /\ t # Activated => s = t
  BY OneModeOfRange, StateFacts DEF Wellformed, OneMode
<1>2. ASSUME ~Has(q, Activated)
      PROVE  /\ Wellformed(Append(q, Activated))
             /\ Has(Append(q, Activated), Activated)
  <2>1. /\ Append(q, Activated) \in Seq(State) /\ Distinct(Append(q, Activated))
        /\ SeqRange(Append(q, Activated)) = SeqRange(q) \cup {Activated}
    BY <1>1, <1>2, AppendFacts, AppendRange DEF Has
  <2> QED BY <1>1, <2>1, OneModeOfRange DEF Wellformed, Has
<1>3. /\ Without(q, Activated) \in Seq(State) /\ Distinct(Without(q, Activated))
      /\ SeqRange(Without(q, Activated)) = SeqRange(q) \ {Activated}
  BY <1>1, TakenOut
<1>4. Wellformed(Without(q, Activated)) /\ ~Has(Without(q, Activated), Activated)
  BY <1>1, <1>3, OneModeOfRange DEF Wellformed, Has
<1> QED BY <1>2, <1>4

(* The list of the first event is empty.                                   *)
LEMMA EmptyFacts == Wellformed(<<>>) /\ ~Has(<<>>, Activated) /\ ~NonWindowed(<<>>)
<1>1. <<>> \in Seq(State) /\ Len(<<>>) = 0
  BY EmptySeq
<1>2. 1 .. Len(<<>>) = {}
  BY <1>1
<1> QED BY <1>1, <1>2 DEF Wellformed, OneMode, Distinct, Has, SeqRange, NonWindowed

-----------------------------------------------------------------------------
(* The keyboard focus is on no window that is gone.                        *)
FocusLives == focus # NoToplevel => life[focus] = "alive"

(* What waits to be acknowledged was sent in the order of its serials.     *)
SentInOrder ==
  \A t \in Toplevel :
    LET q == pendingConfigures[t] IN
    /\ \A i \in 1 .. Len(q) : q[i].serial \in 1 .. serial
    /\ \A i, j \in 1 .. Len(q) : i < j => q[i].serial < q[j].serial

(* The events, the modes they name and the focus they tell.                *)
EventsInv == TypeOK /\ ModesExclude /\ FocusLives /\ FocusIsConfigured /\ SentInOrder

-----------------------------------------------------------------------------
(* Queues of events. *)

(* An event as the code sends it. *)
WellformedEvent(e) == e \in Event /\ Wellformed(e.states)

(* Every event that was sent or acknowledged has a well-formed list.       *)
LEMMA EventsWellformed ==
  ASSUME TypeOK, ModesExclude, NEW t \in Toplevel
  PROVE  /\ pendingConfigures[t] \in Seq(Event) /\ Len(pendingConfigures[t]) \in Nat
         /\ WellformedEvent(lastAckedConfigure[t])
         /\ \A i \in 1 .. Len(pendingConfigures[t]) : WellformedEvent(pendingConfigures[t][i])
         /\ WellformedEvent(LastSent(t))
<1>1. pendingConfigures[t] \in Seq(Event) /\ Len(pendingConfigures[t]) \in Nat
  BY LenProperties DEF TypeOK
<1>2. WellformedEvent(lastAckedConfigure[t])
  BY DEF TypeOK, ModesExclude, WellformedEvent, Wellformed, Event
<1>3. ASSUME NEW i \in 1 .. Len(pendingConfigures[t])
      PROVE  WellformedEvent(pendingConfigures[t][i])
  <2>1. pendingConfigures[t][i] \in Event
    BY <1>1, ElementOfSeq
  <2> QED BY <2>1 DEF ModesExclude, WellformedEvent, Wellformed, Event
<1>4. WellformedEvent(LastSent(t))
  <2>1. pendingConfigures[t] # <<>> => Len(pendingConfigures[t]) \in 1 .. Len(pendingConfigures[t])
    BY <1>1, EmptySeq
  <2> QED BY <1>2, <1>3, <2>1 DEF LastSent
<1> QED BY <1>1, <1>2, <1>3, <1>4

(* The queue of one toplevel with an event e of a new serial at its end.   *)
LEMMA Appended ==
  ASSUME NEW q \in Seq(Event), NEW e \in Event
  PROVE  LET w == Append(q, e) IN
         /\ w \in Seq(Event) /\ w # <<>>
         /\ Len(q) \in Nat /\ Len(w) = Len(q) + 1
         /\ w[Len(w)] = e
         /\ \A i \in 1 .. Len(q) : w[i] = q[i]
         /\ \A i \in 1 .. Len(w) : i \in 1 .. Len(q) \/ i = Len(w)
<1> DEFINE w == Append(q, e)
<1>1. /\ w \in Seq(Event) /\ Len(q) \in Nat /\ Len(w) = Len(q) + 1
      /\ w[Len(q) + 1] = e
      /\ \A i \in 1 .. Len(q) : w[i] = q[i]
  BY AppendProperties, LenProperties
<1> HIDE DEF w
<1>2. w # <<>>
  BY <1>1, EmptySeq
<1>3. \A i \in 1 .. Len(w) : i \in 1 .. Len(q) \/ i = Len(w)
  BY <1>1
<1> QED BY <1>1, <1>2, <1>3 DEF w

(* The queue without its first i events.                                   *)
LEMMA RestFacts ==
  ASSUME NEW q \in Seq(Event), NEW i \in 1 .. Len(q)
  PROVE  /\ Rest(q, i) \in Seq(Event) /\ Len(q) \in Nat
         /\ Len(Rest(q, i)) = Len(q) - i
         /\ \A k \in 1 .. Len(Rest(q, i)) : i + k \in 1 .. Len(q) /\ Rest(q, i)[k] = q[i + k]
         /\ Rest(q, i) = <<>> => i = Len(q)
<1>1. Len(q) \in Nat
  BY LenProperties
<1>2. CASE i < Len(q)
  <2>1. /\ Rest(q, i) \in Seq(Event) /\ Len(Rest(q, i)) = Len(q) - (i + 1) + 1
        /\ \A k \in 1 .. Len(q) - (i + 1) + 1 : Rest(q, i)[k] = q[i + 1 + k - 1]
    BY <1>1, <1>2, SubSeqProperties DEF Rest
  <2>2. Len(Rest(q, i)) = Len(q) - i
    BY <1>1, <2>1
  <2>3. ASSUME NEW k \in 1 .. Len(Rest(q, i))
        PROVE  i + k \in 1 .. Len(q) /\ Rest(q, i)[k] = q[i + k]
    <3>1. i + 1 + k - 1 = i + k /\ i + k \in 1 .. Len(q)
      BY <1>1, <1>2, <2>2
    <3> QED BY <2>1, <2>2, <3>1
  <2>4. Rest(q, i) # <<>>
    BY <1>1, <1>2, <2>2, EmptySeq
  <2> QED BY <1>1, <2>1, <2>2, <2>3, <2>4
<1>3. CASE i = Len(q)
  <2>1. Rest(q, i) \in Seq(Event) /\ Len(Rest(q, i)) = 0
    BY <1>1, <1>3, SubSeqProperties DEF Rest
  <2> QED BY <1>1, <1>3, <2>1
<1> QED BY <1>1, <1>2, <1>3

-----------------------------------------------------------------------------
(* The kinds of steps, as far as events and the focus go. *)

eventVars == <<life, serial, pendingConfigures, lastAckedConfigure, focus>>

(* A toplevel is configured with one of the modes. *)
SendsMode(t) ==
  /\ \E size \in Size, states \in ModesOf(LastSent(t).states) : SendConfigure(t, states, size)
  /\ life[t] = "alive"
  /\ UNCHANGED <<life, lastAckedConfigure, focus>>

(* A toplevel's client acknowledges an event, or what it was never sent.    *)
Acks(t) ==
  /\ life[t] = "alive"
  /\ \/ \E i \in 1 .. Len(pendingConfigures[t]) :
          /\ pendingConfigures' = [pendingConfigures EXCEPT ![t] = Rest(@, i)]
          /\ lastAckedConfigure' = [lastAckedConfigure EXCEPT ![t] = pendingConfigures[t][i]]
     \/ /\ t \in Misbehaving
        /\ pendingConfigures' = [pendingConfigures EXCEPT ![t] = <<>>]
        /\ lastAckedConfigure' = lastAckedConfigure
  /\ UNCHANGED <<life, serial, focus>>

(* Every step is of one of these kinds.                                    *)
LEMMA EventSteps ==
  ASSUME TypeOK, [Next]_vars
  PROVE  \/ UNCHANGED eventVars
         \/ \E t \in Toplevel : CreateToplevel(t) \/ DestroyToplevel(t) \/ SendsMode(t) \/ Acks(t)
         \/ \E new \in Toplevel \cup {NoToplevel} : SetFocus(new)
<1>1. ASSUME NEW t \in Toplevel, Acknowledge(t)
      PROVE  Acks(t)
  <2>1. PICK n \in (IF t \in Misbehaving THEN 1 .. serial
                    ELSE {pendingConfigures[t][i].serial : i \in 1 .. Len(pendingConfigures[t])}) :
          AckConfigure(t, n)
    BY <1>1 DEF Acknowledge
  <2>2. t \notin Misbehaving => Answers(pendingConfigures[t], n) # {}
    BY <2>1 DEF Answers
  <2> QED BY <2>1, <2>2 DEF AckConfigure, Acks, Answers
<1>2. ASSUME NEW t \in Toplevel, SetMaximized(t) \/ SetFullscreen(t) \/ Unset(t) \/ OutputChanged(t)
      PROVE  SendsMode(t)
  <2>1. "maximized" \in Size /\ "fullscreen" \in Size /\ windowedSize[t] \in Size
    BY DEF TypeOK, Size
  <2> QED BY <1>2, <2>1 DEF SetMaximized, SetFullscreen, Unset, OutputChanged, Leave, SendsMode, ModesOf
<1>3. ASSUME NEW t \in Toplevel, PointerMove(t)
      PROVE  SendsMode(t) \/ UNCHANGED eventVars
  <2>1. "windowed" \in Size
    BY DEF Size
  <2> QED BY <1>3, <2>1 DEF PointerMove, SendsMode, ModesOf, eventVars
<1>4. ASSUME NEW t \in Toplevel,
             \/ \E size \in Size : Commit(t, size)
             \/ \E grab \in {"move", "resize"} : StartGrab(t, grab)
             \/ PointerRelease(t)
      PROVE  UNCHANGED eventVars
  BY <1>4 DEF Commit, StartGrab, PointerRelease, eventVars
<1>5. CASE UNCHANGED vars
  BY <1>5 DEF vars, eventVars
<1>6. CASE Next
  BY <1>1, <1>2, <1>3, <1>4, <1>6 DEF Next
<1> QED BY <1>5, <1>6

-----------------------------------------------------------------------------
(* Types. *)

(* An event with a well-formed list and the next serial is added to t's.   *)
LEMMA SendType ==
  ASSUME TypeOK, NEW t \in Toplevel, NEW states \in Seq(State), NEW size \in Size,
         SendConfigure(t, states, size)
  PROVE  serial' \in Nat /\ pendingConfigures' \in [Toplevel -> Seq(Event)]
<1>1. serial' = serial + 1 /\ serial \in Nat
  BY DEF SendConfigure, TypeOK
<1> DEFINE e == [states |-> states, size |-> size, serial |-> serial']
<1>2. e \in Event
  BY <1>1 DEF Event
<1> HIDE DEF e
<1>3. Append(pendingConfigures[t], e) \in Seq(Event)
  BY <1>2, AppendProperties DEF TypeOK
<1>4. pendingConfigures' = [pendingConfigures EXCEPT ![t] = Append(pendingConfigures[t], e)]
  BY DEF SendConfigure, e
<1> QED BY <1>1, <1>3, <1>4 DEF TypeOK

(* The events a change of focus sends, and who is sent none. *)
LEMMA FocusEvents ==
  ASSUME TypeOK, ModesExclude, NEW new \in Toplevel \cup {NoToplevel}, SetFocus(new),
         NEW t \in Toplevel
  PROVE  \/ /\ t # new \/ Has(LastSent(t).states, Activated)
            /\ t # focus
            /\ pendingConfigures'[t] = pendingConfigures[t]
         \/ \E e \in Event :
              /\ pendingConfigures'[t] = Append(pendingConfigures[t], e)
              /\ Wellformed(e.states)
              /\ \/ /\ t = new /\ t # focus /\ Has(e.states, Activated)
                    /\ e.serial = serial + 1 /\ serial + 1 <= serial'
                    /\ (focus # NoToplevel => serial' = serial + 2)
                 \/ /\ t = focus /\ t # new /\ ~Has(e.states, Activated)
                    /\ e.serial = serial' /\ serial' >= serial + 1
                    /\ (new # NoToplevel /\ Activates(new) => serial' = serial + 2)
<1> DEFINE first == IF Activates(new) THEN serial + 1 ELSE serial
           states == LastSent(t).states
<1>1. /\ new # focus
      /\ serial' = IF focus = NoToplevel THEN first ELSE first + 1
      /\ pendingConfigures'[t] =
           CASE t = new /\ Activates(new) ->
                  Append(pendingConfigures[t], FocusEvent(t, Append(states, Activated), first))
             [] t = focus ->
                  Append(pendingConfigures[t], FocusEvent(t, Without(states, Activated), serial'))
             [] OTHER -> pendingConfigures[t]
  BY DEF SetFocus
<1>2. serial \in Nat /\ WellformedEvent(LastSent(t)) /\ NoToplevel \notin Toplevel
  BY EventsWellformed, NoToplevelAssumption DEF TypeOK
<1>3. CASE t = new /\ Activates(new)
  <2> DEFINE e == FocusEvent(t, Append(states, Activated), first)
  <2>1. ~Has(states, Activated) /\ first = serial + 1
    BY <1>3 DEF Activates
  <2>2. Wellformed(Append(states, Activated)) /\ Has(Append(states, Activated), Activated)
    BY <1>2, <2>1, ActivationFacts DEF WellformedEvent
  <2>3. /\ e.states = Append(states, Activated) /\ e.serial = serial + 1
        /\ e \in Event
    BY <1>2, <2>1, <2>2 DEF FocusEvent, Event, WellformedEvent, Wellformed
  <2>4. pendingConfigures'[t] = Append(pendingConfigures[t], e)
    BY <1>1, <1>3
  <2>5. /\ t # focus /\ serial + 1 <= serial'
        /\ focus # NoToplevel => serial' = serial + 2
    BY <1>1, <1>2, <1>3, <2>1
  <2> HIDE DEF e
  <2> QED BY <1>3, <2>2, <2>3, <2>4, <2>5
<1>4. CASE t = focus
  <2> DEFINE e == FocusEvent(t, Without(states, Activated), serial')
  <2>1. serial' \in Nat /\ serial' >= serial + 1
    BY <1>1, <1>2, <1>4
  <2>2. Wellformed(Without(states, Activated)) /\ ~Has(Without(states, Activated), Activated)
    BY <1>2, ActivationFacts DEF WellformedEvent
  <2>3. /\ e.states = Without(states, Activated) /\ e.serial = serial'
        /\ e \in Event
    BY <1>2, <2>1, <2>2 DEF FocusEvent, Event, WellformedEvent, Wellformed
  <2>4. pendingConfigures'[t] = Append(pendingConfigures[t], e)
    BY <1>1, <1>4
  <2>5. /\ t # new
        /\ new # NoToplevel /\ Activates(new) => serial' = serial + 2
    BY <1>1, <1>2, <1>4
  <2> HIDE DEF e
  <2> QED BY <1>4, <2>1, <2>2, <2>3, <2>4, <2>5
<1>5. CASE ~(t = new /\ Activates(new)) /\ t # focus
  BY <1>1, <1>2, <1>5 DEF Activates
<1> QED BY <1>3, <1>4, <1>5

(* The place of the item after an acknowledgement is one of the places.    *)
LEMMA PlacedType ==
  ASSUME TypeOK, NEW t \in Toplevel, NEW changed, NEW states
  PROVE  Placed(t, changed, states) \in Place
BY DEF Placed, PlaceOf, TypeOK, Place, Maximized, Fullscreen

(* Every step keeps the types.                                             *)
LEMMA TypeStep == TypeOK /\ ModesExclude /\ [Next]_vars => TypeOK'
<1> SUFFICES ASSUME TypeOK, ModesExclude, [Next]_vars
             PROVE  TypeOK'
  OBVIOUS
<1>1. ASSUME NEW t \in Toplevel, NEW states \in ModesOf(LastSent(t).states), NEW size \in Size,
             SendConfigure(t, states, size)
      PROVE  serial' \in Nat /\ pendingConfigures' \in [Toplevel -> Seq(Event)]
  <2>1. states \in Seq(State)
    BY EventsWellformed, ModesFacts DEF WellformedEvent, Wellformed
  <2> QED BY <1>1, <2>1, SendType
<1>2. ASSUME NEW t \in Toplevel, CreateToplevel(t)
      PROVE  TypeOK'
  <2>1. <<>> \in Seq(State) /\ "free" \in Size
    BY EmptyFacts DEF Wellformed, Size
  <2>2. serial' \in Nat /\ pendingConfigures' \in [Toplevel -> Seq(Event)]
    BY <1>2, <2>1, SendType DEF CreateToplevel
  <2> QED BY <1>2, <2>2 DEF CreateToplevel, TypeOK, integrationVars, resizeVars
<1>3. ASSUME NEW t \in Toplevel, DestroyToplevel(t)
      PROVE  TypeOK'
  <2>1. <<>> \in Seq(Event)
    BY EmptySeq
  <2> QED BY <1>3, <2>1 DEF DestroyToplevel, TypeOK, resizeVars
<1>4. ASSUME NEW t \in Toplevel, Acknowledge(t)
      PROVE  TypeOK'
  <2>1. PICK n : AckConfigure(t, n)
    BY <1>4 DEF Acknowledge
  <2>2. CASE \E i \in Answers(pendingConfigures[t], n) :
               /\ pendingConfigures' = [pendingConfigures EXCEPT ![t] = Rest(@, i)]
               /\ lastAckedConfigure' = [lastAckedConfigure EXCEPT ![t] = pendingConfigures[t][i]]
               /\ \E changed : position' = [position EXCEPT ![t] = Placed(t, changed, pendingConfigures[t][i].states)]
    <3>1. PICK i \in 1 .. Len(pendingConfigures[t]) :
               /\ pendingConfigures' = [pendingConfigures EXCEPT ![t] = Rest(@, i)]
               /\ lastAckedConfigure' = [lastAckedConfigure EXCEPT ![t] = pendingConfigures[t][i]]
               /\ \E changed : position' = [position EXCEPT ![t] = Placed(t, changed, pendingConfigures[t][i].states)]
      BY <2>2 DEF Answers
    <3>2. position' \in [Toplevel -> Place]
      BY <3>1, PlacedType DEF TypeOK
    <3>3. Rest(pendingConfigures[t], i) \in Seq(Event) /\ pendingConfigures[t][i] \in Event
      BY <3>1, RestFacts, EventsWellformed DEF WellformedEvent
    <3>4. /\ pendingConfigures' \in [Toplevel -> Seq(Event)]
          /\ lastAckedConfigure' \in [Toplevel -> Event]
      BY <3>1, <3>3 DEF TypeOK
    <3> QED BY <2>1, <3>2, <3>4 DEF AckConfigure, TypeOK, resizeVars
  <2>3. CASE /\ pendingConfigures' = [pendingConfigures EXCEPT ![t] = <<>>]
             /\ UNCHANGED <<lastAckedConfigure, position>>
    <3>1. <<>> \in Seq(Event)
      BY EmptySeq
    <3> QED BY <2>1, <2>3, <3>1 DEF AckConfigure, TypeOK, resizeVars
  <2> QED BY <2>1, <2>2, <2>3 DEF AckConfigure
<1>5. ASSUME NEW t \in Toplevel, NEW size \in Size, Commit(t, size)
      PROVE  TypeOK'
  <2>1. position' \in [Toplevel -> Place] /\ resizedAway' \subseteq Toplevel
    BY <1>5 DEF Commit, TypeOK
  <2> QED BY <1>5, <2>1 DEF Commit, TypeOK
<1>6. ASSUME NEW t \in Toplevel, SetMaximized(t) \/ SetFullscreen(t)
      PROVE  TypeOK'
  <2>1. \E hook \in {"maximized", "fullscreen"} : Leave(t, hook)
    BY <1>6 DEF SetMaximized, SetFullscreen
  <2>2. serial' \in Nat /\ pendingConfigures' \in [Toplevel -> Seq(Event)]
    BY <1>1, <1>6 DEF SetMaximized, SetFullscreen, ModesOf, Size
  <2>3. /\ windowedSize' \in [Toplevel -> Size] /\ windowedPosition' \in [Toplevel -> Place]
        /\ connection' \in [Toplevel -> {"none", "maximized", "fullscreen"}]
    BY <2>1 DEF Leave, TypeOK
  <2>4. UNCHANGED <<life, lastAckedConfigure, focus, geometry, position, grabberState,
                    resizePosition, resizedAway>>
    BY <2>1 DEF Leave, resizeVars
  <2> QED BY <2>2, <2>3, <2>4 DEF TypeOK
<1>7. ASSUME NEW t \in Toplevel, Unset(t) \/ OutputChanged(t)
      PROVE  TypeOK'
  <2>1. windowedSize[t] \in Size
    BY DEF TypeOK
  <2>2. serial' \in Nat /\ pendingConfigures' \in [Toplevel -> Seq(Event)]
    BY <1>1, <1>7, <2>1 DEF Unset, OutputChanged, ModesOf, Size
  <2> QED BY <1>7, <2>2 DEF Unset, OutputChanged, TypeOK, integrationVars, resizeVars
<1>8. ASSUME NEW t \in Toplevel, PointerMove(t)
      PROVE  TypeOK'
  <2>1. serial' \in Nat /\ pendingConfigures' \in [Toplevel -> Seq(Event)]
    BY <1>1, <1>8 DEF PointerMove, ModesOf, Size, TypeOK
  <2> QED BY <1>8, <2>1 DEF PointerMove, TypeOK, Place, resizeVars
<1>9. ASSUME NEW t \in Toplevel,
             PointerRelease(t) \/ \E grab \in {"move", "resize"} : StartGrab(t, grab)
      PROVE  TypeOK'
  <2>1. resizePosition' \in [Toplevel -> Place] /\ resizedAway' \subseteq Toplevel
    BY <1>9 DEF PointerRelease, StartGrab, TypeOK, resizeVars
  <2> QED BY <1>9, <2>1 DEF PointerRelease, StartGrab, TypeOK
<1>10. ASSUME NEW new \in Toplevel \cup {NoToplevel}, SetFocus(new)
       PROVE  TypeOK'
  <2>1. serial' \in Nat
    BY <1>10 DEF SetFocus, TypeOK
  <2>2. ASSUME NEW t \in Toplevel
        PROVE  pendingConfigures'[t] \in Seq(Event)
    <3>1. pendingConfigures[t] \in Seq(Event)
      BY DEF TypeOK
    <3>2. \/ pendingConfigures'[t] = pendingConfigures[t]
          \/ \E e \in Event : pendingConfigures'[t] = Append(pendingConfigures[t], e)
      BY <1>10, FocusEvents
    <3> QED BY <3>1, <3>2, Appended
  <2>3. pendingConfigures' \in [Toplevel -> Seq(Event)]
    <3>1. pendingConfigures' = [t \in Toplevel |-> pendingConfigures'[t]]
      BY <1>10 DEF SetFocus
    <3> QED BY <2>2, <3>1
  <2> QED BY <1>10, <2>1, <2>3 DEF SetFocus, TypeOK, integrationVars, resizeVars
<1>11. CASE UNCHANGED vars
  BY <1>11 DEF vars, TypeOK, resizeVars
<1>12. CASE Next
  BY <1>2, <1>3, <1>4, <1>5, <1>6, <1>7, <1>8, <1>9, <1>10, <1>12 DEF Next
<1> QED BY <1>11, <1>12

-----------------------------------------------------------------------------
(* What a step does to the events of one toplevel. *)

(* It keeps its events, is sent e with a new serial, acknowledges the i-th *)
(* or loses them all.                                                      *)
Stays(t) == pendingConfigures'[t] = pendingConfigures[t] /\ lastAckedConfigure'[t] = lastAckedConfigure[t]
IsSent(t, e) ==
  /\ pendingConfigures'[t] = Append(pendingConfigures[t], e)
  /\ lastAckedConfigure'[t] = lastAckedConfigure[t]
  /\ Wellformed(e.states) /\ e.serial \in serial + 1 .. serial'
TakesUp(t, i) ==
  /\ pendingConfigures'[t] = Rest(pendingConfigures[t], i)
  /\ lastAckedConfigure'[t] = pendingConfigures[t][i]
LosesAll(t) == pendingConfigures'[t] = <<>> /\ lastAckedConfigure'[t] = lastAckedConfigure[t]

(* One toplevel is sent an event, the others keep theirs.                  *)
LEMMA SendsEvent ==
  ASSUME TypeOK, NEW t \in Toplevel, NEW states, Wellformed(states), NEW size \in Size,
         SendConfigure(t, states, size), lastAckedConfigure' = lastAckedConfigure
  PROVE  /\ \E e \in Event : IsSent(t, e) /\ e.states = states
         /\ \A u \in Toplevel \ {t} : Stays(u)
<1>1. serial \in Nat /\ serial' = serial + 1
  BY DEF TypeOK, SendConfigure
<1> DEFINE e == [states |-> states, size |-> size, serial |-> serial']
<1>2. e \in Event /\ e.states = states /\ e.serial \in serial + 1 .. serial'
  BY <1>1 DEF Event, Wellformed
<1>3. /\ pendingConfigures'[t] = Append(pendingConfigures[t], e)
      /\ \A u \in Toplevel \ {t} : pendingConfigures'[u] = pendingConfigures[u]
  BY DEF SendConfigure, TypeOK
<1> HIDE DEF e
<1> QED BY <1>2, <1>3 DEF IsSent, Stays

(* The four together.                                                      *)
QueueMoves(t) ==
  \/ Stays(t)
  \/ \E e \in Event : IsSent(t, e)
  \/ \E i \in 1 .. Len(pendingConfigures[t]) : TakesUp(t, i)
  \/ LosesAll(t)

(* Every step does one of four things to the events of a toplevel.         *)
LEMMA QueueSteps ==
  ASSUME TypeOK, ModesExclude, [Next]_vars, NEW t \in Toplevel
  PROVE  QueueMoves(t)
<1>1. CASE UNCHANGED eventVars
  BY <1>1 DEF eventVars, Stays, QueueMoves
<1>2. ASSUME NEW u \in Toplevel, CreateToplevel(u)
      PROVE  QueueMoves(t)
  <2>1. "free" \in Size
    BY DEF Size
  <2> QED BY <1>2, <2>1, SendsEvent, EmptyFacts DEF CreateToplevel, QueueMoves
<1>3. ASSUME NEW u \in Toplevel, SendsMode(u)
      PROVE  QueueMoves(t)
  <2>1. PICK size \in Size, states \in ModesOf(LastSent(u).states) : SendConfigure(u, states, size)
    BY <1>3 DEF SendsMode
  <2>2. Wellformed(states)
    BY EventsWellformed, ModesFacts DEF WellformedEvent
  <2> QED BY <1>3, <2>1, <2>2, SendsEvent DEF SendsMode, QueueMoves
<1>4. ASSUME NEW u \in Toplevel, DestroyToplevel(u)
      PROVE  QueueMoves(t)
  BY <1>4 DEF DestroyToplevel, TypeOK, Stays, LosesAll, QueueMoves
<1>5. ASSUME NEW u \in Toplevel, Acks(u)
      PROVE  QueueMoves(t)
  BY <1>5 DEF Acks, TypeOK, Stays, TakesUp, LosesAll, QueueMoves
<1>6. ASSUME NEW new \in Toplevel \cup {NoToplevel}, SetFocus(new)
      PROVE  QueueMoves(t)
  <2>1. lastAckedConfigure' = lastAckedConfigure /\ serial \in Nat /\ serial' \in Nat
    BY <1>6, TypeStep DEF SetFocus, TypeOK
  <2>2. \/ pendingConfigures'[t] = pendingConfigures[t]
        \/ \E e \in Event : /\ pendingConfigures'[t] = Append(pendingConfigures[t], e)
                            /\ Wellformed(e.states)
                            /\ e.serial \in serial + 1 .. serial'
    <3>1. \/ pendingConfigures'[t] = pendingConfigures[t]
          \/ \E e \in Event : /\ pendingConfigures'[t] = Append(pendingConfigures[t], e)
                              /\ Wellformed(e.states)
                              /\ \/ e.serial = serial + 1 /\ serial + 1 <= serial'
                                 \/ e.serial = serial' /\ serial' >= serial + 1
      BY <1>6, FocusEvents
    <3> QED BY <2>1, <3>1
  <2> QED BY <2>1, <2>2 DEF Stays, IsSent, QueueMoves
<1> QED BY <1>1, <1>2, <1>3, <1>4, <1>5, <1>6, EventSteps

(* Serials are not reused.                                                 *)
LEMMA SerialGrows ==
  ASSUME TypeOK, [Next]_vars
  PROVE  serial' >= serial
<1>1. serial \in Nat
  BY DEF TypeOK
<1>2. \A t \in Toplevel : CreateToplevel(t) \/ SendsMode(t) => serial' = serial + 1
  BY DEF CreateToplevel, SendsMode, SendConfigure
<1>3. \A new : SetFocus(new) => serial' \in {serial, serial + 1, serial + 1 + 1}
  BY DEF SetFocus
<1>4. \A t \in Toplevel : DestroyToplevel(t) \/ Acks(t) => serial' = serial
  BY DEF DestroyToplevel, Acks
<1>5. UNCHANGED eventVars => serial' = serial
  BY DEF eventVars
<1>6. serial' \in {serial, serial + 1, serial + 1 + 1}
  BY <1>2, <1>3, <1>4, <1>5, EventSteps
<1> QED BY <1>1, <1>6

(* Every step keeps the lists well-formed.                                 *)
LEMMA ModesStep == TypeOK /\ ModesExclude /\ [Next]_vars => ModesExclude'
<1> SUFFICES ASSUME TypeOK, ModesExclude, [Next]_vars, NEW t \in Toplevel
             PROVE  /\ OneMode(lastAckedConfigure'[t].states)
                    /\ \A i \in 1 .. Len(pendingConfigures'[t]) : OneMode(pendingConfigures'[t][i].states)
  BY DEF ModesExclude, OneMode, Distinct
<1>1. /\ pendingConfigures[t] \in Seq(Event)
      /\ OneMode(lastAckedConfigure[t].states)
      /\ \A i \in 1 .. Len(pendingConfigures[t]) : OneMode(pendingConfigures[t][i].states)
  BY EventsWellformed DEF WellformedEvent, Wellformed
<1>2. CASE Stays(t)
  BY <1>1, <1>2 DEF Stays
<1>3. ASSUME NEW e \in Event, IsSent(t, e)
      PROVE  /\ OneMode(lastAckedConfigure'[t].states)
             /\ \A i \in 1 .. Len(pendingConfigures'[t]) : OneMode(pendingConfigures'[t][i].states)
  <2> DEFINE w == Append(pendingConfigures[t], e)
  <2>1. /\ w[Len(w)] = e
        /\ \A i \in 1 .. Len(pendingConfigures[t]) : w[i] = pendingConfigures[t][i]
        /\ \A i \in 1 .. Len(w) : i \in 1 .. Len(pendingConfigures[t]) \/ i = Len(w)
    BY <1>1, Appended
  <2>2. pendingConfigures'[t] = w
    BY <1>3 DEF IsSent
  <2> HIDE DEF w
  <2> QED BY <1>1, <1>3, <2>1, <2>2 DEF IsSent, Wellformed
<1>4. ASSUME NEW i \in 1 .. Len(pendingConfigures[t]), TakesUp(t, i)
      PROVE  /\ OneMode(lastAckedConfigure'[t].states)
             /\ \A k \in 1 .. Len(pendingConfigures'[t]) : OneMode(pendingConfigures'[t][k].states)
  <2>1. \A k \in 1 .. Len(Rest(pendingConfigures[t], i)) :
          /\ i + k \in 1 .. Len(pendingConfigures[t])
          /\ Rest(pendingConfigures[t], i)[k] = pendingConfigures[t][i + k]
    BY <1>1, RestFacts
  <2> QED BY <1>1, <1>4, <2>1 DEF TakesUp
<1>5. CASE LosesAll(t)
  <2>1. 1 .. Len(<<>>) = {}
    BY EmptySeq
  <2> QED BY <1>1, <1>5, <2>1 DEF LosesAll
<1> QED BY <1>2, <1>3, <1>4, <1>5, QueueSteps DEF QueueMoves

(* Every step keeps the queues in the order of their serials.              *)
LEMMA OrderStep ==
  ASSUME TypeOK, ModesExclude, SentInOrder, [Next]_vars
  PROVE  SentInOrder'
<1> DEFINE Ordered(q, n) == /\ \A i \in 1 .. Len(q) : q[i].serial \in 1 .. n
                            /\ \A i, j \in 1 .. Len(q) : i < j => q[i].serial < q[j].serial
<1> SUFFICES ASSUME NEW t \in Toplevel
             PROVE  Ordered(pendingConfigures'[t], serial')
  BY DEF SentInOrder
<1> DEFINE q == pendingConfigures[t]
<1>1. /\ q \in Seq(Event) /\ Ordered(q, serial)
      /\ serial \in Nat /\ serial' \in Nat /\ serial' >= serial
  BY EventsWellformed, SerialGrows, TypeStep DEF SentInOrder, TypeOK
<1>2. 1 .. serial \subseteq 1 .. serial'
  BY <1>1
<1>3. ASSUME pendingConfigures'[t] = q
      PROVE  Ordered(pendingConfigures'[t], serial')
  BY <1>1, <1>2, <1>3
<1>4. ASSUME NEW e \in Event, IsSent(t, e)
      PROVE  Ordered(pendingConfigures'[t], serial')
  <2> DEFINE w == Append(q, e)
  <2>1. /\ Len(q) \in Nat /\ Len(w) = Len(q) + 1
        /\ w[Len(w)] = e
        /\ \A i \in 1 .. Len(q) : w[i] = q[i]
        /\ \A i \in 1 .. Len(w) : i \in 1 .. Len(q) \/ i = Len(w)
    BY <1>1, Appended
  <2>2. pendingConfigures'[t] = w /\ e.serial \in serial + 1 .. serial'
    BY <1>4 DEF IsSent
  <2> HIDE DEF w
  <2>3. \A i \in 1 .. Len(w) : w[i].serial \in 1 .. serial'
    BY <1>1, <1>2, <2>1, <2>2
  <2>4. ASSUME NEW i \in 1 .. Len(w), NEW j \in 1 .. Len(w), i < j
        PROVE  w[i].serial < w[j].serial
    <3>1. i \in 1 .. Len(q)
      BY <2>1, <2>4
    <3>2. w[i].serial \in 1 .. serial
      BY <1>1, <2>1, <3>1
    <3>3. CASE j = Len(w)
      BY <1>1, <2>1, <2>2, <3>2, <3>3
    <3>4. CASE j \in 1 .. Len(q)
      BY <1>1, <2>1, <2>4, <3>1, <3>4
    <3> QED BY <2>1, <3>3, <3>4
  <2> QED BY <2>2, <2>3, <2>4
<1>5. ASSUME NEW i \in 1 .. Len(q), TakesUp(t, i)
      PROVE  Ordered(pendingConfigures'[t], serial')
  <2> DEFINE w == Rest(q, i)
  <2>1. /\ Len(q) \in Nat /\ Len(w) = Len(q) - i
        /\ \A k \in 1 .. Len(w) : i + k \in 1 .. Len(q) /\ w[k] = q[i + k]
    BY <1>1, RestFacts
  <2>2. pendingConfigures'[t] = w
    BY <1>5 DEF TakesUp
  <2> HIDE DEF w
  <2>3. \A k, l \in 1 .. Len(w) : k < l => i + k < i + l
    BY <2>1
  <2> QED BY <1>1, <1>2, <2>1, <2>2, <2>3
<1>6. CASE LosesAll(t)
  <2>1. 1 .. Len(<<>>) = {}
    BY EmptySeq
  <2> QED BY <1>6, <2>1 DEF LosesAll
<1> HIDE DEF Ordered
<1> QED BY <1>3, <1>4, <1>5, <1>6, QueueSteps DEF QueueMoves, Stays

-----------------------------------------------------------------------------
(* The focus. *)

(* The event that was sent last, after each kind of step.                  *)
LEMMA LastSentAfter ==
  ASSUME TypeOK, ModesExclude, NEW t \in Toplevel
  PROVE  /\ Stays(t) => LastSent(t)' = LastSent(t)
         /\ \A e \in Event : pendingConfigures'[t] = Append(pendingConfigures[t], e) => LastSent(t)' = e
         /\ \A i \in 1 .. Len(pendingConfigures[t]) : TakesUp(t, i) => LastSent(t)' = LastSent(t)
<1> DEFINE q == pendingConfigures[t]
<1>1. q \in Seq(Event) /\ Len(q) \in Nat
  BY EventsWellformed
<1>2. Stays(t) => LastSent(t)' = LastSent(t)
  BY DEF Stays, LastSent
<1>3. \A e \in Event : pendingConfigures'[t] = Append(q, e) => LastSent(t)' = e
  BY <1>1, Appended DEF LastSent
<1>4. ASSUME NEW i \in 1 .. Len(q), TakesUp(t, i)
      PROVE  LastSent(t)' = LastSent(t)
  <2>1. q # <<>> /\ LastSent(t) = q[Len(q)]
    BY <1>1, EmptySeq DEF LastSent
  <2>2. /\ Rest(q, i) \in Seq(Event) /\ Len(Rest(q, i)) = Len(q) - i
        /\ \A k \in 1 .. Len(Rest(q, i)) : i + k \in 1 .. Len(q) /\ Rest(q, i)[k] = q[i + k]
        /\ Rest(q, i) = <<>> => i = Len(q)
    BY <1>1, RestFacts
  <2>3. CASE Rest(q, i) = <<>>
    BY <1>4, <2>1, <2>2, <2>3 DEF TakesUp, LastSent
  <2>4. CASE Rest(q, i) # <<>>
    <3>1. Len(Rest(q, i)) \in 1 .. Len(Rest(q, i)) /\ i + Len(Rest(q, i)) = Len(q)
      BY <1>1, <2>2, <2>4, EmptySeq
    <3>2. Rest(q, i)[Len(Rest(q, i))] = q[Len(q)]
      BY <2>2, <3>1
    <3> QED BY <1>4, <2>1, <2>4, <3>2 DEF TakesUp, LastSent
  <2> QED BY <2>3, <2>4
<1> QED BY <1>2, <1>3, <1>4

(* Every step tells the window that gets or loses the focus.               *)
LEMMA FocusStep ==
  ASSUME TypeOK, ModesExclude, FocusLives, FocusIsConfigured, [Next]_vars
  PROVE  FocusLives' /\ FocusIsConfigured'
<1> DEFINE Told(t) == life[t] = "alive" => (Has(LastSent(t).states, Activated) <=> focus = t)
<1>0. /\ \A t \in Toplevel \ Misbehaving : Told(t)
      /\ NoToplevel \notin Toplevel
  BY NoToplevelAssumption DEF FocusIsConfigured
<1>1. CASE UNCHANGED eventVars
  <2>1. \A t \in Toplevel : LastSent(t)' = LastSent(t) /\ life'[t] = life[t] /\ focus' = focus
    BY <1>1 DEF eventVars, LastSent
  <2>2. FocusLives'
    BY <1>1 DEF eventVars, FocusLives
  <2> QED BY <1>0, <2>1, <2>2 DEF FocusIsConfigured
<1>2. ASSUME NEW u \in Toplevel, CreateToplevel(u)
      PROVE  FocusLives' /\ FocusIsConfigured'
  <2>1. /\ life[u] = "none" /\ life' = [life EXCEPT ![u] = "alive"] /\ focus' = focus
        /\ lastAckedConfigure' = lastAckedConfigure
        /\ SendConfigure(u, <<>>, "free")
        /\ "free" \in Size
    BY <1>2 DEF CreateToplevel, Size
  <2>2. /\ \E e \in Event : IsSent(u, e) /\ e.states = <<>>
        /\ \A t \in Toplevel \ {u} : Stays(t)
    BY <2>1, SendsEvent, EmptyFacts
  <2>3. FocusLives' /\ focus # u
    BY <1>0, <2>1 DEF FocusLives, TypeOK
  <2>4. ~Has(LastSent(u)'.states, Activated)
    BY <2>2, LastSentAfter, EmptyFacts DEF IsSent
  <2>5. \A t \in Toplevel \ {u} : LastSent(t)' = LastSent(t) /\ life'[t] = life[t]
    BY <2>1, <2>2, LastSentAfter DEF TypeOK
  <2> QED BY <1>0, <2>1, <2>3, <2>4, <2>5 DEF FocusIsConfigured
<1>3. ASSUME NEW u \in Toplevel, SendsMode(u)
      PROVE  FocusLives' /\ FocusIsConfigured'
  <2>1. PICK size \in Size, states \in ModesOf(LastSent(u).states) : SendConfigure(u, states, size)
    BY <1>3 DEF SendsMode
  <2>2. Wellformed(states) /\ (Has(states, Activated) <=> Has(LastSent(u).states, Activated))
    BY EventsWellformed, ModesFacts DEF WellformedEvent
  <2>3. /\ \E e \in Event : IsSent(u, e) /\ e.states = states
        /\ \A t \in Toplevel \ {u} : Stays(t)
    BY <1>3, <2>1, <2>2, SendsEvent DEF SendsMode
  <2>4. LastSent(u)'.states = states
    BY <2>3, LastSentAfter DEF IsSent
  <2>5. \A t \in Toplevel \ {u} : LastSent(t)' = LastSent(t)
    BY <2>3, LastSentAfter
  <2>6. UNCHANGED <<life, focus>>
    BY <1>3 DEF SendsMode
  <2> QED BY <1>0, <2>2, <2>4, <2>5, <2>6 DEF FocusIsConfigured, FocusLives
<1>4. ASSUME NEW u \in Toplevel, DestroyToplevel(u)
      PROVE  FocusLives' /\ FocusIsConfigured'
  <2>1. /\ life' = [life EXCEPT ![u] = "gone"]
        /\ focus' = IF focus = u THEN NoToplevel ELSE focus
        /\ \A t \in Toplevel \ {u} : Stays(t)
    BY <1>4 DEF DestroyToplevel, Stays, TypeOK
  <2>2. \A t \in Toplevel \ {u} : LastSent(t)' = LastSent(t) /\ life'[t] = life[t]
    BY <2>1, LastSentAfter DEF TypeOK
  <2>3. life'[u] = "gone"
    BY <2>1 DEF TypeOK
  <2>4. FocusLives'
    BY <2>1, <2>2 DEF FocusLives, TypeOK
  <2> QED BY <1>0, <2>1, <2>2, <2>3, <2>4 DEF FocusIsConfigured
<1>5. ASSUME NEW u \in Toplevel, Acks(u)
      PROVE  FocusLives' /\ FocusIsConfigured'
  <2>1. /\ \A t \in Toplevel \ {u} : Stays(t)
        /\ u \notin Misbehaving => \E i \in 1 .. Len(pendingConfigures[u]) : TakesUp(u, i)
        /\ UNCHANGED <<life, focus>>
    BY <1>5 DEF Acks, Stays, TakesUp, TypeOK
  <2>2. \A t \in Toplevel \ Misbehaving : LastSent(t)' = LastSent(t)
    BY <2>1, LastSentAfter
  <2> QED BY <1>0, <2>1, <2>2 DEF FocusIsConfigured, FocusLives
<1>6. ASSUME NEW new \in Toplevel \cup {NoToplevel}, SetFocus(new)
      PROVE  FocusLives' /\ FocusIsConfigured'
  <2>1. /\ focus' = new /\ new # focus /\ UNCHANGED <<life, lastAckedConfigure>>
        /\ new # NoToplevel => life[new] = "alive"
    BY <1>6 DEF SetFocus
  <2>2. FocusLives'
    BY <2>1 DEF FocusLives
  <2>3. ASSUME NEW t \in Toplevel \ Misbehaving, life[t] = "alive"
        PROVE  Has(LastSent(t)'.states, Activated) <=> new = t
    <3>1. CASE /\ t # new \/ Has(LastSent(t).states, Activated)
               /\ t # focus
               /\ pendingConfigures'[t] = pendingConfigures[t]
      <4>1. LastSent(t)' = LastSent(t)
        BY <2>1, <3>1 DEF LastSent
      <4> QED BY <1>0, <2>3, <3>1, <4>1
    <3>2. ASSUME NEW e \in Event, pendingConfigures'[t] = Append(pendingConfigures[t], e),
                 \/ t = new /\ Has(e.states, Activated)
                 \/ t # new /\ ~Has(e.states, Activated)
          PROVE  Has(LastSent(t)'.states, Activated) <=> new = t
      BY <3>2, LastSentAfter
    <3>3. \/ /\ t # new \/ Has(LastSent(t).states, Activated)
             /\ t # focus
             /\ pendingConfigures'[t] = pendingConfigures[t]
          \/ \E e \in Event :
               /\ pendingConfigures'[t] = Append(pendingConfigures[t], e)
               /\ \/ t = new /\ Has(e.states, Activated)
                  \/ t # new /\ ~Has(e.states, Activated)
      BY <1>6, FocusEvents
    <3> QED BY <3>1, <3>2, <3>3
  <2> QED BY <2>1, <2>2, <2>3 DEF FocusIsConfigured
<1> QED BY <1>1, <1>2, <1>3, <1>4, <1>5, <1>6, EventSteps

-----------------------------------------------------------------------------
(* Where an acknowledgement puts the item. *)

(* The last of some positions of a list.                                   *)
LEMMA LastExists ==
  ASSUME NEW n \in Nat, NEW M \in SUBSET (1 .. n), M # {}
  PROVE  \E i \in M : \A j \in M : j <= i
<1> DEFINE T == {k \in Nat : \A S \in SUBSET (1 .. k) : S = {} \/ \E i \in S : \A j \in S : j <= i}
<1>1. 0 \in T
  OBVIOUS
<1>2. ASSUME NEW k \in T
      PROVE  k + 1 \in T
  <2> SUFFICES ASSUME NEW S \in SUBSET (1 .. k + 1), S # {}
               PROVE  \E i \in S : \A j \in S : j <= i
    OBVIOUS
  <2>1. CASE k + 1 \in S
    <3>1. \A j \in S : j <= k + 1
      OBVIOUS
    <3> QED BY <2>1, <3>1
  <2>2. CASE k + 1 \notin S
    <3>1. S \in SUBSET (1 .. k)
      BY <2>2
    <3> QED BY <3>1
  <2> QED BY <2>1, <2>2
<1> HIDE DEF T
<1>3. T = Nat
  BY <1>1, <1>2, InductionOverSet DEF T
<1> QED BY <1>3 DEF T

(* The item stays unless a changed state is one of the two that move it,   *)
(* and then one of them has the last word.                                 *)
LEMMA PlacedFacts ==
  ASSUME NEW t, NEW changed \in Seq(Nat), NEW states
  PROVE  \/ /\ {Maximized, Fullscreen} \cap SeqRange(changed) = {}
            /\ Placed(t, changed, states) = position[t]
         \/ \E s \in {Maximized, Fullscreen} \cap SeqRange(changed) :
              Placed(t, changed, states) = PlaceOf(t, s, states)
<1> DEFINE moving == {i \in 1 .. Len(changed) : changed[i] \in {Maximized, Fullscreen}}
           last == CHOOSE i \in moving : \A j \in moving : j <= i
<1>1. Placed(t, changed, states) =
        IF moving = {} THEN position[t] ELSE PlaceOf(t, changed[last], states)
  BY DEF Placed
<1>2. CASE moving = {}
  BY <1>1, <1>2 DEF SeqRange
<1>3. CASE moving # {}
  <2>1. Len(changed) \in Nat
    BY LenProperties
  <2>2. \E i \in moving : \A j \in moving : j <= i
    BY <1>3, <2>1, LastExists
  <2>3. last \in moving
    BY <2>2
  <2> HIDE DEF last
  <2>4. changed[last] \in {Maximized, Fullscreen} \cap SeqRange(changed)
    BY <2>3 DEF SeqRange
  <2> QED BY <1>1, <1>3, <2>4
<1> QED BY <1>2, <1>3

(* The states an acknowledgement announces are those that changed: every   *)
(* one of them, no state that neither event names, and not the activation  *)
(* if both name it.                                                        *)
LEMMA AnnouncedFacts ==
  ASSUME NEW before, NEW after, Wellformed(before), Wellformed(after)
  PROVE  LET changed == SymmetricDifference(before, after) IN
         /\ changed \in Seq(Nat)
         /\ \A s : (Has(before, s) # Has(after, s)) => s \in SeqRange(changed)
         /\ \A s \in SeqRange(changed) : Has(before, s) \/ Has(after, s)
         /\ Activated \in SeqRange(changed) => (Has(before, Activated) # Has(after, Activated))
<1> DEFINE changed == SymmetricDifference(before, after)
<1>1. before \in Seq(State) /\ after \in Seq(State) /\ Distinct(before) /\ Distinct(after)
  BY DEF Wellformed, OneMode
<1>2. before \in Seq(Nat) /\ after \in Seq(Nat)
  BY <1>1, StateFacts, SeqMonotonic
<1>3. Differs(changed, before, after, SeqRange(before), SeqRange(after))
  BY <1>2, SymmetricDifferenceFacts
<1>4. Largest(Activated, before, after)
  <2>1. SeqRange(before) \subseteq State /\ SeqRange(after) \subseteq State
    BY <1>1, ElementOfSeq DEF SeqRange
  <2> QED BY <2>1, StateFacts DEF Largest
<1> HIDE DEF changed
<1>5. changed \in Seq(Nat)
  BY <1>3 DEF Differs
<1>6. ASSUME NEW s, Has(before, s) # Has(after, s)
      PROVE  s \in SeqRange(changed)
  BY <1>3, <1>6 DEF Differs, Has
<1>7. \A s \in SeqRange(changed) : Has(before, s) \/ Has(after, s)
  BY <1>3 DEF Differs, Has
<1>8. Activated \in SeqRange(changed) => (Has(before, Activated) # Has(after, Activated))
  BY <1>1, <1>3, <1>4, <1>7 DEF Differs, Has
<1> QED BY <1>5, <1>6, <1>7, <1>8 DEF changed

(* What an acknowledgement of a list leaves the item with. *)
LEMMA AckPlaces ==
  ASSUME NEW t \in Toplevel, NEW before, NEW after, Wellformed(before), Wellformed(after)
  PROVE  LET p == Placed(t, SymmetricDifference(before, after), after) IN
         /\ ~NonWindowed(after) =>
              p = windowedPosition[t] \/ (~NonWindowed(before) /\ p = position[t])
         /\ ~NonWindowed(before) /\ Has(after, Maximized) => p = "maximized"
         /\ ~NonWindowed(before) /\ Has(after, Fullscreen) => p = "fullscreen"
<1> DEFINE changed == SymmetricDifference(before, after)
           p == Placed(t, changed, after)
<1>1. /\ changed \in Seq(Nat)
      /\ \A s : (Has(before, s) # Has(after, s)) => s \in SeqRange(changed)
      /\ \A s \in SeqRange(changed) : Has(before, s) \/ Has(after, s)
  BY AnnouncedFacts
<1> HIDE DEF changed
<1>2. \/ /\ {Maximized, Fullscreen} \cap SeqRange(changed) = {}
         /\ p = position[t]
      \/ \E s \in {Maximized, Fullscreen} \cap SeqRange(changed) : p = PlaceOf(t, s, after)
  BY <1>1, PlacedFacts
<1> HIDE DEF p
<1>3. ASSUME ~NonWindowed(after)
      PROVE  p = windowedPosition[t] \/ (~NonWindowed(before) /\ p = position[t])
  <2>1. ~Has(after, Maximized) /\ ~Has(after, Fullscreen)
    BY <1>3 DEF NonWindowed
  <2>2. ASSUME NonWindowed(before)
        PROVE  {Maximized, Fullscreen} \cap SeqRange(changed) # {}
    BY <1>1, <2>1, <2>2 DEF NonWindowed
  <2> QED BY <1>2, <2>1, <2>2 DEF PlaceOf
<1>4. ~(Has(after, Maximized) /\ Has(after, Fullscreen))
  <2>1. after \in Seq(State) /\ OneMode(after)
    BY DEF Wellformed
  <2>2. \A s, r \in SeqRange(after) : s # Activated /\ r # Activated => s = r
    BY <2>1, OneModeOfRange
  <2> QED BY <2>2, StateFacts DEF Has
<1>5. ASSUME ~NonWindowed(before), NEW m \in {Maximized, Fullscreen}, Has(after, m)
      PROVE  p = PlaceOf(t, m, after)
  <2>1. ~Has(before, Maximized) /\ ~Has(before, Fullscreen)
    BY <1>5 DEF NonWindowed
  <2>2. m \in SeqRange(changed)
    BY <1>1, <1>5, <2>1
  <2>3. \A s \in {Maximized, Fullscreen} \cap SeqRange(changed) : s = m
    BY <1>1, <1>4, <1>5, <2>1
  <2> QED BY <1>2, <2>2, <2>3
<1>6. ~NonWindowed(before) /\ Has(after, Maximized) => p = "maximized"
  BY <1>5 DEF PlaceOf
<1>7. ~NonWindowed(before) /\ Has(after, Fullscreen) => p = "fullscreen"
  BY <1>5, StateFacts DEF PlaceOf
<1> QED BY <1>3, <1>6, <1>7 DEF p, changed

(* What a step does to the place of one item and to the one it goes back to:*)
(* a commit moves a windowed item only to its own place, or is noted.      *)
MovesHome(t) ==
  \/ position'[t] \in {position[t], "own"}
  \/ NonWindowed(lastAckedConfigure[t].states) \/ t \in resizedAway'

LEMMA PlaceSteps ==
  ASSUME TypeOK, [Next]_vars, NEW t \in Toplevel
  PROVE  /\ t \in resizedAway => t \in resizedAway'
         /\ \/ windowedPosition'[t] = windowedPosition[t]
            \/ Remembers(t) /\ windowedPosition'[t] = position[t]
         /\ \/ lastAckedConfigure'[t] = lastAckedConfigure[t] /\ MovesHome(t)
            \/ \E i \in 1 .. Len(pendingConfigures[t]) :
                 LET before == lastAckedConfigure[t].states
                     after  == pendingConfigures[t][i].states
                 IN  /\ lastAckedConfigure'[t] = pendingConfigures[t][i]
                     /\ position'[t] = Placed(t, SymmetricDifference(before, after), after)
<1> DEFINE Kept == /\ t \in resizedAway => t \in resizedAway'
                   /\ windowedPosition'[t] = windowedPosition[t]
                   /\ lastAckedConfigure'[t] = lastAckedConfigure[t]
                   /\ MovesHome(t)
<1>1. ASSUME NEW u \in Toplevel,
             \/ CreateToplevel(u) \/ DestroyToplevel(u) \/ Unset(u) \/ OutputChanged(u)
             \/ PointerRelease(u) \/ \E grab \in {"move", "resize"} : StartGrab(u, grab)
      PROVE  Kept
  BY <1>1 DEF CreateToplevel, DestroyToplevel, Unset, OutputChanged, PointerRelease, StartGrab,
              integrationVars, resizeVars, MovesHome
<1>2. ASSUME NEW u \in Toplevel, PointerMove(u) \/ \E size \in Size : Commit(u, size)
      PROVE  Kept
  <2>1. ASSUME PointerMove(u)
        PROVE  Kept
    BY <2>1 DEF PointerMove, TypeOK, resizeVars, MovesHome
  <2>2. ASSUME NEW size \in Size, Commit(u, size)
        PROVE  Kept
    <3>1. resizedAway' = resizedAway \cup
            {w \in {u} : grabberState[w] = "resize" /\ resizePosition[w] # "own"
                         /\ ~NonWindowed(lastAckedConfigure[u].states)}
      BY <2>2 DEF Commit
    <3>2. position'[t] = (IF t = u /\ grabberState[t] = "resize" THEN resizePosition[t] ELSE position[t])
      BY <2>2 DEF Commit, TypeOK
    <3>3. MovesHome(t)
      BY <3>1, <3>2 DEF MovesHome
    <3> QED BY <2>2, <3>1, <3>3 DEF Commit
  <2> QED BY <1>2, <2>1, <2>2
<1>3. ASSUME NEW new \in Toplevel \cup {NoToplevel}, SetFocus(new)
      PROVE  Kept
  BY <1>3 DEF SetFocus, integrationVars, resizeVars, MovesHome
<1>4. CASE UNCHANGED vars
  BY <1>4 DEF vars, resizeVars, MovesHome
<1>5. ASSUME NEW u \in Toplevel, SetMaximized(u) \/ SetFullscreen(u)
      PROVE  /\ lastAckedConfigure'[t] = lastAckedConfigure[t] /\ position'[t] = position[t]
             /\ resizedAway' = resizedAway
             /\ \/ windowedPosition'[t] = windowedPosition[t]
                \/ Remembers(t) /\ windowedPosition'[t] = position[t]
  <2>1. \E hook : Leave(u, hook)
    BY <1>5 DEF SetMaximized, SetFullscreen
  <2> QED BY <2>1 DEF Leave, TypeOK, resizeVars
<1>6. ASSUME NEW u \in Toplevel, Acknowledge(u)
      PROVE  /\ windowedPosition'[t] = windowedPosition[t] /\ resizedAway' = resizedAway
             /\ \/ lastAckedConfigure'[t] = lastAckedConfigure[t] /\ position'[t] = position[t]
                \/ \E i \in 1 .. Len(pendingConfigures[t]) :
                     LET before == lastAckedConfigure[t].states
                         after  == pendingConfigures[t][i].states
                     IN  /\ lastAckedConfigure'[t] = pendingConfigures[t][i]
                         /\ position'[t] = Placed(t, SymmetricDifference(before, after), after)
  <2>1. PICK n : AckConfigure(u, n)
    BY <1>6 DEF Acknowledge
  <2>2. windowedPosition'[t] = windowedPosition[t] /\ resizedAway' = resizedAway
    BY <2>1 DEF AckConfigure, resizeVars
  <2>3. CASE UNCHANGED <<lastAckedConfigure, position>>
    BY <2>2, <2>3
  <2>4. ASSUME NEW i \in Answers(pendingConfigures[u], n),
               lastAckedConfigure' = [lastAckedConfigure EXCEPT ![u] = pendingConfigures[u][i]],
               position' = [position EXCEPT
                 ![u] = Placed(u, SymmetricDifference(lastAckedConfigure[u].states, pendingConfigures[u][i].states),
                               pendingConfigures[u][i].states)]
        PROVE  \/ lastAckedConfigure'[t] = lastAckedConfigure[t] /\ position'[t] = position[t]
               \/ /\ i \in 1 .. Len(pendingConfigures[t])
                  /\ lastAckedConfigure'[t] = pendingConfigures[t][i]
                  /\ position'[t] = Placed(t, SymmetricDifference(lastAckedConfigure[t].states,
                                                                  pendingConfigures[t][i].states),
                                           pendingConfigures[t][i].states)
    BY <2>4 DEF Answers, TypeOK
  <2> QED BY <2>1, <2>2, <2>3, <2>4 DEF AckConfigure
<1>7. CASE Next
  BY <1>1, <1>2, <1>3, <1>5, <1>6, <1>7 DEF Next, MovesHome
<1> QED BY <1>4, <1>7

(* Every step leaves a windowed item in its own place.                     *)
LEMMA BackStep ==
  ASSUME TypeOK, ModesExclude, WindowedIsBack, [Next]_vars
  PROVE  WindowedIsBack'
<1> SUFFICES ASSUME NEW t \in Toplevel \ resizedAway'
             PROVE  /\ windowedPosition'[t] = "own"
                    /\ ~NonWindowed(lastAckedConfigure'[t].states) => position'[t] = "own"
  BY DEF WindowedIsBack, NonWindowed, Has, SeqRange
<1>1. /\ windowedPosition[t] = "own"
      /\ ~NonWindowed(lastAckedConfigure[t].states) => position[t] = "own"
  BY PlaceSteps DEF WindowedIsBack
<1>2. windowedPosition'[t] = "own"
  BY <1>1, PlaceSteps DEF Remembers
<1>3. CASE lastAckedConfigure'[t] = lastAckedConfigure[t] /\ MovesHome(t)
  BY <1>1, <1>2, <1>3 DEF MovesHome
<1>4. ASSUME NEW i \in 1 .. Len(pendingConfigures[t]),
             lastAckedConfigure'[t] = pendingConfigures[t][i],
             position'[t] = Placed(t, SymmetricDifference(lastAckedConfigure[t].states, pendingConfigures[t][i].states),
                                   pendingConfigures[t][i].states)
      PROVE  ~NonWindowed(lastAckedConfigure'[t].states) => position'[t] = "own"
  <2>1. Wellformed(lastAckedConfigure[t].states) /\ Wellformed(pendingConfigures[t][i].states)
    BY EventsWellformed DEF WellformedEvent
  <2> QED BY <1>1, <1>4, <2>1, AckPlaces
<1> QED BY <1>2, <1>3, <1>4, PlaceSteps

(* What is announced is what changed, whatever the step.                   *)
LEMMA Announces ==
  ASSUME TypeOK, ModesExclude, TypeOK', ModesExclude'
  PROVE  AnnouncedStep
<1>1. ASSUME NEW t \in Toplevel
      PROVE  /\ Wellformed(lastAckedConfigure[t].states)
             /\ Wellformed(lastAckedConfigure'[t].states)
  BY DEF TypeOK, ModesExclude, Wellformed, Event, OneMode, Distinct
<1> QED BY <1>1, AnnouncedFacts DEF AnnouncedStep, Changed

(* A windowed item that is told a mode goes to the corner of the mode.     *)
LEMMA PlacesFromWindowed ==
  ASSUME TypeOK, ModesExclude, [Next]_vars
  PROVE  PlacedStep
<1> SUFFICES ASSUME NEW t \in Toplevel, ~NonWindowed(lastAckedConfigure[t].states)
             PROVE  LET after == lastAckedConfigure'[t].states IN
                    /\ Has(after, Maximized)  => position'[t] = "maximized"
                    /\ Has(after, Fullscreen) => position'[t] = "fullscreen"
  BY DEF PlacedStep
<1>1. CASE lastAckedConfigure'[t] = lastAckedConfigure[t]
  BY <1>1 DEF NonWindowed
<1>2. ASSUME NEW i \in 1 .. Len(pendingConfigures[t]),
             lastAckedConfigure'[t] = pendingConfigures[t][i],
             position'[t] = Placed(t, SymmetricDifference(lastAckedConfigure[t].states, pendingConfigures[t][i].states),
                                   pendingConfigures[t][i].states)
      PROVE  LET after == lastAckedConfigure'[t].states IN
             /\ Has(after, Maximized)  => position'[t] = "maximized"
             /\ Has(after, Fullscreen) => position'[t] = "fullscreen"
  <2>1. Wellformed(lastAckedConfigure[t].states) /\ Wellformed(pendingConfigures[t][i].states)
    BY EventsWellformed DEF WellformedEvent
  <2> QED BY <1>2, <2>1, AckPlaces
<1> QED BY <1>1, <1>2, PlaceSteps

-----------------------------------------------------------------------------
(* The protocol of configure and acknowledge. *)

(* The serials that wait for an acknowledgement, after each kind of step.  *)
LEMMA SerialsAfter ==
  ASSUME TypeOK, ModesExclude, SentInOrder, NEW t \in Toplevel
  PROVE  /\ pendingConfigures'[t] = pendingConfigures[t] => Serials(t)' = Serials(t)
         /\ \A e \in Event : pendingConfigures'[t] = Append(pendingConfigures[t], e)
              => Serials(t)' = Serials(t) \cup {e.serial}
         /\ \A i \in 1 .. Len(pendingConfigures[t]) :
              pendingConfigures'[t] = Rest(pendingConfigures[t], i)
                => Serials(t)' = {m \in Serials(t) : m > pendingConfigures[t][i].serial}
         /\ pendingConfigures'[t] = <<>> => Serials(t)' = {}
<1> DEFINE q == pendingConfigures[t]
<1>1. /\ q \in Seq(Event) /\ Len(q) \in Nat
      /\ \A i \in 1 .. Len(q) : q[i].serial \in Nat
      /\ \A i, j \in 1 .. Len(q) : i < j => q[i].serial < q[j].serial
  BY EventsWellformed DEF SentInOrder
<1>2. pendingConfigures'[t] = q => Serials(t)' = Serials(t)
  BY DEF Serials
<1>3. ASSUME NEW e \in Event, pendingConfigures'[t] = Append(q, e)
      PROVE  Serials(t)' = Serials(t) \cup {e.serial}
  <2> DEFINE w == Append(q, e)
  <2>1. /\ Len(w) = Len(q) + 1 /\ w[Len(w)] = e
        /\ \A i \in 1 .. Len(q) : w[i] = q[i]
        /\ \A i \in 1 .. Len(w) : i \in 1 .. Len(q) \/ i = Len(w)
    BY <1>1, Appended
  <2>2. Serials(t)' = {w[i].serial : i \in 1 .. Len(w)}
    BY <1>3 DEF Serials
  <2> HIDE DEF w
  <2>3. \A i \in 1 .. Len(q) : i \in 1 .. Len(w)
    BY <1>1, <2>1
  <2>4. Len(w) \in 1 .. Len(w)
    BY <1>1, <2>1
  <2> QED BY <2>1, <2>2, <2>3, <2>4 DEF Serials
<1>4. ASSUME NEW i \in 1 .. Len(q), pendingConfigures'[t] = Rest(q, i)
      PROVE  Serials(t)' = {m \in Serials(t) : m > q[i].serial}
  <2> DEFINE w == Rest(q, i)
  <2>1. /\ Len(w) = Len(q) - i
        /\ \A k \in 1 .. Len(w) : i + k \in 1 .. Len(q) /\ w[k] = q[i + k]
    BY <1>1, RestFacts
  <2>2. Serials(t)' = {w[k].serial : k \in 1 .. Len(w)}
    BY <1>4 DEF Serials
  <2> HIDE DEF w
  <2>3. ASSUME NEW k \in 1 .. Len(w)
        PROVE  w[k].serial \in Serials(t) /\ w[k].serial > q[i].serial
    <3>1. i + k \in 1 .. Len(q) /\ i < i + k /\ w[k] = q[i + k]
      BY <1>1, <2>1
    <3>2. q[i].serial < q[i + k].serial /\ q[i].serial \in Nat /\ q[i + k].serial \in Nat
      BY <1>1, <3>1
    <3> QED BY <3>1, <3>2 DEF Serials
  <2>4. ASSUME NEW j \in 1 .. Len(q), q[j].serial > q[i].serial
        PROVE  \E k \in 1 .. Len(w) : w[k].serial = q[j].serial
    <3>1. j > i
      <4>1. j < i => q[j].serial < q[i].serial
        BY <1>1
      <4>2. q[j].serial \in Nat /\ q[i].serial \in Nat
        BY <1>1
      <4> QED BY <2>4, <4>1, <4>2
    <3>2. j - i \in 1 .. Len(w) /\ i + (j - i) = j
      BY <1>1, <2>1, <3>1
    <3> QED BY <2>1, <3>2
  <2>5. Serials(t) = {q[j].serial : j \in 1 .. Len(q)}
    BY DEF Serials
  <2>6. Serials(t)' \subseteq {m \in Serials(t) : m > q[i].serial}
    BY <2>2, <2>3
  <2>7. ASSUME NEW m \in Serials(t), m > q[i].serial
        PROVE  m \in Serials(t)'
    <3>1. PICK j \in 1 .. Len(q) : m = q[j].serial
      BY <2>5
    <3>2. \E k \in 1 .. Len(w) : w[k].serial = m
      BY <2>4, <2>7, <3>1
    <3> QED BY <2>2, <3>2
  <2> QED BY <2>6, <2>7
<1>5. pendingConfigures'[t] = <<>> => Serials(t)' = {}
  <2>1. 1 .. Len(<<>>) = {}
    BY EmptySeq
  <2> QED BY <2>1 DEF Serials
<1> QED BY <1>2, <1>3, <1>4, <1>5

(* Events that some toplevels are sent, with serials of their own.         *)
LEMMA Configures ==
  ASSUME \A t \in Toplevel : /\ Serials(t) \subseteq Serials(t)'
                             /\ Serials(t)' \ Serials(t) \subseteq serial + 1 .. serial',
         \A t, u \in Toplevel :
           t # u => (Serials(t)' \ Serials(t)) \cap (Serials(u)' \ Serials(u)) = {},
         serial' >= serial, lastAckedConfigure' = lastAckedConfigure
  PROVE  Protocol!Configure
BY DEF Protocol!Configure

(* One event to one toplevel is a configuration.                           *)
LEMMA SendIsConfigure ==
  ASSUME TypeOK, ModesExclude, SentInOrder, NEW t \in Toplevel, NEW e \in Event, IsSent(t, e),
         \A u \in Toplevel \ {t} : Stays(u),
         lastAckedConfigure' = lastAckedConfigure, serial' >= serial
  PROVE  Protocol!Configure
<1>1. Serials(t)' = Serials(t) \cup {e.serial} /\ e.serial \in serial + 1 .. serial'
  BY SerialsAfter DEF IsSent
<1>2. \A u \in Toplevel \ {t} : Serials(u)' = Serials(u)
  BY SerialsAfter DEF Stays
<1>3. \A u \in Toplevel : Serials(u) \subseteq Serials(u)' /\ Serials(u)' \ Serials(u) \subseteq serial + 1 .. serial'
  BY <1>1, <1>2
<1>4. \A u, w \in Toplevel : u # w => (Serials(u)' \ Serials(u)) \cap (Serials(w)' \ Serials(w)) = {}
  BY <1>1, <1>2
<1> QED BY <1>3, <1>4, Configures

(* So are the two events of a change of focus, with serials of their own.  *)
LEMMA FocusIsConfigure ==
  ASSUME TypeOK, ModesExclude, SentInOrder, NEW new \in Toplevel \cup {NoToplevel}, SetFocus(new),
         serial' >= serial
  PROVE  Protocol!Configure
<1>1. /\ serial \in Nat /\ new # focus /\ NoToplevel \notin Toplevel
      /\ lastAckedConfigure' = lastAckedConfigure
  BY NoToplevelAssumption DEF TypeOK, SetFocus
<1>2. serial' \in Nat
  BY <1>1 DEF SetFocus
<1> DEFINE Fresh(t) == Serials(t)' \ Serials(t)
<1>3. ASSUME NEW t \in Toplevel
      PROVE  /\ Serials(t) \subseteq Serials(t)'
             /\ \/ Fresh(t) = {}
                \/ /\ t = new /\ Fresh(t) \subseteq {serial + 1} /\ serial + 1 <= serial'
                   /\ (focus # NoToplevel => serial' = serial + 2)
                \/ t = focus /\ Fresh(t) \subseteq {serial'} /\ serial' >= serial + 1
  <2>1. CASE pendingConfigures'[t] = pendingConfigures[t]
    BY <2>1, SerialsAfter
  <2>2. ASSUME NEW e \in Event, pendingConfigures'[t] = Append(pendingConfigures[t], e)
        PROVE  Serials(t)' = Serials(t) \cup {e.serial}
    BY <2>2, SerialsAfter
  <2>3. \/ pendingConfigures'[t] = pendingConfigures[t]
        \/ \E e \in Event :
             /\ pendingConfigures'[t] = Append(pendingConfigures[t], e)
             /\ \/ /\ t = new /\ e.serial = serial + 1 /\ serial + 1 <= serial'
                   /\ (focus # NoToplevel => serial' = serial + 2)
                \/ t = focus /\ e.serial = serial' /\ serial' >= serial + 1
    BY FocusEvents
  <2> QED BY <2>1, <2>2, <2>3
<1>4. \A t \in Toplevel : Fresh(t) \subseteq serial + 1 .. serial'
  BY <1>1, <1>2, <1>3
<1>5. \A t, u \in Toplevel : t # u => Fresh(t) \cap Fresh(u) = {}
  BY <1>1, <1>2, <1>3
<1> QED BY <1>1, <1>3, <1>4, <1>5, Configures

(* An acknowledgement is one of the protocol, or loses what was sent.      *)
LEMMA AckIsAcknowledge ==
  ASSUME TypeOK, ModesExclude, SentInOrder, NEW t \in Toplevel, Acks(t)
  PROVE  Protocol!Next
<1>1. ASSUME NEW u \in Toplevel \ {t}
      PROVE  Serials(u)' = Serials(u)
  <2>1. pendingConfigures'[u] = pendingConfigures[u]
    BY DEF Acks, TypeOK
  <2> QED BY <2>1, SerialsAfter
<1>2. ASSUME NEW i \in 1 .. Len(pendingConfigures[t]),
             pendingConfigures' = [pendingConfigures EXCEPT ![t] = Rest(@, i)],
             lastAckedConfigure' = [lastAckedConfigure EXCEPT ![t] = pendingConfigures[t][i]]
      PROVE  Protocol!Next
  <2>1. PICK n \in Serials(t) : n = pendingConfigures[t][i].serial
    BY DEF Serials
  <2>2. Serials(t)' = {m \in Serials(t) : m > n}
    BY <1>2, <2>1, SerialsAfter DEF TypeOK
  <2>3. lastAckedConfigure'[t].serial = n /\ \A u \in Toplevel \ {t} : lastAckedConfigure'[u] = lastAckedConfigure[u]
    BY <1>2, <2>1 DEF TypeOK
  <2>4. Protocol!Acknowledge(t, n)
    BY <1>1, <2>1, <2>2, <2>3 DEF Protocol!Acknowledge, Acks
  <2>5. n \in [u \in Toplevel |-> Serials(u)][t]
    BY <2>1
  <2> QED BY <2>4, <2>5 DEF Protocol!Next
<1>3. ASSUME pendingConfigures' = [pendingConfigures EXCEPT ![t] = <<>>],
             lastAckedConfigure' = lastAckedConfigure
      PROVE  Protocol!Next
  <2>1. Serials(t)' = {}
    BY <1>3, SerialsAfter DEF TypeOK
  <2>2. Protocol!Forget(t)
    BY <1>1, <1>3, <2>1 DEF Protocol!Forget, Acks
  <2> QED BY <2>2 DEF Protocol!Next
<1> QED BY <1>2, <1>3 DEF Acks

(* Every step is one of the protocol, or leaves what it is about alone.    *)
LEMMA ProtocolStep ==
  ASSUME TypeOK, ModesExclude, SentInOrder, [Next]_vars
  PROVE  Protocol!Next \/ UNCHANGED eventVars
<1>0. serial' >= serial
  BY SerialGrows
<1>1. ASSUME NEW t \in Toplevel, CreateToplevel(t)
      PROVE  Protocol!Next
  <2>1. "free" \in Size /\ lastAckedConfigure' = lastAckedConfigure
    BY <1>1 DEF Size, CreateToplevel
  <2>2. /\ \E e \in Event : IsSent(t, e)
        /\ \A u \in Toplevel \ {t} : Stays(u)
    BY <1>1, <2>1, SendsEvent, EmptyFacts DEF CreateToplevel
  <2> QED BY <1>0, <2>1, <2>2, SendIsConfigure DEF Protocol!Next
<1>2. ASSUME NEW t \in Toplevel, SendsMode(t)
      PROVE  Protocol!Next
  <2>1. PICK size \in Size, states \in ModesOf(LastSent(t).states) : SendConfigure(t, states, size)
    BY <1>2 DEF SendsMode
  <2>2. Wellformed(states) /\ lastAckedConfigure' = lastAckedConfigure
    BY <1>2, EventsWellformed, ModesFacts DEF WellformedEvent, SendsMode
  <2>3. /\ \E e \in Event : IsSent(t, e)
        /\ \A u \in Toplevel \ {t} : Stays(u)
    BY <2>1, <2>2, SendsEvent
  <2> QED BY <1>0, <2>2, <2>3, SendIsConfigure DEF Protocol!Next
<1>3. ASSUME NEW t \in Toplevel, DestroyToplevel(t)
      PROVE  Protocol!Next
  <2>1. /\ pendingConfigures'[t] = <<>> /\ serial' = serial /\ lastAckedConfigure' = lastAckedConfigure
        /\ \A u \in Toplevel \ {t} : pendingConfigures'[u] = pendingConfigures[u]
    BY <1>3 DEF DestroyToplevel, TypeOK
  <2>2. Serials(t)' = {} /\ \A u \in Toplevel \ {t} : Serials(u)' = Serials(u)
    BY <2>1, SerialsAfter
  <2>3. Protocol!Forget(t)
    BY <2>1, <2>2 DEF Protocol!Forget
  <2> QED BY <2>3 DEF Protocol!Next
<1>4. ASSUME NEW t \in Toplevel, Acks(t)
      PROVE  Protocol!Next
  BY <1>4, AckIsAcknowledge
<1>5. ASSUME NEW new \in Toplevel \cup {NoToplevel}, SetFocus(new)
      PROVE  Protocol!Next
  BY <1>0, <1>5, FocusIsConfigure DEF Protocol!Next
<1> QED BY <1>1, <1>2, <1>3, <1>4, <1>5, EventSteps

-----------------------------------------------------------------------------
(* What holds of every behaviour. *)

(* And the places of the items.                                            *)
XdgInv == EventsInv /\ WindowedIsBack

(* The invariant holds at the start, after every step, and so always.      *)
LEMMA XdgStart == Init => XdgInv
<1> SUFFICES ASSUME Init
             PROVE  XdgInv
  OBVIOUS
<1>1. /\ <<>> \in Seq(Event) /\ Len(<<>>) = 0 /\ 1 .. Len(<<>>) = {}
      /\ Wellformed(<<>>) /\ ~Has(<<>>, Activated) /\ ~NonWindowed(<<>>)
  BY EmptySeq, EmptyFacts
<1>2. NoEvent \in Event /\ NoEvent.states = <<>>
  BY <1>1 DEF NoEvent, Event, Size, Wellformed
<1>3. TypeOK
  BY <1>1, <1>2 DEF Init, TypeOK, Size, Place
<1>4. \A t \in Toplevel : /\ pendingConfigures[t] = <<>> /\ lastAckedConfigure[t] = NoEvent
                          /\ life[t] = "none" /\ windowedPosition[t] = "own" /\ position[t] = "own"
  BY DEF Init
<1>5. ModesExclude
  BY <1>1, <1>2, <1>4 DEF ModesExclude, Wellformed
<1>6. FocusLives /\ FocusIsConfigured
  BY <1>4 DEF Init, FocusLives, FocusIsConfigured
<1>7. SentInOrder
  BY <1>1, <1>4 DEF SentInOrder
<1>8. WindowedIsBack
  BY <1>1, <1>2, <1>4 DEF WindowedIsBack
<1> QED BY <1>3, <1>5, <1>6, <1>7, <1>8 DEF XdgInv, EventsInv

LEMMA XdgStep == XdgInv /\ [Next]_vars => XdgInv'
BY TypeStep, ModesStep, FocusStep, OrderStep, BackStep DEF XdgInv, EventsInv

LEMMA XdgHolds == Safety => []XdgInv
BY XdgStart, XdgStep, PTL DEF Safety

(* Every variable keeps its type, although lists of states are built from  *)
(* whatever was sent last and acknowledged in any order.                   *)
THEOREM TypeCorrect == Safety => []TypeOK
<1>1. XdgInv => TypeOK
  BY DEF XdgInv, EventsInv
<1> QED BY <1>1, XdgHolds, PTL

(* No event, sent or acknowledged, names two of the three modes or a state *)
(* twice.                                                                  *)
THEOREM OneModeAtATime == Safety => []ModesExclude
<1>1. XdgInv => ModesExclude
  BY DEF XdgInv, EventsInv
<1> QED BY <1>1, XdgHolds, PTL

(* The last event a well-behaved client was sent says whether its window   *)
(* has the keyboard focus, whatever other events are on their way.         *)
THEOREM FocusIsTold == Safety => []FocusIsConfigured
<1>1. XdgInv => FocusIsConfigured
  BY DEF XdgInv, EventsInv
<1> QED BY <1>1, XdgHolds, PTL

(* A window that has acknowledged neither maximized nor fullscreen is where*)
(* the user put it, unless a commit in a resize, begun while its item was  *)
(* at the corner of a maximized or fullscreen window, took it back there.  *)
THEOREM BackWhereItWas == Safety => []WindowedIsBack
<1>1. XdgInv => WindowedIsBack
  BY DEF XdgInv
<1> QED BY <1>1, XdgHolds, PTL

(* Every changed state is announced, and the activation only if it changed,*)
(* although the lists that are compared are not sorted.                    *)
THEOREM AnnouncesChanges == Safety => ChangesAnnounced
<1>1. XdgInv /\ XdgInv' /\ [Next]_vars => [AnnouncedStep]_vars
  BY Announces DEF XdgInv, EventsInv
<1> QED BY <1>1, XdgHolds, PTL DEF Safety, ChangesAnnounced

(* From windowed, maximized and fullscreen windows go to their own corner. *)
THEOREM PlacesWindows == Safety => PlacedFromWindowed
<1>1. XdgInv /\ [Next]_vars => [PlacedStep]_vars
  BY PlacesFromWindowed DEF XdgInv, EventsInv
<1> QED BY <1>1, XdgHolds, PTL DEF Safety, PlacedFromWindowed

(* Configure events and acknowledgements follow the protocol of shells:    *)
(* serials grow, and an acknowledgement gives up the older events only.    *)
THEOREM FollowsConfigureAck == Safety => ImplementsConfigureAck
<1>1. Init => Protocol!Init
  <2> SUFFICES ASSUME Init
               PROVE  Protocol!Init
    OBVIOUS
  <2>1. \A t \in Toplevel : pendingConfigures[t] = <<>> /\ lastAckedConfigure[t] = NoEvent
    BY DEF Init
  <2>2. \A t \in Toplevel : Serials(t) = {}
    <3>1. 1 .. Len(<<>>) = {}
      BY EmptySeq
    <3> QED BY <2>1, <3>1 DEF Serials
  <2> QED BY <2>1, <2>2 DEF Protocol!Init, Init, NoEvent
<1>2. XdgInv /\ [Next]_vars =>
        [Protocol!Next]_<<serial, [t \in Toplevel |-> Serials(t)],
                          [t \in Toplevel |-> lastAckedConfigure[t].serial]>>
  <2> SUFFICES ASSUME XdgInv, [Next]_vars, UNCHANGED eventVars
               PROVE  UNCHANGED <<serial, [t \in Toplevel |-> Serials(t)],
                                  [t \in Toplevel |-> lastAckedConfigure[t].serial]>>
    BY ProtocolStep DEF XdgInv, EventsInv
  <2> QED BY DEF eventVars, Serials
<1> QED BY <1>1, <1>2, XdgHolds, PTL DEF Safety, ImplementsConfigureAck, Protocol!Spec
=============================================================================
