----------------------------- MODULE ListProofs -----------------------------
(***************************************************************************)
(* What taking an element out of a list or a queue, or adding one, does.   *)
(***************************************************************************)
EXTENDS Lists, SequenceTheorems, TLAPS

(* What is left of a list is a list of the same kind.                       *)
LEMMA WithoutType ==
  ASSUME NEW S, NEW q \in Seq(S), NEW v
  PROVE  Without(q, v) \in Seq(S)
<1>1. CASE v \in SeqRange(q)
  <2> DEFINE i == Position(q, v)
  <2>1. i \in 1 .. Len(q)
    BY <1>1 DEF Position, SeqRange
  <2>2. SubSeq(q, 1, i - 1) \in Seq(S) /\ SubSeq(q, i + 1, Len(q)) \in Seq(S)
    BY <2>1, SubSeqProperties, LenProperties
  <2>3. Without(q, v) = SubSeq(q, 1, i - 1) \o SubSeq(q, i + 1, Len(q))
    BY <1>1 DEF Without
  <2> QED BY <2>2, <2>3, ConcatProperties
<1>2. CASE v \notin SeqRange(q)
  BY <1>2 DEF Without
<1> QED BY <1>1, <1>2

(* Without takes out the one occurrence of an element and nothing else.        *)
LEMMA WithoutFacts ==
  ASSUME NEW S, NEW q \in Seq(S), NEW v, Distinct(q)
  PROVE  /\ SeqRange(Without(q, v)) = SeqRange(q) \ {v}
         /\ Distinct(Without(q, v))
         /\ Len(Without(q, v)) = IF v \in SeqRange(q) THEN Len(q) - 1 ELSE Len(q)
<1>1. CASE v \in SeqRange(q)
  <2> DEFINE i == Position(q, v)
             l == SubSeq(q, 1, i - 1)
             r == SubSeq(q, i + 1, Len(q))
  <2>1. i \in 1 .. Len(q) /\ q[i] = v /\ Len(q) \in Nat
    BY <1>1, LenProperties DEF Position, SeqRange
  <2> HIDE DEF i
  <2>2. /\ l \in Seq(S) /\ Len(l) = i - 1
        /\ \A k \in 1 .. i - 1 : l[k] = q[k]
    BY <2>1, SubSeqProperties, LenProperties
  <2>3. /\ r \in Seq(S) /\ Len(r) = Len(q) - i
        /\ \A k \in 1 .. Len(q) - i : r[k] = q[k + i]
    BY <2>1, SubSeqProperties, LenProperties
  <2>4. Without(q, v) = l \o r
    BY <1>1 DEF Without, i
  <2> HIDE DEF l, r
  <2>5. /\ Len(l \o r) = Len(q) - 1
        /\ \A k \in 1 .. Len(q) - 1 : (l \o r)[k] = IF k < i THEN q[k] ELSE q[k + 1]
    <3>1. Len(l \o r) = Len(l) + Len(r)
      BY <2>2, <2>3, ConcatProperties
    <3>2. \A k \in 1 .. Len(q) - 1 : (l \o r)[k] = IF k <= Len(l) THEN l[k] ELSE r[k - Len(l)]
      BY <2>1, <2>2, <2>3, <3>1, ConcatProperties
    <3>3. ASSUME NEW k \in 1 .. Len(q) - 1
          PROVE  (l \o r)[k] = IF k < i THEN q[k] ELSE q[k + 1]
      <4>1. CASE k < i
        BY <2>1, <2>2, <3>2, <4>1
      <4>2. CASE ~(k < i)
        <5>0. k - (i - 1) \in 1 .. Len(q) - i /\ ~(k <= i - 1)
          BY <2>1, <3>3, <4>2
        <5>1. (l \o r)[k] = r[k - (i - 1)]
          BY <2>2, <3>2, <3>3, <5>0
        <5>2. r[k - (i - 1)] = q[(k - (i - 1)) + i]
          BY <2>3, <5>0
        <5>3. (k - (i - 1)) + i = k + 1
          BY <2>1, <3>3
        <5> QED BY <2>1, <3>3, <4>2, <5>1, <5>2, <5>3
      <4> QED BY <4>1, <4>2
    <3> QED BY <2>1, <2>2, <2>3, <3>1, <3>3
  <2> DEFINE w == l \o r
  <2> HIDE DEF w
  <2>6. /\ Len(w) = Len(q) - 1
        /\ \A k \in 1 .. Len(q) - 1 : w[k] = IF k < i THEN q[k] ELSE q[k + 1]
    BY <2>5 DEF w
  <2>7. Distinct(w)
    BY <2>1, <2>6 DEF Distinct
  <2>8. \A x \in SeqRange(w) : x \in SeqRange(q) \ {v}
    BY <2>1, <2>6 DEF Distinct, SeqRange
  <2>9. ASSUME NEW x \in SeqRange(q), x # v
        PROVE  x \in SeqRange(w)
    <3>1. PICK k \in 1 .. Len(q) : q[k] = x
      BY DEF SeqRange
    <3>2. k # i
      BY <2>1, <2>9, <3>1
    <3>3. CASE k < i
      BY <2>1, <2>6, <3>1, <3>3 DEF SeqRange
    <3>4. CASE k > i
      <4>1. k - 1 \in 1 .. Len(q) - 1 /\ w[k - 1] = q[k]
        BY <2>1, <2>6, <3>1, <3>4
      <4> QED BY <2>6, <3>1, <4>1 DEF SeqRange
    <3> QED BY <2>1, <3>1, <3>2, <3>3, <3>4
  <2> QED BY <1>1, <2>4, <2>6, <2>7, <2>8, <2>9 DEF w
<1>2. CASE v \notin SeqRange(q)
  BY <1>2 DEF Without
<1> QED BY <1>1, <1>2

(* An element is added at the end of a list it was not in, or at its head.     *)
LEMMA AppendFacts ==
  ASSUME NEW S, NEW q \in Seq(S), NEW v \in S, Distinct(q), v \notin SeqRange(q)
  PROVE  /\ SeqRange(Append(q, v)) = SeqRange(q) \cup {v}
         /\ Distinct(Append(q, v))
         /\ Len(Append(q, v)) = Len(q) + 1
<1>1. /\ Len(q) \in Nat
      /\ Len(Append(q, v)) = Len(q) + 1
      /\ \A k \in 1 .. Len(q) : Append(q, v)[k] = q[k]
      /\ Append(q, v)[Len(q) + 1] = v
  BY AppendProperties, LenProperties
<1> DEFINE w == Append(q, v)
<1> HIDE DEF w
<1>2. /\ Len(w) = Len(q) + 1
      /\ \A k \in 1 .. Len(q) : w[k] = q[k]
      /\ w[Len(q) + 1] = v
  BY <1>1 DEF w
<1>3. Distinct(w) /\ SeqRange(w) = SeqRange(q) \cup {v}
  BY <1>1, <1>2 DEF Distinct, SeqRange
<1> QED BY <1>1, <1>3 DEF w

(* An element put at the head of a list joins what is in it.               *)
LEMMA PrependRange ==
  ASSUME NEW S, NEW q \in Seq(S), NEW v \in S
  PROVE  <<v>> \o q \in Seq(S) /\ SeqRange(<<v>> \o q) = SeqRange(q) \cup {v}
<1> DEFINE w == <<v>> \o q
<1>1. /\ Len(q) \in Nat
      /\ w \in Seq(S)
      /\ Len(w) = Len(q) + 1
      /\ w[1] = v
      /\ \A k \in 2 .. Len(q) + 1 : w[k] = q[k - 1]
  BY ConcatProperties, LenProperties
<1> HIDE DEF w
<1>2. \A k \in 1 .. Len(w) : k = 1 \/ (k \in 2 .. Len(q) + 1 /\ k - 1 \in 1 .. Len(q))
  BY <1>1
<1>3. SeqRange(w) \subseteq SeqRange(q) \cup {v}
  BY <1>1, <1>2 DEF SeqRange
<1>4. ASSUME NEW k \in 1 .. Len(q)
      PROVE  q[k] \in SeqRange(w)
  <2>1. k + 1 \in 1 .. Len(w) /\ k + 1 \in 2 .. Len(q) + 1 /\ k + 1 - 1 = k
    BY <1>1
  <2>2. w[k + 1] = q[k]
    BY <1>1, <2>1
  <2> QED BY <2>1, <2>2 DEF SeqRange
<1>5. v \in SeqRange(w)
  <2>1. 1 \in 1 .. Len(w)
    BY <1>1
  <2> QED BY <1>1, <2>1 DEF SeqRange
<1>6. SeqRange(w) = SeqRange(q) \cup {v}
  BY <1>3, <1>4, <1>5 DEF SeqRange
<1> QED BY <1>1, <1>6 DEF w

LEMMA PrependFacts ==
  ASSUME NEW S, NEW q \in Seq(S), NEW v \in S, Distinct(q), v \notin SeqRange(q)
  PROVE  /\ SeqRange(<<v>> \o q) = SeqRange(q) \cup {v}
         /\ Distinct(<<v>> \o q)
         /\ Len(<<v>> \o q) = Len(q) + 1
<1> DEFINE w == <<v>> \o q
<1>1. /\ Len(q) \in Nat
      /\ Len(w) = Len(q) + 1
      /\ w[1] = v
      /\ \A k \in 2 .. Len(q) + 1 : w[k] = q[k - 1]
  BY ConcatProperties, LenProperties
<1> HIDE DEF w
<1>2. Distinct(w)
  <2>1. ASSUME NEW i \in 1 .. Len(w), NEW j \in 1 .. Len(w), w[i] = w[j], i < j
        PROVE  FALSE
    <3>1. j - 1 \in 1 .. Len(q) /\ w[j] = q[j - 1]
      BY <1>1, <2>1
    <3>2. CASE i = 1
      BY <1>1, <2>1, <3>1, <3>2 DEF SeqRange
    <3>3. CASE i # 1
      <4>1. i - 1 \in 1 .. Len(q) /\ w[i] = q[i - 1]
        BY <1>1, <2>1, <3>3
      <4> QED BY <1>1, <2>1, <3>1, <4>1 DEF Distinct
    <3> QED BY <3>2, <3>3
  <2> QED BY <1>1, <2>1 DEF Distinct
<1>3. SeqRange(w) = SeqRange(q) \cup {v}
  BY PrependRange DEF w
<1> QED BY <1>1, <1>2, <1>3 DEF w

(* The first element of a queue is taken out and nothing else.             *)
LEMMA TailFacts ==
  ASSUME NEW S, NEW q \in Seq(S), q # <<>>
  PROVE  /\ Head(q) \in S /\ Tail(q) \in Seq(S)
         /\ SeqRange(q) = SeqRange(Tail(q)) \cup {Head(q)}
         /\ Distinct(q) => Distinct(Tail(q)) /\ Head(q) \notin SeqRange(Tail(q))
<1>1. /\ Len(q) \in Nat /\ Len(q) >= 1 /\ Head(q) = q[1] /\ Head(q) \in S
      /\ Tail(q) \in Seq(S) /\ Len(Tail(q)) = Len(q) - 1
      /\ \A i \in 1 .. Len(q) - 1 : Tail(q)[i] = q[i + 1]
  BY HeadTailProperties, EmptySeq, LenProperties
<1>2. SeqRange(q) = SeqRange(Tail(q)) \cup {Head(q)}
  <2>1. ASSUME NEW i \in 1 .. Len(q)
        PROVE  q[i] \in SeqRange(Tail(q)) \cup {Head(q)}
    <3>1. CASE i = 1
      BY <1>1, <3>1
    <3>2. CASE i # 1
      <4>1. i - 1 \in 1 .. Len(q) - 1 /\ Tail(q)[i - 1] = q[i]
        BY <1>1, <2>1, <3>2
      <4> QED BY <1>1, <4>1 DEF SeqRange
    <3> QED BY <3>1, <3>2
  <2>2. \A i \in 1 .. Len(Tail(q)) : Tail(q)[i] \in SeqRange(q)
    BY <1>1 DEF SeqRange
  <2>3. Head(q) \in SeqRange(q)
    BY <1>1 DEF SeqRange
  <2> QED BY <2>1, <2>2, <2>3 DEF SeqRange
<1>3. ASSUME Distinct(q)
      PROVE  Distinct(Tail(q)) /\ Head(q) \notin SeqRange(Tail(q))
  <2>1. Distinct(Tail(q))
    BY <1>1, <1>3 DEF Distinct
  <2>2. Head(q) \notin SeqRange(Tail(q))
    BY <1>1, <1>3 DEF Distinct, SeqRange
  <2> QED BY <2>1, <2>2
<1> QED BY <1>1, <1>2, <1>3

(* An element put at the end of a queue joins what is in it.               *)
LEMMA AppendRange ==
  ASSUME NEW S, NEW q \in Seq(S), NEW v \in S
  PROVE  Append(q, v) \in Seq(S) /\ SeqRange(Append(q, v)) = SeqRange(q) \cup {v}
<1>1. /\ Len(q) \in Nat /\ Append(q, v) \in Seq(S) /\ Len(Append(q, v)) = Len(q) + 1
      /\ \A k \in 1 .. Len(q) : Append(q, v)[k] = q[k]
      /\ Append(q, v)[Len(q) + 1] = v
  BY AppendProperties, LenProperties
<1>2. \A k \in 1 .. Len(q) + 1 : k = Len(q) + 1 \/ k \in 1 .. Len(q)
  BY <1>1
<1> QED BY <1>1, <1>2 DEF SeqRange
=============================================================================
