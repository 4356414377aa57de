--------------------------- MODULE SequenceLemmas ---------------------------
(***************************************************************************)
(* What the operators of SequencesExt return that the models use on queues *)
(* and lists: sequences with an element inserted or removed, and sequences *)
(* of sequences made one.                                                  *)
(***************************************************************************)
EXTENDS SequencesExt, SequenceTheorems, WellFoundedInduction, TLAPS

\* An element is inserted: those behind it move up.
LEMMA InsertFacts ==
  ASSUME NEW S, NEW q \in Seq(S), NEW e \in S, NEW i \in 1..(Len(q) + 1),
         NEW r, r = InsertAt(q, i, e)
  PROVE  /\ r \in Seq(S) /\ Len(r) = Len(q) + 1
         /\ r[i] = e
         /\ \A j \in 1..(i - 1) : r[j] = q[j]
         /\ \A j \in i..Len(q) : r[j + 1] = q[j]
<1> DEFINE before == SubSeq(q, 1, i - 1)
           after == SubSeq(q, i, Len(q))
           front == before \o <<e>>
<1>0. Len(q) \in Nat /\ i \in Nat /\ 1 <= i /\ i <= Len(q) + 1
  OBVIOUS
<1>1. /\ before \in Seq(S) /\ Len(before) = i - 1
      /\ \A j \in 1..(i - 1) : before[j] = q[j]
  BY SubSeqProperties, \A j \in 1..(i - 1) : q[j] \in S
<1>2. /\ after \in Seq(S) /\ Len(after) = Len(q) - i + 1
      /\ \A j \in 1..(Len(q) - i + 1) : after[j] = q[i + j - 1]
  BY SubSeqProperties, \A j \in i..Len(q) : q[j] \in S
<1>3. <<e>> \in Seq(S) /\ Len(<<e>>) = 1 /\ <<e>>[1] = e
  OBVIOUS
<1> HIDE DEF before, after
<1>4. /\ front \in Seq(S) /\ Len(front) = i
      /\ \A j \in 1..i : front[j] = IF j < i THEN q[j] ELSE e
  BY <1>1, <1>3, ConcatProperties
<1> HIDE DEF front
<1>5. /\ front \o after \in Seq(S) /\ Len(front \o after) = Len(q) + 1
      /\ \A j \in 1..(Len(q) + 1) :
           (front \o after)[j] = IF j <= i THEN front[j] ELSE after[j - i]
  <2>1. /\ front \o after \in Seq(S)
        /\ Len(front \o after) = Len(front) + Len(after)
        /\ \A j \in 1..(Len(front) + Len(after)) :
             (front \o after)[j] =
               IF j <= Len(front) THEN front[j] ELSE after[j - Len(front)]
    BY <1>2, <1>4, ConcatProperties
  <2>2. Len(front) + Len(after) = Len(q) + 1
    BY <1>0, <1>2, <1>4
  <2>3. QED
    BY <1>4, <2>1, <2>2
<1>6. InsertAt(q, i, e) = front \o after
  BY DEF InsertAt, front, before, after
<1>7. ASSUME NEW j \in i..Len(q)
      PROVE  (front \o after)[j + 1] = q[j]
  <2>1. (j + 1) - i \in 1..(Len(q) - i + 1) /\ i + ((j + 1) - i) - 1 = j
    BY <1>0
  <2>2. (front \o after)[j + 1] = after[(j + 1) - i]
    BY <1>0, <1>5
  <2>3. after[(j + 1) - i] = q[i + ((j + 1) - i) - 1]
    BY <1>2, <2>1
  <2>4. QED
    BY <1>0, <2>1, <2>2, <2>3
<1>8. QED
  BY <1>0, <1>4, <1>5, <1>6, <1>7

\* One is removed: those behind it move down.
LEMMA RemoveAtFacts ==
  ASSUME NEW S, NEW q \in Seq(S), NEW i \in 1..Len(q), NEW r, r = RemoveAt(q, i)
  PROVE  /\ r \in Seq(S) /\ Len(r) = Len(q) - 1
         /\ \A j \in 1..(i - 1) : r[j] = q[j]
         /\ \A j \in i..(Len(q) - 1) : r[j] = q[j + 1]
<1> DEFINE before == SubSeq(q, 1, i - 1)
           after == SubSeq(q, i + 1, Len(q))
<1>1. /\ Len(q) \in Nat /\ i \in Int /\ i - 1 \in Int /\ i + 1 \in Int
      /\ 1 <= i /\ i <= Len(q)
  OBVIOUS
<1>2. /\ before \in Seq(S) /\ Len(before) = i - 1
      /\ \A j \in 1..(i - 1) : before[j] = q[j]
  <2>1. \A j \in 1..(i - 1) : q[j] \in S
    BY <1>1
  <2>2. /\ before \in Seq(S)
        /\ Len(before) = IF 1 <= i - 1 THEN (i - 1) - 1 + 1 ELSE 0
        /\ \A j \in 1..((i - 1) - 1 + 1) : before[j] = q[1 + j - 1]
    BY <1>1, <2>1, SubSeqProperties
  <2>3. QED
    BY <1>1, <2>2
<1>3. /\ after \in Seq(S) /\ Len(after) = Len(q) - i
      /\ \A j \in 1..(Len(q) - i) : after[j] = q[i + j]
  <2>1. \A j \in (i + 1)..Len(q) : q[j] \in S
    BY <1>1
  <2>2. /\ after \in Seq(S)
        /\ Len(after) = IF i + 1 <= Len(q) THEN Len(q) - (i + 1) + 1 ELSE 0
        /\ \A j \in 1..(Len(q) - (i + 1) + 1) : after[j] = q[(i + 1) + j - 1]
    BY <1>1, <2>1, SubSeqProperties
  <2>3. QED
    BY <1>1, <2>2
<1>4. r = before \o after
  BY DEF RemoveAt
<1> HIDE DEF before, after
<1>5. /\ r \in Seq(S) /\ Len(r) = Len(before) + Len(after)
      /\ \A j \in 1..(Len(before) + Len(after)) :
           r[j] = IF j <= Len(before) THEN before[j] ELSE after[j - Len(before)]
  BY <1>2, <1>3, <1>4, ConcatProperties
<1>6. ASSUME NEW j \in 1..(i - 1) PROVE r[j] = q[j]
  <2>1. j \in 1..(Len(before) + Len(after)) /\ j <= Len(before)
    BY <1>1, <1>2, <1>3
  <2>2. QED
    BY <1>2, <1>5, <2>1
<1>7. ASSUME NEW j \in i..(Len(q) - 1) PROVE r[j] = q[j + 1]
  <2>1. /\ j \in 1..(Len(before) + Len(after)) /\ ~(j <= Len(before))
        /\ j - Len(before) = j - i + 1 /\ j - i + 1 \in 1..(Len(q) - i)
    BY <1>1, <1>2, <1>3
  <2>2. r[j] = after[j - i + 1] /\ after[j - i + 1] = q[i + (j - i + 1)]
    BY <1>3, <1>5, <2>1
  <2>3. i + (j - i + 1) = j + 1
    BY <1>1
  <2>4. QED
    BY <2>2, <2>3
<1>8. QED
  BY <1>1, <1>2, <1>3, <1>5, <1>6, <1>7

\* Without its first element a sequence is its tail.
LEMMA FirstRemoved ==
  ASSUME NEW S, NEW q \in Seq(S), q # <<>>
  PROVE  RemoveAt(q, 1) = Tail(q)
<1>1. Len(q) \in Nat \ {0} /\ 1 \in 1..Len(q)
  <2>1. Len(q) \in Nat /\ Len(q) # 0
    BY EmptySeq
  <2>2. QED
    BY <2>1
<1>2. ASSUME NEW t, t = Tail(q), NEW r, r = RemoveAt(q, 1)
      PROVE  r = t
  <2>1. t \in Seq(S) /\ Len(t) = Len(q) - 1 /\ \A j \in 1..(Len(q) - 1) : t[j] = q[j + 1]
    BY <1>1, <1>2, HeadTailProperties
  <2>2. r \in Seq(S) /\ Len(r) = Len(q) - 1 /\ \A j \in 1..(Len(q) - 1) : r[j] = q[j + 1]
    BY <1>1, <1>2, RemoveAtFacts
  <2>3. QED
    BY <2>1, <2>2, SeqEqual
<1>3. QED
  BY <1>2

-----------------------------------------------------------------------------
(***************************************************************************)
(* A backlog: some elements, in front of a queue.                          *)
(***************************************************************************)
LEMMA ConcatFacts ==
  ASSUME NEW S, NEW f \in Seq(S), NEW q \in Seq(S), NEW c, c = f \o q
  PROVE  /\ c \in Seq(S) /\ Len(c) = Len(f) + Len(q)
         /\ \A i \in 1..Len(f) : c[i] = f[i]
         /\ \A i \in 1..Len(q) : c[Len(f) + i] = q[i]
<1>1. Len(f) \in Nat /\ Len(q) \in Nat
  OBVIOUS
<1>2. /\ c \in Seq(S) /\ Len(c) = Len(f) + Len(q)
      /\ \A i \in 1..(Len(f) + Len(q)) :
           c[i] = IF i <= Len(f) THEN f[i] ELSE q[i - Len(f)]
  BY ConcatProperties
<1>3. ASSUME NEW i \in 1..Len(f) PROVE c[i] = f[i]
  BY <1>1, <1>2
<1>4. ASSUME NEW i \in 1..Len(q) PROVE c[Len(f) + i] = q[i]
  <2>1. /\ Len(f) + i \in 1..(Len(f) + Len(q)) /\ ~(Len(f) + i <= Len(f))
        /\ (Len(f) + i) - Len(f) = i
    BY <1>1
  <2>2. QED
    BY <1>2, <2>1
<1>5. QED
  BY <1>2, <1>3, <1>4

\* One element in front.
LEMMA OneAhead ==
  ASSUME NEW S, NEW q \in Seq(S), NEW c \in Seq(S),
         Len(c) = Len(q) + 1, \A i \in 1..Len(q) : c[i + 1] = q[i]
  PROVE  /\ c # <<>> /\ Head(c) = c[1] /\ Tail(c) = q
         /\ q = <<>> => Last(c) = c[1]
         /\ q # <<>> => Last(c) = Last(q)
<1>1. Len(q) \in Nat /\ Len(c) # 0
  OBVIOUS
<1>2. c # <<>> /\ Head(c) = c[1]
  BY <1>1
<1>3. Tail(c) = q
  <2> DEFINE t == Tail(c)
  <2>1. /\ t \in Seq(S) /\ Len(t) = Len(c) - 1
        /\ \A i \in 1..(Len(c) - 1) : t[i] = c[i + 1]
    BY <1>2, HeadTailProperties
  <2> HIDE DEF t
  <2>2. Len(t) = Len(q) /\ \A i \in 1..Len(t) : t[i] = q[i]
    BY <1>1, <2>1
  <2>3. t = q
    BY <2>1, <2>2, SeqEqual
  <2>4. QED
    BY <2>3 DEF t
<1>4. ASSUME q = <<>> PROVE Last(c) = c[1]
  <2>1. Len(q) = 0
    BY <1>4
  <2>2. QED
    BY <2>1 DEF Last
<1>5. ASSUME q # <<>> PROVE Last(c) = Last(q)
  <2>1. Len(q) \in 1..Len(q)
    BY <1>1, <1>5, EmptySeq
  <2>2. QED
    BY <2>1 DEF Last
<1>6. QED
  BY <1>2, <1>3, <1>4, <1>5

LEMMA OneConcat ==
  ASSUME NEW S, NEW x \in S, NEW q \in Seq(S), NEW c, c = <<x>> \o q
  PROVE  /\ c \in Seq(S) /\ Len(c) = Len(q) + 1
         /\ c[1] = x /\ \A i \in 1..Len(q) : c[i + 1] = q[i]
<1>1. PICK f : f = <<x>>
  OBVIOUS
<1>2. f \in Seq(S) /\ c = f \o q
  BY <1>1
<1>3. Len(f) = 1 /\ f[1] = x /\ Len(q) \in Nat
  BY <1>1
<1>4. /\ c \in Seq(S) /\ Len(c) = Len(f) + Len(q)
      /\ \A i \in 1..Len(f) : c[i] = f[i]
      /\ \A i \in 1..Len(q) : c[Len(f) + i] = q[i]
  BY <1>2, ConcatFacts
<1>5. \A i \in 1..Len(q) : i + 1 = 1 + i
  BY <1>3
<1>6. QED
  BY <1>3, <1>4, <1>5

\* The first element in front of the others.
LEMMA HeadBack ==
  ASSUME NEW S, NEW s \in Seq(S), s # <<>>
  PROVE  <<Head(s)>> \o Tail(s) = s
<1>1. Len(s) \in Nat /\ Len(s) # 0 /\ Head(s) \in S /\ s[1] = Head(s)
  BY EmptySeq
<1>2. ASSUME NEW t, t = Tail(s), NEW c, c = <<Head(s)>> \o t
      PROVE  c = s
  <2>1. t \in Seq(S) /\ Len(t) = Len(s) - 1 /\ \A i \in 1..(Len(s) - 1) : t[i] = s[i + 1]
    BY <1>1, <1>2, HeadTailProperties
  <2>2. /\ c \in Seq(S) /\ Len(c) = Len(t) + 1
        /\ c[1] = Head(s) /\ \A i \in 1..Len(t) : c[i + 1] = t[i]
    <3>1. Head(s) \in S /\ t \in Seq(S) /\ c = <<Head(s)>> \o t
      BY <1>1, <1>2, <2>1
    <3>2. QED
      BY <3>1, OneConcat
  <2>3. ASSUME NEW i \in 1..Len(c) PROVE c[i] = s[i]
    <3>1. CASE i = 1
      BY <1>1, <2>2, <3>1
    <3>2. CASE i # 1
      <4>1. i - 1 \in 1..Len(t) /\ i - 1 \in 1..(Len(s) - 1) /\ (i - 1) + 1 = i
        BY <1>1, <2>1, <2>2, <3>2
      <4>2. c[(i - 1) + 1] = t[i - 1] /\ t[i - 1] = s[(i - 1) + 1]
        BY <2>1, <2>2, <4>1
      <4>3. QED
        BY <4>1, <4>2
    <3>3. QED
      BY <3>1, <3>2
  <2>4. Len(c) = Len(s)
    BY <1>1, <2>1, <2>2
  <2>5. QED
    BY <2>2, <2>3, <2>4, SeqEqual
<1>3. QED
  BY <1>2

\* An element queued behind the others is at the end of the backlog.
LEMMA ConcatAppend ==
  ASSUME NEW S, NEW f \in Seq(S), NEW q \in Seq(S), NEW e \in S
  PROVE  f \o Append(q, e) = Append(f \o q, e)
<1>1. /\ Append(q, e) = q \o <<e>> /\ <<e>> \in Seq(S)
      /\ f \o q \in Seq(S)
  BY AppendIsConcat, ConcatProperties
<1>2. Append(f \o q, e) = (f \o q) \o <<e>>
  BY <1>1, AppendIsConcat
<1>3. f \o (q \o <<e>>) = (f \o q) \o <<e>>
  BY <1>1, ConcatAssociative
<1>4. QED
  BY <1>1, <1>2, <1>3

\* Without the oldest of the queue, the backlog is without the one at its place.
LEMMA ConcatRemoval ==
  ASSUME NEW S, NEW f \in Seq(S), NEW q \in Seq(S), q # <<>>
  PROVE  f \o Tail(q) = RemoveAt(f \o q, Len(f) + 1)
<1> DEFINE t == Tail(q)
           k == Len(f) + 1
<1>1. Len(q) \in Nat \ {0} /\ Len(f) \in Nat
  <2>1. Len(q) \in Nat /\ Len(q) # 0 /\ Len(f) \in Nat
    BY EmptySeq
  <2>2. QED
    BY <2>1
<1>2. /\ t \in Seq(S) /\ Len(t) = Len(q) - 1
      /\ \A i \in 1..(Len(q) - 1) : t[i] = q[i + 1]
  BY <1>1, HeadTailProperties
<1> HIDE DEF t
<1>3. ASSUME NEW b, b = f \o q, NEW c, c = f \o t, NEW r, r = RemoveAt(b, k)
      PROVE  c = r
  <2>0. /\ b \in Seq(S) /\ Len(b) = Len(f) + Len(q)
        /\ \A i \in 1..Len(f) : b[i] = f[i]
        /\ \A i \in 1..Len(q) : b[Len(f) + i] = q[i]
    BY <1>3, ConcatFacts
  <2>1. /\ c \in Seq(S) /\ Len(c) = Len(f) + Len(t)
        /\ \A i \in 1..Len(f) : c[i] = f[i]
        /\ \A i \in 1..Len(t) : c[Len(f) + i] = t[i]
    BY <1>2, <1>3, ConcatFacts
  <2>2. k \in 1..Len(b)
    BY <1>1, <2>0
  <2> HIDE DEF k
  <2>3. /\ r \in Seq(S) /\ Len(r) = Len(b) - 1
        /\ \A j \in 1..(k - 1) : r[j] = b[j]
        /\ \A j \in k..(Len(b) - 1) : r[j] = b[j + 1]
    <3>1. b \in Seq(S) /\ r = RemoveAt(b, k)
      BY <1>3, <2>0
    <3>2. QED
      BY <2>2, <3>1, RemoveAtFacts
  <2> USE DEF k
  <2>4. Len(c) = Len(r)
    BY <1>1, <1>2, <2>0, <2>1, <2>3
  <2>5. ASSUME NEW j \in 1..Len(c) PROVE c[j] = r[j]
    <3>1. CASE j <= Len(f)
      <4>1. j \in 1..Len(f) /\ j \in 1..(k - 1)
        BY <1>1, <3>1
      <4>2. QED
        BY <2>0, <2>1, <2>3, <4>1
    <3>2. CASE ~(j <= Len(f))
      <4>1. PICK i \in 1..Len(t) : j = Len(f) + i
        <5>1. j - Len(f) \in 1..Len(t) /\ j = Len(f) + (j - Len(f))
          BY <1>1, <1>2, <2>1, <3>2
        <5>2. QED
          BY <5>1
      <4>2. /\ i \in 1..(Len(q) - 1) /\ i + 1 \in 1..Len(q)
            /\ j \in k..(Len(b) - 1) /\ j + 1 = Len(f) + (i + 1)
        BY <1>1, <1>2, <2>0, <4>1
      <4>3. c[j] = t[i] /\ t[i] = q[i + 1]
        BY <1>2, <2>1, <4>1, <4>2
      <4>4. r[j] = b[j + 1]
        BY <2>3, <4>2
      <4>5. b[Len(f) + (i + 1)] = q[i + 1]
        BY <2>0, <4>2
      <4>6. QED
        BY <4>2, <4>3, <4>4, <4>5
    <3>3. QED
      BY <3>1, <3>2
  <2>6. QED
    BY <2>1, <2>3, <2>4, <2>5, SeqEqual
<1>4. QED
  BY <1>3 DEF t

\* Without the queue only what is in front remains.
LEMMA ConcatPrefix ==
  ASSUME NEW S, NEW f \in Seq(S), NEW q \in Seq(S), NEW b, b = f \o q
  PROVE  SubSeq(b, 1, Len(f)) = f
<1>1. /\ b \in Seq(S) /\ Len(b) = Len(f) + Len(q)
      /\ \A i \in 1..Len(f) : b[i] = f[i]
      /\ Len(f) \in Nat /\ Len(q) \in Nat
  BY ConcatFacts
<1>2. ASSUME NEW p, p = SubSeq(b, 1, Len(f)) PROVE p = f
  <2>1. \A i \in 1..Len(f) : b[i] \in S
    BY <1>1
  <2>2. /\ p \in Seq(S)
        /\ Len(p) = IF 1 <= Len(f) THEN Len(f) - 1 + 1 ELSE 0
        /\ \A i \in 1..(Len(f) - 1 + 1) : p[i] = b[1 + i - 1]
    BY <1>1, <1>2, <2>1, SubSeqProperties
  <2>3. Len(p) = Len(f)
    BY <1>1, <2>2
  <2>4. ASSUME NEW i \in 1..Len(p) PROVE p[i] = f[i]
    <3>1. i \in 1..(Len(f) - 1 + 1) /\ 1 + i - 1 = i /\ i \in 1..Len(f)
      BY <1>1, <2>3
    <3>2. QED
      BY <1>1, <2>2, <3>1
  <2>5. QED
    BY <2>2, <2>3, <2>4, SeqEqual
<1>3. QED
  BY <1>2

-----------------------------------------------------------------------------
(***************************************************************************)
(* Sequences of sequences.                                                 *)
(***************************************************************************)
\* A set that holds 0 and the successor of each of its numbers holds them all.
LEMMA SetInduction ==
  ASSUME NEW T, 0 \in T, \A n \in Nat : n \in T => n + 1 \in T
  PROVE  \A n \in Nat : n \in T
<1> DEFINE R == OpToRel(<, Nat)
           Missing == Nat \ T
<1>1. SUFFICES ASSUME Missing # {} PROVE FALSE
  OBVIOUS
<1>2. IsWellFoundedOn(R, Nat)
  BY NatLessThanWellFounded
<1>3. \A x, y \in Nat : x < y => <<x, y>> \in R
  BY DEF OpToRel
<1> HIDE DEF R
<1>4. Missing \subseteq Nat
  OBVIOUS
<1> HIDE DEF Missing
<1>5. PICK x \in Missing : \A y \in Missing : ~(<<y, x>> \in R)
  BY <1>1, <1>2, <1>4, WFMin
<1>6. x \in Nat /\ x \notin T
  BY DEF Missing
<1>7. x # 0
  BY <1>6
<1>8. x - 1 \in Nat /\ x - 1 < x /\ (x - 1) + 1 = x
  BY <1>6, <1>7
<1>9. x - 1 \in Missing
  BY <1>6, <1>8 DEF Missing
<1>10. <<x - 1, x>> \in R
  BY <1>3, <1>6, <1>8
<1>11. QED
  BY <1>5, <1>9, <1>10

\* The recursive function within FlattenSeq exists.
LEMMA FlattenExists ==
  ASSUME NEW seqs, NEW n \in Nat
  PROVE  \E f : f = [i \in 1..n |-> IF i = 1 THEN seqs[i] ELSE f[i - 1] \o seqs[i]]
<1> DEFINE Is(f, k) ==
             f = [i \in 1..k |-> IF i = 1 THEN seqs[i] ELSE f[i - 1] \o seqs[i]]
           T == { k \in Nat : \E f : Is(f, k) }
<1>1. 0 \in T
  <2>1. Is([i \in 1..0 |-> 0], 0)
    OBVIOUS
  <2>2. QED
    BY <2>1
<1>2. ASSUME NEW k \in Nat, k \in T
      PROVE  k + 1 \in T
  <2>1. PICK f : Is(f, k)
    BY <1>2
  <2> DEFINE g == [i \in 1..(k + 1) |-> IF i = 1 THEN seqs[i] ELSE f[i - 1] \o seqs[i]]
  <2>2. ASSUME NEW i \in 1..(k + 1), i # 1
        PROVE  g[i - 1] = f[i - 1]
    <3>1. i - 1 \in 1..k /\ i - 1 \in 1..(k + 1)
      BY <2>2
    <3>2. QED
      BY <2>1, <3>1
  <2>3. Is(g, k + 1)
    BY <2>2
  <2> HIDE DEF Is, g
  <2>4. \E h : Is(h, k + 1)
    BY <2>3, Zenon
  <2>5. QED
    BY <2>4
<1> HIDE DEF T
<1>3. n \in T
  BY <1>1, <1>2, SetInduction
<1>4. QED
  BY <1>3 DEF T

\* FlattenSeq is its last value.
LEMMA FlattenDef ==
  ASSUME NEW seqs, Len(seqs) \in Nat, Len(seqs) # 0
  PROVE  \E f : /\ f = [i \in 1..Len(seqs) |-> IF i = 1 THEN seqs[i] ELSE f[i - 1] \o seqs[i]]
                /\ FlattenSeq(seqs) = f[Len(seqs)]
<1> DEFINE f == CHOOSE f : f = [i \in 1..Len(seqs) |-> IF i = 1 THEN seqs[i] ELSE f[i - 1] \o seqs[i]]
<1>1. f = [i \in 1..Len(seqs) |-> IF i = 1 THEN seqs[i] ELSE f[i - 1] \o seqs[i]]
  BY FlattenExists
<1>2. FlattenSeq(seqs) = f[Len(seqs)]
  BY DEF FlattenSeq
<1>3. QED
  BY <1>1, <1>2

\* FlattenSeq concatenates from the left: f[k] is what the first k give.
LEMMA FlattenPrefixes ==
  ASSUME NEW S, NEW seqs \in Seq(Seq(S))
  PROVE  \E f \in [0..Len(seqs) -> Seq(S)] :
           /\ f[0] = <<>>
           /\ \A k \in 1..Len(seqs) : f[k] = f[k - 1] \o seqs[k]
           /\ f[Len(seqs)] = FlattenSeq(seqs)
<1>1. Len(seqs) \in Nat /\ \A k \in 1..Len(seqs) : seqs[k] \in Seq(S)
  OBVIOUS
<1>2. <<>> \in Seq(S)
  OBVIOUS
<1>3. CASE Len(seqs) = 0
  <2> DEFINE f == [k \in 0..Len(seqs) |-> <<>>]
  <2>1. FlattenSeq(seqs) = <<>>
    BY <1>3 DEF FlattenSeq
  <2>2. /\ f \in [0..Len(seqs) -> Seq(S)] /\ f[0] = <<>> /\ f[Len(seqs)] = <<>>
        /\ \A k \in 1..Len(seqs) : f[k] = f[k - 1] \o seqs[k]
    BY <1>2, <1>3
  <2>3. QED
    BY <2>1, <2>2
<1>4. CASE Len(seqs) # 0
  <2>1. PICK h :
          /\ h = [i \in 1..Len(seqs) |->
                    IF i = 1 THEN seqs[i] ELSE h[i - 1] \o seqs[i]]
          /\ FlattenSeq(seqs) = h[Len(seqs)]
    BY <1>1, <1>4, FlattenDef
  <2> DEFINE f == [k \in 0..Len(seqs) |-> IF k = 0 THEN <<>> ELSE h[k]]
  <2>2. ASSUME NEW k \in 1..Len(seqs)
        PROVE  f[k] = f[k - 1] \o seqs[k]
    <3>1. f[k] = h[k] /\ k \in Nat /\ k # 0 /\ seqs[k] \in Seq(S)
      BY <1>1
    <3>2. CASE k = 1
      <4>1. f[k - 1] = <<>> /\ h[k] = seqs[k]
        BY <1>1, <2>1, <3>2
      <4>2. QED
        BY <3>1, <4>1, ConcatEmptySeq
    <3>3. CASE k # 1
      <4>1. k - 1 \in 0..Len(seqs) /\ k - 1 # 0
        BY <1>1, <3>3
      <4>2. f[k - 1] = h[k - 1]
        BY <4>1
      <4>3. h[k] = h[k - 1] \o seqs[k]
        BY <2>1, <3>3
      <4>4. QED
        BY <3>1, <4>2, <4>3
    <3>4. QED
      BY <3>2, <3>3
  <2>3. f[0] = <<>> /\ f[Len(seqs)] = FlattenSeq(seqs) /\ DOMAIN f = 0..Len(seqs)
    BY <1>1, <1>4, <2>1
  <2>4. f = [k \in 0..Len(seqs) |-> f[k]]
    OBVIOUS
  <2> HIDE DEF f
  <2>5. ASSUME NEW k \in 0..Len(seqs)
        PROVE  f[k] \in Seq(S)
    <3> DEFINE T == { i \in Nat : i <= Len(seqs) => f[i] \in Seq(S) }
    <3>1. 0 \in T
      BY <1>2, <2>3
    <3>2. ASSUME NEW i \in Nat, i \in T
          PROVE  i + 1 \in T
      <4>1. CASE i + 1 <= Len(seqs)
        <5>1. i + 1 \in 1..Len(seqs) /\ (i + 1) - 1 = i /\ f[i] \in Seq(S)
          BY <1>1, <3>2, <4>1
        <5>2. f[i + 1] = f[i] \o seqs[i + 1] /\ seqs[i + 1] \in Seq(S)
          BY <1>1, <2>2, <5>1
        <5>3. f[i + 1] \in Seq(S)
          BY <5>1, <5>2, ConcatProperties
        <5>4. QED
          BY <5>3
      <4>2. QED
        BY <4>1
    <3> HIDE DEF T
    <3>3. \A i \in Nat : i \in T
      BY <3>1, <3>2, SetInduction
    <3>4. QED
      BY <1>1, <3>3 DEF T
  <2>6. QED
    BY <2>2, <2>3, <2>4, <2>5
<1>5. QED
  BY <1>3, <1>4

\* Some element of D has no element of U after it.
Stands(s, D, U) ==
  \E i \in 1..Len(s) : s[i] \in D /\ \A j \in (i + 1)..Len(s) : s[j] \notin U

\* What stands in a concatenation stands in the second part, or in the first
\* one, and then the second has no element of U.
LEMMA ConcatStands ==
  ASSUME NEW S, NEW a \in Seq(S), NEW b \in Seq(S), NEW c, c = a \o b,
         NEW D, NEW U, Stands(c, D, U)
  PROVE  \/ Stands(b, D, U)
         \/ Stands(a, D, U) /\ \A j \in 1..Len(b) : b[j] \notin U
<1>1. /\ Len(a) \in Nat /\ Len(b) \in Nat /\ Len(c) = Len(a) + Len(b)
      /\ \A i \in 1..Len(a) : c[i] = a[i]
      /\ \A i \in 1..Len(b) : c[Len(a) + i] = b[i]
  BY ConcatFacts
<1>2. PICK i \in 1..Len(c) : c[i] \in D /\ \A j \in (i + 1)..Len(c) : c[j] \notin U
  BY DEF Stands
<1>3. CASE i <= Len(a)
  <2>1. i \in 1..Len(a) /\ a[i] \in D
    BY <1>1, <1>2, <1>3
  <2>2. ASSUME NEW j \in (i + 1)..Len(a)
        PROVE  a[j] \notin U
    <3>1. j \in 1..Len(a) /\ j \in (i + 1)..Len(c)
      BY <1>1, <2>1
    <3>2. QED
      BY <1>1, <1>2, <3>1
  <2>3. ASSUME NEW j \in 1..Len(b)
        PROVE  b[j] \notin U
    <3>1. Len(a) + j \in (i + 1)..Len(c)
      BY <1>1, <1>3
    <3>2. QED
      BY <1>1, <1>2, <3>1
  <2>4. QED
    BY <2>1, <2>2, <2>3 DEF Stands
<1>4. CASE i > Len(a)
  <2>1. PICK k \in 1..Len(b) : i = Len(a) + k
    <3>1. i - Len(a) \in 1..Len(b) /\ i = Len(a) + (i - Len(a))
      BY <1>1, <1>2, <1>4
    <3>2. QED
      BY <3>1
  <2>2. b[k] \in D
    BY <1>1, <1>2, <2>1
  <2>3. ASSUME NEW j \in (k + 1)..Len(b)
        PROVE  b[j] \notin U
    <3>1. j \in 1..Len(b) /\ Len(a) + j \in (i + 1)..Len(c)
      BY <1>1, <2>1
    <3>2. QED
      BY <1>1, <1>2, <3>1
  <2>4. QED
    BY <2>2, <2>3 DEF Stands
<1>5. QED
  BY <1>1, <1>3, <1>4

\* What stands in a flattened sequence stands in one of its pieces, and no
\* piece after that has an element of U.
LEMMA FlattenStands ==
  ASSUME NEW S, NEW seqs \in Seq(Seq(S)), NEW D, NEW U,
         Stands(FlattenSeq(seqs), D, U)
  PROVE  \E i \in 1..Len(seqs) :
           /\ Stands(seqs[i], D, U)
           /\ \A j \in (i + 1)..Len(seqs) :
                \A k \in 1..Len(seqs[j]) : seqs[j][k] \notin U
<1>1. Len(seqs) \in Nat /\ \A k \in 1..Len(seqs) : seqs[k] \in Seq(S)
  OBVIOUS
<1>2. PICK f \in [0..Len(seqs) -> Seq(S)] :
        /\ f[0] = <<>>
        /\ \A k \in 1..Len(seqs) : f[k] = f[k - 1] \o seqs[k]
        /\ f[Len(seqs)] = FlattenSeq(seqs)
  BY FlattenPrefixes
<1> DEFINE Free(j) == \A k \in 1..Len(seqs[j]) : seqs[j][k] \notin U
           In(n) == \E i \in 1..n : /\ Stands(seqs[i], D, U)
                                   /\ \A j \in (i + 1)..n : Free(j)
           T == { n \in Nat : n <= Len(seqs) /\ Stands(f[n], D, U) => In(n) }
<1> HIDE DEF Free
<1>3. 0 \in T
  <2>1. ~Stands(<<>>, D, U)
    BY DEF Stands
  <2>2. QED
    BY <1>2, <2>1
<1>4. ASSUME NEW n \in Nat, n \in T
      PROVE  n + 1 \in T
  <2>1. SUFFICES ASSUME n + 1 <= Len(seqs), Stands(f[n + 1], D, U)
                 PROVE  In(n + 1)
    OBVIOUS
  <2>2. n + 1 \in 1..Len(seqs) /\ (n + 1) - 1 = n /\ n \in 0..Len(seqs)
    BY <1>1, <2>1
  <2>3. /\ f[n + 1] = f[n] \o seqs[n + 1]
        /\ f[n] \in Seq(S) /\ seqs[n + 1] \in Seq(S)
    BY <1>1, <1>2, <2>2
  <2>4. \/ Stands(seqs[n + 1], D, U)
        \/ Stands(f[n], D, U) /\ Free(n + 1)
    <3>1. PICK a \in Seq(S), b \in Seq(S) : a = f[n] /\ b = seqs[n + 1]
      BY <2>3
    <3>2. PICK c : c = f[n + 1]
      OBVIOUS
    <3>3. c = a \o b /\ Stands(c, D, U)
      BY <2>1, <2>3, <3>1, <3>2
    <3>4. \/ Stands(b, D, U)
          \/ Stands(a, D, U) /\ \A j \in 1..Len(b) : b[j] \notin U
      BY <3>3, ConcatStands
    <3>5. QED
      BY <3>1, <3>4 DEF Free
  <2>5. CASE Stands(seqs[n + 1], D, U)
    <3>1. n + 1 \in 1..(n + 1) /\ (n + 1 + 1)..(n + 1) = {}
      OBVIOUS
    <3>2. QED
      BY <2>5, <3>1
  <2>6. CASE Stands(f[n], D, U) /\ Free(n + 1)
    <3>1. PICK i \in 1..n : Stands(seqs[i], D, U) /\ \A j \in (i + 1)..n : Free(j)
      BY <1>1, <1>4, <2>1, <2>6
    <3>2. i \in 1..(n + 1) /\ \A j \in (i + 1)..(n + 1) : j \in (i + 1)..n \/ j = n + 1
      OBVIOUS
    <3>3. QED
      BY <2>6, <3>1, <3>2
  <2>7. QED
    BY <2>4, <2>5, <2>6
<1> HIDE DEF T
<1>5. Len(seqs) \in T
  BY <1>1, <1>3, <1>4, SetInduction
<1>6. In(Len(seqs))
  BY <1>1, <1>2, <1>5 DEF T
<1>7. QED
  BY <1>6 DEF Free

\* Sequences over S are flattened to one.
LEMMA FlattenType ==
  ASSUME NEW S, NEW seqs \in Seq(Seq(S))
  PROVE  FlattenSeq(seqs) \in Seq(S)
<1>1. Len(seqs) \in 0..Len(seqs)
  OBVIOUS
<1>2. PICK f \in [0..Len(seqs) -> Seq(S)] : f[Len(seqs)] = FlattenSeq(seqs)
  BY FlattenPrefixes
<1>3. QED
  BY <1>1, <1>2

\* Every element of a piece is in the flattened sequence.
LEMMA FlattenHolds ==
  ASSUME NEW S, NEW seqs \in Seq(Seq(S)),
         NEW i \in 1..Len(seqs), NEW k \in 1..Len(seqs[i])
  PROVE  \E j \in 1..Len(FlattenSeq(seqs)) : FlattenSeq(seqs)[j] = seqs[i][k]
<1>1. Len(seqs) \in Nat /\ \A n \in 1..Len(seqs) : seqs[n] \in Seq(S)
  OBVIOUS
<1>2. PICK f \in [0..Len(seqs) -> Seq(S)] :
        /\ \A n \in 1..Len(seqs) : f[n] = f[n - 1] \o seqs[n]
        /\ f[Len(seqs)] = FlattenSeq(seqs)
  BY FlattenPrefixes
<1> DEFINE Holds(n) == \E j \in 1..Len(f[n]) : f[n][j] = seqs[i][k]
           T == { n \in Nat : i <= n /\ n <= Len(seqs) => Holds(n) }
<1>3. ASSUME NEW n \in Nat, n + 1 <= Len(seqs)
      PROVE  /\ Len(f[n]) \in Nat
             /\ Len(f[n + 1]) = Len(f[n]) + Len(seqs[n + 1])
             /\ \A j \in 1..Len(f[n]) : f[n + 1][j] = f[n][j]
             /\ \A j \in 1..Len(seqs[n + 1]) : f[n + 1][Len(f[n]) + j] = seqs[n + 1][j]
  <2>1. n + 1 \in 1..Len(seqs) /\ (n + 1) - 1 = n /\ n \in 0..Len(seqs)
    BY <1>1, <1>3
  <2>2. PICK a \in Seq(S), b \in Seq(S) : a = f[n] /\ b = seqs[n + 1]
    BY <1>1, <2>1
  <2>3. PICK c : c = f[n + 1]
    OBVIOUS
  <2>4. c = a \o b
    BY <1>2, <2>1, <2>2, <2>3
  <2>5. /\ Len(c) = Len(a) + Len(b)
        /\ \A j \in 1..Len(a) : c[j] = a[j]
        /\ \A j \in 1..Len(b) : c[Len(a) + j] = b[j]
    BY <2>4, ConcatFacts
  <2>6. Len(a) \in Nat
    OBVIOUS
  <2>7. QED
    BY <2>2, <2>3, <2>5, <2>6
<1>4. 0 \in T
  OBVIOUS
<1>5. ASSUME NEW n \in Nat, n \in T
      PROVE  n + 1 \in T
  <2>1. SUFFICES ASSUME i <= n + 1, n + 1 <= Len(seqs)
                 PROVE  Holds(n + 1)
    OBVIOUS
  <2>2. n + 1 \in 1..Len(seqs)
    BY <2>1
  <2>3. PICK a \in Nat, b \in Nat : a = Len(f[n]) /\ b = Len(seqs[n + 1])
    <3>1. Len(f[n]) \in Nat
      BY <1>3, <2>1
    <3>2. Len(seqs[n + 1]) \in Nat
      BY <1>1, <2>2
    <3>3. QED
      BY <3>1, <3>2
  <2>4. /\ Len(f[n + 1]) = a + b
        /\ \A j \in 1..a : f[n + 1][j] = f[n][j]
        /\ \A j \in 1..b : f[n + 1][a + j] = seqs[n + 1][j]
    BY <1>3, <2>1, <2>3
  <2>5. CASE i = n + 1
    <3>1. k \in 1..b
      BY <2>3, <2>5
    <3>2. a + k \in 1..(a + b)
      BY <3>1
    <3>3. a + k \in 1..Len(f[n + 1]) /\ f[n + 1][a + k] = seqs[n + 1][k]
      BY <2>4, <3>1, <3>2
    <3>4. QED
      BY <2>5, <3>3
  <2>6. CASE i # n + 1
    <3>1. i <= n /\ n <= Len(seqs)
      BY <1>1, <2>1, <2>6
    <3>2. PICK j \in 1..a : f[n][j] = seqs[i][k]
      BY <1>5, <2>3, <3>1
    <3>3. j \in 1..(a + b)
      OBVIOUS
    <3>4. j \in 1..Len(f[n + 1]) /\ f[n + 1][j] = f[n][j]
      BY <2>4, <3>3
    <3>5. QED
      BY <3>2, <3>4
  <2>7. QED
    BY <2>5, <2>6
<1> HIDE DEF T
<1>6. Len(seqs) \in T
  BY <1>1, <1>4, <1>5, SetInduction
<1>7. Holds(Len(seqs))
  BY <1>1, <1>6 DEF T
<1>8. QED
  BY <1>2, <1>7

=============================================================================
