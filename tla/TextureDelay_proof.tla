-------------------------- MODULE TextureDelay_proof --------------------------
(***************************************************************************)
(* Proofs about the delayed release of textures, for any number of         *)
(* textures, of references and of transitions, and for any times.          *)
(***************************************************************************)
EXTENDS TextureDelay, FiniteSetTheorems, SequenceTheorems, NaturalsInduction,
        WellFoundedInduction, TLAPS

Delayed == [tex : Textures, left : Nat]

Types ==
    /\ refs \in [Textures -> Nat] /\ held \in [Textures -> Nat]
    /\ queue \in Seq(Delayed) /\ queued \subseteq Textures
    /\ todo \in Seq(Textures)
    /\ mpc \in {"idle", "queue", "release"}
    /\ mtex \in Textures \cup {None}
    /\ mpc = "queue" => mtex \in Textures
    /\ mpc = "release" => todo # <<>>

------------------------------------------------------------------------------
(* How often a texture is in a list. *)

Hits(s, t) == {k \in 1 .. Len(s) : s[k] = t}
Times(s, t) == Cardinality(Hits(s, t))

LEMMA HitsFinite ==
    ASSUME NEW s \in Seq(Textures), NEW t
    PROVE  IsFiniteSet(Hits(s, t)) /\ Times(s, t) \in Nat
  <1>1. Len(s) \in Nat
    BY LenProperties
  <1>2. IsFiniteSet(1 .. Len(s)) /\ Hits(s, t) \subseteq 1 .. Len(s)
    BY <1>1, FS_Interval DEF Hits
  <1>3. IsFiniteSet(Hits(s, t))
    BY <1>2, FS_Subset
  <1> QED
    BY <1>3, FS_CardinalityType DEF Times

LEMMA TimesNone ==
    ASSUME NEW t
    PROVE  Times(<<>>, t) = 0
  <1>1. Hits(<<>>, t) = {}
    BY DEF Hits
  <1> QED
    BY <1>1, FS_EmptySet DEF Times

LEMMA TimesAppend ==
    ASSUME NEW s \in Seq(Textures), NEW u \in Textures, NEW t
    PROVE  Times(Append(s, u), t) = Times(s, t) + (IF u = t THEN 1 ELSE 0)
  <1>1. /\ Len(s) \in Nat /\ Len(Append(s, u)) = Len(s) + 1
        /\ \A k \in 1 .. Len(s) : Append(s, u)[k] = s[k]
        /\ Append(s, u)[Len(s) + 1] = u
    BY LenProperties, AppendProperties
  <1>2. CASE u = t
    <2>1. Hits(Append(s, u), t) = Hits(s, t) \cup {Len(s) + 1} /\ Len(s) + 1 \notin Hits(s, t)
      BY <1>1, <1>2 DEF Hits
    <2> QED
      BY <1>2, <2>1, HitsFinite, FS_AddElement DEF Times
  <1>3. CASE u # t
    <2>1. Hits(Append(s, u), t) = Hits(s, t)
      BY <1>1, <1>3 DEF Hits
    <2> QED
      BY <1>3, <2>1, HitsFinite DEF Times
  <1> QED
    BY <1>2, <1>3

\* A list with some of it taken from its front has no more of a texture in both
\* parts than before, and no less.
LEMMA TimesSplit ==
    ASSUME NEW s \in Seq(Textures), NEW n \in 0 .. Len(s), NEW t
    PROVE  Times(s, t) = Times(SubSeq(s, 1, n), t) + Times(SubSeq(s, n + 1, Len(s)), t)
  <1> DEFINE front == SubSeq(s, 1, n)
             rest == SubSeq(s, n + 1, Len(s))
             Behind == {k \in n + 1 .. Len(s) : s[k] = t}
  <1>1. Len(s) \in Nat /\ n \in Nat /\ \A k \in 1 .. Len(s) : s[k] \in Textures
    BY LenProperties, ElementOfSeq
  <1>2. /\ front \in Seq(Textures) /\ Len(front) = n
        /\ \A k \in 1 .. n : front[k] = s[k]
    <2>1. \A i \in 1 .. n : s[i] \in Textures
      BY <1>1
    <2>2. /\ front \in Seq(Textures) /\ Len(front) = IF 1 <= n THEN n - 1 + 1 ELSE 0
          /\ \A i \in 1 .. n - 1 + 1 : front[i] = s[1 + i - 1]
      BY <1>1, <2>1, SubSeqProperties
    <2> QED
      BY <1>1, <2>2
  <1>3. /\ rest \in Seq(Textures) /\ Len(rest) = Len(s) - n
        /\ \A k \in 1 .. Len(s) - n : rest[k] = s[n + k]
    <2>1. \A i \in n + 1 .. Len(s) : s[i] \in Textures
      BY <1>1
    <2>2. /\ rest \in Seq(Textures)
          /\ Len(rest) = IF n + 1 <= Len(s) THEN Len(s) - (n + 1) + 1 ELSE 0
          /\ \A i \in 1 .. Len(s) - (n + 1) + 1 : rest[i] = s[n + 1 + i - 1]
      BY <1>1, <2>1, SubSeqProperties
    <2>3. Len(rest) = Len(s) - n
      BY <1>1, <2>2
    <2>4. ASSUME NEW k \in 1 .. Len(s) - n
          PROVE  rest[k] = s[n + k]
      <3>1. rest[k] = s[n + 1 + k - 1] /\ n + 1 + k - 1 = n + k
        BY <1>1, <2>2
      <3> QED
        BY <3>1
    <2> QED
      BY <2>2, <2>3, <2>4
  <1> HIDE DEF front, rest
  <1>4. Hits(s, t) = Hits(front, t) \cup Behind /\ Hits(front, t) \cap Behind = {}
    BY <1>1, <1>2 DEF Hits
  <1>5. IsFiniteSet(Hits(s, t)) /\ IsFiniteSet(Hits(front, t)) /\ IsFiniteSet(Hits(rest, t))
    BY <1>2, <1>3, HitsFinite
  <1>6. IsFiniteSet(Behind) /\ Cardinality(Behind) = Cardinality(Hits(rest, t))
    <2> DEFINE f == [k \in Hits(rest, t) |-> n + k]
    <2>1. f \in Bijection(Hits(rest, t), Behind)
      <3>1. f \in [Hits(rest, t) -> Behind]
        BY <1>1, <1>3 DEF Hits
      <3>2. \A j, k \in Hits(rest, t) : f[j] = f[k] => j = k
        BY <1>1, <1>3 DEF Hits
      <3>3. \A i \in Behind : \E k \in Hits(rest, t) : f[k] = i
        <4> SUFFICES ASSUME NEW i \in Behind PROVE i - n \in Hits(rest, t) /\ f[i - n] = i
          OBVIOUS
        <4>1. i - n \in 1 .. Len(s) - n /\ n + (i - n) = i
          BY <1>1
        <4>2. i - n \in Hits(rest, t)
          BY <1>3, <4>1 DEF Hits
        <4> QED
          BY <4>1, <4>2
      <3> QED
        BY <3>1, <3>2, <3>3 DEF Bijection, Injection, Surjection, IsInjective
    <2> QED
      BY <1>5, <2>1, FS_Bijection DEF ExistsBijection
  <1>7. Cardinality(Hits(front, t) \cap Behind) = 0
    BY <1>4, FS_EmptySet
  <1>8. /\ Cardinality(Hits(s, t)) \in Nat /\ Cardinality(Hits(front, t)) \in Nat
        /\ Cardinality(Behind) \in Nat
    BY <1>5, <1>6, FS_CardinalityType
  <1>9. Cardinality(Hits(s, t)) = Cardinality(Hits(front, t)) + Cardinality(Behind)
    <2>1. Cardinality(Hits(front, t) \cup Behind)
            = Cardinality(Hits(front, t)) + Cardinality(Behind) - Cardinality(Hits(front, t) \cap Behind)
      BY <1>5, <1>6, FS_Union
    <2> QED
      BY <1>4, <1>7, <1>8, <2>1
  <1> QED
    BY <1>6, <1>9 DEF Times, front, rest

\* One more of a list.
LEMMA Sole ==
    ASSUME NEW S, NEW s \in Seq(S), NEW n \in 1 .. Len(s)
    PROVE  /\ SubSeq(s, 1, n - 1) \in Seq(S)
           /\ SubSeq(s, 1, n) = Append(SubSeq(s, 1, n - 1), s[n])
  <1>1. Len(s) \in Nat /\ n \in Nat /\ \A k \in 1 .. Len(s) : s[k] \in S
    BY LenProperties, ElementOfSeq
  <1>2. ASSUME NEW m \in 0 .. Len(s)
        PROVE  /\ SubSeq(s, 1, m) \in Seq(S) /\ Len(SubSeq(s, 1, m)) = m
               /\ \A i \in 1 .. m : SubSeq(s, 1, m)[i] = s[i]
    <2>1. /\ SubSeq(s, 1, m) \in Seq(S) /\ Len(SubSeq(s, 1, m)) = IF 1 <= m THEN m - 1 + 1 ELSE 0
          /\ \A i \in 1 .. m - 1 + 1 : SubSeq(s, 1, m)[i] = s[1 + i - 1]
      BY <1>1, SubSeqProperties
    <2> QED
      BY <1>1, <2>1
  <1> DEFINE before == SubSeq(s, 1, n - 1)
             upto == SubSeq(s, 1, n)
  <1>3. /\ n \in 0 .. Len(s) /\ n - 1 \in 0 .. Len(s) /\ s[n] \in S
    BY <1>1
  <1>4. /\ before \in Seq(S) /\ Len(before) = n - 1 /\ \A i \in 1 .. n - 1 : before[i] = s[i]
        /\ upto \in Seq(S) /\ Len(upto) = n /\ \A i \in 1 .. n : upto[i] = s[i]
    BY <1>2, <1>3
  <1> HIDE DEF before, upto
  <1>5. /\ Append(before, s[n]) \in Seq(S) /\ Len(Append(before, s[n])) = n
        /\ \A i \in 1 .. n - 1 : Append(before, s[n])[i] = s[i]
        /\ Append(before, s[n])[n] = s[n]
    BY <1>1, <1>3, <1>4, AppendProperties
  <1>6. \A i \in 1 .. n : upto[i] = Append(before, s[n])[i]
    BY <1>1, <1>4, <1>5
  <1>7. upto = Append(before, s[n])
    BY <1>4, <1>5, <1>6, SeqEqual
  <1> QED
    BY <1>4, <1>7 DEF before, upto

LEMMA TimesTail ==
    ASSUME NEW s \in Seq(Textures), s # <<>>, NEW t
    PROVE  Times(s, t) = Times(Tail(s), t) + (IF Head(s) = t THEN 1 ELSE 0)
  <1>1. Len(s) \in Nat \ {0} /\ \A k \in 1 .. Len(s) : s[k] \in Textures
    <2>1. Len(s) \in Nat /\ (Len(s) = 0 => s = <<>>)
      BY LenProperties, EmptySeq
    <2> QED
      BY <2>1, ElementOfSeq
  <1>2. /\ Head(s) = s[1] /\ Tail(s) \in Seq(Textures) /\ Len(Tail(s)) = Len(s) - 1
        /\ \A k \in 1 .. Len(s) - 1 : Tail(s)[k] = s[k + 1]
    <2>1. Head(s) = s[1]
      BY <1>1
    <2> QED
      BY <2>1, HeadTailProperties
  <1>3. Tail(s) = SubSeq(s, 2, Len(s))
    <2>1. /\ SubSeq(s, 2, Len(s)) \in Seq(Textures)
          /\ Len(SubSeq(s, 2, Len(s))) = IF 2 <= Len(s) THEN Len(s) - 2 + 1 ELSE 0
          /\ \A i \in 1 .. Len(s) - 2 + 1 : SubSeq(s, 2, Len(s))[i] = s[2 + i - 1]
      BY <1>1, SubSeqProperties
    <2>2. Len(SubSeq(s, 2, Len(s))) = Len(Tail(s))
      BY <1>1, <1>2, <2>1
    <2>3. ASSUME NEW i \in 1 .. Len(Tail(s))
          PROVE  Tail(s)[i] = SubSeq(s, 2, Len(s))[i]
      <3>1. i \in 1 .. Len(s) - 2 + 1 /\ 2 + i - 1 = i + 1
        BY <1>1, <1>2
      <3> QED
        BY <1>2, <2>1, <3>1
    <2> QED
      BY <1>2, <2>1, <2>2, <2>3, SeqEqual
  <1>4. Times(SubSeq(s, 1, 1), t) = IF Head(s) = t THEN 1 ELSE 0
    <2>1. 1 \in 1 .. Len(s) /\ 1 - 1 = 0
      BY <1>1
    <2>2. SubSeq(s, 1, 0) \in Seq(Textures) /\ SubSeq(s, 1, 1) = Append(SubSeq(s, 1, 0), s[1])
      BY <2>1, Sole
    <2>3. SubSeq(s, 1, 0) = <<>>
      BY SubSeqEmpty
    <2>4. Times(SubSeq(s, 1, 0), t) = 0
      BY <2>3, TimesNone
    <2>5. s[1] \in Textures
      BY <1>1, <2>1
    <2>6. Times(Append(SubSeq(s, 1, 0), s[1]), t)
            = Times(SubSeq(s, 1, 0), t) + (IF s[1] = t THEN 1 ELSE 0)
      BY <2>2, <2>5, TimesAppend
    <2>7. Times(SubSeq(s, 1, 1), t) = 0 + (IF Head(s) = t THEN 1 ELSE 0)
      BY <1>2, <2>2, <2>4, <2>6, Zenon
    <2>8. 0 + (IF Head(s) = t THEN 1 ELSE 0) = IF Head(s) = t THEN 1 ELSE 0
      OBVIOUS
    <2> QED
      BY <2>7, <2>8, Zenon
  <1>5. Times(s, t) = Times(SubSeq(s, 1, 1), t) + Times(SubSeq(s, 2, Len(s)), t)
    <2>1. 1 \in 0 .. Len(s) /\ 1 + 1 = 2
      BY <1>1
    <2>2. Times(s, t) = Times(SubSeq(s, 1, 1), t) + Times(SubSeq(s, 1 + 1, Len(s)), t)
      BY <2>1, TimesSplit
    <2> QED
      BY <2>1, <2>2
  <1>6. Times(Tail(s), t) \in Nat
    BY <1>2, HitsFinite
  <1>7. Times(s, t) = (IF Head(s) = t THEN 1 ELSE 0) + Times(Tail(s), t)
    BY <1>3, <1>4, <1>5
  <1> HIDE DEF Times
  <1> QED
    BY <1>6, <1>7
------------------------------------------------------------------------------
(* The textures of the queue. *)

LEMMA TexturedType ==
    ASSUME NEW q \in Seq(Delayed)
    PROVE  /\ Textured(q) \in Seq(Textures) /\ Len(Textured(q)) = Len(q) /\ Len(q) \in Nat
           /\ \A k \in 1 .. Len(q) : Textured(q)[k] = q[k].tex /\ q[k] \in Delayed
  <1>1. Len(q) \in Nat /\ \A k \in 1 .. Len(q) : q[k] \in Delayed
    BY LenProperties, ElementOfSeq
  <1>2. \A k \in 1 .. Len(q) : q[k].tex \in Textures
    BY <1>1 DEF Delayed
  <1>3. Textured(q) \in [1 .. Len(q) -> Textures]
    BY <1>2 DEF Textured
  <1>4. Textured(q) \in Seq(Textures)
    BY <1>1, <1>3
  <1>5. Len(Textured(q)) = Len(q)
    BY <1>1, <1>3, <1>4, LenProperties
  <1> QED
    BY <1>1, <1>4, <1>5 DEF Textured

LEMMA TexturedAppend ==
    ASSUME NEW q \in Seq(Delayed), NEW e \in Delayed
    PROVE  Textured(Append(q, e)) = Append(Textured(q), e.tex)
  <1>1. /\ Append(q, e) \in Seq(Delayed) /\ Len(Append(q, e)) = Len(q) + 1
        /\ \A k \in 1 .. Len(q) : Append(q, e)[k] = q[k]
        /\ Append(q, e)[Len(q) + 1] = e
    BY AppendProperties
  <1>2. /\ Textured(q) \in Seq(Textures) /\ Len(Textured(q)) = Len(q) /\ Len(q) \in Nat
        /\ \A k \in 1 .. Len(q) : Textured(q)[k] = q[k].tex
        /\ e.tex \in Textures
    BY TexturedType DEF Delayed
  <1> DEFINE a == Textured(Append(q, e))
             b == Append(Textured(q), e.tex)
  <1>3. /\ a \in Seq(Textures) /\ Len(a) = Len(q) + 1
        /\ \A k \in 1 .. Len(q) + 1 : a[k] = Append(q, e)[k].tex
    BY <1>1, TexturedType
  <1>4. /\ b \in Seq(Textures) /\ Len(b) = Len(q) + 1
        /\ \A k \in 1 .. Len(q) : b[k] = Textured(q)[k]
        /\ b[Len(q) + 1] = e.tex
    BY <1>2, AppendProperties
  <1> HIDE DEF a, b
  <1>5. \A k \in 1 .. Len(q) + 1 : a[k] = b[k]
    BY <1>1, <1>2, <1>3, <1>4
  <1>6. a = b
    BY <1>3, <1>4, <1>5, SeqEqual
  <1> QED
    BY <1>6 DEF a, b

LEMMA PartOf ==
    ASSUME NEW S, NEW s \in Seq(S), NEW a \in 1 .. Len(s) + 1, NEW b \in 0 .. Len(s), a <= b + 1
    PROVE  /\ SubSeq(s, a, b) \in Seq(S) /\ Len(SubSeq(s, a, b)) = b - a + 1
           /\ \A k \in 1 .. b - a + 1 : SubSeq(s, a, b)[k] = s[a + k - 1] /\ a + k - 1 \in 1 .. Len(s)
  <1>1. Len(s) \in Nat /\ \A k \in a .. b : s[k] \in S
    BY LenProperties, ElementOfSeq
  <1>2. /\ SubSeq(s, a, b) \in Seq(S)
        /\ Len(SubSeq(s, a, b)) = IF a <= b THEN b - a + 1 ELSE 0
        /\ \A k \in 1 .. b - a + 1 : SubSeq(s, a, b)[k] = s[a + k - 1]
    BY <1>1, SubSeqProperties
  <1> QED
    BY <1>1, <1>2

LEMMA TexturedPart ==
    ASSUME NEW q \in Seq(Delayed), NEW a \in 1 .. Len(q) + 1, NEW b \in 0 .. Len(q), a <= b + 1
    PROVE  Textured(SubSeq(q, a, b)) = SubSeq(Textured(q), a, b)
  <1>1. /\ Textured(q) \in Seq(Textures) /\ Len(Textured(q)) = Len(q) /\ Len(q) \in Nat
        /\ \A k \in 1 .. Len(q) : Textured(q)[k] = q[k].tex
    BY TexturedType
  <1> DEFINE c == Textured(SubSeq(q, a, b))
             d == SubSeq(Textured(q), a, b)
  <1>2. /\ SubSeq(q, a, b) \in Seq(Delayed) /\ Len(SubSeq(q, a, b)) = b - a + 1
        /\ \A k \in 1 .. b - a + 1 : SubSeq(q, a, b)[k] = q[a + k - 1] /\ a + k - 1 \in 1 .. Len(q)
    BY PartOf
  <1>3. /\ c \in Seq(Textures) /\ Len(c) = b - a + 1
        /\ \A k \in 1 .. b - a + 1 : c[k] = SubSeq(q, a, b)[k].tex
    BY <1>2, TexturedType
  <1>4. /\ d \in Seq(Textures) /\ Len(d) = b - a + 1
        /\ \A k \in 1 .. b - a + 1 : d[k] = Textured(q)[a + k - 1]
    BY <1>1, PartOf
  <1> HIDE DEF c, d
  <1>5. \A k \in 1 .. b - a + 1 : c[k] = d[k]
    BY <1>1, <1>2, <1>3, <1>4
  <1>6. c = d
    BY <1>3, <1>4, <1>5, SeqEqual
  <1> QED
    BY <1>6 DEF c, d

------------------------------------------------------------------------------
(* The sweep, entry by entry. *)


\* The order < as a set of pairs.
Less == {p \in Nat \X Nat : p[1] < p[2]}

\* A set of natural numbers that is not empty has a least element.
LEMMA LeastNumber ==
    ASSUME NEW T \in SUBSET Nat, T # {}
    PROVE  \E n \in T : \A m \in T : n <= m
  <1>1. IsWellFoundedOn(Less, Nat)
    <2>1. Less = OpToRel(<, Nat)
      BY Zenon DEF Less, OpToRel
    <2> QED
      BY <2>1, NatLessThanWellFounded
  <1>2. PICK n \in T : \A m \in T : ~(<<m, n>> \in Less)
    BY <1>1, WFMin
  <1>3. ASSUME NEW m \in T
        PROVE  n <= m
    <2>1. <<m, n>> \in Nat \X Nat /\ n \in Nat /\ m \in Nat
      OBVIOUS
    <2>2. ~(m < n)
      BY <1>2, <2>1 DEF Less
    <2> QED
      BY <2>1, <2>2
  <1> QED
    BY <1>2, <1>3

\* What the sweep makes of the k-th entry, when f is what it made of those before.
Look(f, k) ==
    IF k = 0 THEN [out |-> <<>>, kept |-> <<>>]
    ELSE IF Reused(queue[k]) THEN f[k - 1]
    ELSE IF Expired(queue[k]) THEN [f[k - 1] EXCEPT !.out = Append(@, queue[k].tex)]
    ELSE [f[k - 1] EXCEPT !.kept = Append(@, queue[k])]

LEMMA LookLocal ==
    ASSUME NEW f, NEW g, NEW k \in Nat, k > 0 => f[k - 1] = g[k - 1]
    PROVE  Look(f, k) = Look(g, k)
  <1>1. k = 0 \/ k > 0
    OBVIOUS
  <1> QED
    BY <1>1, Zenon DEF Look

LEMMA SweepExists ==
    ASSUME NEW n \in Nat
    PROVE  \E f : f = [k \in 0 .. n |-> Look(f, k)]
  <1> DEFINE Good(i) == \E f : f = [k \in 0 .. i |-> Look(f, k)]
             Bad == {i \in Nat : ~Good(i)}
  <1> SUFFICES ASSUME Bad # {}
               PROVE  FALSE
    BY Zenon
  <1>1. PICK i \in Bad : \A j \in Bad : i <= j
    BY LeastNumber
  <1>2. CASE i = 0
    <2> DEFINE g == [k \in 0 .. 0 |-> [out |-> <<>>, kept |-> <<>>]]
    <2>1. \A k \in 0 .. 0 : Look(g, k) = [out |-> <<>>, kept |-> <<>>]
      BY DEF Look
    <2>2. g = [k \in 0 .. 0 |-> Look(g, k)]
      BY <2>1
    <2> QED
      BY <1>2, <2>2
  <1>3. CASE i # 0
    <2>1. i - 1 \in Nat /\ i \in Nat /\ i - 1 < i
      BY <1>3
    <2>2. Good(i - 1)
      BY <1>1, <2>1
    <2>3. PICK g : g = [k \in 0 .. i - 1 |-> Look(g, k)]
      BY <2>2
    <2> DEFINE h == [k \in 0 .. i |-> IF k = i THEN Look(g, i) ELSE g[k]]
    <2>4. ASSUME NEW k \in 0 .. i
          PROVE  h[k] = Look(h, k)
      <3>1. k > 0 => g[k - 1] = h[k - 1]
        BY <2>1
      <3>2. Look(g, k) = Look(h, k)
        BY <3>1, LookLocal
      <3>3. CASE k = i
        BY <3>2, <3>3
      <3>4. CASE k # i
        <4>1. k \in 0 .. i - 1
          BY <2>1, <3>4
        <4>2. g[k] = Look(g, k)
          BY <2>3, <4>1, Zenon
        <4> QED
          BY <3>2, <3>4, <4>2
      <3> QED
        BY <3>3, <3>4
    <2>5. h = [k \in 0 .. i |-> Look(h, k)]
      BY <2>4
    <2> QED
      BY <2>1, <2>5
  <1> QED
    BY <1>2, <1>3

LEMMA SweptIs ==
    ASSUME Types
    PROVE  \E f : /\ \A k \in 0 .. Len(queue) : f[k] = Look(f, k)
                  /\ Swept = f[Len(queue)]
  <1> DEFINE IsSweep(f) == f = [k \in 0 .. Len(queue) |-> Look(f, k)]
             sweep == CHOOSE f : IsSweep(f)
  <1>1. Swept = sweep[Len(queue)]
    BY DEF Swept, Look
  <1>2. \E f : IsSweep(f)
    <2>1. Len(queue) \in Nat
      BY LenProperties DEF Types
    <2> QED
      BY <2>1, SweepExists, Zenon
  <1>3. IsSweep(sweep)
    <2> HIDE DEF IsSweep
    <2> QED
      BY <1>2, Zenon
  <1>4. \A k \in 0 .. Len(queue) : sweep[k] = Look(sweep, k)
    BY <1>3, Zenon
  <1> QED
    BY <1>1, <1>4, Zenon
\* Nothing is in both parts of a sweep, nor twice in one, that was not in the queue.
LEMMA SweepCounts ==
    ASSUME Types
    PROVE  /\ Swept.out \in Seq(Textures) /\ Swept.kept \in Seq(Delayed)
           /\ \A t : Times(Swept.out, t) + Times(Textured(Swept.kept), t)
                       <= Times(Textured(queue), t)
  <1> DEFINE q == Textured(queue)
             Upto(k) == SubSeq(q, 1, k)
             Good(r, k) ==
               /\ r \in [out : Seq(Textures), kept : Seq(Delayed)]
               /\ \A t : Times(r.out, t) + Times(Textured(r.kept), t) <= Times(Upto(k), t)
  <1>1. PICK f : /\ \A k \in 0 .. Len(queue) : f[k] = Look(f, k)
                 /\ Swept = f[Len(queue)]
    BY SweptIs
  <1>2. /\ queue \in Seq(Delayed) /\ Len(queue) \in Nat /\ q \in Seq(Textures)
        /\ Len(q) = Len(queue)
        /\ \A k \in 1 .. Len(queue) : q[k] = queue[k].tex /\ queue[k] \in Delayed
    BY TexturedType DEF Types
  <1> HIDE DEF q
  <1>3. \A k \in 0 .. Len(queue) : Upto(k) \in Seq(Textures)
    <2> SUFFICES ASSUME NEW k \in 0 .. Len(queue)
                 PROVE  Upto(k) \in Seq(Textures)
      OBVIOUS
    <2>1. 1 \in 1 .. Len(q) + 1 /\ k \in 0 .. Len(q) /\ 1 <= k + 1
      BY <1>2
    <2> QED
      BY <1>2, <2>1, PartOf
  <1> HIDE DEF Good
  <1>4. Good(f[0], 0)
    <2>1. 0 \in 0 .. Len(queue)
      BY <1>2
    <2>2. f[0] = [out |-> <<>>, kept |-> <<>>]
      BY <1>1, <2>1 DEF Look
    <2>3. <<>> \in Seq(Textures) /\ <<>> \in Seq(Delayed) /\ Upto(0) = <<>>
      BY SubSeqEmpty
    <2>4. Textured(<<>>) = <<>>
      BY DEF Textured
    <2>5. f[0] \in [out : Seq(Textures), kept : Seq(Delayed)]
      BY <2>2, <2>3
    <2>6. f[0].out = <<>> /\ f[0].kept = <<>>
      BY <2>2
    <2>7. ASSUME NEW t
          PROVE  Times(f[0].out, t) + Times(Textured(f[0].kept), t) <= Times(Upto(0), t)
      <3>1. Times(f[0].out, t) = 0 /\ Times(Textured(f[0].kept), t) = 0 /\ Times(Upto(0), t) = 0
        BY <2>3, <2>4, <2>6, TimesNone, Zenon
      <3> QED
        BY <3>1
    <2> QED
      BY <2>5, <2>7 DEF Good
  <1>5. ASSUME NEW k \in 1 .. Len(queue), Good(f[k - 1], k - 1)
        PROVE  Good(f[k], k)
    <2> DEFINE r == f[k - 1]
               e == queue[k]
    <2>1. k \in 0 .. Len(queue) /\ k # 0 /\ k - 1 \in 0 .. Len(queue) /\ k \in 1 .. Len(q)
      BY <1>2
    <2>2. f[k] = IF Reused(e) THEN r
                 ELSE IF Expired(e) THEN [r EXCEPT !.out = Append(@, e.tex)]
                 ELSE [r EXCEPT !.kept = Append(@, e)]
      BY <1>1, <2>1, Zenon DEF Look
    <2>3. e \in Delayed /\ e.tex \in Textures /\ q[k] = e.tex
      BY <1>2 DEF Delayed
    <2>4. /\ r \in [out : Seq(Textures), kept : Seq(Delayed)]
          /\ r.out \in Seq(Textures) /\ r.kept \in Seq(Delayed)
          /\ Textured(r.kept) \in Seq(Textures)
      BY <1>5, TexturedType DEF Good
    <2>5. Upto(k) = Append(Upto(k - 1), e.tex) /\ Upto(k - 1) \in Seq(Textures)
      BY <1>2, <2>1, <2>3, Sole
    <2> HIDE DEF r, e, Upto
    <2>6. ASSUME NEW t
          PROVE  /\ Times(r.out, t) \in Nat /\ Times(Textured(r.kept), t) \in Nat
                 /\ Times(Upto(k - 1), t) \in Nat
                 /\ Times(r.out, t) + Times(Textured(r.kept), t) <= Times(Upto(k - 1), t)
                 /\ Times(Upto(k), t) = Times(Upto(k - 1), t) + (IF e.tex = t THEN 1 ELSE 0)
      <3>1. Times(r.out, t) + Times(Textured(r.kept), t) <= Times(Upto(k - 1), t)
        BY <1>5 DEF Good, r
      <3>2. Times(Upto(k), t) = Times(Upto(k - 1), t) + (IF e.tex = t THEN 1 ELSE 0)
        BY <2>3, <2>5, TimesAppend
      <3> QED
        BY <2>4, <2>5, <3>1, <3>2, HitsFinite
    <2>7. CASE Reused(e)
      <3>1. f[k] = r
        BY <2>2, <2>7
      <3>2. ASSUME NEW t
            PROVE  Times(f[k].out, t) + Times(Textured(f[k].kept), t) <= Times(Upto(k), t)
        <4>1. Times(Upto(k - 1), t) <= Times(Upto(k), t)
          BY <2>6
        <4> QED
          BY <2>6, <3>1, <4>1
      <3> QED
        BY <2>4, <3>1, <3>2 DEF Good
    <2>8. CASE ~Reused(e) /\ Expired(e)
      <3>1. /\ f[k] \in [out : Seq(Textures), kept : Seq(Delayed)]
            /\ f[k].out = Append(r.out, e.tex) /\ f[k].kept = r.kept
        <4>1. f[k] = [r EXCEPT !.out = Append(@, e.tex)]
          BY <2>2, <2>8
        <4>2. Append(r.out, e.tex) \in Seq(Textures)
          BY <2>3, <2>4, AppendProperties
        <4> QED
          BY <2>4, <4>1, <4>2
      <3>2. ASSUME NEW t
            PROVE  Times(f[k].out, t) + Times(Textured(f[k].kept), t) <= Times(Upto(k), t)
        <4>1. Times(f[k].out, t) = Times(r.out, t) + (IF e.tex = t THEN 1 ELSE 0)
          BY <2>3, <2>4, <3>1, TimesAppend
        <4>2. Times(Textured(f[k].kept), t) = Times(Textured(r.kept), t)
          BY <3>1
        <4> QED
          BY <2>6, <4>1, <4>2
      <3> QED
        BY <3>1, <3>2 DEF Good
    <2>9. CASE ~Reused(e) /\ ~Expired(e)
      <3>1. /\ f[k] \in [out : Seq(Textures), kept : Seq(Delayed)]
            /\ f[k].out = r.out /\ f[k].kept = Append(r.kept, e)
        <4>1. f[k] = [r EXCEPT !.kept = Append(@, e)]
          BY <2>2, <2>9
        <4>2. Append(r.kept, e) \in Seq(Delayed)
          BY <2>3, <2>4, AppendProperties
        <4> QED
          BY <2>4, <4>1, <4>2
      <3>2. ASSUME NEW t
            PROVE  Times(f[k].out, t) + Times(Textured(f[k].kept), t) <= Times(Upto(k), t)
        <4>1. Textured(f[k].kept) = Append(Textured(r.kept), e.tex)
          BY <2>3, <2>4, <3>1, TexturedAppend
        <4>2. Times(Textured(f[k].kept), t) = Times(Textured(r.kept), t) + (IF e.tex = t THEN 1 ELSE 0)
          BY <2>3, <2>4, <4>1, TimesAppend
        <4>3. Times(f[k].out, t) = Times(r.out, t)
          BY <3>1
        <4> QED
          BY <2>6, <4>2, <4>3
      <3> QED
        BY <3>1, <3>2 DEF Good
    <2> QED
      BY <2>7, <2>8, <2>9
  <1>6. Good(f[Len(queue)], Len(queue))
    <2> DEFINE Bad == {k \in Nat : k <= Len(queue) /\ ~Good(f[k], k)}
    <2> SUFFICES ASSUME Bad # {}
                 PROVE  FALSE
      BY <1>2
    <2>1. PICK k \in Bad : \A j \in Bad : k <= j
      BY LeastNumber
    <2>2. k # 0
      BY <1>4
    <2>3. k \in 1 .. Len(queue) /\ k - 1 \in Nat /\ k - 1 <= Len(queue) /\ k - 1 < k
      BY <1>2, <2>2
    <2>4. Good(f[k - 1], k - 1)
      BY <2>1, <2>3
    <2> QED
      BY <1>5, <2>3, <2>4
  <1>7. Upto(Len(queue)) = q
    BY <1>2, SubSeqFull
  <1> QED
    BY <1>1, <1>6, <1>7 DEF Good, q
------------------------------------------------------------------------------
(* The invariant. *)

\* No texture is queued twice, and g_queued holds those that are.
InStep == \A t \in Textures : Times(Textured(queue), t) = IF t \in queued THEN 1 ELSE 0

TextureInv == Types /\ InStep /\ ReleaseOwnsReference

Owes(q, d, m, t) == Times(Textured(q), t) + Times(d, t) + (IF m = t THEN 1 ELSE 0)

LEMMA OwesIs ==
    ASSUME NEW q \in Seq(Delayed), NEW d \in Seq(Textures), NEW m, NEW t
    PROVE  /\ Cardinality({k \in DOMAIN q : q[k].tex = t})
              + Cardinality({k \in DOMAIN d : d[k] = t})
              + (IF m = t THEN 1 ELSE 0) = Owes(q, d, m, t)
           /\ Times(Textured(q), t) \in Nat /\ Times(d, t) \in Nat /\ Owes(q, d, m, t) \in Nat
  <1>1. /\ DOMAIN q = 1 .. Len(q) /\ DOMAIN d = 1 .. Len(d)
        /\ Textured(q) \in Seq(Textures) /\ Len(Textured(q)) = Len(q)
        /\ \A k \in 1 .. Len(q) : Textured(q)[k] = q[k].tex
    BY LenProperties, TexturedType
  <1>2. /\ {k \in DOMAIN q : q[k].tex = t} = Hits(Textured(q), t)
        /\ {k \in DOMAIN d : d[k] = t} = Hits(d, t)
    BY <1>1 DEF Hits
  <1>3. Times(Textured(q), t) \in Nat /\ Times(d, t) \in Nat
    BY <1>1, HitsFinite
  <1>4. Owes(q, d, m, t) \in Nat
    BY <1>3 DEF Owes
  <1> QED
    BY <1>2, <1>3, <1>4, Zenon DEF Owes, Times

LEMMA OwedNow ==
    ASSUME Types
    PROVE  ReleaseOwnsReference
             <=> \A t \in Textures : refs[t] >= held[t] + Owes(queue, todo, mtex, t)
  <1>1. ASSUME NEW t \in Textures
        PROVE  Withheld(t) = Owes(queue, todo, mtex, t)
    <2>1. queue \in Seq(Delayed) /\ todo \in Seq(Textures)
      BY DEF Types
    <2>2. Cardinality({k \in DOMAIN queue : queue[k].tex = t})
          + Cardinality({k \in DOMAIN todo : todo[k] = t})
          + (IF mtex = t THEN 1 ELSE 0) = Owes(queue, todo, mtex, t)
      BY <2>1, OwesIs
    <2> QED
      BY <2>2 DEF Withheld
  <1> QED
    BY <1>1, Zenon DEF ReleaseOwnsReference

LEMMA OwedNext ==
    ASSUME Types'
    PROVE  ReleaseOwnsReference'
             <=> \A t \in Textures : refs'[t] >= held'[t] + Owes(queue', todo', mtex', t)
  <1>2. ASSUME NEW t \in Textures
        PROVE  Withheld(t)' = Owes(queue', todo', mtex', t)
    <2>1. queue' \in Seq(Delayed) /\ todo' \in Seq(Textures)
      BY DEF Types
    <2>2. Cardinality({k \in DOMAIN queue' : queue'[k].tex = t})
          + Cardinality({k \in DOMAIN todo' : todo'[k] = t})
          + (IF mtex' = t THEN 1 ELSE 0) = Owes(queue', todo', mtex', t)
      BY <2>1, OwesIs
    <2> QED
      BY <2>2 DEF Withheld
  <1> QED
    BY <1>2, Zenon DEF ReleaseOwnsReference

\* What the invariant says of one texture.
LEMMA OneTexture ==
    ASSUME TextureInv, NEW t \in Textures
    PROVE  /\ refs[t] \in Nat /\ held[t] \in Nat
           /\ Times(Textured(queue), t) \in Nat /\ Times(todo, t) \in Nat
           /\ refs[t] >= held[t] + Times(Textured(queue), t) + Times(todo, t)
                         + (IF mtex = t THEN 1 ELSE 0)
           /\ Times(Textured(queue), t) = IF t \in queued THEN 1 ELSE 0
  <1>1. /\ Types /\ refs[t] \in Nat /\ held[t] \in Nat
        /\ queue \in Seq(Delayed) /\ todo \in Seq(Textures)
    BY DEF TextureInv, Types
  <1>2. Times(Textured(queue), t) \in Nat /\ Times(todo, t) \in Nat
    BY <1>1, OwesIs
  <1>3. refs[t] >= held[t] + Owes(queue, todo, mtex, t)
    BY <1>1, OwedNow DEF TextureInv
  <1>4. Times(Textured(queue), t) = IF t \in queued THEN 1 ELSE 0
    BY DEF TextureInv, InStep
  <1> DEFINE m == IF mtex = t THEN 1 ELSE 0
  <1>5. m \in Nat
    OBVIOUS
  <1>6. Owes(queue, todo, mtex, t) = Times(Textured(queue), t) + Times(todo, t) + m
    BY DEF Owes
  <1> HIDE DEF m
  <1>7. refs[t] >= held[t] + Times(Textured(queue), t) + Times(todo, t) + m
    BY <1>1, <1>2, <1>3, <1>5, <1>6
  <1> QED
    BY <1>1, <1>2, <1>4, <1>7 DEF m

\* Texture_Release takes one reference from one texture.
LEMMA OrigTakes ==
    ASSUME Types, NEW t \in Textures, Orig(t)
    PROVE  /\ refs' \in [Textures -> Nat]
           /\ refs'[t] = IF refs[t] > 0 THEN refs[t] - 1 ELSE 0
           /\ \A u \in Textures \ {t} : refs'[u] = refs[u]
  BY DEF Types, Orig

\* A release that is made at once.
LEMMA PassedOn ==
    ASSUME TextureInv, NEW t \in Textures, held[t] > 0,
           held' = [held EXCEPT ![t] = @ - 1], Orig(t),
           UNCHANGED <<queue, queued, mpc, mtex, todo>>
    PROVE  TextureInv'
  <1>1. Types
    BY DEF TextureInv
  <1>2. /\ refs' \in [Textures -> Nat]
        /\ refs'[t] = IF refs[t] > 0 THEN refs[t] - 1 ELSE 0
        /\ \A u \in Textures \ {t} : refs'[u] = refs[u]
    BY <1>1, OrigTakes
  <1>3. /\ held' \in [Textures -> Nat] /\ held'[t] = held[t] - 1
        /\ \A u \in Textures \ {t} : held'[u] = held[u]
    BY <1>1 DEF Types
  <1>4. Types'
    BY <1>1, <1>2, <1>3 DEF Types
  <1>5. InStep'
    BY DEF TextureInv, InStep
  <1>6. ASSUME NEW u \in Textures
        PROVE  refs'[u] >= held'[u] + Owes(queue', todo', mtex', u)
    <2>1. Owes(queue', todo', mtex', u) = Owes(queue, todo, mtex, u)
          /\ Owes(queue, todo, mtex, u) \in Nat
      BY <1>1, OwesIs DEF Types
    <2>2. refs[u] >= held[u] + Owes(queue, todo, mtex, u)
      BY <1>1, OwedNow DEF TextureInv
    <2>3. refs[u] \in Nat /\ held[u] \in Nat
      BY <1>1 DEF Types
    <2> QED
      BY <1>2, <1>3, <2>1, <2>2, <2>3
  <1> QED
    BY <1>4, <1>5, <1>6, OwedNext DEF TextureInv

\* The last reference: nothing else is owed, and the release is withheld.
LEMMA Withholds ==
    ASSUME TextureInv, NEW t \in Textures, held[t] > 0, refs[t] = 1,
           held' = [held EXCEPT ![t] = @ - 1], mpc' = "queue", mtex' = t,
           UNCHANGED <<refs, queue, queued, todo>>
    PROVE  TextureInv'
  <1>1. Types
    BY DEF TextureInv
  <1>3. /\ held' \in [Textures -> Nat] /\ held'[t] = held[t] - 1
        /\ \A u \in Textures \ {t} : held'[u] = held[u]
    BY <1>1 DEF Types
  <1>4. Types'
    BY <1>1, <1>3 DEF Types
  <1>5. InStep'
    BY DEF TextureInv, InStep
  <1>6. ASSUME NEW u \in Textures
        PROVE  refs'[u] >= held'[u] + Owes(queue', todo', mtex', u)
    <2> DEFINE q == Times(Textured(queue), u)
               d == Times(todo, u)
               m == IF mtex = u THEN 1 ELSE 0
    <2>1. /\ refs[u] \in Nat /\ held[u] \in Nat /\ q \in Nat /\ d \in Nat
          /\ refs[u] >= held[u] + q + d + m
      BY OneTexture
    <2>2. m \in Nat
      OBVIOUS
    <2>3. Owes(queue', todo', mtex', u) = q + d + (IF t = u THEN 1 ELSE 0)
      BY DEF Owes
    <2> HIDE DEF q, d, m
    <2>4. CASE u = t
      BY <1>3, <2>1, <2>2, <2>3, <2>4
    <2>5. CASE u # t
      BY <1>3, <2>1, <2>2, <2>3, <2>5
    <2> QED
      BY <2>4, <2>5
  <1> QED
    BY <1>4, <1>5, <1>6, OwedNext DEF TextureInv

LEMMA ReleaseStep ==
    ASSUME TextureInv, NEW t \in Textures, Release(t) \/ OtherRelease(t)
    PROVE  TextureInv'
  <1>1. /\ held[t] > 0 /\ held' = [held EXCEPT ![t] = @ - 1]
        /\ UNCHANGED <<queue, queued>>
    BY DEF Release, OtherRelease, delayed
  <1>2. \/ Orig(t) /\ UNCHANGED <<mpc, mtex, todo>>
        \/ refs[t] = 1 /\ mpc' = "queue" /\ mtex' = t /\ UNCHANGED <<refs, todo>>
    BY Zenon DEF Release, OtherRelease, main
  <1> QED
    BY <1>1, <1>2, PassedOn, Withholds

LEMMA AcquireStep ==
    ASSUME TextureInv, NEW t \in Textures, Acquire(t)
    PROVE  TextureInv'
  <1>1. Types /\ UNCHANGED <<queue, queued, mpc, mtex, todo>>
    BY DEF TextureInv, Acquire, delayed, main
  <1>2. /\ held' \in [Textures -> Nat] /\ held'[t] = held[t] + 1
        /\ \A u \in Textures \ {t} : held'[u] = held[u]
        /\ refs' \in [Textures -> Nat] /\ refs'[t] = refs[t] + 1
        /\ \A u \in Textures \ {t} : refs'[u] = refs[u]
    BY <1>1 DEF Types, Acquire
  <1>3. Types'
    BY <1>1, <1>2 DEF Types
  <1>4. InStep'
    BY <1>1 DEF TextureInv, InStep
  <1>5. ASSUME NEW u \in Textures
        PROVE  refs'[u] >= held'[u] + Owes(queue', todo', mtex', u)
    <2>1. Owes(queue', todo', mtex', u) = Owes(queue, todo, mtex, u)
          /\ Owes(queue, todo, mtex, u) \in Nat
      BY <1>1, OwesIs DEF Types
    <2>2. refs[u] >= held[u] + Owes(queue, todo, mtex, u)
      BY <1>1, OwedNow DEF TextureInv
    <2>3. refs[u] \in Nat /\ held[u] \in Nat
      BY <1>1 DEF Types
    <2> QED
      BY <1>2, <2>1, <2>2, <2>3
  <1> QED
    BY <1>3, <1>4, <1>5, OwedNext DEF TextureInv
LEMMA QueueStep ==
    ASSUME TextureInv, Queue
    PROVE  TextureInv'
  <1> DEFINE e == [tex |-> mtex, left |-> Ttl]
  <1>1. /\ Types /\ queue \in Seq(Delayed) /\ todo \in Seq(Textures) /\ mtex \in Textures
        /\ None \notin Textures /\ Ttl \in Nat
        /\ held' = held /\ todo' = todo /\ mpc' = "idle" /\ mtex' = None
        /\ mtex' \notin Textures
    BY TextureAssumption DEF TextureInv, Types, Queue
  <1>2. CASE Len(queue) < MaxDelayed /\ mtex \notin queued
    <2>1. queue' = Append(queue, e) /\ queued' = queued \cup {mtex} /\ refs' = refs
      BY <1>2 DEF Queue
    <2>2. e \in Delayed /\ e.tex = mtex
      BY <1>1 DEF Delayed
    <2> HIDE DEF e
    <2>3. /\ queue' \in Seq(Delayed) /\ Textured(queue') = Append(Textured(queue), mtex)
          /\ Textured(queue) \in Seq(Textures)
      BY <1>1, <2>1, <2>2, AppendProperties, TexturedAppend, TexturedType
    <2>4. Types'
      BY <1>1, <2>1, <2>3 DEF Types
    <2>5. ASSUME NEW t \in Textures
          PROVE  Times(Textured(queue'), t) = Times(Textured(queue), t) + (IF mtex = t THEN 1 ELSE 0)
      BY <1>1, <2>3, TimesAppend
    <2>6. InStep'
      <3> SUFFICES ASSUME NEW t \in Textures
                   PROVE  Times(Textured(queue'), t) = IF t \in queued' THEN 1 ELSE 0
        BY DEF InStep
      <3>1. Times(Textured(queue), t) = IF t \in queued THEN 1 ELSE 0
        BY OneTexture
      <3> QED
        BY <1>2, <2>1, <2>5, <3>1
    <2>7. ASSUME NEW t \in Textures
          PROVE  refs'[t] >= held'[t] + Owes(queue', todo', mtex', t)
      <3> DEFINE q == Times(Textured(queue), t)
                 d == Times(todo, t)
                 m == IF mtex = t THEN 1 ELSE 0
      <3>1. /\ refs[t] \in Nat /\ held[t] \in Nat /\ q \in Nat /\ d \in Nat
            /\ refs[t] >= held[t] + q + d + m
        BY OneTexture
      <3>2. Owes(queue', todo', mtex', t) = (q + m) + d + 0
        BY <1>1, <2>5 DEF Owes
      <3>3. m \in Nat
        OBVIOUS
      <3> HIDE DEF q, d, m
      <3> QED
        BY <1>1, <2>1, <3>1, <3>2, <3>3
    <2> QED
      BY <2>4, <2>6, <2>7, OwedNext DEF TextureInv
  <1>3. CASE ~(Len(queue) < MaxDelayed /\ mtex \notin queued)
    <2>1. Orig(mtex) /\ queue' = queue /\ queued' = queued
      BY <1>3 DEF Queue, delayed
    <2>2. /\ refs' \in [Textures -> Nat]
          /\ refs'[mtex] = IF refs[mtex] > 0 THEN refs[mtex] - 1 ELSE 0
          /\ \A u \in Textures \ {mtex} : refs'[u] = refs[u]
      BY <1>1, <2>1, OrigTakes
    <2>3. Types'
      BY <1>1, <2>1, <2>2 DEF Types
    <2>4. InStep'
      BY <2>1 DEF TextureInv, InStep
    <2>5. ASSUME NEW t \in Textures
          PROVE  refs'[t] >= held'[t] + Owes(queue', todo', mtex', t)
      <3> DEFINE q == Times(Textured(queue), t)
                 d == Times(todo, t)
      <3>1. /\ refs[t] \in Nat /\ held[t] \in Nat /\ q \in Nat /\ d \in Nat
            /\ refs[t] >= held[t] + q + d + (IF mtex = t THEN 1 ELSE 0)
        BY OneTexture
      <3>2. Owes(queue', todo', mtex', t) = q + d + 0
        BY <1>1, <2>1 DEF Owes
      <3> HIDE DEF q, d
      <3> QED
        BY <1>1, <2>2, <3>1, <3>2
    <2> QED
      BY <2>3, <2>4, <2>5, OwedNext DEF TextureInv
  <1> QED
    BY <1>2, <1>3

LEMMA ReleaseTextureStep ==
    ASSUME TextureInv, ReleaseTexture
    PROVE  TextureInv'
  <1>1. /\ Types /\ todo \in Seq(Textures) /\ todo # <<>>
        /\ Orig(Head(todo)) /\ todo' = Tail(todo)
        /\ mpc' = IF todo' # <<>> THEN "release" ELSE "idle"
        /\ UNCHANGED <<held, queue, queued, mtex>>
    BY DEF TextureInv, Types, ReleaseTexture, Work, delayed
  <1>2. Head(todo) \in Textures /\ todo' \in Seq(Textures)
    BY <1>1, HeadTailProperties
  <1>3. /\ refs' \in [Textures -> Nat]
        /\ refs'[Head(todo)] = IF refs[Head(todo)] > 0 THEN refs[Head(todo)] - 1 ELSE 0
        /\ \A u \in Textures \ {Head(todo)} : refs'[u] = refs[u]
    BY <1>1, <1>2, OrigTakes
  <1>4. Types'
    BY <1>1, <1>2, <1>3 DEF Types
  <1>5. InStep'
    BY <1>1 DEF TextureInv, InStep
  <1>6. ASSUME NEW t \in Textures
        PROVE  refs'[t] >= held'[t] + Owes(queue', todo', mtex', t)
    <2> DEFINE q == Times(Textured(queue), t)
               d == Times(todo, t)
               d2 == Times(Tail(todo), t)
               m == IF mtex = t THEN 1 ELSE 0
    <2>1. /\ refs[t] \in Nat /\ held[t] \in Nat /\ q \in Nat /\ d \in Nat
          /\ refs[t] >= held[t] + q + d + m
      BY OneTexture
    <2>2. Owes(queue', todo', mtex', t) = q + d2 + m
      BY <1>1 DEF Owes
    <2>3. d = d2 + (IF Head(todo) = t THEN 1 ELSE 0) /\ d2 \in Nat
      BY <1>1, <1>2, TimesTail, HitsFinite
    <2>4. m \in Nat /\ held'[t] = held[t]
      BY <1>1
    <2> HIDE DEF q, d, d2, m
    <2>5. CASE Head(todo) = t
      BY <1>3, <2>1, <2>2, <2>3, <2>4, <2>5
    <2>6. CASE Head(todo) # t
      BY <1>3, <2>1, <2>2, <2>3, <2>4, <2>6
    <2> QED
      BY <2>5, <2>6
  <1> QED
    BY <1>4, <1>5, <1>6, OwedNext DEF TextureInv

\* A step that takes releases out of the queue, and makes none: what is then to be
\* made and what is still queued is no more than was queued.
LEMMA TakesOut ==
    ASSUME TextureInv, UNCHANGED <<refs, held, mtex>>, Work,
           queue' \in Seq(Delayed), todo' \in Seq(Textures), queued' \subseteq Textures,
           InStep',
           \A t \in Textures : Times(todo', t) + Times(Textured(queue'), t)
                                 <= Times(Textured(queue), t)
    PROVE  TextureInv'
  <1>1. mpc' = IF todo' # <<>> THEN "release" ELSE "idle"
    BY DEF Work
  <1>2. Types'
    BY <1>1 DEF TextureInv, Types
  <1>3. ASSUME NEW t \in Textures
        PROVE  refs'[t] >= held'[t] + Owes(queue', todo', mtex', t)
    <2> DEFINE q == Times(Textured(queue), t)
               d == Times(todo, t)
               m == IF mtex = t THEN 1 ELSE 0
               q2 == Times(Textured(queue'), t)
               d2 == Times(todo', t)
    <2>1. /\ refs[t] \in Nat /\ held[t] \in Nat /\ q \in Nat /\ d \in Nat
          /\ refs[t] >= held[t] + q + d + m
      BY OneTexture
    <2>2. Owes(queue', todo', mtex', t) = q2 + d2 + m
      BY DEF Owes
    <2>3. d2 + q2 <= q /\ d2 \in Nat /\ q2 \in Nat
      BY OwesIs
    <2>4. m \in Nat /\ held'[t] = held[t] /\ refs'[t] = refs[t]
      OBVIOUS
    <2> HIDE DEF q, d, q2, d2, m
    <2> QED
      BY <2>1, <2>2, <2>3, <2>4
  <1> QED
    BY <1>2, <1>3, OwedNext DEF TextureInv

LEMMA TimesIn ==
    ASSUME NEW s \in Seq(Textures), NEW t
    PROVE  t \in ToSet(s) <=> Times(s, t) # 0
  <1>1. DOMAIN s = 1 .. Len(s) /\ IsFiniteSet(Hits(s, t))
    BY LenProperties, HitsFinite
  <1>2. t \in ToSet(s) <=> Hits(s, t) # {}
    BY <1>1 DEF ToSet, Hits
  <1> QED
    BY <1>1, <1>2, FS_EmptySet DEF Times

LEMMA FlushStep ==
    ASSUME TextureInv, NEW n \in Nat, mpc = "idle", Flush(n), Work, UNCHANGED <<refs, held, mtex>>
    PROVE  TextureInv'
  <1> DEFINE take == IF n < Len(queue) THEN n ELSE Len(queue)
             front == SubSeq(queue, 1, take)
             rest == SubSeq(queue, take + 1, Len(queue))
  <1>1. /\ Types /\ queue \in Seq(Delayed) /\ Len(queue) \in Nat /\ queued \subseteq Textures
        /\ Textured(queue) \in Seq(Textures) /\ Len(Textured(queue)) = Len(queue)
    BY TexturedType DEF TextureInv, Types
  <1>2. todo' = Textured(front) /\ queue' = rest /\ queued' = queued \ ToSet(todo')
    BY DEF Flush
  <1>3. take \in 0 .. Len(queue)
    BY <1>1
  <1> HIDE DEF take
  <1>4. /\ 1 \in 1 .. Len(queue) + 1 /\ take + 1 \in 1 .. Len(queue) + 1
        /\ Len(queue) \in 0 .. Len(queue) /\ 1 <= take + 1 /\ take + 1 <= Len(queue) + 1
    BY <1>1, <1>3
  <1>5. front \in Seq(Delayed) /\ rest \in Seq(Delayed)
    BY <1>1, <1>3, <1>4, PartOf
  <1>6. /\ Textured(front) = SubSeq(Textured(queue), 1, take)
        /\ Textured(rest) = SubSeq(Textured(queue), take + 1, Len(queue))
    BY <1>1, <1>3, <1>4, TexturedPart
  <1>7. todo' \in Seq(Textures) /\ queue' \in Seq(Delayed) /\ Textured(queue') \in Seq(Textures)
    BY <1>2, <1>5, TexturedType
  <1>8. ASSUME NEW t \in Textures
        PROVE  /\ Times(Textured(queue), t) = Times(todo', t) + Times(Textured(queue'), t)
               /\ Times(todo', t) \in Nat /\ Times(Textured(queue'), t) \in Nat
    <2>1. Times(Textured(queue), t)
            = Times(SubSeq(Textured(queue), 1, take), t)
              + Times(SubSeq(Textured(queue), take + 1, Len(Textured(queue))), t)
      BY <1>1, <1>3, TimesSplit
    <2> QED
      BY <1>1, <1>2, <1>6, <1>7, <2>1, HitsFinite
  <1>9. InStep'
    <2> SUFFICES ASSUME NEW t \in Textures
                 PROVE  Times(Textured(queue'), t) = IF t \in queued' THEN 1 ELSE 0
      BY DEF InStep
    <2>1. Times(Textured(queue), t) = IF t \in queued THEN 1 ELSE 0
      BY OneTexture
    <2>2. t \in ToSet(todo') <=> Times(todo', t) # 0
      BY <1>7, TimesIn
    <2> QED
      BY <1>2, <1>8, <2>1, <2>2
  <1>10. \A t \in Textures : Times(todo', t) + Times(Textured(queue'), t)
                               <= Times(Textured(queue), t)
    BY <1>8
  <1> QED
    BY <1>1, <1>2, <1>7, <1>9, <1>10, TakesOut

LEMMA OnFrameStep ==
    ASSUME TextureInv, OnFrame
    PROVE  TextureInv'
  <1>1. /\ Types /\ mpc = "idle" /\ todo' = Swept.out /\ queue' = Swept.kept /\ Work
        /\ queued' = ToSet(Textured(queue')) /\ UNCHANGED <<refs, held, mtex>>
    BY DEF TextureInv, OnFrame, Sweep, counts
  <1>2. /\ todo' \in Seq(Textures) /\ queue' \in Seq(Delayed)
        /\ \A t : Times(todo', t) + Times(Textured(queue'), t) <= Times(Textured(queue), t)
    BY <1>1, SweepCounts
  <1>3. Textured(queue') \in Seq(Textures)
    BY <1>2, TexturedType
  <1>4. queued' \subseteq Textures
    <2>1. DOMAIN Textured(queue') = 1 .. Len(Textured(queue'))
      BY <1>3, LenProperties
    <2> QED
      BY <1>1, <1>3, <2>1, ElementOfSeq DEF ToSet
  <1>5. InStep'
    <2> SUFFICES ASSUME NEW t \in Textures
                 PROVE  Times(Textured(queue'), t) = IF t \in queued' THEN 1 ELSE 0
      BY DEF InStep
    <2>1. Times(Textured(queue), t) = IF t \in queued THEN 1 ELSE 0
      BY OneTexture
    <2>2. t \in queued' <=> Times(Textured(queue'), t) # 0
      BY <1>1, <1>3, TimesIn
    <2>3. Times(Textured(queue'), t) \in Nat /\ Times(todo', t) \in Nat
      BY <1>2, <1>3, HitsFinite
    <2>4. Times(todo', t) + Times(Textured(queue'), t) <= Times(Textured(queue), t)
      BY <1>2
    <2> QED
      BY <2>1, <2>2, <2>3, <2>4
  <1> QED
    BY <1>1, <1>2, <1>4, <1>5, TakesOut

LEMMA DiscardStep ==
    ASSUME TextureInv, Discard
    PROVE  TextureInv'
  <1>1. /\ Types /\ queue' = <<>> /\ queued' = {}
        /\ UNCHANGED <<refs, held, mpc, mtex, todo>>
    BY DEF TextureInv, Discard, counts, main
  <1>2. Textured(queue') = <<>> /\ queue' \in Seq(Delayed)
    BY <1>1 DEF Textured
  <1>3. Types'
    BY <1>1, <1>2 DEF Types
  <1>4. InStep'
    <2>1. \A t \in Textures : Times(Textured(queue'), t) = 0 /\ t \notin queued'
      BY <1>1, <1>2, TimesNone
    <2> QED
      BY <2>1 DEF InStep
  <1>5. ASSUME NEW t \in Textures
        PROVE  refs'[t] >= held'[t] + Owes(queue', todo', mtex', t)
    <2> DEFINE q == Times(Textured(queue), t)
               d == Times(todo, t)
               m == IF mtex = t THEN 1 ELSE 0
    <2>1. /\ refs[t] \in Nat /\ held[t] \in Nat /\ q \in Nat /\ d \in Nat
          /\ refs[t] >= held[t] + q + d + m
      BY OneTexture
    <2>2. Owes(queue', todo', mtex', t) = 0 + d + m
      BY <1>1, <1>2, TimesNone DEF Owes
    <2>3. m \in Nat /\ held'[t] = held[t] /\ refs'[t] = refs[t]
      BY <1>1
    <2> HIDE DEF q, d, m
    <2> QED
      BY <2>1, <2>2, <2>3
  <1> QED
    BY <1>3, <1>4, <1>5, OwedNext DEF TextureInv

\* Neither the textures nor what is owed of them change.
LEMMA OwesTheSame ==
    ASSUME TextureInv, queue' \in Seq(Delayed), Textured(queue') = Textured(queue),
           UNCHANGED <<refs, held, queued, mpc, mtex, todo>>
    PROVE  TextureInv'
  <1>1. Types'
    BY DEF TextureInv, Types
  <1>2. InStep'
    BY DEF TextureInv, InStep
  <1>3. ASSUME NEW t \in Textures
        PROVE  refs'[t] >= held'[t] + Owes(queue', todo', mtex', t)
    <2>1. refs[t] >= held[t] + Owes(queue, todo, mtex, t)
      BY OwedNow DEF TextureInv
    <2>2. Owes(queue', todo', mtex', t) = Owes(queue, todo, mtex, t)
      BY DEF Owes
    <2> QED
      BY <2>1, <2>2
  <1> QED
    BY <1>1, <1>2, <1>3, OwedNext DEF TextureInv

LEMMA TickStep ==
    ASSUME TextureInv, Tick
    PROVE  TextureInv'
  <1>1. /\ queue' = [k \in DOMAIN queue |-> [queue[k] EXCEPT !.left = Down(@)]]
        /\ UNCHANGED <<refs, held, queued, mpc, mtex, todo>>
    BY DEF Tick, counts, main
  <1>2. /\ queue \in Seq(Delayed) /\ Len(queue) \in Nat /\ DOMAIN queue = 1 .. Len(queue)
        /\ \A k \in 1 .. Len(queue) : queue[k] \in Delayed
    BY LenProperties, ElementOfSeq DEF TextureInv, Types
  <1>3. ASSUME NEW k \in 1 .. Len(queue)
        PROVE  queue'[k] \in Delayed /\ queue'[k].tex = queue[k].tex
    <2>1. queue'[k] = [queue[k] EXCEPT !.left = Down(@)] /\ queue[k] \in Delayed
      BY <1>1, <1>2
    <2>2. Down(queue[k].left) \in Nat
      BY <2>1 DEF Down, Delayed
    <2> QED
      BY <2>1, <2>2 DEF Delayed
  <1>4. queue' \in [1 .. Len(queue) -> Delayed]
    <2>1. queue' = [k \in 1 .. Len(queue) |-> [queue[k] EXCEPT !.left = Down(@)]]
      BY <1>1, <1>2
    <2>2. \A k \in 1 .. Len(queue) : [queue[k] EXCEPT !.left = Down(@)] \in Delayed
      BY <1>3, <2>1
    <2> QED
      BY <2>1, <2>2
  <1>5. queue' \in Seq(Delayed) /\ Len(queue') = Len(queue)
    <2>1. queue' \in Seq(Delayed)
      BY <1>2, <1>4
    <2> DEFINE m == Len(queue)
               n == Len(queue')
    <2>2. DOMAIN queue' = 1 .. n /\ DOMAIN queue' = 1 .. m /\ n \in Nat /\ m \in Nat
      BY <1>2, <1>4, <2>1, LenProperties
    <2> HIDE DEF m, n
    <2>3. 1 .. n = 1 .. m
      BY <2>2, Zenon
    <2>4. m = n
      <3>1. ~(m < n)
        BY <2>2, <2>3
      <3>2. ~(n < m)
        BY <2>2, <2>3
      <3> QED
        BY <2>2, <3>1, <3>2
    <2> QED
      BY <2>1, <2>4 DEF m, n
  <1>6. Textured(queue') = Textured(queue)
    BY <1>3, <1>5 DEF Textured
  <1> QED
    BY <1>1, <1>5, <1>6, OwesTheSame

LEMMA TextureInductive == TextureInv /\ [Next]_vars => TextureInv'
  <1> SUFFICES ASSUME TextureInv, [Next]_vars
               PROVE  TextureInv'
    OBVIOUS
  <1>1. CASE UNCHANGED vars \/ SwapBegin \/ SwapEnd \/ RebuiltInPlace \/ AddonSpeaks \/ CollectorThrows
    <2>1. UNCHANGED <<refs, held, queue, queued, mpc, mtex, todo>>
      BY <1>1, Zenon DEF vars, SwapBegin, SwapEnd, RebuiltInPlace, AddonSpeaks, CollectorThrows,
                         counts, delayed, main
    <2>2. queue' \in Seq(Delayed)
      BY <2>1 DEF TextureInv, Types
    <2> QED
      BY <2>1, <2>2, OwesTheSame
  <1>2. ASSUME NEW t \in Textures, Acquire(t) \/ OtherRelease(t) \/ Release(t)
        PROVE  TextureInv'
    BY <1>2, AcquireStep, ReleaseStep
  <1>3. CASE LoadingBegin
    <2>1. /\ FlushBudget \in Nat /\ mpc = "idle" /\ Flush(FlushBudget) /\ Work
          /\ UNCHANGED <<refs, held, mtex>>
      BY <1>3, TextureAssumption DEF LoadingBegin, counts
    <2> QED
      BY <2>1, FlushStep
  <1>4. CASE LoadingEnd
    <2>1. PICK n \in Nat : Flush(n)
      <3>1. FlushBudget \in Nat /\ 2 * FlushBudget \in Nat
        BY TextureAssumption
      <3>2. (IF isLoading THEN FlushBudget ELSE 2 * FlushBudget) \in Nat
        BY <3>1
      <3> QED
        BY <1>4, <3>2 DEF LoadingEnd
    <2>2. mpc = "idle" /\ Work /\ UNCHANGED <<refs, held, mtex>>
      BY <1>4 DEF LoadingEnd, counts
    <2> QED
      BY <2>1, <2>2, FlushStep
  <1>5. CASE ReadAddonState
    <2>1. /\ FlushBudget \in Nat /\ mpc = "idle" /\ Flush(FlushBudget) /\ Work
          /\ UNCHANGED <<refs, held, mtex>>
      BY <1>5, TextureAssumption DEF ReadAddonState, counts
    <2> QED
      BY <2>1, FlushStep
  <1> QED
    BY <1>1, <1>2, <1>3, <1>4, <1>5, QueueStep, ReleaseTextureStep, OnFrameStep, DiscardStep, TickStep
    DEF Next

LEMMA TextureInvHolds == Spec => []TextureInv
  <1>1. Init => TextureInv
    <2> SUFFICES ASSUME Init PROVE TextureInv
      OBVIOUS
    <2>1. /\ refs = [t \in Textures |-> 0] /\ held = refs /\ queue = <<>> /\ queued = {}
          /\ todo = <<>> /\ mpc = "idle" /\ mtex = None
      BY DEF Init
    <2>2. Types
      BY <2>1 DEF Types
    <2>3. Textured(queue) = <<>>
      BY <2>1 DEF Textured
    <2>6. \A t \in Textures : mtex # t
      BY <2>1, TextureAssumption
    <2>4. InStep
      BY <2>1, <2>3, TimesNone DEF InStep
    <2>5. ASSUME NEW t \in Textures
          PROVE  refs[t] >= held[t] + Owes(queue, todo, mtex, t)
      <3>1. Owes(queue, todo, mtex, t) = 0
        <4>1. Times(Textured(queue), t) = 0 /\ Times(todo, t) = 0
          BY <2>1, <2>3, TimesNone, Zenon
        <4> QED
          BY <2>6, <4>1 DEF Owes
      <3> QED
        BY <2>1, <3>1
    <2> QED
      BY <2>2, <2>4, <2>5, OwedNow DEF TextureInv
  <1> QED
    BY <1>1, TextureInductive, PTL DEF Spec

\* Whatever other threads look up and release, every release still to be made has
\* a reference of its own to drop: no withheld release is made twice, and no
\* texture in use is destroyed by one (Hooked_Texture_Release, OnFrame, Flush).
THEOREM ReleaseCorrect == Spec => []ReleaseOwnsReference
  <1>1. TextureInv => ReleaseOwnsReference
    BY DEF TextureInv
  <1> QED
    BY <1>1, TextureInvHolds, PTL

\* g_queued is "kept in step" with the queue: it holds the textures of the queue,
\* and none is queued twice.
THEOREM MembershipCorrect == Spec => []InStep
  <1>1. TextureInv => InStep
    BY DEF TextureInv
  <1> QED
    BY <1>1, TextureInvHolds, PTL
=============================================================================
