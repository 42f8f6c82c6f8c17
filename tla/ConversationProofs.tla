------------------------- MODULE ConversationProofs -------------------------
(***************************************************************************)
(* Theorems about the conversation that /v1/responses relays, for every    *)
(* set of requests and answers and any number of turns.                    *)
(***************************************************************************)
EXTENDS Conversation, SequenceTheorems, WellFoundedInduction, TLAPS

-----------------------------------------------------------------------------
(* Induction *)

\* Induction over the numbers, of a set: what holds is membership in T.
LEMMA NumberInduction ==
  ASSUME NEW T, 0 \in T, \A n \in Nat : n \in T => n + 1 \in T
  PROVE  \A n \in Nat : n \in T
<1> SUFFICES ASSUME NEW k \in Nat, k \notin T PROVE FALSE
  OBVIOUS
<1> DEFINE U == {n \in Nat : n \notin T}
<1>1. U \subseteq Nat /\ U # {}
  OBVIOUS
<1>2. PICK x \in U : \A y \in U : ~(<<y, x>> \in OpToRel(<, Nat))
  <2> HIDE DEF U
  <2> QED  BY <1>1, NatLessThanWellFounded, WFMin
<1>3. \A y \in U : ~(y < x)
  <2> SUFFICES ASSUME NEW y \in U, y < x PROVE FALSE
    OBVIOUS
  <2>1. <<y, x>> \in Nat \X Nat /\ <<y, x>>[1] < <<y, x>>[2]
    BY <1>1
  <2>2. <<y, x>> \in OpToRel(<, Nat)
    BY <2>1 DEF OpToRel
  <2> QED  BY <1>2, <2>2
<1>4. x \in Nat /\ x \notin T
  OBVIOUS
<1>5. x # 0 /\ x - 1 \in Nat /\ x - 1 < x /\ (x - 1) + 1 = x
  BY <1>4
<1>6. x - 1 \in T
  BY <1>3, <1>5
<1> QED  BY <1>4, <1>5, <1>6
-----------------------------------------------------------------------------
(* Flattening *)

\* FlattenSeq's recursive function, for the first n sequences.
IsFlat(f, ss, n) == f = [i \in 1 .. n |-> IF i = 1 THEN ss[i] ELSE f[i - 1] \o ss[i]]

LEMMA FlatExists ==
  ASSUME NEW ss
  PROVE  \A n \in Nat : \E f : IsFlat(f, ss, n)
<1> DEFINE T == {n \in Nat : \E f : IsFlat(f, ss, n)}
<1>1. 0 \in T
  <2> DEFINE f == [i \in 1 .. 0 |-> <<>>]
  <2>1. IsFlat(f, ss, 0)
    BY DEF IsFlat
  <2> QED  BY <2>1
<1>2. ASSUME NEW n \in Nat, n \in T PROVE n + 1 \in T
  <2>1. PICK f : IsFlat(f, ss, n)
    BY <1>2
  <2> DEFINE last == IF n = 0 THEN ss[1] ELSE f[n] \o ss[n + 1]
             g == [i \in 1 .. n + 1 |-> IF i = n + 1 THEN last ELSE f[i]]
  <2>2. ASSUME NEW i \in 1 .. n + 1
        PROVE  g[i] = IF i = 1 THEN ss[i] ELSE g[i - 1] \o ss[i]
    <3>1. CASE i = n + 1
      <4>1. g[i] = last
        BY <3>1
      <4>2. i # 1 => i - 1 \in 1 .. n + 1 /\ i - 1 # n + 1 /\ i - 1 = n /\ n # 0
        BY <3>1
      <4>3. i # 1 => g[i - 1] = f[n]
        BY <4>2
      <4>4. i = 1 => n = 0
        BY <3>1
      <4> QED  BY <3>1, <4>1, <4>2, <4>3, <4>4
    <3>2. CASE i # n + 1
      <4>1. i \in 1 .. n /\ g[i] = f[i]
        BY <3>2
      <4>2. f[i] = IF i = 1 THEN ss[i] ELSE f[i - 1] \o ss[i]
        <5>1. f = [j \in 1 .. n |-> IF j = 1 THEN ss[j] ELSE f[j - 1] \o ss[j]]
          BY <2>1 DEF IsFlat
        <5> HIDE DEF g
        <5> QED  BY <4>1, <5>1
      <4>3. i # 1 => g[i - 1] = f[i - 1]
        BY <4>1
      <4> QED  BY <4>1, <4>2, <4>3
    <3> QED  BY <3>1, <3>2
  <2>3. g = [i \in 1 .. n + 1 |-> IF i = 1 THEN ss[i] ELSE g[i - 1] \o ss[i]]
    <3>1. DOMAIN g = 1 .. n + 1 /\ g = [i \in 1 .. n + 1 |-> g[i]]
      OBVIOUS
    <3> HIDE DEF g
    <3> QED  BY <2>2, <3>1
  <2>4. IsFlat(g, ss, n + 1)
    <3> HIDE DEF g
    <3> QED  BY <2>3 DEF IsFlat
  <2> HIDE DEF g
  <2> QED  BY <2>4
<1> HIDE DEF T
<1>3. \A n \in Nat : n \in T
  BY <1>1, <1>2, NumberInduction
<1> QED  BY <1>3 DEF T

LEMMA FlatIs ==
  ASSUME NEW f, NEW ss, NEW n \in Nat, IsFlat(f, ss, n), NEW i \in 1 .. n
  PROVE  f[i] = IF i = 1 THEN ss[i] ELSE f[i - 1] \o ss[i]
<1>1. f = [j \in 1 .. n |-> IF j = 1 THEN ss[j] ELSE f[j - 1] \o ss[j]]
  BY DEF IsFlat
<1> DEFINE F(j) == IF j = 1 THEN ss[j] ELSE f[j - 1] \o ss[j]
<1>2. f = [j \in 1 .. n |-> F(j)]
  BY <1>1
<1> HIDE DEF F
<1>3. f[i] = F(i)
  BY <1>2
<1> QED  BY <1>3 DEF F

\* What the function is of the first sequences does not depend on the later ones.
LEMMA FlatAgree ==
  ASSUME NEW f, NEW g, NEW ss, NEW tt, NEW m \in Nat, NEW n \in Nat, m <= n,
         IsFlat(f, ss, m), IsFlat(g, tt, n), \A i \in 1 .. m : ss[i] = tt[i]
  PROVE  \A i \in 1 .. m : f[i] = g[i]
<1> DEFINE T == {i \in Nat : i \in 1 .. m => f[i] = g[i]}
<1>1. 0 \in T
  OBVIOUS
<1>2. ASSUME NEW i \in Nat, i \in T PROVE i + 1 \in T
  <2> SUFFICES ASSUME i + 1 \in 1 .. m PROVE f[i + 1] = g[i + 1]
    OBVIOUS
  <2>1. i + 1 \in 1 .. n /\ ss[i + 1] = tt[i + 1] /\ (i + 1) - 1 = i /\ (i + 1 # 1 => i \in 1 .. m)
    OBVIOUS
  <2>2. i + 1 # 1 => f[i] = g[i]
    BY <1>2, <2>1
  <2>3. f[i + 1] = IF i + 1 = 1 THEN ss[i + 1] ELSE f[(i + 1) - 1] \o ss[i + 1]
    BY FlatIs
  <2>4. g[i + 1] = IF i + 1 = 1 THEN tt[i + 1] ELSE g[(i + 1) - 1] \o tt[i + 1]
    BY <2>1, FlatIs
  <2> QED  BY <2>1, <2>2, <2>3, <2>4
<1> HIDE DEF T
<1>3. \A i \in Nat : i \in T
  BY <1>1, <1>2, NumberInduction
<1> QED  BY <1>3 DEF T

LEMMA FlattenIsFlat ==
  ASSUME NEW ss, Len(ss) \in Nat, Len(ss) # 0
  PROVE  \E f : IsFlat(f, ss, Len(ss)) /\ FlattenSeq(ss) = f[Len(ss)]
<1> DEFINE f == CHOOSE g : IsFlat(g, ss, Len(ss))
<1>1. IsFlat(f, ss, Len(ss))
  BY FlatExists
<1>2. FlattenSeq(ss) = f[Len(ss)]
  BY DEF FlattenSeq, IsFlat
<1> HIDE DEF f
<1> QED  BY <1>1, <1>2

LEMMA FlattenEmpty == FlattenSeq(<<>>) = <<>>
BY DEF FlattenSeq

LEMMA PartsConcat ==
  ASSUME NEW S, NEW a \in Seq(Seq(S)), NEW b \in Seq(Seq(S)), NEW c \in Seq(Seq(S))
  PROVE  (a \o b) \o c = a \o (b \o c)
BY ConcatAssociative

LEMMA PartsLast ==
  ASSUME NEW S, NEW ss \in Seq(Seq(S)), ss # <<>>
  PROVE  \E tt \in Seq(Seq(S)), s \in Seq(S) : ss = Append(tt, s)
BY SequenceEmptyOrAppend

LEMMA FlattenAppend ==
  ASSUME NEW S, NEW ss \in Seq(Seq(S)), NEW s \in Seq(S)
  PROVE  FlattenSeq(Append(ss, s)) = FlattenSeq(ss) \o s
<1> DEFINE tt == Append(ss, s)
<1> DEFINE n == Len(ss)
<1>1. /\ tt \in Seq(Seq(S)) /\ Len(tt) = n + 1 /\ tt[n + 1] = s
      /\ \A i \in 1 .. n : tt[i] = ss[i]
  BY AppendProperties
<1>2. n \in Nat
  BY LenProperties
<1>3. n = 0 => ss = <<>>
  BY EmptySeq
<1> HIDE DEF tt
<1>4. PICK g : IsFlat(g, tt, n + 1) /\ FlattenSeq(tt) = g[n + 1]
  BY <1>1, <1>2, FlattenIsFlat
<1>5. g[n + 1] = IF n + 1 = 1 THEN tt[n + 1] ELSE g[(n + 1) - 1] \o tt[n + 1]
  <2> HIDE DEF n
  <2> QED  BY <1>2, <1>4, FlatIs
<1>6. CASE n = 0
  <2>1. FlattenSeq(tt) = s
    BY <1>1, <1>4, <1>5, <1>6
  <2>2. FlattenSeq(ss) = <<>>
    BY <1>3, <1>6, FlattenEmpty
  <2> QED  BY <2>1, <2>2, ConcatEmptySeq DEF tt
<1>7. CASE n # 0
  <2>1. PICK f : IsFlat(f, ss, n) /\ FlattenSeq(ss) = f[n]
    BY <1>2, <1>7, FlattenIsFlat
  <2>2. f[n] = g[n]
    <3> HIDE DEF n
    <3>1. n <= n + 1 /\ n \in 1 .. n /\ n + 1 \in Nat /\ \A i \in 1 .. n : ss[i] = tt[i]
      BY <1>1, <1>2, <1>7
    <3>2. \A i \in 1 .. n : f[i] = g[i]
      BY <1>2, <1>4, <2>1, <3>1, FlatAgree
    <3> QED  BY <3>1, <3>2
  <2>3. FlattenSeq(tt) = g[n] \o s
    <3> HIDE DEF n
    <3>1. n + 1 # 1 /\ (n + 1) - 1 = n
      BY <1>2, <1>7
    <3> QED  BY <1>1, <1>4, <1>5, <3>1
  <2> QED  BY <2>1, <2>2, <2>3 DEF tt
<1> QED  BY <1>6, <1>7

\* Induction over sequences, of a set.
LEMMA SequenceInduction ==
  ASSUME NEW S, NEW T, <<>> \in T,
         \A s \in Seq(S), e \in S : s \in T => Append(s, e) \in T
  PROVE  \A s \in Seq(S) : s \in T
<1> DEFINE U == {n \in Nat : \A s \in Seq(S) : Len(s) = n => s \in T}
<1>1. 0 \in U
  BY EmptySeq
<1>2. ASSUME NEW n \in Nat, n \in U PROVE n + 1 \in U
  <2> SUFFICES ASSUME NEW s \in Seq(S), Len(s) = n + 1 PROVE s \in T
    OBVIOUS
  <2>1. s # <<>>
    <3>1. Len(<<>>) = 0 /\ n + 1 # 0
      BY EmptySeq
    <3> QED  BY <3>1
  <2>2. PICK t \in Seq(S), e \in S : s = Append(t, e)
    BY <2>1, SequenceEmptyOrAppend
  <2>3. Len(s) = Len(t) + 1 /\ Len(t) \in Nat
    BY <2>2, AppendProperties, LenProperties
  <2>4. Len(t) = n
    <3> DEFINE k == Len(t)
    <3>1. k + 1 = n + 1 /\ k \in Nat
      BY <2>3
    <3> HIDE DEF k
    <3>2. k = n
      BY <3>1
    <3> QED  BY <3>2 DEF k
  <2> QED  BY <1>2, <2>2, <2>4
<1> HIDE DEF U
<1>3. \A n \in Nat : n \in U
  BY <1>1, <1>2, NumberInduction
<1> QED  BY <1>3, LenProperties DEF U

LEMMA FlattenTyped ==
  ASSUME NEW S, NEW ss \in Seq(Seq(S))
  PROVE  FlattenSeq(ss) \in Seq(S)
<1> DEFINE T == {s \in Seq(Seq(S)) : FlattenSeq(s) \in Seq(S)}
<1>1. <<>> \in T
  BY FlattenEmpty, EmptySeq
<1>2. ASSUME NEW s \in Seq(Seq(S)), NEW e \in Seq(S), s \in T PROVE Append(s, e) \in T
  <2>1. FlattenSeq(Append(s, e)) = FlattenSeq(s) \o e /\ Append(s, e) \in Seq(Seq(S))
    BY FlattenAppend, AppendProperties
  <2>2. FlattenSeq(s) \o e \in Seq(S)
    BY <1>2, ConcatProperties
  <2> QED  BY <2>1, <2>2
<1> HIDE DEF T
<1>3. \A s \in Seq(Seq(S)) : s \in T
  BY <1>1, <1>2, SequenceInduction
<1> QED  BY <1>3 DEF T

LEMMA FlattenConcat ==
  ASSUME NEW S, NEW a \in Seq(Seq(S)), NEW b \in Seq(Seq(S))
  PROVE  FlattenSeq(a \o b) = FlattenSeq(a) \o FlattenSeq(b)
<1> DEFINE T == {s \in Seq(Seq(S)) : FlattenSeq(a \o s) = FlattenSeq(a) \o FlattenSeq(s)}
<1>1. <<>> \in T
  <2>1. a \o <<>> = a /\ <<>> \in Seq(Seq(S))
    BY ConcatEmptySeq, EmptySeq
  <2>2. FlattenSeq(a) \o <<>> = FlattenSeq(a)
    BY FlattenTyped, ConcatEmptySeq
  <2> QED  BY <2>1, <2>2, FlattenEmpty
<1>2. ASSUME NEW s \in Seq(Seq(S)), NEW e \in Seq(S), s \in T PROVE Append(s, e) \in T
  <2>1. Append(s, e) \in Seq(Seq(S)) /\ a \o s \in Seq(Seq(S)) /\ <<e>> \in Seq(Seq(S))
    BY AppendProperties, ConcatProperties
  <2>2. a \o Append(s, e) = Append(a \o s, e)
    <3>1. Append(s, e) = s \o <<e>> /\ Append(a \o s, e) = (a \o s) \o <<e>>
      BY <2>1, AppendIsConcat
    <3>2. (a \o s) \o <<e>> = a \o (s \o <<e>>)
      <4> DEFINE c == <<e>>
      <4>1. c \in Seq(Seq(S))
        BY <2>1
      <4> HIDE DEF c
      <4>2. (a \o s) \o c = a \o (s \o c)
        BY <4>1, PartsConcat
      <4> QED  BY <4>2 DEF c
    <3> QED  BY <3>1, <3>2
  <2>3. FlattenSeq(Append(a \o s, e)) = FlattenSeq(a \o s) \o e
    BY <2>1, FlattenAppend
  <2>4. FlattenSeq(Append(s, e)) = FlattenSeq(s) \o e
    BY FlattenAppend
  <2>5. (FlattenSeq(a) \o FlattenSeq(s)) \o e = FlattenSeq(a) \o (FlattenSeq(s) \o e)
    BY FlattenTyped, ConcatAssociative
  <2> QED  BY <1>2, <2>1, <2>2, <2>3, <2>4, <2>5
<1> HIDE DEF T
<1>3. \A s \in Seq(Seq(S)) : s \in T
  BY <1>1, <1>2, SequenceInduction
<1> QED  BY <1>3 DEF T

\* An element of a part is one of the whole.
LEMMA FlattenHas ==
  ASSUME NEW S, NEW ss \in Seq(Seq(S)), NEW i \in 1 .. Len(ss), NEW j \in 1 .. Len(ss[i])
  PROVE  \E k \in 1 .. Len(FlattenSeq(ss)) : FlattenSeq(ss)[k] = ss[i][j]
<1> DEFINE Has(s, x) == \E k \in 1 .. Len(s) : s[k] = x
           T == {s \in Seq(Seq(S)) : \A a \in 1 .. Len(s) : \A b \in 1 .. Len(s[a]) :
                   Has(FlattenSeq(s), s[a][b])}
<1>1. <<>> \in T
  <2>1. Len(<<>>) = 0 /\ <<>> \in Seq(Seq(S))
    BY EmptySeq
  <2> HIDE DEF Has
  <2> QED  BY <2>1
<1>2. ASSUME NEW s \in Seq(Seq(S)), NEW e \in Seq(S), s \in T PROVE Append(s, e) \in T
  <2> DEFINE t == Append(s, e)
  <2> DEFINE n == Len(s)
  <2>1. /\ t \in Seq(Seq(S)) /\ Len(t) = n + 1 /\ t[n + 1] = e
        /\ \A a \in 1 .. n : t[a] = s[a]
    BY AppendProperties
  <2>2. n \in Nat
    BY LenProperties
  <2> DEFINE f == FlattenSeq(s)
  <2>3. FlattenSeq(t) = f \o e
    BY FlattenAppend
  <2>4. f \in Seq(S)
    BY FlattenTyped
  <2> DEFINE m == Len(f)
  <2> DEFINE l == Len(e)
  <2>5. /\ f \o e \in Seq(S) /\ Len(f \o e) = m + l
        /\ \A k \in 1 .. m + l : (f \o e)[k] = IF k <= m THEN f[k] ELSE e[k - m]
    BY <2>4, ConcatProperties
  <2>6. m \in Nat /\ l \in Nat
    BY <2>4, LenProperties
  <2>7. ASSUME NEW a \in 1 .. Len(t), NEW b \in 1 .. Len(t[a]) PROVE Has(FlattenSeq(t), t[a][b])
    <3>1. CASE a \in 1 .. n
      <4>1. t[a] = s[a]
        BY <2>1, <3>1
      <4>2. Has(f, s[a][b])
        <5> HIDE DEF t, Has
        <5> QED  BY <1>2, <3>1, <4>1
      <4>3. PICK k \in 1 .. m : f[k] = s[a][b]
        BY <4>2
      <4>4. k \in 1 .. m + l /\ (f \o e)[k] = f[k]
        <5> HIDE DEF m, l, f
        <5>1. k \in 1 .. m + l /\ k <= m
          BY <2>6
        <5> QED  BY <2>5, <5>1
      <4> HIDE DEF m, l, f, t
      <4> QED  BY <2>3, <2>5, <4>1, <4>3, <4>4
    <3>2. CASE a \notin 1 .. n
      <4>1. a = n + 1 /\ t[a] = e
        <5>1. a \in 1 .. n + 1
          BY <2>1
        <5> HIDE DEF n, t
        <5> QED  BY <2>1, <2>2, <3>2, <5>1
      <4>2. b \in 1 .. l
        BY <4>1
      <4> DEFINE k == m + b
      <4>3. k \in 1 .. m + l /\ (f \o e)[k] = e[b]
        <5> HIDE DEF m, l, f
        <5>1. k \in 1 .. m + l /\ ~(k <= m) /\ k - m = b
          BY <2>6, <4>2
        <5> QED  BY <2>5, <5>1
      <4> HIDE DEF m, l, f, t, k
      <4> QED  BY <2>3, <2>5, <4>1, <4>3
    <3> QED  BY <3>1, <3>2
  <2> HIDE DEF Has, t
  <2>8. t \in T
    BY <2>1, <2>7
  <2> QED  BY <2>8 DEF t
<1> HIDE DEF T
<1>3. \A s \in Seq(Seq(S)) : s \in T
  BY <1>1, <1>2, SequenceInduction
<1> QED  BY <1>3 DEF T

\* A sequence taken apart into its elements.
Singletons(s, ss) == Len(ss) = Len(s) /\ \A i \in 1 .. Len(s) : ss[i] = <<s[i]>>

LEMMA FlattenSingletons ==
  ASSUME NEW S, NEW s \in Seq(S), NEW ss \in Seq(Seq(S)), Singletons(s, ss)
  PROVE  FlattenSeq(ss) = s
<1> DEFINE T == {t \in Seq(S) : \A tt \in Seq(Seq(S)) : Singletons(t, tt) => FlattenSeq(tt) = t}
<1>1. <<>> \in T
  <2> SUFFICES ASSUME NEW tt \in Seq(Seq(S)), Len(tt) = Len(<<>>) PROVE FlattenSeq(tt) = <<>>
    BY EmptySeq DEF Singletons
  <2>1. tt = <<>>
    BY EmptySeq
  <2> QED  BY <2>1, FlattenEmpty
<1>2. ASSUME NEW t \in Seq(S), NEW e \in S, t \in T PROVE Append(t, e) \in T
  <2> DEFINE u == Append(t, e)
  <2> SUFFICES ASSUME NEW uu \in Seq(Seq(S)), Singletons(u, uu)
               PROVE  FlattenSeq(uu) = u
    BY AppendProperties
  <2>0. Len(uu) = Len(u) /\ \A i \in 1 .. Len(u) : uu[i] = <<u[i]>>
    BY DEF Singletons
  <2> DEFINE n == Len(t)
  <2>1. /\ u \in Seq(S) /\ Len(u) = n + 1 /\ u[n + 1] = e /\ \A i \in 1 .. n : u[i] = t[i]
    BY AppendProperties
  <2>2. n \in Nat
    BY LenProperties
  <2>3. uu # <<>>
    <3>1. Len(<<>>) = 0
      BY EmptySeq
    <3>2. Len(uu) # 0
      <4> HIDE DEF n
      <4> QED  BY <2>0, <2>1, <2>2
    <3> QED  BY <3>1, <3>2
  <2>4. PICK tt \in Seq(Seq(S)), x \in Seq(S) : uu = Append(tt, x)
    BY <2>3, PartsLast
  <2> DEFINE k == Len(tt)
  <2>5. /\ Len(uu) = k + 1 /\ uu[k + 1] = x /\ \A i \in 1 .. k : uu[i] = tt[i]
    BY <2>4, AppendProperties
  <2>6. k \in Nat
    BY LenProperties
  <2>7. k = n
    <3>1. k + 1 = n + 1
      BY <2>0, <2>1, <2>5
    <3> HIDE DEF k, n
    <3> QED  BY <2>2, <2>6, <3>1
  <2>8. x = <<e>>
    <3>1. n + 1 \in 1 .. Len(u)
      <4>1. n + 1 \in 1 .. n + 1
        <5> HIDE DEF n
        <5> QED  BY <2>2
      <4> QED  BY <2>1, <4>1
    <3>2. uu[n + 1] = <<u[n + 1]>>
      BY <2>0, <3>1
    <3> QED  BY <2>1, <2>5, <2>7, <3>2
  <2>9. \A i \in 1 .. n : tt[i] = <<t[i]>>
    <3> SUFFICES ASSUME NEW i \in 1 .. n PROVE tt[i] = <<t[i]>>
      OBVIOUS
    <3>1. i \in 1 .. Len(u)
      <4>1. i \in 1 .. n + 1
        <5> HIDE DEF n
        <5> QED  BY <2>2
      <4> QED  BY <2>1, <4>1
    <3>2. uu[i] = <<u[i]>>
      BY <2>0, <3>1
    <3>3. uu[i] = tt[i] /\ u[i] = t[i]
      BY <2>1, <2>5, <2>7
    <3> QED  BY <3>2, <3>3
  <2>10. FlattenSeq(tt) = t
    BY <1>2, <2>7, <2>9 DEF Singletons
  <2>11. FlattenSeq(uu) = FlattenSeq(tt) \o x
    BY <2>4, FlattenAppend
  <2> QED  BY <2>8, <2>10, <2>11, AppendIsConcat
<1> HIDE DEF T
<1>3. \A t \in Seq(S) : t \in T
  BY <1>1, <1>2, SequenceInduction
<1> QED  BY <1>3 DEF T

LEMMA FlattenOne ==
  ASSUME NEW S, NEW s \in Seq(S)
  PROVE  FlattenSeq(<<s>>) = s
<1>1. Append(<<>>, s) = <<s>> /\ <<>> \in Seq(Seq(S))
  BY EmptySeq
<1>2. <<>> \o s = s
  BY ConcatEmptySeq
<1> QED  BY <1>1, <1>2, FlattenAppend, FlattenEmpty

\* Parts that are all empty make an empty whole.
LEMMA FlattenNothing ==
  ASSUME NEW ss, Len(ss) \in Nat, ss \in [1 .. Len(ss) -> {<<>>}]
  PROVE  FlattenSeq(ss) = <<>>
<1>1. ss \in Seq(Seq({}))
  <2>1. {<<>>} \subseteq Seq({})
    BY EmptySeq
  <2>2. ss \in [1 .. Len(ss) -> Seq({})]
    BY <2>1
  <2> DEFINE n == Len(ss)
  <2>3. n \in Nat /\ ss \in [1 .. n -> Seq({})]
    BY <2>2
  <2> HIDE DEF n
  <2> QED  BY <2>3, SeqDef
<1>2. FlattenSeq(ss) \in Seq({})
  BY <1>1, FlattenTyped
<1> QED  BY <1>2, EmptySeq, LenProperties, ElementOfSeq

-----------------------------------------------------------------------------
(* Types *)

Item == Saying \cup Received \cup Result

LEMMA FunctionIsSeq ==
  ASSUME NEW S, NEW n \in Nat, NEW f \in [1 .. n -> S]
  PROVE  f \in Seq(S) /\ Len(f) = n
BY SeqDef

\* The parts that FlattenSeq joins, of a sequence whose elements stand for sequences.
LEMMA PartsTyped ==
  ASSUME NEW S, NEW X, NEW s \in Seq(X), NEW f, f = [i \in DOMAIN s |-> f[i]],
         \A i \in DOMAIN s : f[i] \in Seq(S)
  PROVE  f \in Seq(Seq(S)) /\ Len(f) = Len(s) /\ DOMAIN s = 1 .. Len(s) /\ Len(s) \in Nat
<1> DEFINE n == Len(s)
<1> DEFINE R == Seq(S)
<1>1. n \in Nat /\ DOMAIN s = 1 .. n
  BY LenProperties
<1>2. f \in [1 .. n -> R]
  BY <1>1
<1> HIDE DEF n, R
<1>3. f \in Seq(R) /\ Len(f) = n
  BY <1>1, <1>2, FunctionIsSeq
<1> QED  BY <1>1, <1>3 DEF n, R

LEMMA StringTyped ==
  ASSUME NEW t \in Text
  PROVE  String(t) \in Content /\ String(t) # None
BY ConversationAssumption DEF String, Content

Kept(parts) ==
  FlattenSeq([i \in DOMAIN parts |->
    IF parts[i].type \in {"text", "image"} THEN <<parts[i]>> ELSE <<>>])

LEMMA KeptTyped ==
  ASSUME NEW parts \in Seq(Part)
  PROVE  Kept(parts) \in Seq(Part)
<1> DEFINE f == [i \in DOMAIN parts |->
                   IF parts[i].type \in {"text", "image"} THEN <<parts[i]>> ELSE <<>>]
<1>1. DOMAIN parts = 1 .. Len(parts)
  BY LenProperties
<1>2. \A i \in DOMAIN parts : f[i] \in Seq(Part)
  <2> SUFFICES ASSUME NEW i \in DOMAIN parts PROVE f[i] \in Seq(Part)
    OBVIOUS
  <2>1. parts[i] \in Part
    BY <1>1, ElementOfSeq
  <2>2. <<parts[i]>> \in Seq(Part) /\ <<>> \in Seq(Part)
    BY <2>1
  <2> QED  BY <2>2
<1>3. f = [i \in DOMAIN parts |-> f[i]]
  OBVIOUS
<1> HIDE DEF f
<1>4. f \in Seq(Seq(Part))
  BY <1>2, <1>3, PartsTyped
<1>5. FlattenSeq(f) \in Seq(Part)
  BY <1>4, FlattenTyped
<1> QED  BY <1>5 DEF Kept, f

Joined(kept) == FlattenSeq([i \in DOMAIN kept |-> kept[i].text])

LEMMA JoinedTyped ==
  ASSUME NEW kept \in Seq(Part)
  PROVE  Joined(kept) \in Text
<1> DEFINE f == [i \in DOMAIN kept |-> kept[i].text]
<1>1. DOMAIN kept = 1 .. Len(kept)
  BY LenProperties
<1>2. \A i \in DOMAIN kept : f[i] \in Seq(Word)
  <2> SUFFICES ASSUME NEW i \in DOMAIN kept PROVE kept[i].text \in Seq(Word)
    OBVIOUS
  <2>1. kept[i] \in Part
    BY <1>1, ElementOfSeq
  <2> QED  BY <2>1 DEF Part, Text
<1>3. f = [i \in DOMAIN kept |-> f[i]]
  OBVIOUS
<1> HIDE DEF f
<1>4. f \in Seq(Seq(Word))
  BY <1>2, <1>3, PartsTyped
<1>5. FlattenSeq(f) \in Seq(Word)
  BY <1>4, FlattenTyped
<1> QED  BY <1>5 DEF Joined, f, Text

LEMMA ContentIs ==
  ASSUME NEW c \in Content
  PROVE  /\ c.form = "string" => c \in [form : {"string"}, text : Text]
         /\ c.form # "string" => c \in [form : {"parts"}, parts : Seq(Part)]
BY DEF Content

LEMMA ContentToChatIs ==
  ASSUME NEW c
  PROVE  ContentToChat(c) =
           IF c.form = "string" THEN c
           ELSE IF \A i \in DOMAIN Kept(c.parts) : Kept(c.parts)[i].type = "text"
                THEN String(Joined(Kept(c.parts))) ELSE Parts(Kept(c.parts))
BY DEF ContentToChat, Kept, Joined

LEMMA ContentToChatTyped ==
  ASSUME NEW c \in Content
  PROVE  ContentToChat(c) \in Content
<1>1. CASE c.form = "string"
  BY <1>1, ContentToChatIs
<1>2. CASE c.form # "string"
  <2>1. c.parts \in Seq(Part)
    BY <1>2, ContentIs
  <2>2. String(Joined(Kept(c.parts))) \in Content
    BY <2>1, KeptTyped, JoinedTyped, StringTyped
  <2>3. Parts(Kept(c.parts)) \in Content
    BY <2>1, KeptTyped DEF Parts, Content
  <2> QED  BY <1>2, <2>2, <2>3, ContentToChatIs
<1> QED  BY <1>1, <1>2

LEMMA ChatNameIs ==
  ASSUME NEW tool, tool.namespace \in Name, tool.name \in Name
  PROVE  ChatName(tool) = tool.namespace \o tool.name /\ ChatName(tool) \in Name
<1>1. tool.namespace \o tool.name \in Name /\ <<>> \o tool.name = tool.name
  BY ConcatProperties, ConcatEmptySeq DEF Name
<1> QED  BY <1>1 DEF ChatName, NamespacedToolName

LEMMA WordsTyped ==
  ASSUME NEW a \in Arguments, NEW layout \in Layout
  PROVE  Words(a, layout) \in Text
<1>1. a.form \in Word /\ a.text \in Seq(Word) /\ layout \in Word
  BY ConversationAssumption DEF Arguments, Text
<1>2. <<a.form, layout>> \in Seq(Word)
  BY <1>1
<1> QED  BY <1>1, <1>2, ConcatProperties DEF Words, Text

LEMMA CustomInputTyped ==
  ASSUME NEW a \in Arguments
  PROVE  CustomInputFromChatArguments(a) \in Text
<1>1. a.layout \in Layout /\ "compact" \in Layout /\ a.text \in Text
      /\ a.form \in {"input", "object", "string", "value", "broken"}
  BY DEF Arguments, Form, Layout
<1>2. Words(a, "compact") \in Text /\ Words(a, a.layout) \in Text
  BY <1>1, WordsTyped
<1> QED  BY <1>1, <1>2 DEF CustomInputFromChatArguments

LEMMA CustomArgumentsTyped ==
  ASSUME NEW t \in Text
  PROVE  CustomInputToChatArguments(t) \in Arguments
BY DEF CustomInputToChatArguments, Arguments, Form, Layout

-----------------------------------------------------------------------------
(* Input items to chat messages *)

LEMMA ChatMessageTyped ==
  ASSUME NEW role \in {"system", "user", "assistant", "tool"}, NEW content \in Content \cup {None},
         role # "assistant" => content # None
  PROVE  ChatMessage(role, content) \in Message
<1>1. <<>> \in Seq([id : Int, name : Name, arguments : Arguments])
  BY EmptySeq
<1> QED  BY <1>1 DEF ChatMessage, Message

LEMMA ItemIs ==
  ASSUME NEW item \in Item
  PROVE  /\ item.type \in {"message", "context", "call", "output"}
         /\ item.type = "message" => item.content \in Content
         /\ item.type = "output" => item.call_id \in Nat /\ item.output \in Content
         /\ item.type = "call" =>
              /\ item.kind \in {"function", "custom"}
              /\ item.id \in Int \ {0} /\ item.call_id \in Nat
              /\ item.namespace \in Name /\ item.name \in Name
              /\ item.kind = "function" => item.arguments \in Arguments
              /\ item.kind = "custom" => item.arguments \in Text
BY DEF Item, Saying, Received, Result

\* The chat call of a call item, and the message that it becomes.
ChatCall(item) ==
  [id |-> CallId(item), name |-> ChatName(item),
   arguments |-> IF item.kind = "custom"
                 THEN CustomInputToChatArguments(item.arguments)
                 ELSE item.arguments]
CallMessage(call) ==
  [role |-> "assistant", content |-> None, has_calls |-> TRUE, calls |-> <<call>>, call_id |-> 0]

LEMMA CallItemMessage ==
  ASSUME NEW item \in Item, item.type = "call"
  PROVE  /\ AppendInputItem(item) = CallMessage(ChatCall(item))
         /\ ChatCall(item) \in [id : Int, name : Name, arguments : Arguments]
         /\ CallMessage(ChatCall(item)) \in Message
<1>1. AppendInputItem(item) = CallMessage(ChatCall(item))
  BY DEF AppendInputItem, CallMessage, ChatCall, ChatMessage
<1>2. ChatCall(item) \in [id : Int, name : Name, arguments : Arguments]
  <2>1. CallId(item) \in Int
    BY ItemIs DEF CallId
  <2>2. ChatName(item) \in Name
    BY ItemIs, ChatNameIs
  <2>3. item.kind = "custom" => CustomInputToChatArguments(item.arguments) \in Arguments
    BY ItemIs, CustomArgumentsTyped
  <2>4. item.kind # "custom" => item.arguments \in Arguments
    BY ItemIs
  <2> QED  BY <2>1, <2>2, <2>3, <2>4 DEF ChatCall
<1>3. <<ChatCall(item)>> \in Seq([id : Int, name : Name, arguments : Arguments])
  <2> DEFINE c == ChatCall(item)
             C == [id : Int, name : Name, arguments : Arguments]
  <2>1. c \in C
    BY <1>2
  <2> HIDE DEF c, C
  <2>2. <<c>> \in Seq(C)
    BY <2>1
  <2> QED  BY <2>2 DEF c, C
<1>4. CallMessage(ChatCall(item)) \in Message
  BY <1>3 DEF CallMessage, Message
<1> QED  BY <1>1, <1>2, <1>4

LEMMA ResultMessage ==
  ASSUME NEW item \in Item, item.type = "output"
  PROVE  /\ AppendInputItem(item) =
              [role |-> "tool", content |-> item.output, has_calls |-> FALSE, calls |-> <<>>,
               call_id |-> item.call_id]
         /\ AppendInputItem(item) \in Message
<1>1. AppendInputItem(item) =
        [role |-> "tool", content |-> item.output, has_calls |-> FALSE, calls |-> <<>>,
         call_id |-> item.call_id]
  BY DEF AppendInputItem, ToolMessage, ChatMessage
<1>2. <<>> \in Seq([id : Int, name : Name, arguments : Arguments])
  BY EmptySeq
<1>3. item.call_id \in Nat /\ item.output \in Content /\ item.output # None
  BY ItemIs, ConversationAssumption
<1> QED  BY <1>1, <1>2, <1>3 DEF Message

LEMMA SayingMessage ==
  ASSUME NEW item \in Item, item.type \in {"message", "context"}
  PROVE  AppendInputItem(item) \in Message /\ AppendInputItem(item).call_id = 0
<1>1. CASE item.type = "message"
  <2>1. AppendInputItem(item) = ChatMessage(ChatRole(item.role), ContentToChat(item.content))
    BY <1>1 DEF AppendInputItem
  <2>2. ChatRole(item.role) \in {"system", "user", "assistant", "tool"}
    BY DEF ChatRole
  <2>3. ContentToChat(item.content) \in Content /\ ContentToChat(item.content) # None
    BY <1>1, ItemIs, ContentToChatTyped, ConversationAssumption
  <2>4. ChatMessage(ChatRole(item.role), ContentToChat(item.content)) \in Message
    BY <2>2, <2>3, ChatMessageTyped
  <2> QED  BY <2>1, <2>4 DEF ChatMessage
<1>2. CASE item.type = "context"
  <2>1. AppendInputItem(item) = ChatMessage("assistant", String(<<"preserved">>))
    BY <1>2 DEF AppendInputItem
  <2>2. <<"preserved">> \in Text
    <3>1. "preserved" \in Word
      BY ConversationAssumption
    <3> QED  BY <3>1 DEF Text
  <2>3. ChatMessage("assistant", String(<<"preserved">>)) \in Message
    BY <2>2, StringTyped, ChatMessageTyped
  <2> QED  BY <2>1, <2>3 DEF ChatMessage
<1> QED  BY <1>1, <1>2

LEMMA ItemMessage ==
  ASSUME NEW item \in Item
  PROVE  AppendInputItem(item) \in Message
<1>1. item.type \in {"message", "context", "call", "output"}
  BY ItemIs
<1> QED  BY <1>1, CallItemMessage, ResultMessage, SayingMessage

LEMMA MessagesTyped ==
  ASSUME NEW items \in Seq(Item)
  PROVE  /\ Messages(items) \in Seq(Message) /\ Len(Messages(items)) = Len(items)
         /\ \A i \in 1 .. Len(items) :
              items[i] \in Item /\ Messages(items)[i] = AppendInputItem(items[i])
<1> DEFINE n == Len(items)
<1>1. n \in Nat /\ DOMAIN items = 1 .. n /\ \A i \in 1 .. n : items[i] \in Item
  BY LenProperties, ElementOfSeq
<1> DEFINE f == [i \in 1 .. n |-> AppendInputItem(items[i])]
<1>2. \A i \in 1 .. n : AppendInputItem(items[i]) \in Message
  BY <1>1, ItemMessage
<1>3. f \in [1 .. n -> Message]
  BY <1>2
<1>4. Messages(items) = f
  BY <1>1 DEF Messages
<1>5. f \in Seq(Message) /\ Len(f) = n
  <2> HIDE DEF n, f
  <2> QED  BY <1>1, <1>3, FunctionIsSeq
<1>6. \A i \in 1 .. n : f[i] = AppendInputItem(items[i])
  OBVIOUS
<1> QED  BY <1>1, <1>4, <1>5, <1>6

LEMMA MessagesConcat ==
  ASSUME NEW a \in Seq(Item), NEW b \in Seq(Item)
  PROVE  Messages(a \o b) = Messages(a) \o Messages(b)
<1> DEFINE m == Len(a)
<1> DEFINE n == Len(b)
<1> DEFINE ab == a \o b
<1> DEFINE p == Messages(a)
<1> DEFINE q == Messages(b)
<1> DEFINE pq == p \o q
<1> DEFINE mab == Messages(ab)
<1>1. /\ ab \in Seq(Item) /\ Len(ab) = m + n
      /\ \A i \in 1 .. m + n : ab[i] = IF i <= m THEN a[i] ELSE b[i - m]
  BY ConcatProperties
<1>2. /\ p \in Seq(Message) /\ q \in Seq(Message) /\ Len(p) = m /\ Len(q) = n
      /\ \A i \in 1 .. m : p[i] = AppendInputItem(a[i])
      /\ \A i \in 1 .. n : q[i] = AppendInputItem(b[i])
  BY MessagesTyped
<1>3. /\ pq \in Seq(Message) /\ Len(pq) = m + n
      /\ \A i \in 1 .. m + n : pq[i] = IF i <= m THEN p[i] ELSE q[i - m]
  <2>1. /\ pq \in Seq(Message) /\ Len(pq) = Len(p) + Len(q)
        /\ \A i \in 1 .. Len(p) + Len(q) : pq[i] = IF i <= Len(p) THEN p[i] ELSE q[i - Len(p)]
    <3> HIDE DEF p, q, m, n
    <3> QED  BY <1>2, ConcatProperties
  <2> QED  BY <1>2, <2>1
<1>4. /\ mab \in Seq(Message) /\ Len(mab) = Len(ab)
      /\ \A i \in 1 .. Len(ab) : mab[i] = AppendInputItem(ab[i])
  <2> HIDE DEF ab
  <2> QED  BY <1>1, MessagesTyped
<1>5. m \in Nat /\ n \in Nat
  BY LenProperties
<1>6. \A i \in 1 .. m + n : mab[i] = pq[i]
  <2> SUFFICES ASSUME NEW i \in 1 .. m + n PROVE mab[i] = pq[i]
    OBVIOUS
  <2>1. mab[i] = AppendInputItem(ab[i])
    BY <1>1, <1>4
  <2> HIDE DEF m, n, ab, p, q, pq, mab
  <2>2. CASE i <= m
    <3>1. i \in 1 .. m
      BY <1>5, <2>2
    <3> QED  BY <1>1, <1>2, <1>3, <2>1, <2>2, <3>1
  <2>3. CASE ~(i <= m)
    <3>1. i - m \in 1 .. n
      BY <1>5, <2>3
    <3> QED  BY <1>1, <1>2, <1>3, <2>1, <2>3, <3>1
  <2> QED  BY <2>2, <2>3
<1> HIDE DEF m, n, ab, p, q, pq, mab
<1>7. mab = pq
  BY <1>1, <1>3, <1>4, <1>6, SeqEqual
<1> QED  BY <1>7 DEF mab, ab, pq, p, q

LEMMA InstructionsTyped ==
  ASSUME NEW r \in Question
  PROVE  /\ Instructions(r) \in Seq(Message)
         /\ Instructions(r) = <<>> \/
              Instructions(r) = <<ChatMessage("system", String(<<r.instructions>>))>>
         /\ \A i \in DOMAIN Instructions(r) : Instructions(r)[i].call_id = 0
<1>1. CASE r.instructions = None
  BY <1>1, EmptySeq DEF Instructions
<1>2. CASE r.instructions # None
  <2>1. r.instructions \in Word
    BY <1>2, ConversationAssumption
  <2>2. <<r.instructions>> \in Text
    <3> DEFINE w == r.instructions
    <3>1. w \in Word
      BY <2>1
    <3> HIDE DEF w
    <3>2. <<w>> \in Text
      BY <3>1 DEF Text
    <3> QED  BY <3>2 DEF w
  <2> DEFINE m == ChatMessage("system", String(<<r.instructions>>))
  <2>3. m \in Message
    BY <2>2, StringTyped, ChatMessageTyped
  <2>4. m.call_id = 0
    BY DEF ChatMessage
  <2>5. Instructions(r) = <<m>>
    BY <1>2 DEF Instructions
  <2> HIDE DEF m
  <2>6. <<m>> \in Seq(Message) /\ \A i \in DOMAIN <<m>> : <<m>>[i].call_id = 0
    BY <2>3, <2>4
  <2> QED  BY <2>5, <2>6 DEF m
<1> QED  BY <1>1, <1>2

-----------------------------------------------------------------------------
(* Tools *)

LEMMA MaxIsIn ==
  ASSUME NEW n \in Nat, NEW I \in SUBSET (1 .. n), I # {}
  PROVE  Max(I) \in I
<1> DEFINE T == {k \in Nat : \A J \in SUBSET (1 .. k) : J # {} => \E x \in J : \A y \in J : x >= y}
<1>1. 0 \in T
  <2>1. 1 .. 0 = {}
    OBVIOUS
  <2> QED  BY <2>1
<1>2. ASSUME NEW k \in Nat, k \in T PROVE k + 1 \in T
  <2> SUFFICES ASSUME NEW J \in SUBSET (1 .. k + 1), J # {}
               PROVE  \E x \in J : \A y \in J : x >= y
    OBVIOUS
  <2>1. CASE k + 1 \in J
    <3>1. \A y \in J : k + 1 >= y
      OBVIOUS
    <3> QED  BY <2>1, <3>1
  <2>2. CASE k + 1 \notin J
    <3>1. J \in SUBSET (1 .. k)
      BY <2>2
    <3> QED  BY <1>2, <3>1
  <2> QED  BY <2>1, <2>2
<1> HIDE DEF T
<1>3. \A k \in Nat : k \in T
  BY <1>1, <1>2, NumberInduction
<1>4. \E x \in I : \A y \in I : x >= y
  BY <1>3 DEF T
<1> QED  BY <1>4 DEF Max

\* What ToolMap finds is a tool of that chat name; it finds none only if there is none.
LEMMA ToolMapFinds ==
  ASSUME NEW tools \in Seq(Tool), NEW chat_name
  PROVE  \/ /\ ToolMap(tools, chat_name) = None
            /\ \A i \in 1 .. Len(tools) :
                 tools[i].kind \in {"function", "custom"} => ChatName(tools[i]) # chat_name
         \/ /\ ToolMap(tools, chat_name) # None
            /\ \E i \in 1 .. Len(tools) :
                 /\ ToolMap(tools, chat_name) = tools[i]
                 /\ tools[i].kind \in {"function", "custom"} /\ ChatName(tools[i]) = chat_name
<1> DEFINE n == Len(tools)
<1> DEFINE I == {i \in 1 .. n :
                   tools[i].kind \in {"function", "custom"} /\ ChatName(tools[i]) = chat_name}
<1>1. n \in Nat /\ \A i \in 1 .. n : tools[i] \in Tool
  BY LenProperties, ElementOfSeq
<1>2. ToolMap(tools, chat_name) =
        LET i == IF I # {} THEN Max(I) ELSE 0 IN IF i = 0 THEN None ELSE tools[i]
  BY DEF ToolMap, SelectLastInSeq
<1>3. CASE I = {}
  BY <1>2, <1>3
<1>4. CASE I # {}
  <2> DEFINE i == Max(I)
  <2>1. i \in I
    <3>1. I \in SUBSET (1 .. n)
      OBVIOUS
    <3> HIDE DEF I
    <3> QED  BY <1>1, <1>4, <3>1, MaxIsIn
  <2>2. i \in 1 .. n /\ tools[i].kind \in {"function", "custom"} /\ ChatName(tools[i]) = chat_name
    BY <2>1
  <2>3. ToolMap(tools, chat_name) = IF i = 0 THEN None ELSE tools[i]
    BY <1>2, <1>4
  <2>4. i # 0 /\ tools[i] # None
    <3> HIDE DEF i
    <3>1. i # 0 /\ tools[i] \in Tool
      BY <1>1, <2>2
    <3> QED  BY <3>1, ConversationAssumption
  <2> HIDE DEF i, I
  <2> QED  BY <2>2, <2>3, <2>4
<1> QED  BY <1>3, <1>4

\* A call comes back under its own id; as the tool that was found, or as it is.
LEMMA CallItemIs ==
  ASSUME NEW tools \in Seq(Tool), NEW call \in AnswerCall, NEW id \in Int \ {0},
         NEW tool, tool = ToolMap(tools, call.name), NEW item, item = ToolOutputItem(tools, call, id)
  PROVE  /\ item \in Received
         /\ item.type = "call" /\ item.id = id /\ item.call_id = call.id
         /\ tool = None => item.kind = "function" /\ item.namespace = <<>>
                             /\ item.name = call.name /\ item.arguments = call.arguments
         /\ tool # None => item.kind = tool.kind /\ item.namespace = tool.namespace
                             /\ item.name = tool.name
                             /\ item.arguments = IF tool.kind = "custom"
                                  THEN CustomInputFromChatArguments(call.arguments)
                                  ELSE call.arguments
<1>1. call.id \in Nat /\ call.name \in Name /\ call.arguments \in Arguments
  BY DEF AnswerCall
<1>2. CASE tool = None
  <2>1. item = [type |-> "call", kind |-> "function", id |-> id, call_id |-> call.id,
                namespace |-> <<>>, name |-> call.name, arguments |-> call.arguments]
    BY <1>2 DEF ToolOutputItem
  <2>2. <<>> \in Name
    BY EmptySeq DEF Name
  <2> QED  BY <1>1, <1>2, <2>1, <2>2 DEF Received
<1>3. CASE tool # None
  <2> DEFINE arguments == IF tool.kind = "custom"
                          THEN CustomInputFromChatArguments(call.arguments) ELSE call.arguments
  <2>1. item = [type |-> "call", kind |-> tool.kind, id |-> id, call_id |-> call.id,
                namespace |-> tool.namespace, name |-> tool.name, arguments |-> arguments]
    BY <1>3 DEF ToolOutputItem
  <2>2. tool \in Tool /\ tool.kind \in {"function", "custom"}
    BY <1>3, ToolMapFinds, ElementOfSeq
  <2>3. tool.namespace \in Name /\ tool.name \in Name
    BY <2>2 DEF Tool
  <2>4. tool.kind = "custom" => arguments \in Text
    BY <1>1, CustomInputTyped
  <2>5. tool.kind # "custom" => arguments \in Arguments
    BY <1>1
  <2>6. item \in Received
    <3> HIDE DEF arguments
    <3>1. CASE tool.kind = "custom"
      BY <1>1, <2>1, <2>3, <2>4, <3>1 DEF Received
    <3>2. CASE tool.kind = "function"
      BY <1>1, <2>1, <2>3, <2>5, <3>2 DEF Received
    <3> QED  BY <2>2, <3>1, <3>2
  <2> QED  BY <1>3, <2>1, <2>6
<1> QED  BY <1>2, <1>3

\* The output of an answer: its text, if there is one or nothing else, then its calls.
TextItems(m) ==
  IF TextOf(m.content) # <<>> \/ ~m.has_calls THEN <<MessageOutputItem(TextOf(m.content))>> ELSE <<>>
CallItems(tools, m, first) ==
  [i \in DOMAIN m.calls |-> ToolOutputItem(tools, m.calls[i], -(first + i))]

LEMMA OutputIs ==
  ASSUME NEW tools, NEW m, NEW first
  PROVE  OutputFromChatMessage(tools, m, first) = TextItems(m) \o CallItems(tools, m, first)
BY DEF OutputFromChatMessage, TextItems, CallItems

LEMMA AnswerIs ==
  ASSUME NEW m \in Answer \cup {NoAnswer}
  PROVE  /\ m.content = None \/ m.content \in [form : {"string"}, text : Text]
         /\ m.has_calls \in BOOLEAN /\ m.calls \in Seq(AnswerCall)
         /\ m.calls # <<>> => m.has_calls
         /\ Len(m.calls) \in Nat /\ DOMAIN m.calls = 1 .. Len(m.calls)
         /\ \A i \in 1 .. Len(m.calls) : m.calls[i] \in AnswerCall
<1>1. /\ m.content = None \/ m.content \in [form : {"string"}, text : Text]
      /\ m.has_calls \in BOOLEAN /\ m.calls \in Seq(AnswerCall)
      /\ m.calls # <<>> => m.has_calls
  <2>1. CASE m = NoAnswer
    BY <2>1, EmptySeq DEF NoAnswer
  <2>2. CASE m \in Answer
    BY <2>2, ConversationAssumption
  <2> QED  BY <2>1, <2>2
<1> QED  BY <1>1, LenProperties, ElementOfSeq

LEMMA AnswerText ==
  ASSUME NEW m \in Answer
  PROVE  /\ TextOf(m.content) \in Text
         /\ m.content = None => TextOf(m.content) = <<>>
         /\ m.content # None => m.content = String(TextOf(m.content))
<1>1. CASE m.content = None
  BY <1>1, EmptySeq DEF TextOf, Text
<1>2. CASE m.content # None
  <2>1. m.content \in [form : {"string"}, text : Text]
    BY <1>2, AnswerIs
  <2>2. TextOf(m.content) = m.content.text
    BY <1>2, <2>1 DEF TextOf
  <2> QED  BY <1>2, <2>1, <2>2 DEF String
<1> QED  BY <1>1, <1>2

LEMMA TextItemsTyped ==
  ASSUME NEW m \in Answer
  PROVE  /\ TextItems(m) \in Seq(Received)
         /\ \A i \in DOMAIN TextItems(m) : TextItems(m)[i].type = "message"
<1> DEFINE t == TextOf(m.content)
<1> DEFINE item == MessageOutputItem(t)
<1>1. t \in Text
  BY AnswerText
<1>2. item \in Received /\ item.type = "message"
  <2> DEFINE p == [type |-> "text", text |-> t]
  <2>1. p \in Part
    BY <1>1 DEF Part
  <2> HIDE DEF p
  <2>2. <<p>> \in Seq(Part)
    BY <2>1
  <2>3. Parts(<<p>>) \in Content
    BY <2>2 DEF Parts, Content
  <2>4. item = [type |-> "message", role |-> "assistant", content |-> Parts(<<p>>)]
    BY DEF MessageOutputItem, p
  <2> QED  BY <2>3, <2>4 DEF Received
<1> HIDE DEF item, t
<1>3. <<item>> \in Seq(Received) /\ \A i \in DOMAIN <<item>> : <<item>>[i].type = "message"
  BY <1>2
<1>4. <<>> \in Seq(Received) /\ \A i \in DOMAIN <<>> : <<>>[i].type = "message"
  BY EmptySeq
<1>5. TextItems(m) \in {<<item>>, <<>>}
  BY DEF TextItems, item, t
<1> QED  BY <1>3, <1>4, <1>5

LEMMA CallItemsTyped ==
  ASSUME NEW tools \in Seq(Tool), NEW m \in Answer, NEW first \in Nat
  PROVE  /\ CallItems(tools, m, first) \in Seq(Received)
         /\ Len(CallItems(tools, m, first)) = Len(m.calls)
         /\ \A i \in 1 .. Len(m.calls) :
              /\ -(first + i) \in Int \ {0}
              /\ CallItems(tools, m, first)[i] = ToolOutputItem(tools, m.calls[i], -(first + i))
              /\ CallItems(tools, m, first)[i] \in Received
              /\ CallItems(tools, m, first)[i].type = "call"
<1> DEFINE n == Len(m.calls)
<1> DEFINE f == CallItems(tools, m, first)
<1>1. /\ n \in Nat /\ DOMAIN m.calls = 1 .. n
      /\ \A i \in 1 .. n : m.calls[i] \in AnswerCall
  BY AnswerIs
<1>2. f = [i \in 1 .. n |-> ToolOutputItem(tools, m.calls[i], -(first + i))]
  BY <1>1 DEF CallItems
<1>3. \A i \in 1 .. n : -(first + i) \in Int \ {0}
  <2> HIDE DEF n
  <2> QED  BY <1>1
<1>4. \A i \in 1 .. n : f[i] = ToolOutputItem(tools, m.calls[i], -(first + i))
  <2> HIDE DEF f
  <2> QED  BY <1>2
<1>5. \A i \in 1 .. n : f[i] \in Received /\ f[i].type = "call"
  BY <1>1, <1>3, <1>4, CallItemIs
<1>6. f \in [1 .. n -> Received]
  <2> HIDE DEF f
  <2> QED  BY <1>2, <1>5
<1>7. f \in Seq(Received) /\ Len(f) = n
  <2> HIDE DEF n, f
  <2> QED  BY <1>1, <1>6, FunctionIsSeq
<1> QED  BY <1>3, <1>4, <1>5, <1>7

LEMMA OutputTyped ==
  ASSUME NEW tools \in Seq(Tool), NEW m \in Answer, NEW first \in Nat
  PROVE  OutputFromChatMessage(tools, m, first) \in Seq(Received)
BY OutputIs, TextItemsTyped, CallItemsTyped, ConcatProperties

LEMMA StateMessageTyped ==
  ASSUME NEW m \in Answer
  PROVE  /\ AssistantMessageForState(m) =
              [role |-> "assistant", content |-> m.content, has_calls |-> m.has_calls,
               calls |-> m.calls, call_id |-> 0]
         /\ AssistantMessageForState(m) \in Message
<1> DEFINE C == [id : Int, name : Name, arguments : Arguments]
<1>1. m.calls \in Seq(C)
  <2>1. AnswerCall \subseteq C
    BY DEF AnswerCall
  <2> HIDE DEF C
  <2> QED  BY <2>1, AnswerIs, SeqMonotonic
<1>2. m.content \in Content \cup {None}
  BY AnswerIs DEF Content
<1>3. AssistantMessageForState(m) =
        [role |-> "assistant", content |-> m.content, has_calls |-> m.has_calls,
         calls |-> m.calls, call_id |-> 0]
  BY DEF AssistantMessageForState
<1> QED  BY <1>1, <1>2, <1>3, AnswerIs DEF Message

-----------------------------------------------------------------------------
(* The calls among some items *)

CallParts(items) == [i \in DOMAIN items |-> IF items[i].type = "call" THEN <<items[i]>> ELSE <<>>]

LEMMA CallPartsTyped ==
  ASSUME NEW S, NEW items \in Seq(S), NEW C, \A x \in S : x.type = "call" => x \in C
  PROVE  /\ CallParts(items) \in Seq(Seq(C)) /\ Len(CallParts(items)) = Len(items)
         /\ CallsOf(items) = FlattenSeq(CallParts(items)) /\ CallsOf(items) \in Seq(C)
<1> DEFINE f == CallParts(items)
<1>1. \A i \in DOMAIN items : f[i] \in Seq(C)
  <2> SUFFICES ASSUME NEW i \in DOMAIN items PROVE f[i] \in Seq(C)
    OBVIOUS
  <2>1. items[i] \in S
    BY LenProperties, ElementOfSeq
  <2>2. items[i].type = "call" => <<items[i]>> \in Seq(C)
    BY <2>1
  <2>3. <<>> \in Seq(C)
    BY EmptySeq
  <2> QED  BY <2>2, <2>3 DEF CallParts
<1>2. f = [i \in DOMAIN items |-> f[i]]
  BY DEF CallParts
<1> HIDE DEF f
<1>3. f \in Seq(Seq(C)) /\ Len(f) = Len(items)
  BY <1>1, <1>2, PartsTyped
<1>4. FlattenSeq(f) \in Seq(C)
  BY <1>3, FlattenTyped
<1> QED  BY <1>3, <1>4 DEF f, CallsOf, CallParts

LEMMA CallsOfConcat ==
  ASSUME NEW S, NEW a \in Seq(S), NEW b \in Seq(S), NEW C, \A x \in S : x.type = "call" => x \in C
  PROVE  CallsOf(a \o b) = CallsOf(a) \o CallsOf(b)
<1> DEFINE m == Len(a)
<1> DEFINE n == Len(b)
<1> DEFINE ab == a \o b
<1> DEFINE p == CallParts(a)
<1> DEFINE q == CallParts(b)
<1> DEFINE r == CallParts(ab)
<1> DEFINE pq == p \o q
<1>1. /\ ab \in Seq(S) /\ Len(ab) = m + n
      /\ \A i \in 1 .. m + n : ab[i] = IF i <= m THEN a[i] ELSE b[i - m]
  BY ConcatProperties
<1>2. /\ p \in Seq(Seq(C)) /\ q \in Seq(Seq(C)) /\ Len(p) = m /\ Len(q) = n
      /\ CallsOf(a) = FlattenSeq(p) /\ CallsOf(b) = FlattenSeq(q)
  BY CallPartsTyped
<1>3. r \in Seq(Seq(C)) /\ Len(r) = m + n /\ CallsOf(ab) = FlattenSeq(r)
  <2> HIDE DEF ab
  <2> QED  BY <1>1, CallPartsTyped
<1>4. /\ pq \in Seq(Seq(C)) /\ Len(pq) = m + n
      /\ \A i \in 1 .. m + n : pq[i] = IF i <= m THEN p[i] ELSE q[i - m]
  <2> DEFINE R == Seq(C)
  <2>1. p \in Seq(R) /\ q \in Seq(R)
    BY <1>2
  <2> HIDE DEF p, q, R
  <2>2. /\ p \o q \in Seq(R) /\ Len(p \o q) = Len(p) + Len(q)
        /\ \A i \in 1 .. Len(p) + Len(q) :
             (p \o q)[i] = IF i <= Len(p) THEN p[i] ELSE q[i - Len(p)]
    BY <2>1, ConcatProperties
  <2> QED  BY <1>2, <2>2 DEF R
<1>5. m \in Nat /\ n \in Nat
  BY LenProperties
<1>6. /\ DOMAIN a = 1 .. m /\ DOMAIN b = 1 .. n
      /\ DOMAIN ab = 1 .. m + n
  <2>1. DOMAIN ab = 1 .. Len(ab)
    <3> HIDE DEF ab
    <3> QED  BY <1>1, LenProperties
  <2> QED  BY <1>1, <2>1, LenProperties
<1>7. \A i \in 1 .. m + n : r[i] = pq[i]
  <2> SUFFICES ASSUME NEW i \in 1 .. m + n PROVE r[i] = pq[i]
    OBVIOUS
  <2>1. r[i] = IF ab[i].type = "call" THEN <<ab[i]>> ELSE <<>>
    <3> HIDE DEF ab
    <3> QED  BY <1>6 DEF CallParts
  <2>2. CASE i <= m
    <3>1. i \in 1 .. m
      <4> HIDE DEF m, n
      <4> QED  BY <1>5, <2>2
    <3>2. p[i] = IF a[i].type = "call" THEN <<a[i]>> ELSE <<>>
      BY <1>6, <3>1 DEF CallParts
    <3> HIDE DEF m, n, ab, p, q, pq, r
    <3> QED  BY <1>1, <1>4, <2>1, <2>2, <3>2
  <2>3. CASE ~(i <= m)
    <3>1. i - m \in 1 .. n
      <4> HIDE DEF m, n
      <4> QED  BY <1>5, <2>3
    <3>2. q[i - m] = IF b[i - m].type = "call" THEN <<b[i - m]>> ELSE <<>>
      BY <1>6, <3>1 DEF CallParts
    <3> HIDE DEF m, n, ab, p, q, pq, r
    <3> QED  BY <1>1, <1>4, <2>1, <2>3, <3>2
  <2> QED  BY <2>2, <2>3
<1>8. r = pq
  <2> DEFINE R == Seq(C)
  <2>1. r \in Seq(R) /\ pq \in Seq(R) /\ Len(r) = Len(pq) /\ \A i \in 1 .. Len(r) : r[i] = pq[i]
    BY <1>3, <1>4, <1>7
  <2> HIDE DEF r, pq, R
  <2> QED  BY <2>1, SeqEqual
<1>9. FlattenSeq(pq) = FlattenSeq(p) \o FlattenSeq(q)
  <2> HIDE DEF p, q
  <2> QED  BY <1>2, FlattenConcat
<1> HIDE DEF r, pq, p, q, ab
<1>10. CallsOf(ab) = CallsOf(a) \o CallsOf(b)
  BY <1>2, <1>3, <1>8, <1>9
<1> QED  BY <1>10 DEF ab

LEMMA CallsOfCalls ==
  ASSUME NEW S, NEW s \in Seq(S), \A i \in 1 .. Len(s) : s[i].type = "call"
  PROVE  CallsOf(s) = s
<1> DEFINE f == CallParts(s)
<1>1. f \in Seq(Seq(S)) /\ Len(f) = Len(s) /\ CallsOf(s) = FlattenSeq(f)
  BY CallPartsTyped
<1>2. Singletons(s, f)
  <2>1. \A i \in 1 .. Len(s) : f[i] = <<s[i]>>
    BY LenProperties DEF CallParts
  <2> HIDE DEF f
  <2> QED  BY <1>1, <2>1 DEF Singletons
<1> HIDE DEF f
<1> QED  BY <1>1, <1>2, FlattenSingletons

LEMMA CallsOfOthers ==
  ASSUME NEW S, NEW s \in Seq(S), \A i \in DOMAIN s : s[i].type # "call"
  PROVE  CallsOf(s) = <<>>
<1> DEFINE n == Len(s)
<1>1. n \in Nat /\ DOMAIN s = 1 .. n
  BY LenProperties
<1> DEFINE f == CallParts(s)
<1>2. f \in [1 .. n -> {<<>>}]
  BY <1>1 DEF CallParts
<1>3. f \in Seq({<<>>}) /\ Len(f) = n
  <2> HIDE DEF n, f
  <2> QED  BY <1>1, <1>2, FunctionIsSeq
<1>4. FlattenSeq(f) = <<>>
  <2> HIDE DEF n, f
  <2> QED  BY <1>1, <1>2, <1>3, FlattenNothing
<1> QED  BY <1>4 DEF CallsOf, CallParts

\* The calls of an output are those of the answer.
LEMMA CallsOfOutput ==
  ASSUME NEW tools \in Seq(Tool), NEW m \in Answer, NEW first \in Nat
  PROVE  CallsOf(OutputFromChatMessage(tools, m, first)) = CallItems(tools, m, first)
<1> DEFINE a == TextItems(m)
<1> DEFINE b == CallItems(tools, m, first)
<1>1. /\ a \in Seq(Received) /\ \A i \in DOMAIN a : a[i].type = "message"
      /\ b \in Seq(Received) /\ \A i \in 1 .. Len(b) : b[i].type = "call"
  BY TextItemsTyped, CallItemsTyped
<1> HIDE DEF a, b
<1>2. CallsOf(a) = <<>>
  BY <1>1, CallsOfOthers
<1>3. CallsOf(b) = b
  BY <1>1, CallsOfCalls
<1>4. CallsOf(a \o b) = CallsOf(a) \o CallsOf(b)
  BY <1>1, CallsOfConcat
<1>5. <<>> \o b = b
  BY <1>1, ConcatEmptySeq
<1> QED  BY <1>2, <1>3, <1>4, <1>5, OutputIs DEF a, b

-----------------------------------------------------------------------------
(* What is said *)

Own(m) == IF m.content \in {None, EmptyString} THEN <<>> ELSE <<ChatMessage("assistant", m.content)>>
OwnCall(m, call) ==
  [role |-> "assistant", content |-> None, has_calls |-> m.has_calls, calls |-> <<call>>,
   call_id |-> m.call_id]
OwnCalls(m) == [k \in DOMAIN m.calls |-> OwnCall(m, m.calls[k])]

LEMMA MessageIs ==
  ASSUME NEW m \in Message
  PROVE  /\ m.role \in {"system", "user", "assistant", "tool"} /\ m.content \in Content \cup {None}
         /\ m.has_calls \in BOOLEAN /\ m.call_id \in Nat
         /\ m.calls \in Seq([id : Int, name : Name, arguments : Arguments])
         /\ m.role # "assistant" => m.content # None
         /\ m.call_id # 0 => m.role = "tool"
         /\ m.calls # <<>> => m.has_calls
BY DEF Message

\* A message that is one of the calls of another.
LEMMA WithCalls ==
  ASSUME NEW m \in Message, m.role = "assistant",
         NEW call \in [id : Int, name : Name, arguments : Arguments], m.has_calls
  PROVE  /\ OwnCall(m, call) = CallMessage(call)
         /\ CallMessage(call) \in Message
<1>1. m.call_id = 0 /\ m.has_calls = TRUE
  BY DEF Message
<1>2. OwnCall(m, call) = CallMessage(call)
  BY <1>1 DEF CallMessage, OwnCall
<1>3. CallMessage(call) \in Message
  <2> DEFINE C == [id : Int, name : Name, arguments : Arguments]
  <2>1. call \in C
    OBVIOUS
  <2> HIDE DEF C
  <2>2. <<call>> \in Seq(C)
    BY <2>1
  <2> QED  BY <2>2 DEF C, Message, CallMessage
<1> QED  BY <1>2, <1>3

LEMMA OwnCallsTyped ==
  ASSUME NEW m \in Message, m.role = "assistant"
  PROVE  /\ OwnCalls(m) \in Seq(Message) /\ Len(OwnCalls(m)) = Len(m.calls)
         /\ \A k \in 1 .. Len(m.calls) :
              OwnCalls(m)[k] = CallMessage(m.calls[k])
<1> DEFINE C == [id : Int, name : Name, arguments : Arguments]
<1> DEFINE n == Len(m.calls)
<1>1. m.calls \in Seq(C)
  BY MessageIs
<1>2. n \in Nat /\ DOMAIN m.calls = 1 .. n /\ \A k \in 1 .. n : m.calls[k] \in C
  <2> HIDE DEF C
  <2> QED  BY <1>1, LenProperties, ElementOfSeq
<1>3. n # 0 => m.has_calls
  <2>1. n # 0 => m.calls # <<>>
    BY EmptySeq
  <2> QED  BY <2>1, MessageIs
<1> DEFINE f == OwnCalls(m)
<1>4. \A k \in 1 .. n : f[k] = CallMessage(m.calls[k]) /\ f[k] \in Message
  <2> SUFFICES ASSUME NEW k \in 1 .. n
               PROVE  f[k] = CallMessage(m.calls[k]) /\ f[k] \in Message
    OBVIOUS
  <2>1. f[k] = OwnCall(m, m.calls[k])
    BY <1>2 DEF OwnCalls
  <2> DEFINE call == m.calls[k]
  <2>2. call \in C /\ m.has_calls
    <3>1. n # 0
      <4> HIDE DEF n
      <4> QED  BY <1>2
    <3> QED  BY <1>2, <1>3, <3>1
  <2> HIDE DEF call
  <2>3. /\ OwnCall(m, call) = CallMessage(call)
        /\ CallMessage(call) \in Message
    BY <2>2, WithCalls
  <2> QED  BY <2>1, <2>3 DEF call
<1>5. f = [k \in 1 .. n |-> f[k]]
  BY <1>2 DEF OwnCalls
<1>6. f \in [1 .. n -> Message]
  <2> HIDE DEF f, n
  <2> QED  BY <1>4, <1>5
<1>7. f \in Seq(Message) /\ Len(f) = n
  <2> HIDE DEF f, n
  <2> QED  BY <1>2, <1>6, FunctionIsSeq
<1> QED  BY <1>4, <1>7

LEMMA OwnTyped ==
  ASSUME NEW m \in Message
  PROVE  Own(m) \in Seq(Message)
<1> DEFINE q == ChatMessage("assistant", m.content)
<1>1. q \in Message
  BY MessageIs, ChatMessageTyped
<1> HIDE DEF q
<1>2. <<q>> \in Seq(Message) /\ <<>> \in Seq(Message)
  BY <1>1
<1> QED  BY <1>2 DEF Own, q

Instruction == {ChatMessage("system", String(<<r.instructions>>)) : r \in Question}

LEMMA LinesAre ==
  ASSUME NEW m
  PROVE  Lines(m) = IF m.role = "assistant" THEN Own(m) \o OwnCalls(m)
                    ELSE IF m \in Instruction THEN <<>> ELSE <<m>>
BY DEF Lines, Own, OwnCalls, OwnCall, Instruction

LEMMA LinesTyped ==
  ASSUME NEW m \in Message
  PROVE  Lines(m) \in Seq(Message)
<1>1. CASE m.role = "assistant"
  BY <1>1, LinesAre, OwnTyped, OwnCallsTyped, ConcatProperties
<1>2. CASE m.role # "assistant"
  <2>1. <<m>> \in Seq(Message) /\ <<>> \in Seq(Message)
    OBVIOUS
  <2> QED  BY <1>2, <2>1, LinesAre
<1> QED  BY <1>1, <1>2

LineParts(messages) == [i \in DOMAIN messages |-> Lines(messages[i])]

LEMMA LinePartsTyped ==
  ASSUME NEW messages \in Seq(Message)
  PROVE  /\ LineParts(messages) \in Seq(Seq(Message)) /\ Len(LineParts(messages)) = Len(messages)
         /\ \A i \in 1 .. Len(messages) : LineParts(messages)[i] = Lines(messages[i])
         /\ Said(messages) = FlattenSeq(LineParts(messages))
         /\ Said(messages) \in Seq(Message)
<1> DEFINE f == LineParts(messages)
<1>0. Len(messages) \in Nat /\ DOMAIN messages = 1 .. Len(messages)
  BY LenProperties
<1>1. \A i \in DOMAIN messages : f[i] \in Seq(Message)
  <2> SUFFICES ASSUME NEW i \in DOMAIN messages PROVE f[i] \in Seq(Message)
    OBVIOUS
  <2>1. messages[i] \in Message
    BY <1>0, ElementOfSeq
  <2> QED  BY <2>1, LinesTyped DEF LineParts
<1>2. f = [i \in DOMAIN messages |-> f[i]]
  BY DEF LineParts
<1>3. \A i \in 1 .. Len(messages) : f[i] = Lines(messages[i])
  BY <1>0 DEF LineParts
<1> HIDE DEF f
<1>4. f \in Seq(Seq(Message)) /\ Len(f) = Len(messages)
  BY <1>1, <1>2, PartsTyped
<1>5. FlattenSeq(f) \in Seq(Message)
  BY <1>4, FlattenTyped
<1>6. Said(messages) = FlattenSeq(f)
  BY DEF Said, f, LineParts
<1> QED  BY <1>3, <1>4, <1>5, <1>6 DEF f

LEMMA SaidConcat ==
  ASSUME NEW a \in Seq(Message), NEW b \in Seq(Message)
  PROVE  Said(a \o b) = Said(a) \o Said(b)
<1> DEFINE m == Len(a)
<1> DEFINE n == Len(b)
<1> DEFINE ab == a \o b
<1> DEFINE p == LineParts(a)
<1> DEFINE q == LineParts(b)
<1> DEFINE r == LineParts(ab)
<1> DEFINE pq == p \o q
<1>1. /\ ab \in Seq(Message) /\ Len(ab) = m + n
      /\ \A i \in 1 .. m + n : ab[i] = IF i <= m THEN a[i] ELSE b[i - m]
  BY ConcatProperties
<1>2. /\ p \in Seq(Seq(Message)) /\ q \in Seq(Seq(Message)) /\ Len(p) = m /\ Len(q) = n
      /\ Said(a) = FlattenSeq(p) /\ Said(b) = FlattenSeq(q)
      /\ \A i \in 1 .. m : p[i] = Lines(a[i])
      /\ \A i \in 1 .. n : q[i] = Lines(b[i])
  BY LinePartsTyped
<1>3. /\ r \in Seq(Seq(Message)) /\ Len(r) = m + n /\ Said(ab) = FlattenSeq(r)
      /\ \A i \in 1 .. m + n : r[i] = Lines(ab[i])
  <2>1. /\ r \in Seq(Seq(Message)) /\ Len(r) = Len(ab) /\ Said(ab) = FlattenSeq(r)
        /\ \A i \in 1 .. Len(ab) : r[i] = Lines(ab[i])
    <3> HIDE DEF ab
    <3> QED  BY <1>1, LinePartsTyped
  <2> QED  BY <1>1, <2>1
<1>4. /\ pq \in Seq(Seq(Message)) /\ Len(pq) = m + n
      /\ \A i \in 1 .. m + n : pq[i] = IF i <= m THEN p[i] ELSE q[i - m]
  <2> DEFINE R == Seq(Message)
  <2>1. p \in Seq(R) /\ q \in Seq(R)
    BY <1>2
  <2> HIDE DEF p, q, R
  <2>2. /\ p \o q \in Seq(R) /\ Len(p \o q) = Len(p) + Len(q)
        /\ \A i \in 1 .. Len(p) + Len(q) :
             (p \o q)[i] = IF i <= Len(p) THEN p[i] ELSE q[i - Len(p)]
    BY <2>1, ConcatProperties
  <2> QED  BY <1>2, <2>2 DEF R
<1>5. m \in Nat /\ n \in Nat
  BY LenProperties
<1>6. \A i \in 1 .. m + n : r[i] = pq[i]
  <2> SUFFICES ASSUME NEW i \in 1 .. m + n PROVE r[i] = pq[i]
    OBVIOUS
  <2> HIDE DEF m, n, ab, p, q, pq, r
  <2>1. CASE i <= m
    <3>1. i \in 1 .. m
      BY <1>5, <2>1
    <3> QED  BY <1>1, <1>2, <1>3, <1>4, <2>1, <3>1
  <2>2. CASE ~(i <= m)
    <3>1. i - m \in 1 .. n
      BY <1>5, <2>2
    <3> QED  BY <1>1, <1>2, <1>3, <1>4, <2>2, <3>1
  <2> QED  BY <2>1, <2>2
<1>7. r = pq
  <2> DEFINE R == Seq(Message)
  <2>1. r \in Seq(R) /\ pq \in Seq(R) /\ Len(r) = Len(pq) /\ \A i \in 1 .. Len(r) : r[i] = pq[i]
    BY <1>3, <1>4, <1>6
  <2> HIDE DEF r, pq, R
  <2> QED  BY <2>1, SeqEqual
<1>8. FlattenSeq(pq) = FlattenSeq(p) \o FlattenSeq(q)
  <2> HIDE DEF p, q
  <2> QED  BY <1>2, FlattenConcat
<1> HIDE DEF r, pq, p, q, ab
<1>9. Said(ab) = Said(a) \o Said(b)
  BY <1>2, <1>3, <1>7, <1>8
<1> QED  BY <1>9 DEF ab

LEMMA SaidNothing == Said(<<>>) = <<>>
<1>1. <<>> \in Seq(Message) /\ Len(<<>>) = 0
  BY EmptySeq
<1>2. LineParts(<<>>) \in Seq(Seq(Message)) /\ Len(LineParts(<<>>)) = 0
  BY <1>1, LinePartsTyped
<1>3. LineParts(<<>>) = <<>>
  BY <1>2, EmptySeq
<1> QED  BY <1>1, <1>3, LinePartsTyped, FlattenEmpty

LEMMA SaidOne ==
  ASSUME NEW m \in Message
  PROVE  Said(<<m>>) = Lines(m)
<1>1. <<m>> \in Seq(Message) /\ Len(<<m>>) = 1 /\ <<m>>[1] = m
  OBVIOUS
<1> DEFINE s == <<m>>
<1> DEFINE p == LineParts(s)
<1>2. p \in Seq(Seq(Message)) /\ Len(p) = 1 /\ p[1] = Lines(m) /\ Said(s) = FlattenSeq(p)
  <2>1. s \in Seq(Message) /\ Len(s) = 1 /\ s[1] = m /\ 1 \in 1 .. 1
    BY <1>1
  <2> HIDE DEF s
  <2> QED  BY <2>1, LinePartsTyped
<1>3. Lines(m) \in Seq(Message)
  BY LinesTyped
<1>4. p = <<Lines(m)>>
  <2> DEFINE R == Seq(Message)
  <2> DEFINE l == Lines(m)
  <2>1. p \in Seq(R) /\ Len(p) = 1 /\ p[1] = l /\ l \in R
    BY <1>2, <1>3
  <2> HIDE DEF p, R, l
  <2>2. <<l>> \in Seq(R) /\ Len(<<l>>) = 1 /\ <<l>>[1] = l
    BY <2>1
  <2> DEFINE t == <<l>>
  <2>3. t \in Seq(R) /\ Len(t) = 1 /\ t[1] = l
    BY <2>2
  <2> HIDE DEF t
  <2>4. \A i \in 1 .. Len(p) : p[i] = t[i]
    BY <2>1, <2>3
  <2>5. p = t
    BY <2>1, <2>3, <2>4, SeqEqual
  <2> QED  BY <2>5 DEF t, l
<1>5. FlattenSeq(<<Lines(m)>>) = Lines(m)
  BY <1>3, FlattenOne
<1> HIDE DEF p
<1> QED  BY <1>2, <1>4, <1>5

LEMMA SaidInstructions ==
  ASSUME NEW r \in Question
  PROVE  Said(Instructions(r)) = <<>>
<1>1. CASE Instructions(r) = <<>>
  BY <1>1, SaidNothing
<1>2. CASE Instructions(r) # <<>>
  <2> DEFINE m == ChatMessage("system", String(<<r.instructions>>))
  <2>1. Instructions(r) = <<m>> /\ Instructions(r) \in Seq(Message)
    BY <1>2, InstructionsTyped
  <2>2. m.role = "system" /\ m \in Instruction
    BY DEF ChatMessage, Instruction
  <2> HIDE DEF m
  <2>3. m \in Message
    <3>1. Len(<<m>>) = 1 /\ <<m>>[1] = m /\ 1 \in 1 .. 1
      OBVIOUS
    <3> DEFINE s == <<m>>
    <3>2. s \in Seq(Message) /\ Len(s) = 1 /\ s[1] = m
      BY <2>1, <3>1
    <3> HIDE DEF s
    <3> QED  BY <3>1, <3>2, ElementOfSeq
  <2>4. Lines(m) = <<>>
    BY <2>2, LinesAre
  <2> QED  BY <2>1, <2>3, <2>4, SaidOne
<1> QED  BY <1>1, <1>2

\* The item of a text, sent again, is a message of that text.
LEMMA MessageItemIs ==
  ASSUME NEW t \in Text
  PROVE  Messages(<<MessageOutputItem(t)>>) = <<ChatMessage("assistant", String(t))>>
<1> DEFINE p == [type |-> "text", text |-> t]
<1> DEFINE c == Parts(<<p>>)
<1> DEFINE item == MessageOutputItem(t)
<1>1. c.form # "string" /\ c.parts = <<p>> /\ p \in Part /\ p.type = "text" /\ p.text = t
  BY DEF Parts, Part
<1>2. item.type = "message" /\ item.role = "assistant" /\ item.content = c
  BY DEF MessageOutputItem
<1>3. Kept(<<p>>) = <<p>>
  <2> HIDE DEF p
  <2>1. [i \in DOMAIN <<p>> |-> IF <<p>>[i].type \in {"text", "image"} THEN <<<<p>>[i]>> ELSE <<>>]
          = <<<<p>>>>
    <3> DEFINE s == <<p>>
    <3> DEFINE f == [i \in DOMAIN s |->
                       IF s[i].type \in {"text", "image"} THEN <<s[i]>> ELSE <<>>]
    <3>1. DOMAIN s = 1 .. 1 /\ s[1] = p
      OBVIOUS
    <3>2. f[1] = <<p>> /\ f = [i \in 1 .. 1 |-> f[i]]
      <4> HIDE DEF s
      <4> QED  BY <1>1, <3>1
    <3>3. f = <<<<p>>>>
      <4> DEFINE x == <<p>>
      <4>1. f[1] = x /\ f = [i \in 1 .. 1 |-> f[i]]
        BY <3>2
      <4> HIDE DEF f, x
      <4>2. f = <<x>>
        BY <4>1
      <4> QED  BY <4>2 DEF x
    <3> QED  BY <3>3 DEF f, s
  <2>2. <<p>> \in Seq(Part)
    BY <1>1
  <2>3. FlattenSeq(<<<<p>>>>) = <<p>>
    BY <2>2, FlattenOne
  <2> QED  BY <2>1, <2>3 DEF Kept
<1>4. Joined(<<p>>) = t
  <2> HIDE DEF p
  <2>1. [i \in DOMAIN <<p>> |-> <<p>>[i].text] = <<t>>
    <3> DEFINE s == <<p>>
    <3> DEFINE f == [i \in DOMAIN s |-> s[i].text]
    <3>1. DOMAIN s = 1 .. 1 /\ s[1] = p
      OBVIOUS
    <3>2. f[1] = t /\ f = [i \in 1 .. 1 |-> f[i]]
      <4> HIDE DEF s
      <4> QED  BY <1>1, <3>1
    <3>3. f = <<t>>
      <4> HIDE DEF f
      <4> QED  BY <3>2
    <3> QED  BY <3>3 DEF f, s
  <2>2. FlattenSeq(<<t>>) = t
    BY FlattenOne DEF Text
  <2> QED  BY <2>1, <2>2 DEF Joined
<1>5. \A i \in DOMAIN Kept(c.parts) : Kept(c.parts)[i].type = "text"
  <2> HIDE DEF p, c
  <2> QED  BY <1>1, <1>3
<1>6. ContentToChat(c) = String(t)
  <2> HIDE DEF p, c
  <2> QED  BY <1>1, <1>3, <1>4, <1>5, ContentToChatIs
<1>7. AppendInputItem(item) = ChatMessage("assistant", String(t))
  <2> HIDE DEF c, item
  <2> QED  BY <1>2, <1>6 DEF AppendInputItem, ChatRole
<1> HIDE DEF item
<1>8. Messages(<<item>>) = <<AppendInputItem(item)>>
  BY DEF Messages
<1> QED  BY <1>7, <1>8 DEF item

-----------------------------------------------------------------------------
(* Conversations that say the same *)

LEMMA AlikeSelf ==
  ASSUME NEW a \in Seq(Message)
  PROVE  Alike(a, a)
BY DEF Alike, SameMessage, SameCall, SameArguments

LEMMA AlikeConcat ==
  ASSUME NEW a \in Seq(Message), NEW b \in Seq(Message), Alike(a, b),
         NEW c \in Seq(Message), NEW d \in Seq(Message), Alike(c, d)
  PROVE  Alike(a \o c, b \o d)
<1> DEFINE m == Len(a)
<1> DEFINE n == Len(c)
<1> DEFINE ac == a \o c
<1> DEFINE bd == b \o d
<1>1. /\ Len(b) = m /\ Len(d) = n /\ m \in Nat /\ n \in Nat
      /\ DOMAIN a = 1 .. m /\ DOMAIN c = 1 .. n
      /\ \A i \in 1 .. m : SameMessage(a[i], b[i])
      /\ \A i \in 1 .. n : SameMessage(c[i], d[i])
  BY LenProperties DEF Alike
<1>2. /\ ac \in Seq(Message) /\ Len(ac) = m + n
      /\ \A i \in 1 .. m + n : ac[i] = IF i <= m THEN a[i] ELSE c[i - m]
  BY ConcatProperties
<1>3. /\ bd \in Seq(Message) /\ Len(bd) = m + n
      /\ \A i \in 1 .. m + n : bd[i] = IF i <= m THEN b[i] ELSE d[i - m]
  <2>1. /\ bd \in Seq(Message) /\ Len(bd) = Len(b) + Len(d)
        /\ \A i \in 1 .. Len(b) + Len(d) : bd[i] = IF i <= Len(b) THEN b[i] ELSE d[i - Len(b)]
    BY ConcatProperties
  <2> QED  BY <1>1, <2>1
<1>4. DOMAIN ac = 1 .. m + n
  <2> HIDE DEF ac
  <2> QED  BY <1>2, LenProperties
<1>5. ASSUME NEW i \in 1 .. m + n PROVE SameMessage(ac[i], bd[i])
  <2> HIDE DEF m, n, ac, bd
  <2>1. CASE i <= m
    <3>1. i \in 1 .. m
      BY <1>1, <2>1
    <3> QED  BY <1>1, <1>2, <1>3, <2>1, <3>1
  <2>2. CASE ~(i <= m)
    <3>1. i - m \in 1 .. n
      BY <1>1, <2>2
    <3> QED  BY <1>1, <1>2, <1>3, <2>2, <3>1
  <2> QED  BY <2>1, <2>2
<1> HIDE DEF m, n, ac, bd
<1>6. Alike(ac, bd)
  BY <1>2, <1>3, <1>4, <1>5 DEF Alike
<1> QED  BY <1>6 DEF ac, bd

\* The text of an answer, sent again, is the text that was stored.
LEMMA TextAlike ==
  ASSUME NEW m \in Answer
  PROVE  Said(Messages(TextItems(m))) = Own(AssistantMessageForState(m))
<1> DEFINE t == TextOf(m.content)
<1> DEFINE item == MessageOutputItem(t)
<1> DEFINE s == ChatMessage("assistant", String(t))
<1>1. t \in Text /\ AssistantMessageForState(m).content = m.content
  BY AnswerText, StateMessageTyped
<1>2. TextItems(m) = <<>> \/ TextItems(m) = <<item>>
  BY DEF TextItems
<1>3. CASE t = <<>>
  <2>1. m.content \in {None, EmptyString}
    BY <1>3, AnswerText DEF EmptyString
  <2>2. Own(AssistantMessageForState(m)) = <<>>
    BY <1>1, <2>1 DEF Own
  <2> QED
    <3>1. CASE TextItems(m) = <<>>
      <4>1. Messages(<<>>) = <<>>
        BY MessagesTyped, EmptySeq
      <4> QED  BY <2>2, <3>1, <4>1, SaidNothing
    <3>2. CASE TextItems(m) = <<item>>
      PROOF
      <4>1. Messages(<<item>>) = <<s>>
        BY <1>1, MessageItemIs
      <4>2. s \in Message
        BY <1>1, StringTyped, ChatMessageTyped
      <4>3. Own(s) = <<>> /\ OwnCalls(s) = <<>> /\ s.role = "assistant"
        <5>1. s.content = EmptyString /\ s.calls = <<>> /\ s.role = "assistant"
          BY <1>3 DEF ChatMessage, EmptyString
        <5> HIDE DEF s
        <5>2. Own(s) = <<>>
          BY <5>1 DEF Own
        <5>3. OwnCalls(s) \in Seq(Message) /\ Len(OwnCalls(s)) = Len(<<>>)
          BY <4>2, <5>1, OwnCallsTyped
        <5>4. OwnCalls(s) = <<>>
          BY <5>3, EmptySeq
        <5> QED  BY <5>1, <5>2, <5>4
      <4>4. Lines(s) = <<>>
        <5> HIDE DEF s
        <5>1. Lines(s) = <<>> \o <<>>
          BY <4>3, LinesAre
        <5>2. <<>> \o <<>> = <<>>
          BY EmptySeq, ConcatEmptySeq
        <5> QED  BY <5>1, <5>2
      <4> HIDE DEF s
      <4> QED  BY <2>2, <3>2, <4>1, <4>2, <4>4, SaidOne
    <3> QED  BY <1>2, <3>1, <3>2
<1>4. CASE t # <<>>
  <2>1. m.content = String(t) /\ m.content \notin {None, EmptyString}
    <3>1. m.content = String(t) /\ m.content # None
      BY <1>4, AnswerText
    <3>2. String(t) # EmptyString
      BY <1>4 DEF String, EmptyString
    <3> QED  BY <3>1, <3>2
  <2>2. Own(AssistantMessageForState(m)) = <<s>>
    BY <1>1, <2>1 DEF Own
  <2>3. TextItems(m) = <<item>>
    BY <1>4 DEF TextItems
  <2>4. Messages(<<item>>) = <<s>>
    BY <1>1, MessageItemIs
  <2>5. s \in Message
    BY <1>1, StringTyped, ChatMessageTyped
  <2>6. Lines(s) = <<s>>
    <3>1. s.content = String(t) /\ s.calls = <<>> /\ s.role = "assistant"
          /\ ChatMessage("assistant", String(t)) = s
      BY DEF ChatMessage
    <3> HIDE DEF s
    <3>2. Own(s) = <<s>>
      BY <2>1, <3>1 DEF Own
    <3>3. OwnCalls(s) \in Seq(Message) /\ Len(OwnCalls(s)) = Len(<<>>)
      BY <2>5, <3>1, OwnCallsTyped
    <3>4. OwnCalls(s) = <<>>
      BY <3>3, EmptySeq
    <3>5. <<s>> \in Seq(Message)
      BY <2>5
    <3>6. <<s>> \o <<>> = <<s>>
      BY <3>5, ConcatEmptySeq
    <3> QED  BY <3>1, <3>2, <3>4, <3>6, LinesAre
  <2> HIDE DEF s
  <2> QED  BY <2>2, <2>3, <2>4, <2>5, <2>6, SaidOne
<1> QED  BY <1>3, <1>4

\* A call item, sent again, is the call that it stands for: under the name that the
\* upstream called, with the arguments it gave or what they say.
LEMMA CallAlike ==
  ASSUME NEW tools \in Seq(Tool), NEW call \in AnswerCall, NEW id \in Int \ {0}
  PROVE  SameMessage(CallMessage(call),
                     AppendInputItem(ToolOutputItem(tools, call, id)))
<1> DEFINE item == ToolOutputItem(tools, call, id)
<1> DEFINE tool == ToolMap(tools, call.name)
<1>1. /\ item \in Received
      /\ item.type = "call" /\ item.id = id /\ item.call_id = call.id
      /\ tool = None => item.kind = "function" /\ item.namespace = <<>>
                          /\ item.name = call.name /\ item.arguments = call.arguments
      /\ tool # None => item.kind = tool.kind /\ item.namespace = tool.namespace
                          /\ item.name = tool.name
                          /\ item.arguments = IF tool.kind = "custom"
                               THEN CustomInputFromChatArguments(call.arguments)
                               ELSE call.arguments
  BY CallItemIs
<1>2. item \in Item
  BY <1>1 DEF Item
<1>3. AppendInputItem(item) = CallMessage(ChatCall(item))
  <2> HIDE DEF item
  <2> QED  BY <1>1, <1>2, CallItemMessage
<1>4. ChatName(item) = call.name
  <2>1. CASE tool = None
    BY <1>1, <2>1 DEF ChatName
  <2>2. CASE tool # None
    <3>1. ChatName(tool) = call.name
      BY <2>2, ToolMapFinds
    <3>2. ChatName(item) = ChatName(tool)
      BY <1>1, <2>2 DEF ChatName
    <3> QED  BY <3>1, <3>2
  <2> QED  BY <2>1, <2>2
<1>5. SameArguments(call.arguments, ChatCall(item).arguments)
  <2>1. CASE tool = None
    BY <1>1, <2>1 DEF ChatCall, SameArguments
  <2>2. CASE tool # None
    BY <1>1, <2>2 DEF ChatCall, SameArguments
  <2> QED  BY <2>1, <2>2
<1>6. call.id = ChatCall(item).id \/ call.id = 0
  BY <1>1 DEF ChatCall, CallId
<1>7. SameCall(call, ChatCall(item))
  <2>1. ChatCall(item).name = call.name
    BY <1>4 DEF ChatCall
  <2> HIDE DEF item
  <2> QED  BY <1>5, <1>6, <2>1 DEF SameCall
<1> HIDE DEF item
<1>8. SameMessage(CallMessage(call), CallMessage(ChatCall(item)))
  <2> DEFINE c == ChatCall(item)
  <2>1. SameCall(call, c)
    BY <1>7
  <2> HIDE DEF c
  <2>2. /\ CallMessage(call).role = CallMessage(c).role
        /\ CallMessage(call).content = CallMessage(c).content
        /\ CallMessage(call).has_calls = CallMessage(c).has_calls
        /\ CallMessage(call).call_id = CallMessage(c).call_id
    BY DEF CallMessage
  <2>3. /\ Len(CallMessage(call).calls) = 1 /\ Len(CallMessage(c).calls) = 1
        /\ DOMAIN CallMessage(call).calls = 1 .. 1
        /\ CallMessage(call).calls[1] = call /\ CallMessage(c).calls[1] = c
    BY DEF CallMessage
  <2>4. \A i \in DOMAIN CallMessage(call).calls :
          SameCall(CallMessage(call).calls[i], CallMessage(c).calls[i])
    BY <2>1, <2>3
  <2> QED  BY <2>2, <2>3, <2>4 DEF SameMessage, c
<1> QED  BY <1>3, <1>8 DEF item

\* The calls of an answer, sent again, are those that were stored.
LEMMA CallsAlike ==
  ASSUME NEW tools \in Seq(Tool), NEW m \in Answer, NEW first \in Nat
  PROVE  /\ Messages(CallItems(tools, m, first)) \in Seq(Message)
         /\ Said(Messages(CallItems(tools, m, first))) = Messages(CallItems(tools, m, first))
         /\ Alike(OwnCalls(AssistantMessageForState(m)), Messages(CallItems(tools, m, first)))
<1> DEFINE n == Len(m.calls)
<1> DEFINE items == CallItems(tools, m, first)
<1> DEFINE q == Messages(items)
<1> DEFINE s == AssistantMessageForState(m)
<1> DEFINE o == OwnCalls(s)
<1>1. /\ items \in Seq(Item) /\ Len(items) = n
      /\ \A i \in 1 .. n :
           /\ -(first + i) \in Int \ {0}
           /\ items[i] = ToolOutputItem(tools, m.calls[i], -(first + i))
           /\ items[i] \in Item /\ items[i].type = "call"
  <2>1. Received \subseteq Item
    BY DEF Item
  <2>2. items \in Seq(Received)
    BY CallItemsTyped
  <2>3. items \in Seq(Item)
    <3> HIDE DEF items
    <3> QED  BY <2>1, <2>2, SeqMonotonic
  <2> QED  BY <2>1, <2>3, CallItemsTyped
<1>2. /\ q \in Seq(Message) /\ Len(q) = n
      /\ \A i \in 1 .. n : q[i] = AppendInputItem(items[i])
  <2>1. /\ q \in Seq(Message) /\ Len(q) = Len(items)
        /\ \A i \in 1 .. Len(items) : q[i] = AppendInputItem(items[i])
    <3> HIDE DEF items
    <3> QED  BY <1>1, MessagesTyped
  <2> QED  BY <1>1, <2>1
<1>3. /\ n \in Nat /\ \A i \in 1 .. n : m.calls[i] \in AnswerCall
  BY AnswerIs
<1>4. /\ o \in Seq(Message) /\ Len(o) = n
      /\ \A i \in 1 .. n : o[i] = CallMessage(m.calls[i])
  <2>1. s \in Message /\ s.role = "assistant" /\ s.calls = m.calls
    BY StateMessageTyped
  <2> HIDE DEF s
  <2> QED  BY <2>1, OwnCallsTyped
<1>5. \A i \in 1 .. n : SameMessage(o[i], q[i])
  <2> SUFFICES ASSUME NEW i \in 1 .. n PROVE SameMessage(o[i], q[i])
    OBVIOUS
  <2>1. SameMessage(CallMessage(m.calls[i]),
                    AppendInputItem(ToolOutputItem(tools, m.calls[i], -(first + i))))
    BY <1>1, <1>3, CallAlike
  <2> HIDE DEF o, q, items
  <2> QED  BY <1>1, <1>2, <1>4, <2>1
<1>6. \A i \in 1 .. n : Lines(q[i]) = <<q[i]>>
  <2> SUFFICES ASSUME NEW i \in 1 .. n PROVE Lines(q[i]) = <<q[i]>>
    OBVIOUS
  <2> DEFINE c == ChatCall(items[i])
  <2>1. q[i] = CallMessage(c) /\ CallMessage(c) \in Message
    <3> HIDE DEF items, q
    <3> QED  BY <1>1, <1>2, CallItemMessage
  <2> HIDE DEF c, items, q
  <2> DEFINE x == CallMessage(c)
  <2>2. x.role = "assistant" /\ x.content = None /\ x.calls = <<c>>
    BY DEF CallMessage
  <2>3. Own(x) = <<>>
    <3> HIDE DEF x
    <3> QED  BY <2>2 DEF Own
  <2>4. OwnCalls(x) = <<x>>
    <3>1. /\ OwnCalls(x) \in Seq(Message) /\ Len(OwnCalls(x)) = Len(x.calls)
          /\ \A k \in 1 .. Len(x.calls) : OwnCalls(x)[k] = CallMessage(x.calls[k])
      <4> HIDE DEF x
      <4> QED  BY <2>1, <2>2, OwnCallsTyped DEF x
    <3>2. Len(x.calls) = 1 /\ x.calls[1] = c /\ 1 \in 1 .. 1
      <4> HIDE DEF x
      <4> QED  BY <2>2
    <3>3. Len(OwnCalls(x)) = 1 /\ OwnCalls(x)[1] = x
      BY <3>1, <3>2
    <3> DEFINE w == OwnCalls(x)
    <3>4. w \in Seq(Message) /\ Len(w) = 1 /\ w[1] = x /\ x \in Message
      BY <2>1, <3>1, <3>3
    <3> HIDE DEF w, x
    <3>5. <<x>> \in Seq(Message) /\ Len(<<x>>) = 1 /\ <<x>>[1] = x
      BY <3>4
    <3> DEFINE v == <<x>>
    <3>6. v \in Seq(Message) /\ Len(v) = 1 /\ v[1] = x
      BY <3>5
    <3> HIDE DEF v
    <3>7. w = v
      BY <3>4, <3>6, SeqEqual
    <3> QED  BY <3>7 DEF w, v
  <2>5. <<>> \o <<x>> = <<x>>
    <3>1. <<x>> \in Seq(Message)
      <4> HIDE DEF x
      <4> QED  BY <2>1 DEF x
    <3> QED  BY <3>1, ConcatEmptySeq
  <2>6. Lines(x) = <<x>>
    <3> HIDE DEF x
    <3> QED  BY <2>2, <2>3, <2>4, <2>5, LinesAre
  <2> QED  BY <2>1, <2>6
<1>7. Said(q) = q
  <2> DEFINE p == LineParts(q)
  <2>1. p \in Seq(Seq(Message)) /\ Len(p) = n /\ Said(q) = FlattenSeq(p)
        /\ \A i \in 1 .. n : p[i] = Lines(q[i])
    <3> HIDE DEF q
    <3> QED  BY <1>2, LinePartsTyped
  <2> HIDE DEF p, q, items
  <2>2. Singletons(q, p)
    BY <1>2, <1>6, <2>1 DEF Singletons
  <2>3. FlattenSeq(p) = q
    BY <1>2, <2>1, <2>2, FlattenSingletons
  <2> QED  BY <2>1, <2>3
<1>8. Alike(o, q)
  <2>1. DOMAIN o = 1 .. n
    <3> HIDE DEF o
    <3> QED  BY <1>4, LenProperties
  <2> HIDE DEF o, q, n
  <2> QED  BY <1>2, <1>4, <1>5, <2>1 DEF Alike
<1> QED  BY <1>2, <1>7, <1>8

\* An answer, sent again, says what was stored of it.
LEMMA AnswerAlike ==
  ASSUME NEW tools \in Seq(Tool), NEW m \in Answer, NEW first \in Nat
  PROVE  Alike(Said(<<AssistantMessageForState(m)>>),
               Said(Messages(OutputFromChatMessage(tools, m, first))))
<1> DEFINE s == AssistantMessageForState(m)
<1> DEFINE a == TextItems(m)
<1> DEFINE b == CallItems(tools, m, first)
<1>1. s \in Message /\ s.role = "assistant"
  BY StateMessageTyped
<1>2. a \in Seq(Item) /\ b \in Seq(Item)
  <2>1. a \in Seq(Received) /\ b \in Seq(Received) /\ Received \subseteq Item
    BY TextItemsTyped, CallItemsTyped DEF Item
  <2> HIDE DEF a, b
  <2> QED  BY <2>1, SeqMonotonic
<1>3. Said(Messages(a)) = Own(s)
  BY TextAlike
<1>4. /\ Messages(b) \in Seq(Message) /\ Said(Messages(b)) = Messages(b)
      /\ Alike(OwnCalls(s), Messages(b))
  BY CallsAlike
<1>5. OutputFromChatMessage(tools, m, first) = a \o b
  BY OutputIs
<1> HIDE DEF s, a, b
<1>6. Said(<<s>>) = Own(s) \o OwnCalls(s)
  BY <1>1, SaidOne, LinesAre
<1>7. Messages(a) \in Seq(Message)
  BY <1>2, MessagesTyped
<1>8. Said(Messages(a \o b)) = Own(s) \o Messages(b)
  BY <1>2, <1>3, <1>4, <1>7, MessagesConcat, SaidConcat
<1>9. Own(s) \in Seq(Message) /\ OwnCalls(s) \in Seq(Message)
  BY <1>1, OwnTyped, OwnCallsTyped
<1>10. Alike(Own(s), Own(s))
  BY <1>9, AlikeSelf
<1>11. Alike(Own(s) \o OwnCalls(s), Own(s) \o Messages(b))
  BY <1>4, <1>9, <1>10, AlikeConcat
<1> QED  BY <1>5, <1>6, <1>8, <1>11 DEF s

-----------------------------------------------------------------------------
(* Type correctness *)

\* An output item among the items of a request is a result of a call that the client
\* received, and none of them is a call.
ForCalls(items, received) ==
  \A i \in 1 .. Len(items) :
    /\ items[i].type # "call"
    /\ items[i].type = "output" =>
         \E k \in DOMAIN received :
           received[k].type = "call" /\ received[k].call_id = items[i].call_id

LEMMA ResultsTyped ==
  ASSUME TypeOK
  PROVE  Results \in Seq(Item) /\ ForCalls(Results, output)
<1> DEFINE C == {x \in Received : x.type = "call" /\ \E k \in DOMAIN output : output[k] = x}
<1> DEFINE R == {output[k] : k \in DOMAIN output}
<1> DEFINE calls == CallsOf(output)
<1> DEFINE n == Len(calls)
<1>1. output \in Seq(Received) /\ \A k \in DOMAIN output : output[k] \in Received
  BY LenProperties, ElementOfSeq DEF TypeOK
<1>2. output \in Seq(R)
  <2> DEFINE l == Len(output)
  <2>1. l \in Nat /\ DOMAIN output = 1 .. l /\ output = [k \in 1 .. l |-> output[k]]
    BY <1>1, LenProperties
  <2>2. output \in [1 .. l -> R]
    BY <2>1
  <2> HIDE DEF l, R
  <2> QED  BY <2>1, <2>2, FunctionIsSeq
<1>3. \A x \in R : x.type = "call" => x \in C
  BY <1>1
<1>4. calls \in Seq(C)
  <2> HIDE DEF R, C
  <2> QED  BY <1>2, <1>3, CallPartsTyped
<1>5. n \in Nat /\ DOMAIN calls = 1 .. n /\ \A i \in 1 .. n : calls[i] \in C
  <2> HIDE DEF C, calls
  <2> QED  BY <1>4, LenProperties, ElementOfSeq
<1> DEFINE f == [i \in 1 .. n |-> [type |-> "output", call_id |-> calls[i].call_id,
                                   output |-> String(<<"result">>)]]
<1>6. Results = f
  BY <1>5 DEF Results
<1>7. String(<<"result">>) \in Content
  <2>1. "result" \in Word
    BY ConversationAssumption
  <2>2. <<"result">> \in Text
    BY <2>1 DEF Text
  <2> QED  BY <2>2, StringTyped
<1>8. \A i \in 1 .. n : f[i] \in Result
  <2> SUFFICES ASSUME NEW i \in 1 .. n PROVE f[i] \in Result
    OBVIOUS
  <2>1. calls[i] \in Received /\ calls[i].type = "call"
    BY <1>5
  <2>2. calls[i].call_id \in Nat
    <3> HIDE DEF calls
    <3>1. calls[i] \in Item
      BY <2>1 DEF Item
    <3> QED  BY <2>1 DEF Received
  <2> HIDE DEF calls
  <2> QED  BY <1>7, <2>2 DEF Result
<1>9. f \in [1 .. n -> Item]
  <2> HIDE DEF n
  <2> QED  BY <1>8 DEF Item
<1>10. f \in Seq(Item) /\ Len(f) = n
  <2> HIDE DEF n, f
  <2> QED  BY <1>5, <1>9, FunctionIsSeq
<1>11. ForCalls(f, output)
  <2> SUFFICES ASSUME NEW i \in 1 .. n
               PROVE  /\ f[i].type = "output"
                      /\ \E k \in DOMAIN output :
                           output[k].type = "call" /\ output[k].call_id = f[i].call_id
    <3> HIDE DEF f, n
    <3> QED  BY <1>10 DEF ForCalls
  <2>1. f[i].type = "output" /\ f[i].call_id = calls[i].call_id
    <3> HIDE DEF calls, n
    <3> QED  OBVIOUS
  <2>2. PICK k \in DOMAIN output : output[k] = calls[i] /\ calls[i].type = "call"
    <3> HIDE DEF calls, n
    <3> QED  BY <1>5
  <2> HIDE DEF f, calls
  <2> QED  BY <2>1, <2>2
<1> HIDE DEF f
<1> QED  BY <1>6, <1>10, <1>11

\* The items of a request.
LEMMA RequestItems ==
  ASSUME TypeOK, NEW r \in Question, NEW results \in {<<>>, Results}
  PROVE  results \o r.input \in Seq(Item) /\ ForCalls(results \o r.input, output)
<1> DEFINE a == results
<1> DEFINE b == r.input
<1>1. a \in Seq(Item) /\ ForCalls(a, output)
  <2>1. CASE a = <<>>
    BY <2>1, EmptySeq DEF ForCalls
  <2>2. CASE a = Results
    BY <2>2, ResultsTyped
  <2> QED  BY <2>1, <2>2
<1>2. b \in Seq(Saying)
  BY ConversationAssumption
<1>3. b \in Seq(Item) /\ Len(b) \in Nat /\ \A i \in 1 .. Len(b) : b[i] \in Saying
  <2>1. Saying \subseteq Item
    BY DEF Item
  <2> HIDE DEF b
  <2> QED  BY <1>2, <2>1, SeqMonotonic, LenProperties, ElementOfSeq
<1>4. \A i \in 1 .. Len(b) : b[i].type \notin {"call", "output"}
  <2> HIDE DEF b
  <2> QED  BY <1>3 DEF Saying
<1> DEFINE m == Len(a)
<1> DEFINE n == Len(b)
<1> DEFINE ab == a \o b
<1> HIDE DEF a, b
<1>5. /\ ab \in Seq(Item) /\ Len(ab) = m + n
      /\ \A i \in 1 .. m + n : ab[i] = IF i <= m THEN a[i] ELSE b[i - m]
  BY <1>1, <1>3, ConcatProperties
<1>6. m \in Nat /\ n \in Nat
  BY <1>1, <1>3, LenProperties
<1>7. ForCalls(ab, output)
  <2> SUFFICES ASSUME NEW i \in 1 .. m + n
               PROVE  /\ ab[i].type # "call"
                      /\ ab[i].type = "output" =>
                           \E k \in DOMAIN output :
                             output[k].type = "call" /\ output[k].call_id = ab[i].call_id
    BY <1>5 DEF ForCalls
  <2> HIDE DEF ab
  <2>1. CASE i <= m
    <3>1. i \in 1 .. m /\ ab[i] = a[i]
      <4> HIDE DEF m, n
      <4> QED  BY <1>5, <1>6, <2>1
    <3> QED  BY <1>1, <3>1 DEF ForCalls
  <2>2. CASE ~(i <= m)
    <3>1. i - m \in 1 .. n /\ ab[i] = b[i - m]
      <4> HIDE DEF m, n
      <4> QED  BY <1>5, <1>6, <2>2
    <3> QED  BY <1>4, <3>1
  <2> QED  BY <2>1, <2>2
<1> QED  BY <1>5, <1>7 DEF ab, a, b

LEMMA TypeInit == Init => TypeOK
<1> SUFFICES ASSUME Init PROVE TypeOK
  OBVIOUS
<1>1. \A S : <<>> \in Seq(S)
  BY EmptySeq
<1>2. 0 \in 0 .. MaxTurns
  BY ConversationAssumption
<1> QED  BY <1>1, <1>2 DEF Init, TypeOK, NoBody

LEMMA TypePrepare ==
  ASSUME TypeOK, NEW r \in Question, NEW items \in Seq(Item), PrepareRequest(r, items)
  PROVE  TypeOK'
<1> DEFINE all == transcript \o items
<1>1. transcript \in Seq(Item)
  BY DEF TypeOK, Item
<1>2. all \in Seq(Item)
  BY <1>1, ConcatProperties
<1>3. Messages(items) \in Seq(Message) /\ Messages(all) \in Seq(Message)
  <2> HIDE DEF all
  <2> QED  BY <1>2, MessagesTyped
<1>4. Instructions(r) \in Seq(Message) /\ stored \in Seq(Message)
  BY InstructionsTyped DEF TypeOK
<1>5. (stored \o Instructions(r)) \o Messages(items) \in Seq(Message)
  BY <1>3, <1>4, ConcatProperties
<1>6. Instructions(r) \o Messages(all) \in Seq(Message)
  <2> HIDE DEF all
  <2> QED  BY <1>3, <1>4, ConcatProperties
<1>7. body'.messages = (stored \o Instructions(r)) \o Messages(items)
  BY DEF PrepareRequest
<1>8. /\ resent' = Instructions(r) \o Messages(all) /\ transcript' = all
      /\ request' = r /\ pc' = "calling" /\ turn' = turn + 1 /\ turn < MaxTurns
      /\ stored' = stored /\ answer' = answer /\ output' = output /\ drawn' = drawn
  BY DEF PrepareRequest
<1>9. turn + 1 \in 0 .. MaxTurns
  BY <1>8, ConversationAssumption DEF TypeOK
<1> HIDE DEF all
<1> QED  BY <1>2, <1>4, <1>5, <1>6, <1>7, <1>8, <1>9 DEF TypeOK, Item

LEMMA TypeRefuse ==
  ASSUME TypeOK, NEW r \in Question, NEW items \in Seq(Item), RefuseRequest(r, items)
  PROVE  TypeOK'
<1>1. transcript \in Seq(Item)
  BY DEF TypeOK, Item
<1>2. transcript \o items \in Seq(Item)
  BY <1>1, ConcatProperties
<1>3. /\ transcript' = transcript \o items /\ pc' = "refused" /\ turn' = turn + 1 /\ turn < MaxTurns
      /\ request' = request /\ body' = body /\ resent' = resent /\ stored' = stored
      /\ answer' = answer /\ output' = output /\ drawn' = drawn
  BY DEF RefuseRequest
<1>4. turn + 1 \in 0 .. MaxTurns
  BY <1>3, ConversationAssumption DEF TypeOK
<1> QED  BY <1>2, <1>3, <1>4 DEF TypeOK, Item

LEMMA TypeConvert ==
  ASSUME TypeOK, NEW m \in Answer, ConvertJsonResponse(m)
  PROVE  /\ TypeOK'
         /\ request.tools \in Seq(Tool) /\ drawn \in Nat
         /\ AssistantMessageForState(m) \in Message
<1> DEFINE items == OutputFromChatMessage(request.tools, m, drawn)
<1>1. request.tools \in Seq(Tool) /\ drawn \in Nat
  BY ConversationAssumption DEF TypeOK
<1>2. items \in Seq(Received)
  BY <1>1, OutputTyped
<1>3. Received \subseteq Item /\ transcript \in Seq(Item)
  BY DEF TypeOK, Item
<1>4. transcript \o items \in Seq(Item)
  <2> HIDE DEF items
  <2>1. items \in Seq(Item)
    BY <1>2, <1>3, SeqMonotonic
  <2> QED  BY <1>3, <2>1, ConcatProperties
<1>5. AssistantMessageForState(m) \in Message /\ Len(m.calls) \in Nat
  BY StateMessageTyped, AnswerIs
<1>6. Append(body.messages, AssistantMessageForState(m)) \in Seq(Message)
  BY <1>5, AppendProperties DEF TypeOK
<1>7. /\ pc' = "ready" /\ answer' = m /\ output' = items /\ drawn' = drawn + Len(m.calls)
      /\ stored' = Append(body.messages, AssistantMessageForState(m))
      /\ transcript' = transcript \o items
      /\ turn' = turn /\ request' = request /\ body' = body /\ resent' = resent
  BY DEF ConvertJsonResponse
<1>8. drawn + Len(m.calls) \in Nat
  BY <1>1, <1>5
<1> HIDE DEF items
<1>9. TypeOK'
  BY <1>2, <1>4, <1>6, <1>7, <1>8 DEF TypeOK, Item
<1> QED  BY <1>1, <1>5, <1>9

LEMMA TypeNext == TypeOK /\ [Next]_vars => TypeOK'
<1> SUFFICES ASSUME TypeOK, [Next]_vars PROVE TypeOK'
  OBVIOUS
<1>1. CASE \E r \in Question, results \in {<<>>, Results} :
             PrepareRequest(r, results \o r.input) \/ RefuseRequest(r, results \o r.input)
  <2>1. PICK r \in Question, results \in {<<>>, Results} :
             PrepareRequest(r, results \o r.input) \/ RefuseRequest(r, results \o r.input)
    BY <1>1
  <2> DEFINE items == results \o r.input
  <2>2. items \in Seq(Item)
    BY RequestItems
  <2>3. PrepareRequest(r, items) \/ RefuseRequest(r, items)
    BY <2>1
  <2> HIDE DEF items
  <2> QED  BY <2>2, <2>3, TypePrepare, TypeRefuse
<1>2. CASE \E m \in Answer : ConvertJsonResponse(m)
  BY <1>2, TypeConvert
<1>3. CASE UNCHANGED vars
  BY <1>3 DEF vars, TypeOK
<1> QED  BY <1>1, <1>2, <1>3 DEF Next

\* The messages, the items and the ids of a conversation keep their types, for any
\* number of turns (prepare_request, convert_json_response).
THEOREM ConversationTypes == Spec => []TypeOK
BY TypeInit, TypeNext, PTL DEF Spec

-----------------------------------------------------------------------------
(* Calls keep their tools *)

DeclaredIn(tools, name) ==
  {t \in ToSet(tools) : t.kind \in {"function", "custom"} /\ t.namespace \o t.name = name}

LEMMA CallKeepsItsTool ==
  ASSUME NEW tools \in Seq(Tool), NEW call \in AnswerCall, NEW id \in Int \ {0},
         NEW item, item = ToolOutputItem(tools, call, id)
  PROVE  /\ item.call_id = call.id
         /\ DeclaredIn(tools, call.name) # {} =>
              \E t \in DeclaredIn(tools, call.name) :
                item.kind = t.kind /\ item.namespace = t.namespace /\ item.name = t.name
         /\ DeclaredIn(tools, call.name) = {} =>
              item.kind = "function" /\ item.namespace = <<>> /\ item.name = call.name
<1> DEFINE tool == ToolMap(tools, call.name)
<1> DEFINE D == DeclaredIn(tools, call.name)
<1>1. /\ item.call_id = call.id
      /\ tool = None => item.kind = "function" /\ item.namespace = <<>> /\ item.name = call.name
      /\ tool # None => item.kind = tool.kind /\ item.namespace = tool.namespace
                          /\ item.name = tool.name
  BY CallItemIs
<1>2. /\ DOMAIN tools = 1 .. Len(tools)
      /\ \A i \in 1 .. Len(tools) :
           ChatName(tools[i]) = tools[i].namespace \o tools[i].name
  <2>1. \A i \in 1 .. Len(tools) : tools[i].namespace \in Name /\ tools[i].name \in Name
    <3> SUFFICES ASSUME NEW i \in 1 .. Len(tools)
                 PROVE  tools[i].namespace \in Name /\ tools[i].name \in Name
      OBVIOUS
    <3>1. tools[i] \in Tool
      BY ElementOfSeq
    <3> QED  BY <3>1 DEF Tool
  <2> QED  BY <2>1, ChatNameIs, LenProperties
<1>3. CASE tool = None
  <2>1. \A i \in 1 .. Len(tools) :
          tools[i].kind \in {"function", "custom"} => ChatName(tools[i]) # call.name
    <3>1. ToolMap(tools, call.name) = None
      BY <1>3
    <3> HIDE DEF tool
    <3> QED  BY <3>1, ToolMapFinds
  <2>2. D = {}
    BY <1>2, <2>1 DEF DeclaredIn, ToSet
  <2> HIDE DEF tool, D
  <2> QED  BY <1>1, <1>3, <2>2 DEF D
<1>4. CASE tool # None
  <2>1. PICK i \in 1 .. Len(tools) :
          tool = tools[i] /\ tools[i].kind \in {"function", "custom"}
            /\ ChatName(tools[i]) = call.name
    BY <1>4, ToolMapFinds
  <2>2. tool \in D
    <3> HIDE DEF tool
    <3> QED  BY <1>2, <2>1 DEF DeclaredIn, ToSet
  <2> HIDE DEF tool, D
  <2> QED  BY <1>1, <1>4, <2>2 DEF D
<1> QED  BY <1>3, <1>4

\* A tool that can be forced is offered.
LEMMA ChoiceOffered ==
  ASSUME NEW tools \in Seq(Tool), NEW choice \in ToSet(tools), choice.kind # "hosted"
  PROVE  ChatName(choice) \in ToSet(MapTools(tools))
<1> DEFINE f == [i \in DOMAIN tools |->
                   IF tools[i].kind \in {"function", "custom"} THEN <<ChatName(tools[i])>> ELSE <<>>]
<1> DEFINE n == Len(tools)
<1>1. n \in Nat /\ DOMAIN tools = 1 .. n /\ \A i \in 1 .. n : tools[i] \in Tool
  BY LenProperties, ElementOfSeq
<1>2. \A i \in DOMAIN tools : f[i] \in Seq(Name)
  <2> SUFFICES ASSUME NEW i \in DOMAIN tools PROVE f[i] \in Seq(Name)
    OBVIOUS
  <2> DEFINE c == ChatName(tools[i])
  <2>1. c \in Name
    <3>1. tools[i].namespace \in Name /\ tools[i].name \in Name
      BY <1>1 DEF Tool
    <3> QED  BY <3>1, ChatNameIs
  <2> HIDE DEF c
  <2>2. <<c>> \in Seq(Name) /\ <<>> \in Seq(Name)
    BY <2>1
  <2>3. f[i] = <<c>> \/ f[i] = <<>>
    BY DEF c
  <2> QED  BY <2>2, <2>3
<1>3. f = [i \in DOMAIN tools |-> f[i]]
  OBVIOUS
<1>4. PICK i \in 1 .. n : tools[i] = choice
  BY <1>1 DEF ToSet
<1>5. choice.kind \in {"function", "custom"}
  BY <1>1, <1>4 DEF Tool
<1>6. f[i] = <<ChatName(choice)>>
  BY <1>1, <1>4, <1>5
<1> HIDE DEF f
<1>7. f \in Seq(Seq(Name)) /\ Len(f) = n
  BY <1>2, <1>3, PartsTyped
<1>8. \E k \in 1 .. Len(FlattenSeq(f)) : FlattenSeq(f)[k] = ChatName(choice)
  <2> DEFINE x == ChatName(choice)
  <2>1. f[i] = <<x>>
    BY <1>6
  <2> HIDE DEF x
  <2>2. 1 \in 1 .. Len(f[i]) /\ f[i][1] = x
    BY <2>1
  <2>3. i \in 1 .. Len(f)
    BY <1>7
  <2> HIDE DEF n
  <2>4. \E k \in 1 .. Len(FlattenSeq(f)) : FlattenSeq(f)[k] = f[i][1]
    <3> DEFINE j == 1
    <3>1. j \in 1 .. Len(f[i])
      BY <2>2
    <3> HIDE DEF j
    <3>2. \E k \in 1 .. Len(FlattenSeq(f)) : FlattenSeq(f)[k] = f[i][j]
      BY ONLY <1>7, <2>3, <3>1, FlattenHas
    <3> QED  BY <3>2 DEF j
  <2> QED  BY <2>2, <2>4 DEF x
<1>9. FlattenSeq(f) \in Seq(Name)
  BY <1>7, FlattenTyped
<1>10. DOMAIN FlattenSeq(f) = 1 .. Len(FlattenSeq(f))
  BY <1>9, LenProperties
<1>11. MapTools(tools) = FlattenSeq(f)
  BY DEF MapTools, f
<1> HIDE DEF n
<1> QED  BY <1>8, <1>10, <1>11 DEF ToSet

\* What the two parts of CallsKeepTheirTools say of the calls and the choice.
KeepTools(tools, sent, calls) ==
  /\ Len(calls) = Len(sent)
  /\ \A i \in DOMAIN calls :
       /\ calls[i].call_id = sent[i].id
       /\ DeclaredIn(tools, sent[i].name) # {} =>
            \E t \in DeclaredIn(tools, sent[i].name) :
              calls[i].kind = t.kind /\ calls[i].namespace = t.namespace
                /\ calls[i].name = t.name
       /\ DeclaredIn(tools, sent[i].name) = {} =>
            calls[i].kind = "function" /\ calls[i].namespace = <<>>
              /\ calls[i].name = sent[i].name
CallsKept == pc = "ready" /\ turn > 0 => KeepTools(request.tools, answer.calls, CallsOf(output))
ChoiceKept ==
  pc = "calling" /\ request.choice # None =>
    (request.choice \in ToSet(request.tools) => body.choice \in ToSet(body.tools))

LEMMA ToolsKept == CallsKept /\ ChoiceKept => CallsKeepTheirTools
BY DEF CallsKept, ChoiceKept, KeepTools, CallsKeepTheirTools, Declared, DeclaredIn

LEMMA OutputKeepsTools ==
  ASSUME NEW tools \in Seq(Tool), NEW m \in Answer, NEW first \in Nat
  PROVE  KeepTools(tools, m.calls, CallsOf(OutputFromChatMessage(tools, m, first)))
<1> DEFINE calls == CallItems(tools, m, first)
<1> DEFINE n == Len(m.calls)
<1>1. /\ calls \in Seq(Received) /\ Len(calls) = n
      /\ \A i \in 1 .. n :
           -(first + i) \in Int \ {0} /\ calls[i] = ToolOutputItem(tools, m.calls[i], -(first + i))
  BY CallItemsTyped
<1>2. \A i \in 1 .. n : m.calls[i] \in AnswerCall
  BY AnswerIs
<1>3. CallsOf(OutputFromChatMessage(tools, m, first)) = calls
  BY CallsOfOutput
<1>4. DOMAIN calls = 1 .. n
  <2> HIDE DEF calls
  <2> QED  BY <1>1, LenProperties
<1> HIDE DEF calls, n
<1>5. ASSUME NEW i \in 1 .. n
      PROVE  /\ calls[i].call_id = m.calls[i].id
             /\ DeclaredIn(tools, m.calls[i].name) # {} =>
                  \E t \in DeclaredIn(tools, m.calls[i].name) :
                    calls[i].kind = t.kind /\ calls[i].namespace = t.namespace
                      /\ calls[i].name = t.name
             /\ DeclaredIn(tools, m.calls[i].name) = {} =>
                  calls[i].kind = "function" /\ calls[i].namespace = <<>>
                    /\ calls[i].name = m.calls[i].name
  <2> DEFINE call == m.calls[i]
  <2> DEFINE id == -(first + i)
  <2> DEFINE item == calls[i]
  <2>1. call \in AnswerCall /\ id \in Int \ {0} /\ item = ToolOutputItem(tools, call, id)
    BY <1>1, <1>2
  <2> HIDE DEF call, id, item
  <2>2. /\ item.call_id = call.id
        /\ DeclaredIn(tools, call.name) # {} =>
             \E t \in DeclaredIn(tools, call.name) :
               item.kind = t.kind /\ item.namespace = t.namespace /\ item.name = t.name
        /\ DeclaredIn(tools, call.name) = {} =>
             item.kind = "function" /\ item.namespace = <<>> /\ item.name = call.name
    BY <2>1, CallKeepsItsTool
  <2> QED  BY <2>2 DEF call, item
<1> QED  BY <1>1, <1>3, <1>4, <1>5 DEF KeepTools, n

LEMMA ToolsNext == TypeOK /\ CallsKept /\ ChoiceKept /\ [Next]_vars => CallsKept' /\ ChoiceKept'
<1> SUFFICES ASSUME TypeOK, CallsKept, ChoiceKept, [Next]_vars PROVE CallsKept' /\ ChoiceKept'
  OBVIOUS
<1>1. ASSUME NEW r \in Question, NEW items, PrepareRequest(r, items)
      PROVE  CallsKept' /\ ChoiceKept'
  <2>1. pc' = "calling" /\ request' = r
        /\ body'.tools = MapTools(r.tools) /\ body'.choice = MapToolChoice(r.choice)
    BY <1>1 DEF PrepareRequest
  <2>2. r.tools \in Seq(Tool) /\ (r.choice # None => r.choice.kind # "hosted")
    BY ConversationAssumption
  <2>3. r.choice # None /\ r.choice \in ToSet(r.tools) => body'.choice \in ToSet(body'.tools)
    BY <2>1, <2>2, ChoiceOffered DEF MapToolChoice
  <2> QED  BY <2>1, <2>3 DEF CallsKept, ChoiceKept
<1>2. ASSUME NEW r, NEW items, RefuseRequest(r, items)
      PROVE  CallsKept' /\ ChoiceKept'
  <2>1. pc' = "refused"
    BY <1>2 DEF RefuseRequest
  <2> QED  BY <2>1 DEF CallsKept, ChoiceKept
<1>3. ASSUME NEW m \in Answer, ConvertJsonResponse(m)
      PROVE  CallsKept' /\ ChoiceKept'
  <2>1. request.tools \in Seq(Tool) /\ drawn \in Nat
    BY <1>3, TypeConvert
  <2>2. KeepTools(request.tools, m.calls, CallsOf(OutputFromChatMessage(request.tools, m, drawn)))
    BY <2>1, OutputKeepsTools
  <2>3. /\ pc' = "ready" /\ request' = request /\ answer' = m
        /\ output' = OutputFromChatMessage(request.tools, m, drawn)
    BY <1>3 DEF ConvertJsonResponse
  <2>4. KeepTools(request'.tools, answer'.calls, CallsOf(output'))
    BY <2>2, <2>3
  <2> QED  BY <2>3, <2>4 DEF CallsKept, ChoiceKept
<1>4. CASE UNCHANGED vars
  BY <1>4 DEF vars, CallsKept, ChoiceKept
<1> QED  BY <1>1, <1>2, <1>3, <1>4 DEF Next

\* A call comes back as the tool that the client declared under its chat name, and a
\* tool that is forced is among those offered (ToolMap, namespaced_tool_name).
THEOREM ToolsSafety == Spec => []CallsKeepTheirTools
<1>1. Init => CallsKept /\ ChoiceKept
  BY DEF Init, CallsKept, ChoiceKept
<1> QED  BY <1>1, ToolsNext, ToolsKept, ConversationTypes, PTL DEF Spec

-----------------------------------------------------------------------------
(* The same conversation either way *)

\* What is stored says what the transcript says; while an upstream is called, so do the
\* two requests that continue the conversation.
ReadySame == pc = "ready" => Alike(Said(stored), Said(Messages(transcript)))
CallingSame ==
  pc = "calling" => /\ Alike(Said(body.messages), Said(resent))
                    /\ Said(resent) = Said(Messages(transcript))

LEMMA ContinuedAlike ==
  ASSUME NEW s \in Seq(Message), NEW t \in Seq(Item), Alike(Said(s), Said(Messages(t))),
         NEW r \in Question, NEW items \in Seq(Item)
  PROVE  /\ Said(Instructions(r) \o Messages(t \o items)) = Said(Messages(t \o items))
         /\ Alike(Said((s \o Instructions(r)) \o Messages(items)), Said(Messages(t \o items)))
<1> DEFINE i == Instructions(r)
<1> DEFINE q == Messages(items)
<1> DEFINE p == Messages(t)
<1>1. /\ i \in Seq(Message) /\ Said(i) = <<>>
      /\ q \in Seq(Message) /\ p \in Seq(Message)
  BY InstructionsTyped, SaidInstructions, MessagesTyped
<1>2. Messages(t \o items) = p \o q
  BY MessagesConcat
<1> HIDE DEF i, p, q
<1>3. /\ Said(s) \in Seq(Message) /\ Said(p) \in Seq(Message) /\ Said(q) \in Seq(Message)
      /\ p \o q \in Seq(Message) /\ s \o i \in Seq(Message)
  BY <1>1, LinePartsTyped, ConcatProperties
<1>4. Said(p \o q) = Said(p) \o Said(q)
  BY <1>1, SaidConcat
<1>5. Said(p \o q) \in Seq(Message)
  BY <1>3, LinePartsTyped
<1>6. Said(i \o (p \o q)) = Said(p \o q)
  <2>1. Said(i \o (p \o q)) = Said(i) \o Said(p \o q)
    BY <1>1, <1>3, SaidConcat
  <2> QED  BY <1>1, <1>5, <2>1, ConcatEmptySeq
<1>7. Said((s \o i) \o q) = Said(s) \o Said(q)
  <2>1. Said((s \o i) \o q) = Said(s \o i) \o Said(q)
    BY <1>1, <1>3, SaidConcat
  <2>2. Said(s \o i) = Said(s) \o Said(i)
    BY <1>1, SaidConcat
  <2>3. Said(s) \o <<>> = Said(s)
    BY <1>3, ConcatEmptySeq
  <2> QED  BY <1>1, <2>1, <2>2, <2>3
<1>8. Alike(Said(s), Said(p))
  BY DEF p
<1>9. Alike(Said(q), Said(q))
  BY <1>3, AlikeSelf
<1>10. Alike(Said(s) \o Said(q), Said(p) \o Said(q))
  BY <1>3, <1>8, <1>9, AlikeConcat
<1>11. Said(i \o Messages(t \o items)) = Said(Messages(t \o items))
  BY <1>2, <1>6
<1>12. Alike(Said((s \o i) \o q), Said(Messages(t \o items)))
  BY <1>2, <1>4, <1>7, <1>10
<1> QED  BY <1>11, <1>12 DEF i, q

LEMMA AnsweredAlike ==
  ASSUME NEW b \in Seq(Message), NEW t \in Seq(Item), Alike(Said(b), Said(Messages(t))),
         NEW tools \in Seq(Tool), NEW m \in Answer, NEW first \in Nat
  PROVE  Alike(Said(Append(b, AssistantMessageForState(m))),
               Said(Messages(t \o OutputFromChatMessage(tools, m, first))))
<1> DEFINE s == AssistantMessageForState(m)
<1> DEFINE items == OutputFromChatMessage(tools, m, first)
<1> DEFINE p == Messages(t)
<1> DEFINE q == Messages(items)
<1>1. s \in Message /\ <<s>> \in Seq(Message)
  <2>1. s \in Message
    BY StateMessageTyped
  <2> HIDE DEF s
  <2> QED  BY <2>1
<1>2. items \in Seq(Item)
  <2>1. items \in Seq(Received) /\ Received \subseteq Item
    BY OutputTyped DEF Item
  <2> HIDE DEF items
  <2> QED  BY <2>1, SeqMonotonic
<1>3. Alike(Said(<<s>>), Said(q))
  BY AnswerAlike
<1> HIDE DEF s, items
<1>4. Messages(t \o items) = p \o q /\ p \in Seq(Message) /\ q \in Seq(Message)
  BY <1>2, MessagesConcat, MessagesTyped
<1> HIDE DEF q
<1>5. Append(b, s) = b \o <<s>>
  BY <1>1, AppendIsConcat
<1>6. Alike(Said(b), Said(p))
  OBVIOUS
<1> HIDE DEF p
<1> DEFINE e == <<s>>
<1>7. e \in Seq(Message) /\ Alike(Said(e), Said(q))
  BY <1>1, <1>3
<1> HIDE DEF e
<1>8. Said(b \o e) = Said(b) \o Said(e) /\ Said(p \o q) = Said(p) \o Said(q)
  BY <1>4, <1>7, SaidConcat
<1>9. /\ Said(b) \in Seq(Message) /\ Said(e) \in Seq(Message)
      /\ Said(p) \in Seq(Message) /\ Said(q) \in Seq(Message)
  BY <1>4, <1>7, LinePartsTyped
<1>10. Alike(Said(b) \o Said(e), Said(p) \o Said(q))
  BY <1>6, <1>7, <1>9, AlikeConcat
<1>11. Alike(Said(Append(b, s)), Said(Messages(t \o items)))
  BY <1>4, <1>5, <1>8, <1>10 DEF e
<1> QED  BY <1>11 DEF s, items

LEMMA SameInit == Init => ReadySame /\ CallingSame
<1> SUFFICES ASSUME Init PROVE ReadySame /\ CallingSame
  OBVIOUS
<1>1. Messages(<<>>) = <<>>
  BY MessagesTyped, EmptySeq
<1>2. Alike(<<>>, <<>>)
  BY EmptySeq, AlikeSelf
<1> QED  BY <1>1, <1>2, SaidNothing DEF Init, ReadySame, CallingSame

LEMMA SameNext ==
  TypeOK /\ ReadySame /\ CallingSame /\ [Next]_vars => ReadySame' /\ CallingSame'
<1> SUFFICES ASSUME TypeOK, ReadySame, CallingSame, [Next]_vars PROVE ReadySame' /\ CallingSame'
  OBVIOUS
<1>0. transcript \in Seq(Item) /\ stored \in Seq(Message) /\ body.messages \in Seq(Message)
  BY DEF TypeOK, Item
<1>1. ASSUME NEW r \in Question, NEW items \in Seq(Item), PrepareRequest(r, items)
      PROVE  ReadySame' /\ CallingSame'
  <2>1. /\ pc = "ready" /\ pc' = "calling" /\ transcript' = transcript \o items
        /\ body'.messages = (stored \o Instructions(r)) \o Messages(items)
        /\ resent' = Instructions(r) \o Messages(transcript \o items)
    BY <1>1 DEF PrepareRequest
  <2>2. Alike(Said(stored), Said(Messages(transcript)))
    BY <2>1 DEF ReadySame
  <2>3. /\ Said(Instructions(r) \o Messages(transcript \o items))
             = Said(Messages(transcript \o items))
        /\ Alike(Said((stored \o Instructions(r)) \o Messages(items)),
                 Said(Messages(transcript \o items)))
    BY <1>0, <2>2, ContinuedAlike
  <2>4. /\ Said(resent') = Said(Messages(transcript'))
        /\ Alike(Said(body'.messages), Said(resent'))
    BY <2>1, <2>3
  <2> QED  BY <2>1, <2>4 DEF ReadySame, CallingSame
<1>2. ASSUME NEW r, NEW items, RefuseRequest(r, items)
      PROVE  ReadySame' /\ CallingSame'
  <2>1. pc' = "refused"
    BY <1>2 DEF RefuseRequest
  <2> QED  BY <2>1 DEF ReadySame, CallingSame
<1>3. ASSUME NEW m \in Answer, ConvertJsonResponse(m)
      PROVE  ReadySame' /\ CallingSame'
  <2>1. request.tools \in Seq(Tool) /\ drawn \in Nat
    BY <1>3, TypeConvert
  <2>2. /\ pc = "calling" /\ pc' = "ready"
        /\ stored' = Append(body.messages, AssistantMessageForState(m))
        /\ transcript' = transcript \o OutputFromChatMessage(request.tools, m, drawn)
    BY <1>3 DEF ConvertJsonResponse
  <2>3. Alike(Said(body.messages), Said(Messages(transcript)))
    BY <2>2 DEF CallingSame
  <2>4. Alike(Said(Append(body.messages, AssistantMessageForState(m))),
              Said(Messages(transcript \o OutputFromChatMessage(request.tools, m, drawn))))
    BY <1>0, <2>1, <2>3, AnsweredAlike
  <2>5. Alike(Said(stored'), Said(Messages(transcript')))
    BY <2>2, <2>4
  <2> QED  BY <2>2, <2>5 DEF ReadySame, CallingSame
<1>4. CASE UNCHANGED vars
  BY <1>4 DEF vars, ReadySame, CallingSame
<1>5. CASE Next
  <2>1. CASE \E m \in Answer : ConvertJsonResponse(m)
    BY <1>3, <2>1
  <2>2. CASE \E r \in Question, results \in {<<>>, Results} :
               PrepareRequest(r, results \o r.input) \/ RefuseRequest(r, results \o r.input)
    <3>1. PICK r \in Question, results \in {<<>>, Results} :
               PrepareRequest(r, results \o r.input) \/ RefuseRequest(r, results \o r.input)
      BY <2>2
    <3>2. results \o r.input \in Seq(Item)
      BY RequestItems
    <3> QED  BY <1>1, <1>2, <3>1, <3>2
  <2> QED  BY <1>5, <2>1, <2>2 DEF Next
<1> QED  BY <1>4, <1>5

\* A conversation that is continued by previous_response_id and one that is sent again
\* as a whole say the same to the upstream, however long it is and whatever tools,
\* texts, calls and results it has (input.rs, json_response.rs).
THEOREM ConversationIsTheSame == Spec => []SameConversationEitherWay
<1>1. CallingSame => SameConversationEitherWay
  BY DEF CallingSame, SameConversationEitherWay
<1> QED  BY <1>1, SameInit, SameNext, ConversationTypes, PTL DEF Spec

-----------------------------------------------------------------------------
(* Results reach their calls *)

HasCall(messages, id) == \E j \in DOMAIN messages : \E call \in Calls(messages[j]) : call.id = id

\* Every call that was received is among these messages.
Holds(messages, received) ==
  \A k \in DOMAIN received :
    received[k].type = "call" /\ received[k].call_id # 0 => HasCall(messages, received[k].call_id)

StartInv == pc = "ready" /\ stored = <<>> => transcript = <<>>
HoldsInv == pc = "ready" => Holds(stored, output) /\ Holds(Messages(transcript), output)
FollowInv ==
  /\ ResultsFollow(stored) /\ ResultsFollow(body.messages) /\ ResultsFollow(resent)
  /\ pc # "refused" => ResultsFollow(Messages(transcript))
RefusalInv ==
  pc = "refused" /\ transcript # <<>> =>
    \E item \in ToSet(transcript) :
      \/ item.type = "call" /\ item.name = <<>>
      \/ item.type = "output" /\ item.call_id = 0
ReachInv == StartInv /\ HoldsInv /\ FollowInv /\ RefusalInv

LEMMA FollowConcat ==
  ASSUME NEW a \in Seq(Message), NEW b \in Seq(Message), ResultsFollow(a),
         \A i \in DOMAIN b : b[i].call_id # 0 =>
           \/ HasCall(a, b[i].call_id)
           \/ \E j \in 1 .. i - 1 : \E call \in Calls(b[j]) : call.id = b[i].call_id
  PROVE  ResultsFollow(a \o b)
<1> DEFINE m == Len(a)
<1> DEFINE n == Len(b)
<1> DEFINE ab == a \o b
<1>1. /\ ab \in Seq(Message) /\ Len(ab) = m + n
      /\ \A i \in 1 .. m + n : ab[i] = IF i <= m THEN a[i] ELSE b[i - m]
  BY ConcatProperties
<1>2. m \in Nat /\ n \in Nat /\ DOMAIN a = 1 .. m /\ DOMAIN b = 1 .. n
  BY LenProperties
<1>3. DOMAIN ab = 1 .. m + n
  <2> HIDE DEF ab
  <2> QED  BY <1>1, LenProperties
<1> HIDE DEF m, n, ab
<1>4. ASSUME NEW i \in 1 .. m + n, ab[i].call_id # 0
      PROVE  \E j \in 1 .. i - 1 : \E call \in Calls(ab[j]) : call.id = ab[i].call_id
  <2>1. CASE i <= m
    <3>1. i \in 1 .. m /\ ab[i] = a[i]
      BY <1>1, <1>2, <2>1
    <3>2. PICK j \in 1 .. i - 1 : \E call \in Calls(a[j]) : call.id = a[i].call_id
      BY <1>2, <1>4, <3>1 DEF ResultsFollow
    <3>3. j \in 1 .. m + n /\ j <= m
      BY <1>2, <2>1, <3>1
    <3>4. ab[j] = a[j]
      BY <1>1, <3>3
    <3> QED  BY <3>1, <3>2, <3>4
  <2>2. CASE ~(i <= m)
    <3> DEFINE k == i - m
    <3>1. k \in 1 .. n /\ ab[i] = b[k]
      BY <1>1, <1>2, <2>2
    <3>2. k \in Nat /\ i = m + k /\ i \in Nat
      BY <1>2, <3>1
    <3> HIDE DEF k
    <3>3. CASE HasCall(a, b[k].call_id)
      <4>1. PICK j \in 1 .. m : \E call \in Calls(a[j]) : call.id = b[k].call_id
        BY <1>2, <3>3 DEF HasCall
      <4>2. j \in 1 .. m + n /\ j <= m /\ j \in 1 .. i - 1
        BY <1>2, <3>1, <3>2
      <4>3. ab[j] = a[j]
        BY <1>1, <4>2
      <4> QED  BY <3>1, <4>1, <4>2, <4>3
    <3>4. CASE ~HasCall(a, b[k].call_id)
      <4>1. PICK l \in 1 .. k - 1 : \E call \in Calls(b[l]) : call.id = b[k].call_id
        BY <1>2, <1>4, <3>1, <3>4
      <4> DEFINE j == m + l
      <4>2. j \in 1 .. m + n /\ ~(j <= m) /\ j - m = l /\ j \in 1 .. i - 1
        BY <1>2, <3>1, <3>2, <4>1
      <4> HIDE DEF j
      <4>3. ab[j] = b[l]
        BY <1>1, <4>2
      <4> QED  BY <3>1, <4>1, <4>2, <4>3
    <3> QED  BY <3>3, <3>4
  <2> QED  BY <2>1, <2>2
<1>5. ResultsFollow(ab)
  BY <1>3, <1>4 DEF ResultsFollow
<1> QED  BY <1>5 DEF ab

LEMMA HasCallConcat ==
  ASSUME NEW a \in Seq(Message), NEW b \in Seq(Message), NEW id,
         HasCall(a, id) \/ HasCall(b, id)
  PROVE  HasCall(a \o b, id)
<1> DEFINE m == Len(a)
<1> DEFINE n == Len(b)
<1> DEFINE ab == a \o b
<1>1. /\ ab \in Seq(Message) /\ Len(ab) = m + n
      /\ \A i \in 1 .. m + n : ab[i] = IF i <= m THEN a[i] ELSE b[i - m]
  BY ConcatProperties
<1>2. m \in Nat /\ n \in Nat /\ DOMAIN a = 1 .. m /\ DOMAIN b = 1 .. n
  BY LenProperties
<1>3. DOMAIN ab = 1 .. m + n
  <2> HIDE DEF ab
  <2> QED  BY <1>1, LenProperties
<1> HIDE DEF m, n, ab
<1>4. CASE HasCall(a, id)
  <2>1. PICK j \in 1 .. m : \E call \in Calls(a[j]) : call.id = id
    BY <1>2, <1>4 DEF HasCall
  <2>2. j \in 1 .. m + n /\ j <= m
    BY <1>2
  <2>3. ab[j] = a[j]
    BY <1>1, <2>2
  <2> QED  BY <1>3, <2>1, <2>2, <2>3 DEF HasCall, ab
<1>5. CASE HasCall(b, id)
  <2>1. PICK l \in 1 .. n : \E call \in Calls(b[l]) : call.id = id
    BY <1>2, <1>5 DEF HasCall
  <2> DEFINE j == m + l
  <2>2. j \in 1 .. m + n /\ ~(j <= m) /\ j - m = l
    BY <1>2
  <2> HIDE DEF j
  <2>3. ab[j] = b[l]
    BY <1>1, <2>2
  <2> QED  BY <1>3, <2>1, <2>2, <2>3 DEF HasCall, ab
<1> QED  BY <1>4, <1>5

\* A result among the items of a request is for a call among the messages before it.
LEMMA ItemsFollow ==
  ASSUME NEW a \in Seq(Message), ResultsFollow(a), NEW items \in Seq(Item),
         NEW received, Holds(a, received), ForCalls(items, received)
  PROVE  ResultsFollow(a \o Messages(items))
<1> DEFINE q == Messages(items)
<1>1. /\ q \in Seq(Message) /\ Len(q) = Len(items)
      /\ \A i \in 1 .. Len(items) : items[i] \in Item /\ q[i] = AppendInputItem(items[i])
  BY MessagesTyped
<1>2. DOMAIN q = 1 .. Len(items)
  BY <1>1, LenProperties
<1> HIDE DEF q
<1>3. ASSUME NEW i \in 1 .. Len(items), q[i].call_id # 0 PROVE HasCall(a, q[i].call_id)
  <2> DEFINE item == items[i]
  <2>1. item \in Item /\ q[i] = AppendInputItem(item) /\ item.type # "call"
    BY <1>1 DEF ForCalls
  <2>2. item.type = "output"
    BY <1>3, <2>1, ItemIs, SayingMessage
  <2>3. q[i].call_id = item.call_id
    <3> HIDE DEF item
    <3> QED  BY <2>1, <2>2, ResultMessage
  <2>4. PICK k \in DOMAIN received :
          received[k].type = "call" /\ received[k].call_id = item.call_id
    BY <2>2 DEF ForCalls
  <2> HIDE DEF item
  <2> QED  BY <1>3, <2>3, <2>4 DEF Holds
<1>4. ResultsFollow(a \o q)
  BY <1>1, <1>2, <1>3, FollowConcat
<1> QED  BY <1>4 DEF q

\* The instructions come before everything, or between, and disturb nothing.
LEMMA InstructionsFollow ==
  ASSUME NEW r \in Question, NEW a \in Seq(Message), ResultsFollow(a)
  PROVE  /\ ResultsFollow(a \o Instructions(r)) /\ a \o Instructions(r) \in Seq(Message)
         /\ ResultsFollow(Instructions(r) \o a) /\ Instructions(r) \o a \in Seq(Message)
<1> DEFINE i == Instructions(r)
<1>1. i \in Seq(Message) /\ \A k \in DOMAIN i : i[k].call_id = 0
  BY InstructionsTyped
<1> HIDE DEF i
<1>2. ResultsFollow(i)
  BY <1>1 DEF ResultsFollow
<1>3. ResultsFollow(a \o i)
  BY <1>1, FollowConcat
<1>4. ResultsFollow(i \o a)
  <2>1. \A k \in DOMAIN a : a[k].call_id # 0 =>
          \E j \in 1 .. k - 1 : \E call \in Calls(a[j]) : call.id = a[k].call_id
    BY DEF ResultsFollow
  <2> QED  BY <1>1, <1>2, <2>1, FollowConcat
<1>5. a \o i \in Seq(Message) /\ i \o a \in Seq(Message)
  BY <1>1, ConcatProperties
<1> QED  BY <1>3, <1>4, <1>5 DEF i

\* Neither what is stored of an answer nor its items, sent again, hold a result.
LEMMA AnswerFollows ==
  ASSUME NEW a \in Seq(Message), ResultsFollow(a), NEW m \in Answer
  PROVE  ResultsFollow(Append(a, AssistantMessageForState(m)))
<1> DEFINE s == AssistantMessageForState(m)
<1>1. s \in Message /\ s.call_id = 0
  BY StateMessageTyped
<1> HIDE DEF s
<1> DEFINE b == <<s>>
<1>2. b \in Seq(Message) /\ \A i \in DOMAIN b : b[i].call_id = 0
  BY <1>1
<1>3. Append(a, s) = a \o b
  BY <1>1, AppendIsConcat
<1> HIDE DEF b
<1> QED  BY <1>2, <1>3, FollowConcat DEF s

LEMMA OutputFollows ==
  ASSUME NEW a \in Seq(Message), ResultsFollow(a), NEW items \in Seq(Received)
  PROVE  ResultsFollow(a \o Messages(items))
<1> DEFINE q == Messages(items)
<1>1. items \in Seq(Item)
  <2>1. Received \subseteq Item
    BY DEF Item
  <2> QED  BY <2>1, SeqMonotonic
<1>2. /\ q \in Seq(Message) /\ Len(q) = Len(items)
      /\ \A i \in 1 .. Len(items) : items[i] \in Item /\ q[i] = AppendInputItem(items[i])
  BY <1>1, MessagesTyped
<1>3. DOMAIN q = 1 .. Len(items)
  BY <1>2, LenProperties
<1>4. \A i \in 1 .. Len(items) : q[i].call_id = 0
  <2> SUFFICES ASSUME NEW i \in 1 .. Len(items) PROVE q[i].call_id = 0
    OBVIOUS
  <2>1. items[i] \in Received /\ items[i] \in Item /\ q[i] = AppendInputItem(items[i])
    BY <1>2, ElementOfSeq
  <2>2. items[i].type = "message" \/ items[i].type = "call"
    BY <2>1 DEF Received
  <2> HIDE DEF q
  <2>3. CASE items[i].type = "message"
    BY <2>1, <2>3, SayingMessage
  <2>4. CASE items[i].type = "call"
    <3>1. q[i] = CallMessage(ChatCall(items[i]))
      BY <2>1, <2>4, CallItemMessage
    <3>2. CallMessage(ChatCall(items[i])).call_id = 0
      BY DEF CallMessage
    <3> QED  BY <3>1, <3>2
  <2> QED  BY <2>2, <2>3, <2>4
<1> HIDE DEF q
<1>5. ResultsFollow(a \o q)
  BY <1>2, <1>3, <1>4, FollowConcat
<1> QED  BY <1>5 DEF q

\* Calls that are sent again are among the messages, under the ids they came with.
LEMMA SentAgainHolds ==
  ASSUME NEW items \in Seq(Item)
  PROVE  Holds(Messages(items), items)
<1> SUFFICES ASSUME NEW k \in DOMAIN items, items[k].type = "call", items[k].call_id # 0
             PROVE  HasCall(Messages(items), items[k].call_id)
  BY DEF Holds
<1> DEFINE q == Messages(items)
<1>1. /\ q \in Seq(Message) /\ Len(q) = Len(items) /\ DOMAIN items = 1 .. Len(items)
      /\ items[k] \in Item /\ q[k] = AppendInputItem(items[k])
  BY MessagesTyped, LenProperties
<1>2. k \in DOMAIN q
  <2> HIDE DEF q
  <2> QED  BY <1>1, LenProperties
<1> HIDE DEF q
<1> DEFINE c == ChatCall(items[k])
<1>3. q[k] = CallMessage(c)
  BY <1>1, CallItemMessage
<1>4. c.id = items[k].call_id
  BY DEF ChatCall, CallId
<1> HIDE DEF c
<1>5. c \in Calls(q[k])
  <2>1. q[k].calls = <<c>>
    BY <1>3 DEF CallMessage
  <2>2. 1 \in DOMAIN <<c>> /\ <<c>>[1] = c
    OBVIOUS
  <2> QED  BY <2>1, <2>2 DEF Calls
<1> QED  BY <1>2, <1>4, <1>5 DEF HasCall, q

\* The calls that the client receives are in the message that is stored.
LEMMA StoredHolds ==
  ASSUME NEW tools \in Seq(Tool), NEW m \in Answer, NEW first \in Nat
  PROVE  Holds(<<AssistantMessageForState(m)>>, OutputFromChatMessage(tools, m, first))
<1> DEFINE s == AssistantMessageForState(m)
<1> DEFINE a == TextItems(m)
<1> DEFINE b == CallItems(tools, m, first)
<1> DEFINE n == Len(m.calls)
<1> DEFINE l == Len(a)
<1> DEFINE out == OutputFromChatMessage(tools, m, first)
<1> DEFINE one == <<s>>
<1>1. a \in Seq(Received) /\ \A i \in DOMAIN a : a[i].type = "message"
  BY TextItemsTyped
<1>2. /\ b \in Seq(Received) /\ Len(b) = n
      /\ \A i \in 1 .. n :
           -(first + i) \in Int \ {0} /\ b[i] = ToolOutputItem(tools, m.calls[i], -(first + i))
  BY CallItemsTyped
<1>3. n \in Nat /\ DOMAIN m.calls = 1 .. n /\ \A i \in 1 .. n : m.calls[i] \in AnswerCall
  BY AnswerIs
<1>4. \A i \in 1 .. n : b[i].call_id = m.calls[i].id
  <2> SUFFICES ASSUME NEW i \in 1 .. n PROVE b[i].call_id = m.calls[i].id
    OBVIOUS
  <2> DEFINE call == m.calls[i]
  <2> DEFINE id == -(first + i)
  <2>1. call \in AnswerCall /\ id \in Int \ {0} /\ b[i] = ToolOutputItem(tools, call, id)
    BY <1>2, <1>3
  <2> HIDE DEF call, id, b
  <2>2. b[i].call_id = call.id
    BY <2>1, CallItemIs
  <2> QED  BY <2>2 DEF call
<1>5. s.calls = m.calls
  BY StateMessageTyped
<1>6. out = a \o b
  BY OutputIs
<1>7. 1 \in DOMAIN one /\ one[1] = s
  OBVIOUS
<1> HIDE DEF a, b, s, out, one
<1>8. /\ out \in Seq(Received) /\ Len(out) = l + n
      /\ \A i \in 1 .. l + n : out[i] = IF i <= l THEN a[i] ELSE b[i - l]
  <2>1. /\ a \o b \in Seq(Received) /\ Len(a \o b) = Len(a) + Len(b)
        /\ \A i \in 1 .. Len(a) + Len(b) :
             (a \o b)[i] = IF i <= Len(a) THEN a[i] ELSE b[i - Len(a)]
    <3>1. a \in Seq(Received) /\ b \in Seq(Received)
      BY <1>1, <1>2
    <3> QED  BY ONLY <3>1, ConcatProperties
  <2> QED  BY <1>2, <1>6, <2>1
<1>9. l \in Nat /\ DOMAIN a = 1 .. l /\ DOMAIN out = 1 .. l + n
  BY <1>1, <1>8, LenProperties
<1> HIDE DEF l, n
<1>10. ASSUME NEW k \in DOMAIN out, out[k].type = "call", out[k].call_id # 0
       PROVE  HasCall(one, out[k].call_id)
  <2>1. k \in 1 .. l + n
    BY <1>9
  <2>2. ~(k <= l)
    <3> SUFFICES ASSUME k <= l PROVE FALSE
      OBVIOUS
    <3>1. k \in DOMAIN a /\ out[k] = a[k]
      BY <1>3, <1>8, <1>9, <2>1
    <3> QED  BY <1>1, <1>10, <3>1
  <2> DEFINE i == k - l
  <2>3. i \in 1 .. n /\ out[k] = b[i]
    BY <1>3, <1>8, <1>9, <2>1, <2>2
  <2> HIDE DEF i
  <2>4. m.calls[i].id = out[k].call_id /\ m.calls[i] \in Calls(s)
    BY <1>3, <1>4, <1>5, <2>3 DEF Calls
  <2> QED  BY <1>7, <2>4 DEF HasCall
<1>11. Holds(one, out)
  BY <1>10 DEF Holds
<1> QED  BY <1>11 DEF one, out, s

\* An item that is not accepted, of items that are typed.
LEMMA NotAcceptedIs ==
  ASSUME NEW item \in Item, ~Accepted(item)
  PROVE  \/ item.type = "call" /\ item.name = <<>>
         \/ item.type = "output" /\ item.call_id = 0
<1>1. /\ item.type \in {"message", "context", "call", "output"}
      /\ item.type = "call" => item.id # 0
  BY ItemIs
<1> QED  BY <1>1 DEF Accepted, CallId

LEMMA ReachInit == Init => ReachInv
<1> SUFFICES ASSUME Init PROVE ReachInv
  OBVIOUS
<1>1. Messages(<<>>) = <<>>
  BY MessagesTyped, EmptySeq
<1>2. /\ pc = "ready" /\ stored = <<>> /\ transcript = <<>> /\ output = <<>> /\ resent = <<>>
      /\ body.messages = <<>>
  BY DEF Init, NoBody
<1>3. DOMAIN <<>> = {}
  OBVIOUS
<1>4. \A messages : Holds(messages, <<>>)
  BY <1>3 DEF Holds
<1>5. ResultsFollow(<<>>)
  BY <1>3 DEF ResultsFollow
<1> QED  BY <1>1, <1>2, <1>4, <1>5 DEF ReachInv, StartInv, HoldsInv, FollowInv, RefusalInv

LEMMA ReachPrepare ==
  ASSUME TypeOK, ReachInv, NEW r \in Question, NEW items \in Seq(Item), ForCalls(items, output),
         PrepareRequest(r, items)
  PROVE  ReachInv'
<1>1. /\ pc = "ready" /\ pc' = "calling" /\ transcript' = transcript \o items
      /\ body'.messages = (stored \o Instructions(r)) \o Messages(items)
      /\ resent' = Instructions(r) \o Messages(transcript \o items)
      /\ stored' = stored
  BY DEF PrepareRequest
<1>2. transcript \in Seq(Item) /\ stored \in Seq(Message)
  BY DEF TypeOK, Item
<1>3. /\ ResultsFollow(stored) /\ ResultsFollow(Messages(transcript))
      /\ Holds(stored, output) /\ Holds(Messages(transcript), output)
  BY <1>1 DEF ReachInv, HoldsInv, FollowInv
<1> DEFINE p == Messages(transcript)
<1> DEFINE q == Messages(items)
<1>4. /\ Messages(transcript \o items) = p \o q /\ p \in Seq(Message) /\ q \in Seq(Message)
      /\ p \o q \in Seq(Message)
  BY <1>2, MessagesConcat, MessagesTyped, ConcatProperties
<1>5. ResultsFollow(p \o q)
  <2>1. ResultsFollow(p) /\ Holds(p, output)
    BY <1>3
  <2> HIDE DEF p
  <2> QED  BY <1>4, <2>1, ItemsFollow
<1> DEFINE i == Instructions(r)
<1>6. ResultsFollow(stored \o i) /\ stored \o i \in Seq(Message) /\ i \in Seq(Message)
  BY <1>2, <1>3, InstructionsFollow, InstructionsTyped
<1>7. ResultsFollow(i \o (p \o q))
  <2> DEFINE pq == p \o q
  <2>1. pq \in Seq(Message) /\ ResultsFollow(pq)
    BY <1>4, <1>5
  <2> HIDE DEF p, q, pq
  <2>2. ResultsFollow(i \o pq)
    BY <2>1, InstructionsFollow
  <2> QED  BY <2>2 DEF pq
<1>8. Holds(stored \o i, output)
  <2> HIDE DEF i
  <2> QED  BY <1>2, <1>3, <1>6, HasCallConcat DEF Holds
<1>9. ResultsFollow((stored \o i) \o q)
  <2> DEFINE si == stored \o i
  <2>1. si \in Seq(Message) /\ ResultsFollow(si) /\ Holds(si, output)
    BY <1>6, <1>8
  <2> HIDE DEF si
  <2>2. ResultsFollow(si \o q)
    BY <2>1, ItemsFollow
  <2> QED  BY <2>2 DEF si
<1>10. /\ ResultsFollow(body'.messages) /\ ResultsFollow(resent')
       /\ ResultsFollow(Messages(transcript')) /\ ResultsFollow(stored')
  BY <1>1, <1>3, <1>4, <1>5, <1>7, <1>9
<1> HIDE DEF p, q, i
<1> QED  BY <1>1, <1>10 DEF ReachInv, StartInv, HoldsInv, FollowInv, RefusalInv

LEMMA ReachRefuse ==
  ASSUME TypeOK, ReachInv, NEW r \in Question, NEW items \in Seq(Item), RefuseRequest(r, items)
  PROVE  ReachInv'
<1> DEFINE all == transcript \o items
<1>1. /\ pc = "ready" /\ pc' = "refused" /\ transcript' = all
      /\ body' = body /\ resent' = resent /\ stored' = stored
      /\ \/ \E k \in DOMAIN all : ~Accepted(all[k])
         \/ <<>> \in {stored \o Instructions(r) \o items, Instructions(r) \o all}
  BY DEF RefuseRequest
<1>2. transcript \in Seq(Item) /\ stored \in Seq(Message)
  BY DEF TypeOK, Item
<1>3. all \in Seq(Item) /\ DOMAIN all = 1 .. Len(all) /\ \A k \in DOMAIN all : all[k] \in Item
  <2>1. all \in Seq(Item)
    BY <1>2, ConcatProperties
  <2> HIDE DEF all
  <2> QED  BY <2>1, LenProperties, ElementOfSeq
<1>4. ASSUME all # <<>>
      PROVE  \E item \in ToSet(all) :
               \/ item.type = "call" /\ item.name = <<>>
               \/ item.type = "output" /\ item.call_id = 0
  <2>1. CASE \E k \in DOMAIN all : ~Accepted(all[k])
    <3>1. PICK k \in DOMAIN all : ~Accepted(all[k])
      BY <2>1
    <3> DEFINE item == all[k]
    <3>2. item \in Item /\ ~Accepted(item) /\ item \in ToSet(all)
      BY <1>3, <3>1 DEF ToSet
    <3> HIDE DEF item, all
    <3> QED  BY <3>2, NotAcceptedIs
  <2>2. CASE <<>> \in {stored \o Instructions(r) \o items, Instructions(r) \o all}
    <3> DEFINE U == Message \cup Item
    <3> DEFINE i == Instructions(r)
    <3>1. /\ stored \in Seq(U) /\ i \in Seq(U) /\ items \in Seq(U) /\ all \in Seq(U)
      <4>1. Message \subseteq U /\ Item \subseteq U /\ i \in Seq(Message)
        BY InstructionsTyped
      <4> HIDE DEF U, i, all
      <4> QED  BY <1>2, <1>3, <4>1, SeqMonotonic
    <3> HIDE DEF U, i
    <3>2. i \o all # <<>>
      <4>1. all # <<>> /\ all \in Seq(U)
        BY <1>4, <3>1
      <4> HIDE DEF all
      <4> QED  BY <3>1, <4>1, ConcatEqualIffEmpty
    <3>3. stored \o i \o items = <<>>
      BY <2>2, <3>2 DEF i
    <3>4. stored \o i \in Seq(U)
      BY <3>1, ConcatProperties
    <3>5. stored \o i = <<>> /\ items = <<>>
      BY <3>1, <3>3, <3>4, ConcatEqualIffEmpty
    <3>6. stored = <<>>
      BY <3>1, <3>5, ConcatEqualIffEmpty
    <3>7. transcript = <<>>
      BY <1>1, <3>6 DEF ReachInv, StartInv
    <3>8. all = <<>>
      BY <3>5, <3>7
    <3> QED  BY <1>4, <3>8
  <2> QED  BY <1>1, <2>1, <2>2
<1> HIDE DEF all
<1>5. RefusalInv'
  BY <1>1, <1>4 DEF RefusalInv
<1> QED  BY <1>1, <1>5 DEF ReachInv, StartInv, HoldsInv, FollowInv

LEMMA ReachConvert ==
  ASSUME TypeOK, ReachInv, NEW m \in Answer, ConvertJsonResponse(m)
  PROVE  ReachInv'
<1> DEFINE s == AssistantMessageForState(m)
<1> DEFINE items == OutputFromChatMessage(request.tools, m, drawn)
<1> DEFINE b == body.messages
<1> DEFINE p == Messages(transcript)
<1> DEFINE q == Messages(items)
<1>1. request.tools \in Seq(Tool) /\ drawn \in Nat /\ s \in Message
  BY TypeConvert
<1>2. /\ pc = "calling" /\ pc' = "ready" /\ output' = items
      /\ stored' = Append(b, s) /\ transcript' = transcript \o items
      /\ body' = body /\ resent' = resent
  BY DEF ConvertJsonResponse
<1>3. items \in Seq(Received)
  BY <1>1, OutputTyped
<1>4. Holds(<<s>>, items)
  BY <1>1, StoredHolds
<1>5. b \in Seq(Message) /\ transcript \in Seq(Item)
  BY DEF TypeOK, Item
<1>6. ResultsFollow(b) /\ ResultsFollow(p) /\ ResultsFollow(resent)
  BY <1>2 DEF ReachInv, FollowInv
<1>7. ResultsFollow(Append(b, s))
  BY <1>5, <1>6, AnswerFollows
<1> HIDE DEF s, items, b
<1>8. items \in Seq(Item)
  <2>1. Received \subseteq Item
    BY DEF Item
  <2> QED  BY <1>3, <2>1, SeqMonotonic
<1>9. Messages(transcript \o items) = p \o q /\ p \in Seq(Message) /\ q \in Seq(Message)
  BY <1>5, <1>8, MessagesConcat, MessagesTyped
<1>10. Holds(q, items)
  BY <1>8, SentAgainHolds
<1>11. ResultsFollow(p \o q)
  <2> HIDE DEF p
  <2> QED  BY <1>3, <1>6, <1>9, OutputFollows
<1> HIDE DEF p, q
<1>12. Holds(p \o q, items)
  BY <1>9, <1>10, HasCallConcat DEF Holds
<1>13. Append(b, s) # <<>> /\ Append(b, s) = b \o <<s>> /\ <<s>> \in Seq(Message)
  <2>1. Append(b, s) # <<>> /\ Append(b, s) = b \o <<s>>
    BY <1>1, <1>5, AppendProperties, AppendIsConcat
  <2> QED  BY <1>1, <2>1
<1>14. Holds(Append(b, s), items)
  <2> DEFINE one == <<s>>
  <2>1. one \in Seq(Message) /\ Holds(one, items) /\ Append(b, s) = b \o one
    BY <1>4, <1>13
  <2> HIDE DEF one
  <2>2. Holds(b \o one, items)
    BY <1>5, <2>1, HasCallConcat DEF Holds
  <2> QED  BY <2>1, <2>2
<1>15. stored' # <<>> /\ Holds(stored', output') /\ ResultsFollow(stored')
  BY <1>2, <1>7, <1>13, <1>14
<1>16. Holds(Messages(transcript'), output') /\ ResultsFollow(Messages(transcript'))
  BY <1>2, <1>9, <1>11, <1>12
<1>17. ResultsFollow(body'.messages) /\ ResultsFollow(resent')
  BY <1>2, <1>6 DEF b
<1> QED  BY <1>2, <1>15, <1>16, <1>17 DEF ReachInv, StartInv, HoldsInv, FollowInv, RefusalInv

LEMMA ReachNext == TypeOK /\ ReachInv /\ [Next]_vars => ReachInv'
<1> SUFFICES ASSUME TypeOK, ReachInv, [Next]_vars PROVE ReachInv'
  OBVIOUS
<1>1. CASE \E m \in Answer : ConvertJsonResponse(m)
  BY <1>1, ReachConvert
<1>2. CASE \E r \in Question, results \in {<<>>, Results} :
             PrepareRequest(r, results \o r.input) \/ RefuseRequest(r, results \o r.input)
  <2>1. PICK r \in Question, results \in {<<>>, Results} :
             PrepareRequest(r, results \o r.input) \/ RefuseRequest(r, results \o r.input)
    BY <1>2
  <2> DEFINE items == results \o r.input
  <2>2. items \in Seq(Item) /\ ForCalls(items, output)
    BY RequestItems
  <2>3. PrepareRequest(r, items) \/ RefuseRequest(r, items)
    BY <2>1
  <2> HIDE DEF items
  <2> QED  BY <2>2, <2>3, ReachPrepare, ReachRefuse
<1>3. CASE UNCHANGED vars
  BY <1>3 DEF vars, ReachInv, StartInv, HoldsInv, FollowInv, RefusalInv
<1> QED  BY <1>1, <1>2, <1>3 DEF Next

\* A client that sends back what it received is refused only over an id or a name that
\* an upstream left out, and a result reaches an upstream only after the call it is for
\* (append_input_item, call_id).
THEOREM ResultsSafety == Spec => []ResultsReachTheirCalls
<1>1. ReachInv => ResultsReachTheirCalls
  BY DEF ReachInv, FollowInv, RefusalInv, ResultsReachTheirCalls
<1> QED  BY <1>1, ReachInit, ReachNext, ConversationTypes, PTL DEF Spec
=============================================================================
