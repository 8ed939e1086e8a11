----------------------- MODULE ResponseDeliveryProofs -----------------------
(***************************************************************************)
(* Proofs about ResponseDelivery, for any answer, cut up in any way, any   *)
(* timings and bounds, and cancellations and failures anywhere.            *)
(***************************************************************************)
EXTENDS ResponseDelivery, FiniteSetTheorems, SequenceTheorems, WellFoundedInduction, TLAPS

-----------------------------------------------------------------------------
(* Sequences of texts and the text they make up.  What FlattenSeq gives is   *)
(* shown for every length from the least one for which it would not hold.    *)

LEMMA LeastOf ==
  ASSUME NEW S \in SUBSET Nat, S # {}
  PROVE  \E n \in S : \A m \in S : n <= m
<1> DEFINE R == {p \in Nat \X Nat : p[1] < p[2]}
<1>1. PICK n \in S : \A m \in S : ~(<<m, n>> \in R)
  <2>1. IsWellFoundedOn(R, Nat) BY NatLessThanWellFounded DEF OpToRel
  <2> HIDE DEF R
  <2> QED BY <2>1, WFMin
<1>2. \A m \in S : n <= m
  <2> SUFFICES ASSUME NEW m \in S PROVE n <= m OBVIOUS
  <2>1. ~(m < n) BY <1>1
  <2> QED BY <2>1
<1> QED BY <1>2

\* f[i] is the text of the first i elements of s.
Joins(s, f) == f = [i \in 1..Len(s) |-> IF i = 1 THEN s[i] ELSE f[i - 1] \o s[i]]

LEMMA JoinsUnique ==
  ASSUME NEW S, NEW s \in Seq(S), NEW f, NEW g, Joins(s, f), Joins(s, g)
  PROVE  f = g
<1> DEFINE D == {i \in 1..Len(s) : f[i] # g[i]}
<1>1. f = [i \in 1..Len(s) |-> IF i = 1 THEN s[i] ELSE f[i - 1] \o s[i]]
  BY DEF Joins
<1>2. g = [i \in 1..Len(s) |-> IF i = 1 THEN s[i] ELSE g[i - 1] \o s[i]]
  BY DEF Joins
<1>3. Len(s) \in Nat
  OBVIOUS
<1>4. D = {}
  <2> SUFFICES ASSUME D # {} PROVE FALSE OBVIOUS
  <2>1. PICK n \in D : \A m \in D : n <= m
    <3>1. D \in SUBSET Nat BY <1>3
    <3> HIDE DEF D
    <3> QED BY <3>1, LeastOf
  <2>2. n \in 1..Len(s) /\ f[n] # g[n] BY <2>1
  <2>3. f[n] = IF n = 1 THEN s[n] ELSE f[n - 1] \o s[n] BY <1>1, <2>2
  <2>4. g[n] = IF n = 1 THEN s[n] ELSE g[n - 1] \o s[n] BY <1>2, <2>2
  <2>5. n # 1 BY <2>2, <2>3, <2>4
  <2>6. n - 1 \in 1..Len(s) /\ ~(n <= n - 1) BY <1>3, <2>2, <2>5
  <2>7. f[n - 1] = g[n - 1] BY <2>1, <2>6
  <2> QED BY <2>2, <2>3, <2>4, <2>5, <2>7
<1>5. \A i \in 1..Len(s) : f[i] = g[i]
  BY <1>4
<1>6. f = [i \in 1..Len(s) |-> f[i]] /\ g = [i \in 1..Len(s) |-> g[i]]
  <2>1. DOMAIN f = 1..Len(s) /\ DOMAIN g = 1..Len(s) BY <1>1, <1>2
  <2> QED BY <1>1, <1>2, <2>1
<1> QED BY <1>5, <1>6

\* For every prefix of s there is such an f, by adding one text to the last one.
LEMMA JoinsExists ==
  ASSUME NEW S, NEW s \in Seq(Seq(S))
  PROVE  \E f \in [1..Len(s) -> Seq(S)] : Joins(s, f)
<1> DEFINE Good(n) == \E f \in [1..n -> Seq(S)] :
                        \A i \in 1..n : f[i] = IF i = 1 THEN s[i] ELSE f[i - 1] \o s[i]
           B == {n \in 0..Len(s) : ~Good(n)}
<1>1. Len(s) \in Nat /\ \A i \in 1..Len(s) : s[i] \in Seq(S)
  OBVIOUS
<1>2. B = {}
  <2> SUFFICES ASSUME B # {} PROVE FALSE OBVIOUS
  <2>1. PICK n \in B : \A m \in B : n <= m
    <3>1. B \in SUBSET Nat BY <1>1
    <3> HIDE DEF B
    <3> QED BY <3>1, LeastOf
  <2>2. n \in 0..Len(s) /\ ~Good(n) BY <2>1
  <2>3. n # 0
    <3> SUFFICES ASSUME n = 0 PROVE Good(0) BY <2>2
    <3>1. [i \in 1..0 |-> <<>>] \in [1..0 -> Seq(S)] OBVIOUS
    <3>2. \A i \in 1..0 : FALSE OBVIOUS
    <3> QED BY <3>1, <3>2
  <2>4. n - 1 \in 0..Len(s) /\ ~(n <= n - 1) BY <1>1, <2>2, <2>3
  <2>5. Good(n - 1) BY <2>1, <2>4
  <2>6. PICK f \in [1..n - 1 -> Seq(S)] :
          \A i \in 1..n - 1 : f[i] = IF i = 1 THEN s[i] ELSE f[i - 1] \o s[i]
    BY <2>5
  <2> DEFINE last == IF n = 1 THEN s[n] ELSE f[n - 1] \o s[n]
             g == [i \in 1..n |-> IF i = n THEN last ELSE f[i]]
  <2>7. n \in 1..Len(s) /\ n \in Nat BY <2>2, <2>3
  <2>8. last \in Seq(S)
    <3>1. CASE n = 1 BY <1>1, <2>7, <3>1
    <3>2. CASE n # 1
      <4>1. n - 1 \in 1..n - 1 BY <2>7, <3>2
      <4>2. f[n - 1] \in Seq(S) /\ s[n] \in Seq(S) BY <1>1, <2>6, <2>7, <4>1
      <4> QED BY <3>2, <4>2
    <3> QED BY <3>1, <3>2
  <2>9. g \in [1..n -> Seq(S)]
    <3>1. \A i \in 1..n : i # n => i \in 1..n - 1 BY <2>7
    <3> HIDE DEF last
    <3> QED BY <2>6, <2>8, <3>1
  <2>10. \A i \in 1..n : g[i] = IF i = 1 THEN s[i] ELSE g[i - 1] \o s[i]
    <3> SUFFICES ASSUME NEW i \in 1..n PROVE g[i] = IF i = 1 THEN s[i] ELSE g[i - 1] \o s[i]
      OBVIOUS
    <3>1. i # 1 => i - 1 \in 1..n /\ i - 1 # n BY <2>7
    <3>2. i # 1 => g[i - 1] = f[i - 1] BY <3>1
    <3>3. CASE i = n
      <4>1. g[i] = last BY <3>3
      <4> QED BY <3>2, <3>3, <4>1
    <3>4. CASE i # n
      <4>1. i \in 1..n - 1 BY <2>7, <3>4
      <4>2. g[i] = f[i] BY <3>4
      <4> QED BY <2>6, <3>2, <4>1, <4>2
    <3> QED BY <3>3, <3>4
  <2> HIDE DEF g
  <2> QED BY <2>2, <2>9, <2>10
<1>3. Good(Len(s))
  <2> HIDE DEF Good
  <2>1. Len(s) \in 0..Len(s) BY <1>1
  <2> QED BY <1>2, <2>1
<1>4. PICK f \in [1..Len(s) -> Seq(S)] :
        \A i \in 1..Len(s) : f[i] = IF i = 1 THEN s[i] ELSE f[i - 1] \o s[i]
  BY <1>3
<1>5. f = [i \in 1..Len(s) |-> IF i = 1 THEN s[i] ELSE f[i - 1] \o s[i]]
  BY <1>4
<1> QED BY <1>5 DEF Joins

LEMMA FlattenIs ==
  ASSUME NEW S, NEW s \in Seq(Seq(S)), Len(s) # 0, NEW f, Joins(s, f)
  PROVE  FlattenSeq(s) = f[Len(s)]
<1>1. (CHOOSE g : Joins(s, g)) = f
  BY JoinsUnique
<1> QED BY <1>1 DEF FlattenSeq, Joins

LEMMA FlattenEmpty == FlattenSeq(<<>>) = <<>>
BY DEF FlattenSeq

LEMMA FlattenType ==
  ASSUME NEW S, NEW s \in Seq(Seq(S))
  PROVE  FlattenSeq(s) \in Seq(S)
<1>1. CASE Len(s) = 0
  <2>1. s = <<>> BY <1>1
  <2>2. FlattenSeq(s) = <<>> BY <2>1, FlattenEmpty
  <2> QED BY <2>2
<1>2. CASE Len(s) # 0
  <2>1. PICK f \in [1..Len(s) -> Seq(S)] : Joins(s, f) BY JoinsExists
  <2>2. FlattenSeq(s) = f[Len(s)] BY <1>2, <2>1, FlattenIs
  <2>3. Len(s) \in 1..Len(s) BY <1>2
  <2> QED BY <2>2, <2>3
<1> QED BY <1>1, <1>2

LEMMA FlattenOne ==
  ASSUME NEW S, NEW x \in Seq(S)
  PROVE  FlattenSeq(<<x>>) = x
<1> DEFINE s == <<x>>
<1>1. s \in Seq(Seq(S)) /\ Len(s) = 1 /\ s[1] = x
  OBVIOUS
<1> HIDE DEF s
<1>2. PICK f : Joins(s, f)
  BY <1>1, JoinsExists
<1>3. FlattenSeq(s) = f[Len(s)]
  <2>1. Len(s) # 0 BY <1>1
  <2> QED BY <1>1, <1>2, <2>1, FlattenIs
<1>4. f[1] = x
  BY <1>1, <1>2 DEF Joins
<1> QED BY <1>1, <1>3, <1>4 DEF s

LEMMA FlattenAdd ==
  ASSUME NEW S, NEW s \in Seq(Seq(S)), NEW x \in Seq(S)
  PROVE  FlattenSeq(Append(s, x)) = FlattenSeq(s) \o x
<1> DEFINE t == Append(s, x)
<1>1. /\ t \in Seq(Seq(S)) /\ Len(t) = Len(s) + 1 /\ Len(s) \in Nat
      /\ t[Len(s) + 1] = x /\ \A i \in 1..Len(s) : t[i] = s[i]
  OBVIOUS
<1> HIDE DEF t
<1>2. PICK g \in [1..Len(t) -> Seq(S)] : Joins(t, g)
  BY <1>1, JoinsExists
<1>3. g = [i \in 1..Len(t) |-> IF i = 1 THEN t[i] ELSE g[i - 1] \o t[i]]
  BY <1>2 DEF Joins
<1>4. FlattenSeq(t) = g[Len(s) + 1]
  BY <1>1, <1>2, FlattenIs
<1>5. CASE Len(s) = 0
  <2>1. s = <<>> BY <1>5
  <2>2. g[1] = x BY <1>1, <1>3, <1>5
  <2>3. FlattenSeq(t) = x BY <1>4, <1>5, <2>2
  <2> QED BY <2>1, <2>3, FlattenEmpty DEF t
<1>6. CASE Len(s) # 0
  <2> DEFINE f == [i \in 1..Len(s) |-> g[i]]
  <2>1. Joins(s, f)
    <3>1. \A i \in 1..Len(s) : f[i] = IF i = 1 THEN s[i] ELSE f[i - 1] \o s[i]
      <4> SUFFICES ASSUME NEW i \in 1..Len(s) PROVE f[i] = IF i = 1 THEN s[i] ELSE f[i - 1] \o s[i]
        OBVIOUS
      <4>1. i \in 1..Len(t) /\ f[i] = g[i] /\ t[i] = s[i] BY <1>1
      <4>2. i # 1 => i - 1 \in 1..Len(s) BY <1>1
      <4>3. i # 1 => f[i - 1] = g[i - 1] BY <4>2
      <4> QED BY <1>3, <4>1, <4>3
    <3>2. f = [i \in 1..Len(s) |-> f[i]] OBVIOUS
    <3> HIDE DEF f
    <3> QED BY <3>1, <3>2 DEF Joins
  <2>2. FlattenSeq(s) = f[Len(s)] BY <1>6, <2>1, FlattenIs
  <2>3. Len(s) \in 1..Len(s) BY <1>1, <1>6
  <2>4. FlattenSeq(s) = g[Len(s)] BY <2>2, <2>3
  <2>5. g[Len(s) + 1] = g[Len(s)] \o x
    <3>1. Len(s) + 1 \in 1..Len(t) /\ Len(s) + 1 # 1 /\ (Len(s) + 1) - 1 = Len(s) BY <1>1, <1>6
    <3>2. g[Len(s) + 1] = IF Len(s) + 1 = 1 THEN t[Len(s) + 1] ELSE g[(Len(s) + 1) - 1] \o t[Len(s) + 1]
      BY <1>3, <3>1
    <3> QED BY <1>1, <3>1, <3>2
  <2> QED BY <1>4, <2>4, <2>5 DEF t
<1> QED BY <1>5, <1>6

LEMMA Regroup ==
  ASSUME NEW S, NEW a \in Seq(S), NEW b \in Seq(S), NEW c \in Seq(S)
  PROVE  (a \o b) \o c = a \o (b \o c) /\ a \o b \in Seq(S) /\ Len(a \o b) = Len(a) + Len(b)
OBVIOUS

LEMMA PrefixAdd ==
  ASSUME NEW S, NEW t \in Seq(S), NEW n \in 1..Len(t)
  PROVE  /\ SubSeq(t, 1, n - 1) \in Seq(S) /\ t[n] \in S
         /\ SubSeq(t, 1, n) = Append(SubSeq(t, 1, n - 1), t[n])
<1>1. n \in Nat /\ 1 <= n /\ n <= Len(t) /\ Len(t) \in Nat
  OBVIOUS
<1>2. SubSeq(t, 1, n - 1) \in Seq(S) /\ t[n] \in S
  BY <1>1
<1>3. SubSeq(t, 1, n) = SubSeq(t, 1, n - 1) \o <<t[n]>>
  BY <1>1, SubSeqRecursiveSecond
<1>4. SubSeq(t, 1, n - 1) \o <<t[n]>> = Append(SubSeq(t, 1, n - 1), t[n])
  <2> DEFINE u == SubSeq(t, 1, n - 1)  x == t[n]
  <2>1. u \in Seq(S) /\ x \in S BY <1>2
  <2> HIDE DEF u, x
  <2>2. u \o <<x>> = Append(u, x) BY <2>1
  <2> QED BY <2>2 DEF u, x
<1> QED BY <1>2, <1>3, <1>4

LEMMA FlattenAddAfter ==
  ASSUME NEW S, NEW s \in Seq(Seq(S)), NEW u \in Seq(Seq(S)), NEW x \in Seq(S),
         FlattenSeq(s \o u) = FlattenSeq(s) \o FlattenSeq(u)
  PROVE  FlattenSeq(s \o Append(u, x)) = FlattenSeq(s) \o FlattenSeq(Append(u, x))
<1>1. FlattenSeq(s) \in Seq(S) /\ FlattenSeq(u) \in Seq(S) /\ s \o u \in Seq(Seq(S))
  BY FlattenType
<1>2. FlattenSeq(Append(u, x)) = FlattenSeq(u) \o x
  BY FlattenAdd
<1>3. FlattenSeq(Append(s \o u, x)) = FlattenSeq(s \o u) \o x
  BY <1>1, FlattenAdd
<1>4. s \o Append(u, x) = Append(s \o u, x)
  OBVIOUS
<1>5. (FlattenSeq(s) \o FlattenSeq(u)) \o x = FlattenSeq(s) \o (FlattenSeq(u) \o x)
  BY <1>1, Regroup
<1> QED BY <1>2, <1>3, <1>4, <1>5

\* The text of two sequences in a row; and so without the first piece.
LEMMA FlattenJoin ==
  ASSUME NEW S, NEW s \in Seq(Seq(S)), NEW t \in Seq(Seq(S))
  PROVE  FlattenSeq(s \o t) = FlattenSeq(s) \o FlattenSeq(t)
<1> DEFINE Good(n) == FlattenSeq(s \o SubSeq(t, 1, n)) = FlattenSeq(s) \o FlattenSeq(SubSeq(t, 1, n))
           B == {n \in 0..Len(t) : ~Good(n)}
<1>1. Len(t) \in Nat /\ FlattenSeq(s) \in Seq(S)
  BY FlattenType
<1>2. B = {}
  <2> SUFFICES ASSUME B # {} PROVE FALSE OBVIOUS
  <2>1. PICK n \in B : \A m \in B : n <= m
    <3>1. B \in SUBSET Nat BY <1>1
    <3> HIDE DEF B
    <3> QED BY <3>1, LeastOf
  <2>2. n \in 0..Len(t) /\ ~Good(n) BY <2>1
  <2>3. n # 0
    <3> SUFFICES ASSUME n = 0 PROVE Good(0) BY <2>2
    <3>1. SubSeq(t, 1, 0) = <<>> OBVIOUS
    <3>2. s \o <<>> = s /\ FlattenSeq(s) \o <<>> = FlattenSeq(s) BY <1>1
    <3> QED BY <3>1, <3>2, FlattenEmpty
  <2>4. n - 1 \in 0..Len(t) /\ ~(n <= n - 1) /\ n \in 1..Len(t) BY <1>1, <2>2, <2>3
  <2>5. Good(n - 1) BY <2>1, <2>4
  <2> DEFINE u == SubSeq(t, 1, n - 1)  x == t[n]
  <2>6. u \in Seq(Seq(S)) /\ x \in Seq(S) /\ SubSeq(t, 1, n) = Append(u, x)
    BY <2>4, PrefixAdd
  <2>7. FlattenSeq(s \o u) = FlattenSeq(s) \o FlattenSeq(u)
    BY <2>5
  <2> HIDE DEF u, x
  <2>8. FlattenSeq(s \o Append(u, x)) = FlattenSeq(s) \o FlattenSeq(Append(u, x))
    BY <2>6, <2>7, FlattenAddAfter
  <2> QED BY <2>2, <2>6, <2>8
<1>3. Good(Len(t))
  <2> HIDE DEF Good
  <2>1. Len(t) \in 0..Len(t) BY <1>1
  <2> QED BY <1>2, <2>1
<1>4. SubSeq(t, 1, Len(t)) = t
  OBVIOUS
<1> QED BY <1>3, <1>4

LEMMA FlattenHead ==
  ASSUME NEW S, NEW s \in Seq(Seq(S)), s # <<>>
  PROVE  FlattenSeq(s) = Head(s) \o FlattenSeq(Tail(s))
<1>1. Head(s) \in Seq(S) /\ Tail(s) \in Seq(Seq(S)) /\ s = <<Head(s)>> \o Tail(s)
  OBVIOUS
<1>2. <<Head(s)>> \in Seq(Seq(S))
  BY <1>1
<1>3. FlattenSeq(<<Head(s)>> \o Tail(s)) = FlattenSeq(<<Head(s)>>) \o FlattenSeq(Tail(s))
  BY <1>1, <1>2, FlattenJoin
<1> QED BY <1>1, <1>3, FlattenOne

\* Slice: n pieces of k characters, the last one perhaps shorter.
LEMMA SliceCount ==
  ASSUME NEW l \in Nat, NEW k \in Nat \ {0}
  PROVE  LET n == (l + k - 1) \div k IN
         n \in Nat /\ l <= n * k /\ n * k <= l + k - 1 /\ (l > 0 => n > 0)
<1> DEFINE n == (l + k - 1) \div k
<1>1. n \in Nat /\ k * n <= l + k - 1 /\ l + k - 1 < k * n + k
  OBVIOUS
<1> HIDE DEF n
<1>2. n * k = k * n
  BY <1>1
<1>3. l > 0 => n > 0
  <2>1. n = 0 => k * n = 0 BY <1>1
  <2> QED BY <1>1, <2>1
<1> QED BY <1>1, <1>2, <1>3 DEF n

LEMMA Multiples ==
  ASSUME NEW k \in Nat \ {0}, NEW i \in Nat \ {0}, NEW n \in Nat, i <= n
  PROVE  (i - 1) * k = i * k - k /\ i * k <= n * k /\ i * k \in Nat /\ (i - 1) * k \in Nat
<1>1. i * k + (n - i) * k = n * k /\ (n - i) * k >= 0
  OBVIOUS
<1> QED BY <1>1

LEMMA SliceType ==
  ASSUME NEW S, NEW t \in Seq(S), NEW k \in Nat \ {0}
  PROVE  LET n == (Len(t) + k - 1) \div k
             end(i) == IF i * k < Len(t) THEN i * k ELSE Len(t)
         IN  /\ Slice(t, k) \in Seq(Seq(S)) /\ Len(Slice(t, k)) = n /\ (t # <<>> => Slice(t, k) # <<>>)
             /\ n \in Nat /\ Len(t) <= n * k
             /\ \A i \in 1..n : /\ Slice(t, k)[i] = SubSeq(t, (i - 1) * k + 1, end(i))
                                /\ (i - 1) * k \in 0..Len(t) - 1 /\ i * k \in Nat
<1> DEFINE n == (Len(t) + k - 1) \div k
           end(i) == IF i * k < Len(t) THEN i * k ELSE Len(t)
<1>1. n \in Nat /\ Len(t) <= n * k /\ n * k <= Len(t) + k - 1 /\ (Len(t) > 0 => n > 0)
  <2>1. Len(t) \in Nat OBVIOUS
  <2> QED BY <2>1, SliceCount
<1>2. Slice(t, k) = [i \in 1..n |-> SubSeq(t, (i - 1) * k + 1, end(i))]
  BY DEF Slice
<1> HIDE DEF n
<1>3. ASSUME NEW i \in 1..n
      PROVE  (i - 1) * k \in 0..Len(t) - 1 /\ i * k \in Nat /\ SubSeq(t, (i - 1) * k + 1, end(i)) \in Seq(S)
  <2>1. (i - 1) * k = i * k - k /\ i * k <= n * k /\ i * k \in Nat /\ (i - 1) * k \in Nat
    BY <1>1, Multiples
  <2>2. Len(t) \in Nat OBVIOUS
  <2>3. n * k \in Nat BY <1>1
  <2> DEFINE a == (i - 1) * k  b == i * k  c == n * k
  <2>4. a = b - k /\ b <= c /\ b \in Nat /\ a \in Nat /\ c <= Len(t) + k - 1 /\ c \in Nat
    BY <1>1, <2>1, <2>3
  <2>5. end(i) = IF b < Len(t) THEN b ELSE Len(t) OBVIOUS
  <2> HIDE DEF a, b, c, end
  <2>6. a \in 0..Len(t) - 1 /\ end(i) \in 0..Len(t)
    BY <2>2, <2>4, <2>5
  <2>7. SubSeq(t, a + 1, end(i)) \in Seq(S)
    BY <2>2, <2>6
  <2> QED BY <2>4, <2>6, <2>7 DEF a, b
<1> HIDE DEF end
<1>4. Slice(t, k) \in Seq(Seq(S)) /\ Len(Slice(t, k)) = n
  BY <1>1, <1>2, <1>3
<1>5. t # <<>> => Slice(t, k) # <<>>
  <2>1. t # <<>> => Len(t) > 0 OBVIOUS
  <2> QED BY <1>1, <1>4, <2>1
<1> QED BY <1>1, <1>2, <1>3, <1>4, <1>5 DEF n, end

LEMMA SliceText ==
  ASSUME NEW S, NEW t \in Seq(S), NEW k \in Nat \ {0}
  PROVE  FlattenSeq(Slice(t, k)) = t
<1> DEFINE s == Slice(t, k)
           l == Len(t)
           end(i) == IF i * k < l THEN i * k ELSE l
           Good(n) == FlattenSeq(SubSeq(s, 1, n)) = SubSeq(t, 1, end(n))
           B == {n \in 0..Len(s) : ~Good(n)}
<1>1. /\ s \in Seq(Seq(S)) /\ l \in Nat /\ Len(s) \in Nat /\ l <= Len(s) * k
      /\ \A i \in 1..Len(s) : s[i] = SubSeq(t, (i - 1) * k + 1, end(i)) /\ (i - 1) * k \in 0..l - 1
                              /\ i * k \in Nat /\ (i - 1) * k = i * k - k
  <2>1. /\ s \in Seq(Seq(S)) /\ l <= Len(s) * k /\ l \in Nat /\ Len(s) \in Nat
        /\ \A i \in 1..Len(s) : s[i] = SubSeq(t, (i - 1) * k + 1, end(i)) /\ (i - 1) * k \in 0..l - 1
                              /\ i * k \in Nat
    <3> DEFINE n == (Len(t) + k - 1) \div k
    <3>1. /\ s \in Seq(Seq(S)) /\ Len(s) = n /\ n \in Nat /\ l <= n * k
          /\ \A i \in 1..n : /\ s[i] = SubSeq(t, (i - 1) * k + 1, end(i))
                             /\ (i - 1) * k \in 0..l - 1 /\ i * k \in Nat
      BY SliceType
    <3>2. l \in Nat OBVIOUS
    <3> HIDE DEF n, s, l, end
    <3> QED BY <3>1, <3>2
  <2>2. \A i \in 1..Len(s) : (i - 1) * k = i * k - k
    BY <2>1, Multiples
  <2> QED BY <2>1, <2>2
<1> HIDE DEF s, l
<1>2. B = {}
  <2> SUFFICES ASSUME B # {} PROVE FALSE OBVIOUS
  <2>1. PICK n \in B : \A m \in B : n <= m
    <3>1. B \in SUBSET Nat BY <1>1
    <3> HIDE DEF B
    <3> QED BY <3>1, LeastOf
  <2>2. n \in 0..Len(s) /\ ~Good(n) BY <2>1
  <2>3. n # 0
    <3> SUFFICES ASSUME n = 0 PROVE Good(0) BY <2>2
    <3>1. SubSeq(s, 1, 0) = <<>> /\ SubSeq(t, 1, 0) = <<>> BY <1>1
    <3>2. end(0) = 0 BY <1>1
    <3> QED BY <3>1, <3>2, FlattenEmpty
  <2>4. n - 1 \in 0..Len(s) /\ ~(n <= n - 1) /\ n \in 1..Len(s) BY <1>1, <2>2, <2>3
  <2>5. Good(n - 1) BY <2>1, <2>4
  <2> DEFINE u == SubSeq(s, 1, n - 1)  a == (n - 1) * k  b == n * k
  <2>6. u \in Seq(Seq(S)) /\ s[n] \in Seq(S) /\ SubSeq(s, 1, n) = Append(u, s[n])
    <3>1. s \in Seq(Seq(S)) /\ n \in 1..Len(s) BY <1>1, <2>4
    <3> QED BY <3>1
  <2>7. s[n] = SubSeq(t, a + 1, end(n)) /\ a \in 0..l - 1 /\ b \in Nat /\ a = b - k
    BY <1>1, <2>4
  <2>8. end(n - 1) = IF a < l THEN a ELSE l
    OBVIOUS
  <2>9. end(n) = IF b < l THEN b ELSE l
    OBVIOUS
  <2>10. FlattenSeq(u) = SubSeq(t, 1, end(n - 1))
    BY <2>5
  <2> HIDE DEF a, b, end, u, Good
  <2>11. end(n - 1) = a /\ a \in 0..l /\ end(n) \in a..l
    BY <1>1, <2>7, <2>8, <2>9
  <2>12. SubSeq(t, 1, a) \o SubSeq(t, a + 1, end(n)) = SubSeq(t, 1, end(n))
    <3>1. 1 \in 1..Len(t) + 1 /\ a \in 1 - 1..Len(t) /\ end(n) \in a..Len(t) BY <1>1, <2>11 DEF l
    <3> QED BY <3>1, ConcatAdjacentSubSeq
  <2>13. FlattenSeq(Append(u, s[n])) = FlattenSeq(u) \o s[n]
    BY <2>6, FlattenAdd
  <2>14. Good(n)
    BY <2>6, <2>7, <2>10, <2>11, <2>12, <2>13 DEF Good
  <2> QED BY <2>2, <2>14
<1>3. Good(Len(s))
  <2> HIDE DEF Good
  <2>1. Len(s) \in 0..Len(s) BY <1>1
  <2> QED BY <1>2, <2>1
<1>4. SubSeq(s, 1, Len(s)) = s /\ end(Len(s)) = l /\ SubSeq(t, 1, l) = t
  <2>1. Len(s) * k \in Nat BY <1>1
  <2>2. end(Len(s)) = l BY <1>1, <2>1
  <2> QED BY <1>1, <2>2 DEF l
<1> QED BY <1>3, <1>4 DEF s

\* The pieces of every piece of p are p's text again.
LEMMA SlicedText ==
  ASSUME NEW S, NEW p \in Seq(Seq(S)), NEW k \in Nat \ {0}
  PROVE  LET q == FlattenSeq([i \in DOMAIN p |-> Slice(p[i], k)]) IN
         q \in Seq(Seq(S)) /\ FlattenSeq(q) = FlattenSeq(p)
<1> DEFINE g == [i \in DOMAIN p |-> Slice(p[i], k)]
           Good(n) == FlattenSeq(FlattenSeq(SubSeq(g, 1, n))) = FlattenSeq(SubSeq(p, 1, n))
           B == {n \in 0..Len(p) : ~Good(n)}
<1>1. /\ g \in Seq(Seq(Seq(S))) /\ Len(g) = Len(p) /\ Len(p) \in Nat
      /\ \A i \in 1..Len(p) : p[i] \in Seq(S) /\ g[i] \in Seq(Seq(S)) /\ FlattenSeq(g[i]) = p[i]
  <2>1. Len(p) \in Nat /\ DOMAIN p = 1..Len(p) /\ \A i \in 1..Len(p) : p[i] \in Seq(S)
    OBVIOUS
  <2>2. \A i \in 1..Len(p) : Slice(p[i], k) \in Seq(Seq(S))
    BY <2>1, SliceType
  <2>3. \A i \in 1..Len(p) : FlattenSeq(Slice(p[i], k)) = p[i]
    BY <2>1, SliceText
  <2>4. \A i \in 1..Len(p) : g[i] = Slice(p[i], k)
    BY <2>1
  <2>5. g \in Seq(Seq(Seq(S))) /\ Len(g) = Len(p)
    BY <2>1, <2>2
  <2> HIDE DEF g
  <2> QED BY <2>1, <2>2, <2>3, <2>4, <2>5
<1> HIDE DEF g
<1>2. B = {}
  <2> SUFFICES ASSUME B # {} PROVE FALSE OBVIOUS
  <2>1. PICK n \in B : \A m \in B : n <= m
    <3>1. B \in SUBSET Nat BY <1>1
    <3> HIDE DEF B
    <3> QED BY <3>1, LeastOf
  <2>2. n \in 0..Len(p) /\ ~Good(n) BY <2>1
  <2>3. n # 0
    <3> SUFFICES ASSUME n = 0 PROVE Good(0) BY <2>2
    <3>1. SubSeq(g, 1, 0) = <<>> /\ SubSeq(p, 1, 0) = <<>> BY <1>1
    <3> QED BY <3>1, FlattenEmpty
  <2>4. n - 1 \in 0..Len(p) /\ ~(n <= n - 1) /\ n \in 1..Len(p) BY <1>1, <2>2, <2>3
  <2>5. Good(n - 1) BY <2>1, <2>4
  <2> DEFINE u == SubSeq(g, 1, n - 1)  v == SubSeq(p, 1, n - 1)
  <2>6. v \in Seq(Seq(S)) /\ SubSeq(p, 1, n) = Append(v, p[n])
    BY <2>4
  <2>7. u \in Seq(Seq(Seq(S))) /\ SubSeq(g, 1, n) = Append(u, g[n])
    <3>1. g \in Seq(Seq(Seq(S))) /\ n \in 1..Len(g) BY <1>1, <2>4
    <3> QED BY <3>1
  <2>8. p[n] \in Seq(S) /\ g[n] \in Seq(Seq(S)) /\ FlattenSeq(g[n]) = p[n]
    BY <1>1, <2>4
  <2>9. FlattenSeq(FlattenSeq(u)) = FlattenSeq(v)
    BY <2>5
  <2> HIDE DEF u, v, Good
  <2>10. FlattenSeq(Append(u, g[n])) = FlattenSeq(u) \o g[n] /\ FlattenSeq(u) \in Seq(Seq(S))
    BY <2>7, <2>8, FlattenAdd, FlattenType
  <2>11. FlattenSeq(FlattenSeq(u) \o g[n]) = FlattenSeq(FlattenSeq(u)) \o FlattenSeq(g[n])
    BY <2>8, <2>10, FlattenJoin
  <2>12. FlattenSeq(Append(v, p[n])) = FlattenSeq(v) \o p[n]
    BY <2>6, <2>8, FlattenAdd
  <2>13. Good(n)
    BY <2>6, <2>7, <2>8, <2>9, <2>10, <2>11, <2>12 DEF Good
  <2> QED BY <2>2, <2>13
<1>3. Good(Len(p))
  <2> HIDE DEF Good
  <2>1. Len(p) \in 0..Len(p) BY <1>1
  <2> QED BY <1>2, <2>1
<1>4. SubSeq(g, 1, Len(p)) = g /\ SubSeq(p, 1, Len(p)) = p
  BY <1>1
<1>5. FlattenSeq(g) \in Seq(Seq(S))
  BY <1>1, FlattenType
<1> QED BY <1>3, <1>4, <1>5 DEF g

\* Characters are numbers, which matters only to the provider's Texts.
Chars == Int

\* The events the participant received.
EventType == [type : {"text", "mark", "other", "error"}, text : Seq(Chars)]

LEMMA TextAdded ==
  ASSUME NEW s \in Seq(EventType), NEW e \in EventType
  PROVE  TextOf(s) \in Seq(Chars) /\ TextOf(Append(s, e)) = TextOf(s) \o e.text
<1> DEFINE f == [i \in DOMAIN s |-> s[i].text]
           g == [i \in DOMAIN Append(s, e) |-> Append(s, e)[i].text]
<1>1. \A i \in DOMAIN s : s[i].text \in Seq(Chars)
  <2>1. \A i \in DOMAIN s : s[i] \in EventType OBVIOUS
  <2> QED BY <2>1 DEF EventType
<1>2. f \in Seq(Seq(Chars)) /\ Len(f) = Len(s) /\ Len(s) \in Nat
  BY <1>1
<1>3. e.text \in Seq(Chars)
  BY DEF EventType
<1>4. /\ DOMAIN Append(s, e) = 1..Len(s) + 1 /\ Append(s, e)[Len(s) + 1] = e
      /\ \A i \in 1..Len(s) : Append(s, e)[i] = s[i]
  OBVIOUS
<1>5. g = Append(f, e.text)
  <2>1. g = [i \in 1..Len(s) + 1 |-> IF i = Len(s) + 1 THEN e.text ELSE f[i]]
    BY <1>2, <1>4
  <2> HIDE DEF f, g
  <2>2. Append(f, e.text) = [i \in 1..Len(s) + 1 |-> IF i = Len(s) + 1 THEN e.text ELSE f[i]]
    BY <1>2, <1>3
  <2> QED BY <2>1, <2>2
<1>6. FlattenSeq(f) \in Seq(Chars) /\ FlattenSeq(Append(f, e.text)) = FlattenSeq(f) \o e.text
  <2> HIDE DEF f
  <2> QED BY <1>2, <1>3, FlattenType, FlattenAdd
<1> QED BY <1>5, <1>6 DEF TextOf

LEMMA TextOfNone == TextOf(<<>>) = <<>>
<1>1. [i \in DOMAIN <<>> |-> <<>>[i].text] = <<>>
  OBVIOUS
<1> QED BY <1>1, FlattenEmpty DEF TextOf

LEMMA MarkAdded ==
  ASSUME NEW S, NEW s \in Seq(S), NEW e
  PROVE  MarksOf(s) \in Nat /\ MarksOf(Append(s, e)) = MarksOf(s) + (IF e.type = "mark" THEN 1 ELSE 0)
<1> DEFINE M == {i \in DOMAIN s : s[i].type = "mark"}
           N == {i \in DOMAIN Append(s, e) : Append(s, e)[i].type = "mark"}
<1>1. /\ DOMAIN Append(s, e) = 1..Len(s) + 1 /\ Append(s, e)[Len(s) + 1] = e
      /\ \A i \in 1..Len(s) : Append(s, e)[i] = s[i]
      /\ DOMAIN s = 1..Len(s) /\ Len(s) \in Nat
  OBVIOUS
<1>2. IsFiniteSet(M) /\ Len(s) + 1 \notin M
  <2>1. IsFiniteSet(1..Len(s)) BY <1>1, FS_Interval
  <2>2. M \subseteq 1..Len(s) BY <1>1
  <2> QED BY <1>1, <2>1, <2>2, FS_Subset
<1>3. Cardinality(M) \in Nat
  BY <1>2, FS_CardinalityType
<1>4. MarksOf(s) = Cardinality(M) /\ MarksOf(Append(s, e)) = Cardinality(N)
  BY DEF MarksOf
<1>5. CASE e.type = "mark"
  <2>1. N = M \union {Len(s) + 1} BY <1>1, <1>5
  <2> HIDE DEF M, N
  <2>2. Cardinality(N) = Cardinality(M) + 1 BY <1>2, <2>1, FS_AddElement
  <2> QED BY <1>3, <1>5, <1>4, <2>2
<1>6. CASE e.type # "mark"
  <2>1. N = M BY <1>1, <1>6
  <2> HIDE DEF M, N
  <2>2. Cardinality(N) = Cardinality(M) BY <2>1
  <2> QED BY <1>3, <1>6, <1>4, <2>2
<1> QED BY <1>3, <1>5, <1>6, <1>4

LEMMA NoMarksYet == MarksOf(<<>>) = 0
<1>1. {i \in DOMAIN <<>> : <<>>[i].type = "mark"} = {}
  OBVIOUS
<1> QED BY <1>1, FS_EmptySet DEF MarksOf

\* s continues as t.
LEMMA PrefixIs ==
  ASSUME NEW S, NEW s \in Seq(S), NEW t \in Seq(S)
  PROVE  IsPrefix(s, t) <=> \E r \in Seq(S) : s \o r = t
<1>1. ASSUME IsPrefix(s, t) PROVE \E r \in Seq(S) : s \o r = t
  <2>1. Len(s) \in 0..Len(t) /\ Len(t) \in Nat /\ s = SubSeq(t, 1, Len(s))
    BY <1>1 DEF IsPrefix
  <2>2. SubSeq(t, Len(s) + 1, Len(t)) \in Seq(S)
    BY <2>1
  <2>3. SubSeq(t, 1, Len(s)) \o SubSeq(t, Len(s) + 1, Len(t)) = SubSeq(t, 1, Len(t))
    <3>1. 1 \in 1..Len(t) + 1 /\ Len(s) \in 1 - 1..Len(t) /\ Len(t) \in Len(s)..Len(t) BY <2>1
    <3> QED BY <3>1, ConcatAdjacentSubSeq
  <2>4. SubSeq(t, 1, Len(t)) = t
    OBVIOUS
  <2> QED BY <2>1, <2>2, <2>3, <2>4
<1>2. ASSUME NEW r \in Seq(S), s \o r = t PROVE IsPrefix(s, t)
  <2>1. Len(s) <= Len(t) /\ \A i \in 1..Len(s) : s[i] = t[i]
    BY <1>2
  <2>2. SubSeq(s, 1, Len(s)) = SubSeq(t, 1, Len(s))
    BY <2>1
  <2> QED BY <2>1, <2>2 DEF IsPrefix
<1> QED BY <1>1, <1>2

\* What is shown of a text up to a place that was reached is in what was reached.
LEMMA ShownPrefix ==
  ASSUME NEW S, NEW a \in Seq(S), NEW b \in Seq(S), NEW t \in Seq(S), NEW n \in Nat,
         IsPrefix(a, t), IsPrefix(b, t), n <= Len(a), n <= Len(b)
  PROVE  IsPrefix(SubSeq(a, 1, n), b)
<1>1. /\ Len(a) <= Len(t) /\ SubSeq(a, 1, Len(a)) = SubSeq(t, 1, Len(a))
      /\ Len(b) <= Len(t) /\ SubSeq(b, 1, Len(b)) = SubSeq(t, 1, Len(b))
  BY DEF IsPrefix
<1>2. \A i \in 1..n : a[i] = t[i] /\ b[i] = t[i]
  <2>1. a = SubSeq(t, 1, Len(a)) /\ b = SubSeq(t, 1, Len(b)) BY <1>1
  <2> QED BY <1>1, <2>1
<1>3. SubSeq(a, 1, n) \in Seq(S) /\ Len(SubSeq(a, 1, n)) = n /\ \A i \in 1..n : SubSeq(a, 1, n)[i] = a[i]
  OBVIOUS
<1>4. SubSeq(SubSeq(a, 1, n), 1, n) = SubSeq(b, 1, n)
  BY <1>2, <1>3
<1> QED BY <1>3, <1>4 DEF IsPrefix

-----------------------------------------------------------------------------
(* Terminal events.  Nothing is assumed about the text.                      *)

Over == {"done", "ended"}
Stages == {"read", "drain", "flush", "halve", "first", "store", "emit", "reveal", "shown",
           "marks", "complete"} \union Over

NoMark == \A i \in DOMAIN out : out[i].type # "mark"

\* A buffering mode has sent no terminal event before it sends them all, none
\* is lost meanwhile, and the other modes hold none back.
MarksInv ==
  /\ timing \in Timings /\ whole \in BOOLEAN /\ pc \in Stages
  /\ marks \in 0..2 + MaxMarks /\ held \in Nat
  /\ \E S : out \in Seq(S)
  /\ held + MarksOf(out) = marks
  /\ whole /\ pc = "read" => marks = 0
  /\ pc \in {"drain", "emit"} => ~whole
  /\ ~Holding => held = 0
  /\ pc = "complete" => held = 0
  /\ Holding /\ pc \notin {"marks", "complete"} \union Over => NoMark
  /\ MarksLast

LEMMA MarksInitially == Init => MarksInv
<1> SUFFICES ASSUME Init PROVE MarksInv OBVIOUS
<1>1. /\ timing \in Timings /\ whole \in BOOLEAN /\ pc = "read" /\ marks = 0 /\ held = 0 /\ out = <<>>
  BY DEF Init
<1>2. \E S : out \in Seq(S)
  <2>1. out \in Seq(Int) BY <1>1
  <2> QED BY <2>1
<1>3. MarksOf(out) = 0
  BY <1>1, NoMarksYet
<1>4. 0 \in 0..2 + MaxMarks
  BY DeliveryAssumption
<1> QED BY <1>1, <1>2, <1>3, <1>4 DEF MarksInv, NoMark, MarksLast, Stages, Over

\* An event that is not a terminal one, or none.
LEMMA MarksKept ==
  ASSUME MarksInv, UNCHANGED <<timing, whole, marks, held>>, pc' \in Stages,
         out' = out \/ \E e : e.type # "mark" /\ out' = Append(out, e) /\ pc \notin {"marks", "complete"} \union Over,
         pc' # "complete" \/ held = 0,
         pc \in {"marks", "complete"} \union Over => pc' \in {"marks", "complete"} \union Over,
         pc' \in {"read", "drain", "emit"} => pc' = pc \/ ~whole
  PROVE  MarksInv'
<1>1. (Holding)' = Holding
  BY DEF Holding
<1>2. CASE out' = out
  <2>1. NoMark' = NoMark /\ MarksLast' = MarksLast /\ MarksOf(out)' = MarksOf(out)
    BY <1>1, <1>2 DEF NoMark, MarksLast, MarksOf
  <2> QED BY <1>1, <1>2, <2>1 DEF MarksInv
<1>3. CASE \E e : e.type # "mark" /\ out' = Append(out, e) /\ pc \notin {"marks", "complete"} \union Over
  <2>1. PICK e : e.type # "mark" /\ out' = Append(out, e)
    BY <1>3
  <2>2. PICK S : out \in Seq(S)
    BY DEF MarksInv
  <2>3. MarksOf(out') = MarksOf(out)
    BY <2>1, <2>2, MarkAdded
  <2>4. /\ out' \in Seq(S \union {e})
        /\ DOMAIN out' = 1..Len(out) + 1 /\ DOMAIN out = 1..Len(out) /\ out'[Len(out) + 1] = e
        /\ \A i \in DOMAIN out : out'[i] = out[i]
    BY <2>1, <2>2
  <2>5. Holding => NoMark'
    <3>1. Holding => NoMark BY <1>3 DEF MarksInv
    <3> SUFFICES ASSUME Holding, NEW i \in DOMAIN out' PROVE out'[i].type # "mark"
      BY DEF NoMark
    <3>2. CASE i \in DOMAIN out BY <2>4, <3>1, <3>2 DEF NoMark
    <3>3. CASE i = Len(out) + 1 BY <2>1, <2>4, <3>3
    <3> QED BY <2>2, <2>4, <3>2, <3>3
  <2>6. MarksLast'
    BY <1>1, <2>5 DEF MarksLast, NoMark
  <2>7. \E R : out' \in Seq(R)
    BY <2>4
  <2>8. Holding' => NoMark'
    BY <1>1, <2>5
  <2> QED BY <1>1, <2>3, <2>6, <2>7, <2>8 DEF MarksInv
<1> QED BY <1>2, <1>3

\* Where the generator goes on without a terminal event.
Onward ==
  /\ UNCHANGED <<timing, whole, marks, held>>
  /\ pc' \in Stages /\ (pc' \in {"read", "drain", "emit"} => pc' = pc \/ ~whole)
  /\ pc' # "complete" \/ held = 0
  /\ pc \in {"marks", "complete"} \union Over => pc' \in {"marks", "complete"} \union Over
  /\ \/ out' = out
     \/ \E e : e.type # "mark" /\ out' = Append(out, e) /\ pc \notin {"marks", "complete"} \union Over

LEMMA GeneratorOnward ==
  ASSUME MarksInv, Drain \/ Halve \/ Emit \/ First \/ Store \/ Reveal \/ Shown \/ Revealed
                   \/ CompleteRow \/ Finish
  PROVE  Onward
<1>1. (pc \in {"drain", "emit"} => ~whole) /\ pc \in Stages
  BY DEF MarksInv
<1>2. CASE Drain
  BY <1>1, <1>2 DEF Drain, fixed, reading, Onward, Stages, Over
<1>3. CASE Halve
  BY <1>1, <1>3 DEF Halve, fixed, reading, Onward, Stages, Over
<1>4. CASE Emit
  <2>1. Text(Head(pieces)).type # "mark" BY DEF Text
  <2> QED BY <1>1, <1>4, <2>1 DEF Emit, fixed, reading, Onward, Stages, Over
<1>5. CASE First
  <2>1. Text(Head(pieces)).type # "mark" BY DEF Text
  <2> QED BY <1>1, <1>5, <2>1 DEF First, fixed, reading, Onward, Stages, Over
<1>6. CASE Store
  BY <1>6 DEF Store, fixed, reading, Onward, Stages, Over
<1>7. CASE Reveal
  <2>1. Text(Head(pieces)).type # "mark" BY DEF Text
  <2> QED BY <1>7, <2>1 DEF Reveal, fixed, reading, Onward, Stages, Over
<1>8. CASE Shown
  BY <1>8 DEF Shown, fixed, reading, Onward, Stages, Over
<1>9. CASE Revealed
  BY <1>9 DEF Revealed, fixed, reading, Onward, Stages, Over
<1>10. CASE CompleteRow \/ Finish
  BY <1>10 DEF CompleteRow, Finish, fixed, reading, Onward, Stages, Over
<1> QED BY <1>2, <1>3, <1>4, <1>5, <1>6, <1>7, <1>8, <1>9, <1>10

LEMMA ProviderOnward ==
  ASSUME MarksInv,
         (\E t : ProviderText(t)) \/ ProviderOther \/ ProviderEnds \/ ProviderError \/ Cancel \/ Fail
  PROVE  Onward
<1>1. CASE \E t : ProviderText(t)
  BY <1>1 DEF ProviderText, fixed, Onward, Stages, Over
<1>2. CASE ProviderOther
  <2>1. Other.type # "mark" BY DEF Other
  <2> QED BY <1>2, <2>1 DEF ProviderOther, fixed, reading, Onward, Stages, Over
<1>3. CASE ProviderEnds
  <2>1. pc' = "complete" => held = 0
    BY <1>3 DEF ProviderEnds, MarksInv, Holding
  <2> QED BY <1>3, <2>1 DEF ProviderEnds, fixed, reading, Onward, Stages, Over
<1>4. CASE ProviderError
  <2>1. Failure.type # "mark" BY DEF Failure
  <2> QED BY <1>4, <2>1 DEF ProviderError, fixed, reading, Onward, Stages, Over
<1>5. CASE Cancel \/ Fail
  BY <1>5 DEF Cancel, Fail, fixed, reading, Onward, Stages, Over
<1> QED BY <1>1, <1>2, <1>3, <1>4, <1>5

\* A terminal event of the provider.
LEMMA MarkArrived ==
  ASSUME MarksInv, ProviderMark
  PROVE  MarksInv'
<1>1. /\ pc = "read" /\ ~whole /\ marks < MaxMarks /\ marks' = marks + 1
      /\ UNCHANGED <<timing, whole, pc>>
      /\ \/ Holding /\ held' = held + 1 /\ out' = out
         \/ ~Holding /\ out' = Append(out, Mark) /\ held' = held
  BY DEF ProviderMark, fixed
<1>2. Holding' = Holding
  BY <1>1 DEF Holding
<1>3. PICK S : out \in Seq(S)
  BY DEF MarksInv
<1>4. MarksOf(out) \in Nat /\ MarksOf(Append(out, Mark)) = MarksOf(out) + 1
  <2>1. Mark.type = "mark" BY DEF Mark
  <2> QED BY <1>3, <2>1, MarkAdded
<1>5. MaxMarks \in Nat /\ marks \in Nat /\ held \in Nat /\ held + MarksOf(out) = marks
  BY DeliveryAssumption DEF MarksInv
<1>6. marks' \in 0..2 + MaxMarks
  BY <1>1, <1>5
<1>7. CASE Holding
  <2>1. held' = held + 1 /\ out' = out
    BY <1>1, <1>7
  <2>2. held' + MarksOf(out') = marks'
    BY <1>1, <1>4, <1>5, <2>1
  <2>3. NoMark' /\ MarksLast'
    BY <1>1, <1>2, <1>7, <2>1 DEF MarksInv, NoMark, MarksLast, Over
  <2> QED BY <1>1, <1>2, <1>5, <1>6, <1>7, <2>1, <2>2, <2>3 DEF MarksInv
<1>8. CASE ~Holding
  <2>1. held' = held /\ out' = Append(out, Mark)
    BY <1>1, <1>8
  <2>2. held' + MarksOf(out') = marks'
    BY <1>1, <1>4, <1>5, <2>1
  <2>3. \E R : out' \in Seq(R)
    <3>1. out' \in Seq(S \union {Mark}) BY <1>3, <2>1
    <3> QED BY <3>1
  <2>4. MarksLast'
    BY <1>2, <1>8 DEF MarksLast
  <2> QED BY <1>1, <1>2, <1>5, <1>6, <1>8, <2>1, <2>2, <2>3, <2>4 DEF MarksInv
<1> QED BY <1>7, <1>8

\* A JSON body brings two of its own.
LEMMA BodyMarks ==
  ASSUME MarksInv, NEW t, ProviderAnswers(t)
  PROVE  MarksInv'
<1>1. /\ pc = "read" /\ whole /\ marks' = 2 /\ held' = 2 /\ pc' = "flush"
      /\ UNCHANGED <<timing, whole, out>>
  BY DEF ProviderAnswers, fixed
<1>2. Holding' = Holding /\ Holding
  BY <1>1 DEF Holding
<1>3. MarksOf(out) = 0
  <2>1. PICK S : out \in Seq(S) BY DEF MarksInv
  <2>2. MarksOf(out) \in Nat BY <2>1, MarkAdded
  <2> QED BY <1>1, <2>2 DEF MarksInv
<1>4. 2 \in 0..2 + MaxMarks
  BY DeliveryAssumption
<1>5. NoMark' /\ MarksLast'
  BY <1>1, <1>2 DEF MarksInv, NoMark, MarksLast, Over
<1>6. MarksOf(out') = 0
  BY <1>1, <1>3
<1> QED BY <1>1, <1>2, <1>4, <1>5, <1>6 DEF MarksInv, Stages

\* The terminal events that were held.
LEMMA MarksSent ==
  ASSUME MarksInv, Marks
  PROVE  MarksInv'
<1>1. /\ pc = "marks" /\ UNCHANGED <<timing, whole, marks>>
      /\ \/ held > 0 /\ out' = Append(out, Mark) /\ held' = held - 1 /\ pc' = pc
         \/ ~(held > 0) /\ pc' = "complete" /\ UNCHANGED <<out, held>>
  BY DEF Marks, fixed, reading
<1>2. Holding' = Holding
  BY <1>1 DEF Holding
<1>3. PICK S : out \in Seq(S)
  BY DEF MarksInv
<1>4. MarksOf(out) \in Nat /\ MarksOf(Append(out, Mark)) = MarksOf(out) + 1
  <2>1. Mark.type = "mark" BY DEF Mark
  <2> QED BY <1>3, <2>1, MarkAdded
<1>5. held \in Nat /\ held + MarksOf(out) = marks
  BY DEF MarksInv
<1>6. CASE held > 0
  <2>1. out' = Append(out, Mark) /\ held' = held - 1 /\ pc' = "marks" BY <1>1, <1>6
  <2>2. held' \in Nat /\ held' + MarksOf(out') = marks
    BY <1>4, <1>5, <1>6, <2>1
  <2>3. /\ out' \in Seq(S \union {Mark}) /\ DOMAIN out' = 1..Len(out) + 1 /\ DOMAIN out = 1..Len(out)
        /\ out'[Len(out) + 1] = Mark /\ (\A i \in DOMAIN out : out'[i] = out[i]) /\ Len(out) \in Nat
    BY <1>3, <2>1
  <2>4. MarksLast'
    <3> SUFFICES ASSUME Holding, NEW i \in DOMAIN out', NEW j \in DOMAIN out',
                        out'[i].type = "mark", out'[j].type = "text"
                 PROVE  j < i
      BY <1>2 DEF MarksLast
    <3>1. j \in DOMAIN out
      BY <2>3 DEF Mark
    <3>2. CASE i = Len(out) + 1 BY <2>3, <3>1, <3>2
    <3>3. CASE i \in DOMAIN out BY <2>3, <3>1, <3>3 DEF MarksInv, MarksLast
    <3> QED BY <2>3, <3>2, <3>3
  <2>5. \E R : out' \in Seq(R) BY <2>3
  <2> QED BY <1>1, <1>2, <2>1, <2>2, <2>4, <2>5 DEF MarksInv
<1>7. CASE ~(held > 0)
  <2>1. held = 0 /\ pc' = "complete" /\ UNCHANGED <<out, held>> BY <1>1, <1>5, <1>7
  <2>2. MarksLast' /\ MarksOf(out') = MarksOf(out)
    BY <1>2, <2>1 DEF MarksInv, MarksLast
  <2> QED BY <1>1, <1>2, <2>1, <2>2 DEF MarksInv, Stages
<1> QED BY <1>6, <1>7

LEMMA MarksStep ==
  ASSUME MarksInv, [Next]_vars
  PROVE  MarksInv'
<1>1. CASE Onward
  BY <1>1, MarksKept DEF Onward
<1>2. CASE UNCHANGED vars
  BY <1>2 DEF vars, MarksInv, MarksLast, NoMark, Holding, MarksOf
<1>3. CASE Provider
  BY <1>1, <1>3, ProviderOnward, MarkArrived, BodyMarks DEF Provider
<1>4. CASE Generator
  BY <1>1, <1>4, GeneratorOnward, MarksSent DEF Generator
<1>5. CASE Cancel \/ Fail
  BY <1>1, <1>5, ProviderOnward
<1> QED BY <1>2, <1>3, <1>4, <1>5 DEF Next

LEMMA MarksInvariance == Spec => []MarksInv
<1>1. MarksInv /\ [Next]_vars => MarksInv'
  BY MarksStep
<1> QED BY <1>1, MarksInitially, PTL DEF Spec

-----------------------------------------------------------------------------
(* The text.  Words are cut differently: whitespace before them is dropped.  *)

NoWords == \A t \in Timings : t.mode \in {"SLOW", "FAST"} => t.unit # "WORD"

Row == [status : {"PENDING", "COMPLETED", "FAILED", "CANCELLED"}, content : Seq(Chars), cursor : Nat]

Typed ==
  /\ timing \in Timings /\ whole \in BOOLEAN /\ pc \in Stages
  /\ received \in Seq(Chars) /\ pending \in Seq(Seq(Chars)) /\ pieces \in Seq(Seq(Chars))
  /\ out \in Seq(EventType)
  /\ size \in timing.min..timing.max /\ cursor \in Nat /\ saved \in Nat /\ row \in Row

\* Which buffers a stage of the generator uses, and in which mode it is reached.
Buffers ==
  /\ pc \in {"first", "emit", "shown"} => pieces # <<>>
  /\ pc \in {"marks", "complete"} => pieces = <<>>
  /\ pc \in {"halve", "first", "store", "reveal", "shown", "marks", "complete"} => PendingText = <<>>
  /\ timing.mode # "SLOW" /\ ~whole => pending = <<>>
  /\ timing.mode \in {"NORMAL", "FAST"} /\ ~whole /\ pc # "emit" => pc \in Over \/ pieces = <<>>
  /\ pc = "emit" => timing.mode \in {"NORMAL", "FAST"} /\ ~whole
  /\ whole /\ pc \in {"read", "flush", "halve"} => TextOf(out) = <<>>
  /\ whole /\ pc = "read" => received = <<>> /\ pieces = <<>> /\ pending = <<>>

\* What is still to be shown: a piece that was sent stays until it is acknowledged.
Left == IF pc = "shown" THEN Tail(pieces) ELSE pieces

\* What was shown, what is cut up and what waits in the chunker is what was received.
Conserved ==
  IF pc \in Over THEN IsPrefix(TextOf(out), received)
  ELSE TextOf(out) \o (FlattenSeq(Left) \o PendingText) = received

Cursors ==
  /\ cursor <= Len(TextOf(out)) /\ row.cursor <= Len(TextOf(out))
  /\ pc = "shown" => cursor + Len(Head(pieces)) <= Len(TextOf(out))
  /\ row.content = Nothing \/ IsPrefix(row.content, received)

WholeShown == row.status = "COMPLETED" => TextOf(out) = received /\ MarksOf(out) = marks

Outcome == WholeShown /\ (pc \notin Over => row.status = "PENDING")

TextInv == Typed /\ Buffers /\ Conserved /\ Cursors /\ Outcome

IInv == MarksInv /\ TextInv

LEMMA TextTypes ==
  ASSUME Typed
  PROVE  /\ TextOf(out) \in Seq(Chars) /\ PendingText \in Seq(Chars) /\ FlattenSeq(pieces) \in Seq(Chars)
         /\ pieces # <<>> => /\ Head(pieces) \in Seq(Chars) /\ Tail(pieces) \in Seq(Seq(Chars))
                             /\ FlattenSeq(Tail(pieces)) \in Seq(Chars)
                             /\ FlattenSeq(pieces) = Head(pieces) \o FlattenSeq(Tail(pieces))
                             /\ Text(Head(pieces)) \in EventType
         /\ timing \in TimingType /\ timing.max \in Nat \ {0} /\ size \in Nat \ {0}
<1>1. pending \in Seq(Seq(Chars)) /\ pieces \in Seq(Seq(Chars)) /\ out \in Seq(EventType)
  BY DEF Typed
<1>2. TextOf(out) \in Seq(Chars)
  <2>1. Other \in EventType BY DEF EventType, Other
  <2> QED BY <1>1, <2>1, TextAdded
<1>3. PendingText \in Seq(Chars) /\ FlattenSeq(pieces) \in Seq(Chars)
  BY <1>1, FlattenType DEF PendingText
<1>4. ASSUME pieces # <<>>
      PROVE  /\ Head(pieces) \in Seq(Chars) /\ Tail(pieces) \in Seq(Seq(Chars))
             /\ FlattenSeq(Tail(pieces)) \in Seq(Chars)
             /\ FlattenSeq(pieces) = Head(pieces) \o FlattenSeq(Tail(pieces))
             /\ Text(Head(pieces)) \in EventType
  <2>1. Head(pieces) \in Seq(Chars) /\ Tail(pieces) \in Seq(Seq(Chars))
    BY <1>1, <1>4
  <2>2. FlattenSeq(Tail(pieces)) \in Seq(Chars)
    BY <2>1, FlattenType
  <2>3. FlattenSeq(pieces) = Head(pieces) \o FlattenSeq(Tail(pieces))
    BY <1>1, <1>4, FlattenHead
  <2>4. Text(Head(pieces)) \in EventType
    BY <2>1 DEF Text, EventType
  <2> QED BY <2>1, <2>2, <2>3, <2>4
<1>5. timing \in TimingType /\ timing.max \in Nat \ {0} /\ timing.min \in Nat \ {0}
  <2>1. timing \in TimingType BY DeliveryAssumption DEF Typed
  <2> QED BY <2>1 DEF TimingType
<1>6. size \in Nat \ {0}
  BY <1>5 DEF Typed
<1> QED BY <1>2, <1>3, <1>4, <1>5, <1>6

\* Events that have no text.
LEMMA Textless ==
  ASSUME Typed, NEW e \in EventType, e.text = <<>>
  PROVE  TextOf(Append(out, e)) = TextOf(out) /\ Append(out, e) \in Seq(EventType)
<1>1. TextOf(out) \in Seq(Chars) /\ TextOf(Append(out, e)) = TextOf(out) \o <<>>
  BY TextAdded DEF Typed
<1>2. TextOf(out) \o <<>> = TextOf(out)
  BY <1>1
<1> QED BY <1>1, <1>2 DEF Typed

LEMMA Markings ==
  Mark \in EventType /\ Mark.text = <<>> /\ Other \in EventType /\ Other.text = <<>>
  /\ Failure \in EventType /\ Failure.text = <<>>
BY DEF Mark, Other, Failure, EventType

\* What the participant sees stays as it is and the rest is only cut up anew.
LEMMA TextKept ==
  ASSUME TextInv, pc \notin Over, pc' \notin Over, UNCHANGED <<timing, whole, received>>,
         TextOf(out') = TextOf(out), Typed', Buffers',
         FlattenSeq(Left') \o PendingText' = FlattenSeq(Left) \o PendingText,
         row'.status = row.status, cursor' <= Len(TextOf(out)), row'.cursor <= Len(TextOf(out)),
         pc' = "shown" => cursor' + Len(Head(pieces')) <= Len(TextOf(out)),
         row'.content = row.content \/ row'.content = received
  PROVE  TextInv'
<1>1. Conserved'
  BY DEF TextInv, Conserved
<1>2. IsPrefix(received, received)
  <2>1. received \in Seq(Chars) BY DEF TextInv, Typed
  <2> QED BY <2>1 DEF IsPrefix
<1>3. Cursors'
  BY <1>2 DEF TextInv, Cursors
<1>4. Outcome'
  BY DEF TextInv, Outcome, WholeShown
<1> QED BY <1>1, <1>3, <1>4 DEF TextInv

\* What was shown is a beginning of what was received.
LEMMA TextPrefix ==
  ASSUME TextInv
  PROVE  IsPrefix(TextOf(out), received)
<1>1. TextOf(out) \in Seq(Chars) /\ PendingText \in Seq(Chars) /\ received \in Seq(Chars)
  BY TextTypes DEF TextInv, Typed
<1>2. CASE pc \in Over
  BY <1>2 DEF TextInv, Conserved
<1>3. CASE pc \notin Over
  <2>1. Left \in Seq(Seq(Chars))
    BY TextTypes DEF TextInv, Typed, Left, Buffers
  <2>2. FlattenSeq(Left) \in Seq(Chars)
    BY <2>1, FlattenType
  <2>3. FlattenSeq(Left) \o PendingText \in Seq(Chars)
    BY <1>1, <2>2, Regroup
  <2>4. TextOf(out) \o (FlattenSeq(Left) \o PendingText) = received
    BY <1>3 DEF TextInv, Conserved
  <2> QED BY <1>1, <2>3, <2>4, PrefixIs
<1> QED BY <1>2, <1>3

\* Nothing more is shown.
LEMMA TextEnds ==
  ASSUME TextInv, pc' \in Over, UNCHANGED <<timing, whole, received, pending, size, pieces, cursor, saved>>,
         TextOf(out') = TextOf(out), MarksOf(out') = MarksOf(out), marks' = marks,
         out' \in Seq(EventType), row' \in Row, row'.cursor = row.cursor,
         row'.content = row.content \/ row'.content = Nothing,
         row'.status = "COMPLETED" => TextOf(out) = received /\ MarksOf(out) = marks
  PROVE  TextInv'
<1>1. Typed'
  BY DEF TextInv, Typed, Stages
<1>2. Buffers'
  BY DEF TextInv, Buffers, Over, PendingText
<1>3. IsPrefix(TextOf(out), received)
  BY TextPrefix
<1>4. Conserved'
  BY <1>3 DEF Conserved
<1>5. Cursors'
  BY DEF TextInv, Cursors, Over
<1>6. Outcome'
  BY DEF Outcome, WholeShown
<1> QED BY <1>1, <1>2, <1>4, <1>5, <1>6 DEF TextInv

\* The next piece goes out, and stays in `pieces' until it is acknowledged.
PieceSent ==
  /\ pc \notin Over \union {"shown"} /\ pc' \notin Over /\ pieces # <<>>
  /\ out' = Append(out, Text(Head(pieces)))
  /\ UNCHANGED <<timing, whole, received, pending, row>>
  /\ Typed' /\ Buffers' /\ Left' = Tail(pieces)
  /\ cursor' <= cursor \/ cursor' <= Len(Head(pieces))
  /\ pc' = "shown" => pieces' = pieces /\ cursor' = cursor

LEMMA PieceOut ==
  ASSUME TextInv, PieceSent
  PROVE  TextInv'
<1> DEFINE a == TextOf(out)  h == Head(pieces)  r == FlattenSeq(Tail(pieces))  p == PendingText
<1>1. /\ a \in Seq(Chars) /\ p \in Seq(Chars) /\ h \in Seq(Chars) /\ r \in Seq(Chars)
      /\ FlattenSeq(pieces) = h \o r /\ Text(h) \in EventType
  BY TextTypes DEF TextInv, PieceSent
<1>2. TextOf(out') = a \o h
  <2>1. Text(h).text = h BY DEF Text
  <2> QED BY <1>1, <2>1, TextAdded DEF TextInv, Typed, PieceSent
<1>3. Left = pieces /\ PendingText' = p
  BY DEF Left, PendingText, PieceSent
<1>4. a \o ((h \o r) \o p) = received
  <2>1. a \o (FlattenSeq(Left) \o p) = received BY DEF TextInv, Conserved, PieceSent
  <2> QED BY <1>1, <1>3, <2>1
<1>5. cursor \in Nat /\ cursor <= Len(a) /\ row.cursor \in Nat /\ row.cursor <= Len(a)
  BY DEF TextInv, Typed, Cursors, Row
<1>6. FlattenSeq(Left') = r
  BY DEF PieceSent
<1> HIDE DEF a, h, r, p
<1>7. (a \o h) \o (r \o p) = a \o ((h \o r) \o p)
  <2>1. a \in Seq(Chars) /\ h \in Seq(Chars) /\ r \in Seq(Chars) /\ p \in Seq(Chars)
    BY <1>1
  <2> DEFINE e == r \o p
  <2>2. e \in Seq(Chars)
    BY <2>1
  <2>3. (h \o r) \o p = h \o e
    BY <2>1, Regroup
  <2> HIDE DEF e
  <2>4. (a \o h) \o e = a \o (h \o e)
    BY <2>1, <2>2
  <2> QED BY <2>3, <2>4 DEF e
<1>8. Len(a \o h) = Len(a) + Len(h) /\ Len(h) \in Nat /\ Len(a) \in Nat
  BY <1>1
<1>9. Conserved'
  BY <1>2, <1>3, <1>4, <1>6, <1>7 DEF Conserved, PieceSent
<1>10. cursor' <= Len(a \o h) /\ row.cursor <= Len(a \o h) /\ cursor + Len(h) <= Len(a \o h)
  <2>1. cursor' \in Nat BY DEF Typed, PieceSent
  <2> QED BY <1>5, <1>8, <2>1 DEF h, PieceSent
<1>11. pc' = "shown" => cursor' + Len(Head(pieces')) <= Len(a \o h)
  BY <1>10 DEF h, PieceSent
<1>12. Cursors'
  BY <1>2, <1>10, <1>11 DEF TextInv, Cursors, PieceSent
<1>13. Outcome'
  BY DEF TextInv, Outcome, WholeShown, PieceSent, Over
<1> QED BY <1>9, <1>12, <1>13 DEF TextInv, PieceSent

\* What the chunker takes and what it keeps are what waited in it.
LEMMA Taken ==
  ASSUME Typed, ~ByWord, Available > 0
  PROVE  /\ Content \in Seq(Chars) /\ Remaining \in Seq(Seq(Chars))
         /\ Content \o FlattenSeq(Remaining) = PendingText
<1> DEFINE k == Minimum(size, Available)
<1>1. PendingText \in Seq(Chars) /\ size \in Nat \ {0} /\ pending \in Seq(Seq(Chars))
  BY TextTypes DEF Typed
<1>2. CASE ByEvent
  <2>1. Available = Len(pending)
    BY <1>2 DEF Available
  <2>2. k \in 1..Len(pending) /\ Len(pending) \in Nat
    BY <1>1, <2>1 DEF Minimum
  <2> HIDE DEF k
  <2> DEFINE s == SubSeq(pending, 1, k)  t == SubSeq(pending, k + 1, Len(pending))
  <2>3. s \in Seq(Seq(Chars)) /\ t \in Seq(Seq(Chars))
    BY <1>1, <2>2
  <2>4. s \o t = pending
    <3>1. 1 \in 1..Len(pending) + 1 /\ k \in 1 - 1..Len(pending) /\ Len(pending) \in k..Len(pending)
      BY <2>2
    <3>2. s \o t = SubSeq(pending, 1, Len(pending))
      BY <1>1, <3>1, ConcatAdjacentSubSeq
    <3>3. SubSeq(pending, 1, Len(pending)) = pending
      BY <1>1, SubSeqFull
    <3> QED BY <3>2, <3>3
  <2> HIDE DEF s, t
  <2>5. FlattenSeq(s) \in Seq(Chars) /\ FlattenSeq(s) \o FlattenSeq(t) = FlattenSeq(pending)
    BY <2>3, <2>4, FlattenType, FlattenJoin
  <2>6. Content = FlattenSeq(s) /\ Remaining = t
    BY <1>2 DEF Content, Remaining, s, t, k
  <2> QED BY <2>3, <2>5, <2>6 DEF PendingText
<1>3. CASE ~ByEvent
  <2> DEFINE p == PendingText
  <2>1. Available = Len(p)
    BY <1>3 DEF Available
  <2>2. k \in 1..Len(p) /\ Len(p) \in Nat
    BY <1>1, <2>1 DEF Minimum
  <2>3. Content = SubSeq(p, 1, k)
    BY <1>3 DEF Content
  <2> HIDE DEF k, p
  <2>4. p \in Seq(Chars) BY <1>1 DEF p
  <2>5. Content \in Seq(Chars) /\ Len(Content) = k
    BY <2>2, <2>3, <2>4
  <2> DEFINE r == SubSeq(p, k + 1, Len(p))
  <2>6. r \in Seq(Chars)
    BY <2>2, <2>4
  <2>7. Remaining = <<r>>
    BY <1>3, <2>5 DEF Remaining, p
  <2>8. SubSeq(p, 1, k) \o r = p
    <3>1. 1 \in 1..Len(p) + 1 /\ k \in 1 - 1..Len(p) /\ Len(p) \in k..Len(p)
      BY <2>2
    <3>2. SubSeq(p, 1, k) \o r = SubSeq(p, 1, Len(p))
      BY <2>4, <3>1, ConcatAdjacentSubSeq
    <3>3. SubSeq(p, 1, Len(p)) = p
      BY <2>4, SubSeqFull
    <3> QED BY <3>2, <3>3
  <2> HIDE DEF r
  <2>9. FlattenSeq(<<r>>) = r
    BY <2>6, FlattenOne
  <2>10. Remaining \in Seq(Seq(Chars)) /\ FlattenSeq(Remaining) = r
    BY <2>6, <2>7, <2>9
  <2> QED BY <2>3, <2>5, <2>8, <2>10 DEF p
<1> QED BY <1>2, <1>3

LEMMA NeverByWord ==
  ASSUME NoWords, Typed
  PROVE  ~ByWord /\ (timing.mode = "FAST" => timing.unit # "WORD")
BY DEF NoWords, Typed, ByWord

\* Characters and chunks: nothing is available when nothing waits.
LEMMA NothingAvailable ==
  ASSUME Typed, ~ByWord, ~(Available > 0)
  PROVE  PendingText = <<>>
<1>1. PendingText \in Seq(Chars) /\ pending \in Seq(Seq(Chars))
  BY TextTypes DEF Typed
<1>2. CASE ByEvent
  <2>1. pending = <<>> BY <1>1, <1>2 DEF Available
  <2> QED BY <2>1, FlattenEmpty DEF PendingText
<1>3. CASE ~ByEvent
  <2>1. Len(PendingText) = 0 BY <1>1, <1>3 DEF Available
  <2> QED BY <1>1, <2>1
<1> QED BY <1>2, <1>3

LEMMA DrainText ==
  ASSUME TextInv, MarksInv, NoWords, Drain
  PROVE  TextInv'
<1>1. Typed /\ Buffers /\ ~ByWord
  BY NeverByWord DEF TextInv
<1>2. /\ pc \in {"drain", "flush"} /\ UNCHANGED <<timing, whole, received, marks, held, out, cursor>>
  BY DEF Drain, fixed, reading
<1>3. /\ TextOf(out') = TextOf(out) /\ cursor \in Nat /\ cursor <= Len(TextOf(out))
      /\ row.cursor <= Len(TextOf(out))
  BY <1>2 DEF TextInv, Cursors, Typed
<1>4. CASE CanTake(pc = "flush")
  <2>1. /\ pieces' = Append(pieces, Content) /\ pending' = Remaining
        /\ size' \in timing.min..timing.max /\ UNCHANGED <<pc, saved, row>>
    BY <1>4 DEF Drain
  <2>2. /\ Content \in Seq(Chars) /\ Remaining \in Seq(Seq(Chars))
        /\ Content \o FlattenSeq(Remaining) = PendingText
    BY <1>1, <1>4, Taken DEF CanTake
  <2>3. pieces' \in Seq(Seq(Chars)) /\ pieces \in Seq(Seq(Chars))
    BY <1>1, <2>1, <2>2 DEF Typed
  <2>4. Typed'
    BY <1>1, <1>2, <2>1, <2>2, <2>3 DEF Typed
  <2>5. timing.mode = "SLOW" \/ whole
    <3>1. CASE timing.mode # "SLOW" /\ ~whole
      <4>1. pending = <<>> BY <1>1, <3>1 DEF Buffers
      <4>2. PendingText = <<>> BY <4>1, FlattenEmpty DEF PendingText
      <4>3. ~ByEvent => Available = 0 BY <1>1, <4>2 DEF Available
      <4>4. ByEvent => Available = 0 BY <4>1 DEF Available
      <4> QED BY <1>4, <4>3, <4>4 DEF CanTake
    <3> QED BY <3>1
  <2>6. Buffers'
    BY <1>1, <1>2, <1>3, <2>1, <2>5 DEF Buffers, Over
  <2>7. FlattenSeq(Left') \o PendingText' = FlattenSeq(Left) \o PendingText
    <3> DEFINE l == FlattenSeq(pieces)  c == Content  r == FlattenSeq(Remaining)
    <3>1. l \in Seq(Chars) /\ c \in Seq(Chars) /\ r \in Seq(Chars)
      BY <2>2, <2>3, FlattenType
    <3>2. FlattenSeq(pieces') = l \o c
      BY <2>1, <2>2, <2>3, FlattenAdd
    <3>3. (l \o c) \o r = l \o (c \o r)
      <4> HIDE DEF l, c, r
      <4> QED BY <3>1, Regroup
    <3>4. Left' = pieces' /\ Left = pieces /\ PendingText' = r
      BY <1>2, <2>1 DEF Left, PendingText
    <3> QED BY <2>2, <3>2, <3>3, <3>4
  <2> QED BY <1>2, <1>3, <2>1, <2>4, <2>6, <2>7, TextKept DEF Over
<1>5. CASE ~CanTake(pc = "flush")
  <2>1. /\ UNCHANGED <<pieces, pending, size>>
        /\ IF pc = "flush" THEN pc' = "halve" /\ UNCHANGED <<saved, row>>
           ELSE /\ pc' = "read"
                /\ IF Len(received) - saved >= Checkpoint
                   THEN /\ saved' = Len(received)
                        /\ row' = [row EXCEPT !.content = received, !.cursor = cursor]
                   ELSE UNCHANGED <<saved, row>>
    BY <1>5 DEF Drain, chunker
  <2>2. received \in Seq(Chars) /\ row \in Row
    BY <1>1 DEF Typed
  <2>3. /\ saved' \in Nat /\ row' \in Row /\ row'.status = row.status
        /\ row'.content = row.content \/ row'.content = received
        /\ row'.cursor <= Len(TextOf(out))
    <3>1. saved \in Nat /\ Len(received) \in Nat /\ received \in Seq(Chars) /\ cursor \in Nat
      BY <1>1, <1>3 DEF Typed
    <3>2. CASE UNCHANGED <<saved, row>>
      BY <1>3, <2>2, <3>1, <3>2
    <3>3. CASE saved' = Len(received) /\ row' = [row EXCEPT !.content = received, !.cursor = cursor]
      BY <1>3, <2>2, <3>1, <3>3 DEF Row
    <3> QED BY <2>1, <3>2, <3>3
  <2>4. Typed'
    BY <1>1, <1>2, <2>1, <2>3 DEF Typed, Stages
  <2>5. PendingText' = PendingText /\ (pc = "flush" => PendingText = <<>>)
    <3>1. pc = "flush" => ~(Available > 0) BY <1>5 DEF CanTake
    <3> QED BY <1>1, <2>1, <3>1, NothingAvailable DEF PendingText
  <2>6. pc = "drain" => ~whole
    BY DEF MarksInv
  <2>7. Buffers'
    BY <1>1, <1>2, <1>3, <2>1, <2>5, <2>6 DEF Buffers, Over
  <2>8. Left' = Left
    BY <1>2, <2>1 DEF Left
  <2>9. pc' \in {"halve", "read"}
    BY <2>1
  <2> QED BY <1>2, <1>3, <2>3, <2>4, <2>5, <2>7, <2>8, <2>9, TextKept DEF Over
<1> QED BY <1>4, <1>5

LEMMA HalfWay == \A n \in Nat : n \div 2 \in 0..n
OBVIOUS

LEMMA HalveText ==
  ASSUME TextInv, MarksInv, Halve
  PROVE  TextInv'
<1>1. Typed /\ Buffers /\ TextOf(out) \in Seq(Chars) /\ received \in Seq(Chars)
  BY TextTypes DEF TextInv, Typed
<1>2. /\ pc = "halve" /\ pc' = (IF whole \/ pieces = <<>> THEN "store" ELSE "first")
      /\ UNCHANGED <<timing, whole, received, marks, pending, size, held, out, cursor, saved, row>>
  BY DEF Halve, fixed, reading, chunker, reveal
<1>3. PendingText = <<>> /\ PendingText' = <<>>
  <2>1. PendingText = <<>> BY <1>1, <1>2 DEF Buffers
  <2> QED BY <1>2, <2>1 DEF PendingText
<1>4. TextOf(out') = TextOf(out) /\ cursor <= Len(TextOf(out)) /\ row.cursor <= Len(TextOf(out))
  BY <1>2 DEF TextInv, Cursors
<1>5. /\ pieces' \in Seq(Seq(Chars)) /\ FlattenSeq(pieces') = FlattenSeq(pieces)
      /\ ~whole => (pieces' = <<>> <=> pieces = <<>>)
  <2>1. pieces \in Seq(Seq(Chars)) BY <1>1 DEF Typed
  <2>2. CASE Len(pieces) = 1 /\ Len(pieces[1]) > 1
    <3> DEFINE t == pieces[1]  mid == Len(t) \div 2
               a == SubSeq(t, 1, mid)  b == SubSeq(t, mid + 1, Len(t))
    <3>1. pieces' = <<a, b>>
      <4>1. pieces # <<>> BY <2>2
      <4> QED BY <2>2, <4>1 DEF Halve
    <3>2. t \in Seq(Chars) /\ pieces = <<t>>
      BY <2>1, <2>2
    <3>3. mid \in 0..Len(t) /\ Len(t) \in Nat
      <4>1. Len(t) \in Nat BY <3>2
      <4> QED BY <4>1, HalfWay
    <3> HIDE DEF mid
    <3>4. a \in Seq(Chars) /\ b \in Seq(Chars)
      BY <3>2, <3>3
    <3>5. a \o b = t
      <4>1. 1 \in 1..Len(t) + 1 /\ mid \in 1 - 1..Len(t) /\ Len(t) \in mid..Len(t)
        BY <3>3
      <4>2. a \o b = SubSeq(t, 1, Len(t))
        BY <3>2, <4>1, ConcatAdjacentSubSeq
      <4>3. SubSeq(t, 1, Len(t)) = t
        BY <3>2, SubSeqFull
      <4> QED BY <4>2, <4>3
    <3> HIDE DEF a, b, t
    <3>6. <<a, b>> = Append(<<a>>, b) /\ <<a>> \in Seq(Seq(Chars)) /\ <<a, b>> \in Seq(Seq(Chars))
      BY <3>4
    <3>7. FlattenSeq(Append(<<a>>, b)) = FlattenSeq(<<a>>) \o b
      BY <3>4, <3>6, FlattenAdd
    <3>8. FlattenSeq(<<a>>) = a /\ FlattenSeq(<<t>>) = t
      BY <3>2, <3>4, FlattenOne
    <3>9. FlattenSeq(pieces') = FlattenSeq(pieces)
      BY <3>1, <3>2, <3>5, <3>6, <3>7, <3>8
    <3>10. pieces # <<>> /\ pieces' # <<>>
      BY <2>2, <3>1
    <3> QED BY <3>1, <3>6, <3>9, <3>10
  <2>3. CASE ~(Len(pieces) = 1 /\ Len(pieces[1]) > 1) /\ pieces = <<>> /\ whole
    <3>1. pieces' = <<received>>
      BY <2>3 DEF Halve
    <3>2. TextOf(out) = <<>>
      BY <1>1, <1>2, <2>3 DEF Buffers
    <3>3. TextOf(out) \o (FlattenSeq(pieces) \o PendingText) = received
      BY <1>2 DEF TextInv, Conserved, Left, Over
    <3>4. FlattenSeq(pieces) = <<>>
      BY <2>3, FlattenEmpty
    <3>5. received = <<>>
      BY <1>3, <3>2, <3>3, <3>4
    <3>6. FlattenSeq(<<received>>) = received
      BY <1>1, FlattenOne
    <3>7. <<received>> \in Seq(Seq(Chars))
      BY <1>1
    <3> QED BY <2>3, <3>1, <3>4, <3>5, <3>6, <3>7
  <2>4. CASE /\ ~(Len(pieces) = 1 /\ Len(pieces[1]) > 1)
             /\ ~(pieces = <<>> /\ whole)
    <3>1. pieces' = pieces
      BY <2>4 DEF Halve
    <3> QED BY <2>1, <3>1
  <2> QED BY <2>2, <2>3, <2>4
<1>6. Typed'
  BY <1>1, <1>2, <1>5 DEF Typed, Stages
<1>7. Buffers'
  BY <1>1, <1>2, <1>3, <1>5 DEF Buffers, Over
<1>8. FlattenSeq(Left') \o PendingText' = FlattenSeq(Left) \o PendingText
  BY <1>2, <1>3, <1>5 DEF Left
<1> QED BY <1>2, <1>4, <1>6, <1>7, <1>8, TextKept DEF Over

LEMMA StoreText ==
  ASSUME TextInv, Store
  PROVE  TextInv'
<1>1. Typed /\ Buffers /\ received \in Seq(Chars) /\ pieces \in Seq(Seq(Chars)) /\ row \in Row
  BY DEF TextInv, Typed
<1>2. /\ pc = "store" /\ pc' = "reveal" /\ saved' = 0
      /\ UNCHANGED <<timing, whole, received, marks, pending, size, held, out, cursor>>
  BY DEF Store, fixed, reading, chunker
<1>3. PendingText' = PendingText /\ PendingText = <<>>
  BY <1>1, <1>2 DEF Buffers, PendingText
<1>4. TextOf(out') = TextOf(out) /\ cursor <= Len(TextOf(out)) /\ cursor \in Nat /\ row.cursor <= Len(TextOf(out))
  BY <1>2 DEF TextInv, Cursors, Typed
<1>5. pieces' \in Seq(Seq(Chars)) /\ FlattenSeq(pieces') = FlattenSeq(pieces)
  <2>1. CASE timing.mode = "DELAYED" /\ ~whole /\ timing.quick
    <3>1. pieces' = FlattenSeq([i \in DOMAIN pieces |-> Slice(pieces[i], timing.max)])
      BY <2>1 DEF Store
    <3>2. timing.max \in Nat \ {0}
      BY <1>1, TextTypes
    <3> QED BY <1>1, <3>1, <3>2, SlicedText
  <2>2. CASE ~(timing.mode = "DELAYED" /\ ~whole /\ timing.quick)
    <3>1. pieces' = pieces
      BY <2>2 DEF Store
    <3> QED BY <1>1, <3>1
  <2> QED BY <2>1, <2>2
<1>6. /\ row' \in Row /\ row'.status = row.status /\ row'.cursor <= Len(TextOf(out))
      /\ row'.content = row.content \/ row'.content = received
  <2>1. row' = row \/ row' = [row EXCEPT !.content = received, !.cursor = cursor]
    BY DEF Store
  <2> QED BY <1>1, <1>4, <2>1 DEF Row
<1>7. Typed'
  BY <1>1, <1>2, <1>5, <1>6 DEF Typed, Stages
<1>8. Buffers'
  <2>1. timing.mode \notin {"NORMAL", "FAST"} \/ whole \/ pieces' = <<>>
    <3>1. CASE timing.mode \in {"NORMAL", "FAST"} /\ ~whole
      <4>1. pieces' = pieces BY <3>1 DEF Store
      <4>2. pieces = <<>> BY <1>1, <1>2, <3>1 DEF Buffers, Over
      <4> QED BY <4>1, <4>2
    <3> QED BY <3>1
  <2> QED BY <1>1, <1>2, <1>3, <2>1 DEF Buffers, Over
<1>9. FlattenSeq(Left') \o PendingText' = FlattenSeq(Left) \o PendingText
  BY <1>2, <1>3, <1>5 DEF Left
<1> QED BY <1>2, <1>4, <1>6, <1>7, <1>8, <1>9, TextKept DEF Over

\* Terminal and other events, and what happens to the row and the cursor.
LEMMA RevealText ==
  ASSUME TextInv, ProviderMark \/ ProviderOther \/ ProviderEnds \/ Marks
  PROVE  TextInv'
<1>1. Typed /\ Buffers
  BY DEF TextInv
<1>2. /\ UNCHANGED <<timing, whole, received, pending, size, pieces, cursor, saved, row>>
      /\ \/ pc = "read" /\ ~whole /\ \/ pc' = "read"
                                     \/ timing.mode = "SLOW" /\ pc' = "flush"
                                     \/ timing.mode = "DELAYED" /\ pc' = "store"
                                     \/ timing.mode \notin {"SLOW", "DELAYED"} /\ pc' = "complete"
         \/ pc = "marks" /\ pc' \in {"marks", "complete"}
      /\ out' = out \/ out' = Append(out, Mark) \/ out' = Append(out, Other)
  BY DEF ProviderMark, ProviderOther, ProviderEnds, Marks, fixed, reading, chunker, reveal
<1>3. TextOf(out') = TextOf(out) /\ out' \in Seq(EventType)
  <2>1. out \in Seq(EventType) BY <1>1 DEF Typed
  <2>2. CASE out' = out BY <2>1, <2>2
  <2>3. CASE out' = Append(out, Mark) BY <1>1, <2>3, Textless, Markings
  <2>4. CASE out' = Append(out, Other) BY <1>1, <2>4, Textless, Markings
  <2> QED BY <1>2, <2>2, <2>3, <2>4
<1>4. Typed'
  BY <1>1, <1>2, <1>3 DEF Typed, Stages
<1>5. timing.mode # "SLOW" /\ ~whole => PendingText = <<>>
  BY <1>1, FlattenEmpty DEF Buffers, PendingText
<1>6. timing \in TimingType
  BY <1>1, TextTypes
<1>7. PendingText' = PendingText /\ Left' = Left
  BY <1>2 DEF PendingText, Left
<1>8. Buffers'
  BY <1>1, <1>2, <1>3, <1>5, <1>6, <1>7 DEF Buffers, Over, TimingType
<1>9. cursor <= Len(TextOf(out)) /\ row.cursor <= Len(TextOf(out))
  BY DEF TextInv, Cursors
<1>10. pc \notin Over /\ pc' \notin Over /\ pc' # "shown"
  BY <1>2 DEF Over
<1> QED BY <1>2, <1>3, <1>4, <1>7, <1>8, <1>9, <1>10, TextKept

LEMMA ShownText ==
  ASSUME TextInv, Shown
  PROVE  TextInv'
<1>1. Typed /\ Buffers /\ row \in Row
  BY DEF TextInv, Typed
<1>2. /\ pc = "shown" /\ pc' = "reveal" /\ cursor' = cursor + Len(Head(pieces)) /\ pieces' = Tail(pieces)
      /\ UNCHANGED <<timing, whole, received, marks, pending, size, held, out>>
      /\ \/ saved' = cursor' /\ row' = [row EXCEPT !.cursor = cursor']
         \/ UNCHANGED <<saved, row>>
  BY DEF Shown, fixed, reading, chunker
<1>3. pieces # <<>> /\ PendingText = <<>> /\ PendingText' = PendingText
  BY <1>1, <1>2 DEF Buffers, PendingText
<1>4. Head(pieces) \in Seq(Chars) /\ Tail(pieces) \in Seq(Seq(Chars)) /\ cursor \in Nat
  BY <1>1, <1>3, TextTypes DEF Typed
<1>5. Len(Head(pieces)) \in Nat
  BY <1>4
<1>6. cursor' \in Nat /\ cursor' <= Len(TextOf(out)) /\ row.cursor <= Len(TextOf(out)) /\ TextOf(out') = TextOf(out)
  BY <1>2, <1>4, <1>5 DEF TextInv, Cursors
<1>7. /\ row' \in Row /\ row'.status = row.status /\ row'.content = row.content
      /\ row'.cursor <= Len(TextOf(out)) /\ saved' \in Nat
  <2>1. saved \in Nat BY <1>1 DEF Typed
  <2> QED BY <1>1, <1>2, <1>6, <2>1 DEF Row
<1>8. Typed'
  BY <1>1, <1>2, <1>4, <1>6, <1>7 DEF Typed, Stages
<1>9. Buffers'
  <2>1. ~(timing.mode \in {"NORMAL", "FAST"} /\ ~whole)
    BY <1>1, <1>2, <1>3 DEF Buffers, Over
  <2> QED BY <1>1, <1>2, <1>3, <2>1 DEF Buffers, Over
<1>10. Left' = Left
  BY <1>2 DEF Left
<1> QED BY <1>2, <1>3, <1>6, <1>7, <1>8, <1>9, <1>10, TextKept DEF Over

LEMMA RevealedText ==
  ASSUME TextInv, Revealed
  PROVE  TextInv'
<1>1. Typed /\ Buffers /\ row \in Row /\ received \in Seq(Chars) /\ TextOf(out) \in Seq(Chars)
  BY TextTypes DEF TextInv, Typed
<1>2. /\ pc = "reveal" /\ pc' = "marks" /\ pieces = <<>>
      /\ UNCHANGED <<timing, whole, received, marks, pending, size, pieces, held, out, cursor, saved>>
      /\ row' = row \/ row' = [row EXCEPT !.cursor = Len(received)]
  BY DEF Revealed, fixed, reading, chunker, reveal
<1>3. PendingText = <<>> /\ PendingText' = PendingText /\ Left' = Left /\ Left = <<>>
  BY <1>1, <1>2 DEF Buffers, PendingText, Left
<1>4. TextOf(out) = received
  <2>1. TextOf(out) \o (FlattenSeq(Left) \o PendingText) = received
    BY <1>2 DEF TextInv, Conserved, Over
  <2>2. FlattenSeq(Left) = <<>>
    BY <1>3, FlattenEmpty
  <2> QED BY <1>1, <1>3, <2>1, <2>2
<1>5. cursor <= Len(TextOf(out)) /\ row.cursor <= Len(TextOf(out)) /\ TextOf(out') = TextOf(out)
  BY <1>2 DEF TextInv, Cursors
<1>6. Len(received) \in Nat
  BY <1>1
<1>7. /\ row' \in Row /\ row'.status = row.status /\ row'.content = row.content
      /\ row'.cursor <= Len(TextOf(out))
  BY <1>1, <1>2, <1>4, <1>5, <1>6 DEF Row
<1>8. Typed'
  BY <1>1, <1>2, <1>7 DEF Typed, Stages
<1>9. Buffers'
  BY <1>1, <1>2, <1>3 DEF Buffers, Over
<1> QED BY <1>2, <1>3, <1>5, <1>7, <1>8, <1>9, TextKept DEF Over

\* A piece goes out: at once, before the text is stored, or in the reveal.
LEMMA PieceText ==
  ASSUME TextInv, Emit \/ First \/ Reveal
  PROVE  TextInv'
<1>1. Typed /\ Buffers /\ out \in Seq(EventType) /\ pieces \in Seq(Seq(Chars)) /\ cursor \in Nat
  BY DEF TextInv, Typed
<1>2. /\ UNCHANGED <<timing, whole, received, marks, pending, size, held, saved, row>>
      /\ out' = Append(out, Text(Head(pieces)))
      /\ \/ /\ pc = "emit" /\ pc' = (IF Len(pieces) = 1 THEN "read" ELSE "emit")
            /\ pieces' = Tail(pieces) /\ cursor' = cursor
         \/ /\ pc = "first" /\ pc' = "store" /\ pieces' = Tail(pieces) /\ cursor' = Len(Head(pieces))
         \/ /\ pc = "reveal" /\ pc' = "shown" /\ pieces # <<>> /\ pieces' = pieces /\ cursor' = cursor
  BY DEF Emit, First, Reveal, fixed, reading, chunker, reveal
<1>3. pieces # <<>>
  BY <1>1, <1>2 DEF Buffers
<1>4. Head(pieces) \in Seq(Chars) /\ Tail(pieces) \in Seq(Seq(Chars)) /\ Text(Head(pieces)) \in EventType
  BY <1>1, <1>3, TextTypes
<1>5. out' \in Seq(EventType) /\ Len(Head(pieces)) \in Nat
  BY <1>1, <1>2, <1>4
<1>6. Typed'
  BY <1>1, <1>2, <1>4, <1>5 DEF Typed, Stages
<1>7. Tail(pieces) = <<>> <=> Len(pieces) = 1
  <2>1. Len(Tail(pieces)) = Len(pieces) - 1 /\ Len(pieces) \in Nat
    BY <1>1, <1>3, HeadTailProperties
  <2>2. Tail(pieces) = <<>> <=> Len(Tail(pieces)) = 0
    <3> DEFINE u == Tail(pieces)
    <3>1. u \in Seq(Seq(Chars)) BY <1>4
    <3> HIDE DEF u
    <3>2. u = <<>> <=> Len(u) = 0 BY <3>1
    <3> QED BY <3>2 DEF u
  <2> QED BY <2>1, <2>2
<1>8. PendingText' = PendingText
  BY <1>2 DEF PendingText
<1>9. ~(timing.mode \in {"NORMAL", "FAST"} /\ ~whole) \/ pc = "emit"
  BY <1>1, <1>2, <1>3 DEF Buffers, Over
<1>10. Buffers'
  BY <1>1, <1>2, <1>3, <1>7, <1>8, <1>9 DEF Buffers, Over
<1>11. Left' = Tail(pieces)
  BY <1>2 DEF Left
<1>12. pc \notin Over \union {"shown"} /\ pc' \notin Over
  BY <1>2 DEF Over
<1>13. cursor' <= cursor \/ cursor' <= Len(Head(pieces))
  BY <1>1, <1>2, <1>5
<1> QED BY <1>2, <1>3, <1>6, <1>10, <1>11, <1>12, <1>13, PieceOut DEF PieceSent

\* The text of an event of the provider.
LEMMA TextsTyped ==
  ASSUME NEW from \in Int, NEW n \in Int, NEW t \in Texts(from, n)
  PROVE  t \in Seq(Chars) /\ t # <<>>
<1> DEFINE spaced(k) == IF timing.unit = "WORD" THEN SUBSET (1..k) ELSE {{}}
           of(k) == {[i \in 1..k |-> IF i \in spaces THEN -(from + i) ELSE from + i] : spaces \in spaced(k)}
<1>1. PICK k \in 1..n : t \in of(k)
  <2>1. t \in UNION {of(k) : k \in 1..n} BY DEF Texts
  <2> HIDE DEF of
  <2> QED BY <2>1
<1>1a. PICK spaces : t = [i \in 1..k |-> IF i \in spaces THEN -(from + i) ELSE from + i]
  BY <1>1
<1>2. k \in Nat /\ k > 0
  OBVIOUS
<1>3. \A i \in 1..k : (IF i \in spaces THEN -(from + i) ELSE from + i) \in Int
  OBVIOUS
<1>4. t \in Seq(Int) /\ Len(t) = k
  BY <1>1a, <1>2, <1>3
<1> QED BY <1>2, <1>4 DEF Chars

\* How the parts of a line make it up again.
LEMMA SplitText ==
  ASSUME Typed, NoWords, timing.mode \in {"NORMAL", "FAST"}, NEW t \in Seq(Chars), t # <<>>
  PROVE  Split(t) \in Seq(Seq(Chars)) /\ Split(t) # <<>> /\ FlattenSeq(Split(t)) = t
<1>1. CASE timing.mode = "NORMAL"
  <2>1. Split(t) = <<t>> BY <1>1 DEF Split
  <2>2. <<t>> \in Seq(Seq(Chars)) /\ <<t>> # <<>> OBVIOUS
  <2> QED BY <2>1, <2>2, FlattenOne
<1>2. CASE timing.mode = "FAST"
  <2>1. Split(t) = Slice(t, timing.max)
    BY <1>2, NeverByWord DEF Split
  <2>2. timing.max \in Nat \ {0}
    BY TextTypes
  <2>3. Slice(t, timing.max) \in Seq(Seq(Chars)) /\ Slice(t, timing.max) # <<>>
    BY <2>2, SliceType
  <2> QED BY <2>1, <2>2, <2>3, SliceText
<1> QED BY <1>1, <1>2

LEMMA ArrivedText ==
  ASSUME TextInv, NoWords, NEW t \in Seq(Chars), t # <<>>, ProviderText(t)
  PROVE  TextInv'
<1> DEFINE a == TextOf(out)  l == FlattenSeq(pieces)  p == PendingText
<1>1. Typed /\ Buffers /\ received \in Seq(Chars) /\ pieces \in Seq(Seq(Chars)) /\ pending \in Seq(Seq(Chars))
  BY DEF TextInv, Typed
<1>2. /\ pc = "read" /\ ~whole /\ received' = received \o t
      /\ UNCHANGED <<timing, whole, marks, size, held, out, cursor, saved, row>>
  BY DEF ProviderText, fixed, reveal
<1>3. a \in Seq(Chars) /\ l \in Seq(Chars) /\ p \in Seq(Chars) /\ timing \in TimingType
  BY <1>1, TextTypes
<1>4. a \o (l \o p) = received
  BY <1>2 DEF TextInv, Conserved, Left, Over
<1>5. /\ pc' = (CASE timing.mode = "SLOW" -> "drain" [] timing.mode = "DELAYED" -> "read" [] OTHER -> "emit")
      /\ pieces' \in Seq(Seq(Chars)) /\ pending' \in Seq(Seq(Chars))
      /\ timing.mode # "SLOW" => pending' = <<>> /\ pending = <<>>
      /\ timing.mode \in {"NORMAL", "FAST"} => pieces' # <<>>
      /\ FlattenSeq(pieces') \o FlattenSeq(pending') = (l \o p) \o t
  <2>1. CASE timing.mode = "SLOW"
    <3>1. /\ pc' = "drain" /\ pieces' = pieces
          /\ pending' = IF ByEvent THEN Append(pending, t) ELSE <<p \o t>>
      BY <2>1 DEF ProviderText
    <3>2. p \o t \in Seq(Chars) /\ Append(pending, t) \in Seq(Seq(Chars))
      BY <1>1, <1>3
    <3>3. FlattenSeq(pending') = p \o t
      <4>1. FlattenSeq(Append(pending, t)) = p \o t
        BY <1>1, FlattenAdd DEF PendingText
      <4>2. FlattenSeq(<<p \o t>>) = p \o t
        BY <3>2, FlattenOne
      <4> QED BY <3>1, <4>1, <4>2
    <3>4. pending' \in Seq(Seq(Chars))
      BY <3>1, <3>2
    <3>5. l \o (p \o t) = (l \o p) \o t
      <4> HIDE DEF l, p
      <4> QED BY <1>3
    <3> QED BY <1>1, <2>1, <3>1, <3>3, <3>4, <3>5
  <2>2. CASE timing.mode # "SLOW"
    <3>1. pending' = pending /\ pending = <<>>
      BY <1>1, <1>2, <2>2 DEF ProviderText, Buffers
    <3>2. p = <<>> /\ FlattenSeq(pending') = <<>>
      BY <3>1, FlattenEmpty DEF PendingText
    <3>3. CASE timing.mode = "DELAYED"
      <4>1. pc' = "read" /\ pieces' = Append(pieces, t)
        BY <3>3 DEF ProviderText
      <4>2. FlattenSeq(Append(pieces, t)) = l \o t /\ Append(pieces, t) \in Seq(Seq(Chars))
        BY <1>1, FlattenAdd
      <4>3. (l \o t) \o <<>> = (l \o <<>>) \o t
        <5> HIDE DEF l
        <5> QED BY <1>3
      <4> QED BY <1>1, <3>1, <3>2, <3>3, <4>1, <4>2, <4>3
    <3>4. CASE timing.mode # "DELAYED"
      <4>1. timing.mode \in {"NORMAL", "FAST"}
        BY <1>3, <2>2, <3>4 DEF TimingType
      <4>2. pc' = "emit" /\ pieces' = Split(t)
        BY <2>2, <3>4 DEF ProviderText
      <4>3. pieces = <<>>
        BY <1>1, <1>2, <4>1 DEF Buffers, Over
      <4>4. l = <<>>
        BY <4>3, FlattenEmpty
      <4>5. Split(t) \in Seq(Seq(Chars)) /\ Split(t) # <<>> /\ FlattenSeq(Split(t)) = t
        BY <1>1, <4>1, SplitText
      <4>6. t \o <<>> = (<<>> \o <<>>) \o t
        OBVIOUS
      <4> QED BY <1>1, <2>2, <3>1, <3>2, <3>4, <4>2, <4>4, <4>5, <4>6
    <3> QED BY <3>3, <3>4
  <2> QED BY <2>1, <2>2
<1>6. received' \in Seq(Chars) /\ pc' \in {"drain", "read", "emit"}
  BY <1>1, <1>2, <1>5
<1>7. Typed'
  BY <1>1, <1>2, <1>5, <1>6 DEF Typed, Stages
<1>8. Buffers'
  BY <1>1, <1>2, <1>3, <1>5, <1>6 DEF Buffers, Over, TimingType
<1>9. Conserved'
  <2>1. a \o ((l \o p) \o t) = (a \o (l \o p)) \o t
    <3> HIDE DEF a, l, p
    <3> QED BY <1>3
  <2>2. TextOf(out') = a /\ Left' = pieces' /\ PendingText' = FlattenSeq(pending')
    BY <1>2, <1>6 DEF Left, PendingText
  <2>3. a \o (FlattenSeq(Left') \o PendingText') = received'
    BY <1>2, <1>4, <1>5, <2>1, <2>2
  <2> QED BY <1>6, <2>2, <2>3 DEF Conserved, Over
<1>10. Cursors'
  <2>1. row.content = Nothing \/ IsPrefix(row.content, received')
    <3>1. row.content \in Seq(Chars) BY <1>1 DEF Typed, Row
    <3>2. ASSUME IsPrefix(row.content, received) PROVE IsPrefix(row.content, received')
      <4>1. PICK x \in Seq(Chars) : row.content \o x = received
        BY <1>1, <3>1, <3>2, PrefixIs
      <4>2. row.content \o (x \o t) = received' /\ x \o t \in Seq(Chars)
        <5>1. row.content \o (x \o t) = (row.content \o x) \o t /\ x \o t \in Seq(Chars)
          <6> DEFINE c == row.content
          <6>1. c \in Seq(Chars) BY <3>1
          <6> HIDE DEF c
          <6>2. c \o (x \o t) = (c \o x) \o t /\ x \o t \in Seq(Chars) BY <6>1
          <6> QED BY <6>2 DEF c
        <5> QED BY <1>2, <4>1, <5>1
      <4> QED BY <1>6, <3>1, <4>2, PrefixIs
    <3> QED BY <3>2 DEF TextInv, Cursors
  <2> QED BY <1>2, <1>6, <2>1 DEF TextInv, Cursors
<1>11. Outcome'
  BY <1>2, <1>6 DEF TextInv, Outcome, WholeShown, Over
<1> QED BY <1>7, <1>8, <1>9, <1>10, <1>11 DEF TextInv

LEMMA BodyText ==
  ASSUME TextInv, NoWords, NEW t \in Seq(Chars), ProviderAnswers(t)
  PROVE  TextInv'
<1>1. Typed /\ Buffers /\ ~ByWord
  BY NeverByWord DEF TextInv
<1>2. /\ pc = "read" /\ whole /\ received' = t /\ pending' = <<t>> /\ pc' = "flush"
      /\ UNCHANGED <<timing, whole, size, pieces, out, cursor, saved, row>>
  BY <1>1 DEF ProviderAnswers, fixed, reveal
<1>3. TextOf(out) = <<>> /\ received = <<>> /\ pieces = <<>>
  BY <1>1, <1>2 DEF Buffers
<1>4. pending' \in Seq(Seq(Chars)) /\ FlattenSeq(pending') = t
  BY <1>2, FlattenOne
<1>5. Typed'
  BY <1>1, <1>2, <1>4 DEF Typed, Stages
<1>6. TextOf(out') = <<>>
  BY <1>2, <1>3
<1>7. Buffers'
  BY <1>1, <1>2, <1>3, <1>6 DEF Buffers, Over
<1>8. Conserved'
  <2>1. FlattenSeq(Left') = <<>> /\ PendingText' = t
    BY <1>2, <1>3, <1>4, FlattenEmpty DEF Left, PendingText
  <2>2. <<>> \o (<<>> \o t) = t
    OBVIOUS
  <2> QED BY <1>2, <1>6, <2>1, <2>2 DEF Conserved, Over
<1>9. Cursors'
  <2>1. row.content = Nothing \/ IsPrefix(row.content, t)
    <3>1. row.content = Nothing \/ IsPrefix(row.content, <<>>)
      BY <1>3 DEF TextInv, Cursors
    <3>2. ASSUME IsPrefix(row.content, <<>>) PROVE IsPrefix(row.content, t)
      <4>1. row.content \in Seq(Chars) BY <1>1 DEF Typed, Row
      <4>2. Len(row.content) = 0 /\ Len(t) \in Nat BY <3>2, <4>1 DEF IsPrefix
      <4>3. SubSeq(row.content, 1, 0) = <<>> /\ SubSeq(t, 1, 0) = <<>> BY <4>1
      <4> QED BY <4>2, <4>3 DEF IsPrefix
    <3> QED BY <3>1, <3>2
  <2> QED BY <1>2, <2>1 DEF TextInv, Cursors
<1>10. Outcome'
  BY <1>2 DEF TextInv, Outcome, WholeShown, Over
<1> QED BY <1>5, <1>7, <1>8, <1>9, <1>10 DEF TextInv

\* The row is completed, or the request ends in another way.
LEMMA EndsText ==
  ASSUME TextInv, MarksInv, CompleteRow \/ ProviderError \/ Cancel \/ Fail \/ Finish
  PROVE  TextInv'
<1>1. Typed /\ Buffers /\ out \in Seq(EventType) /\ row \in Row
  BY DEF TextInv, Typed
<1>2. /\ pc' \in Over
      /\ UNCHANGED <<timing, whole, received, marks, pending, size, pieces, held, cursor, saved>>
      /\ out' = out \/ out' = Append(out, Failure)
  BY DEF CompleteRow, ProviderError, Cancel, Fail, Finish, fixed, reading, chunker, reveal, Over
<1>3. TextOf(out') = TextOf(out) /\ MarksOf(out') = MarksOf(out) /\ out' \in Seq(EventType)
  <2>1. CASE out' = out BY <1>1, <2>1
  <2>2. CASE out' = Append(out, Failure)
    <3>1. TextOf(out') = TextOf(out) /\ out' \in Seq(EventType)
      BY <1>1, <2>2, Textless, Markings
    <3>2. Failure.type # "mark" BY DEF Failure
    <3>3. MarksOf(out') = MarksOf(out)
      BY <1>1, <2>2, <3>2, MarkAdded
    <3> QED BY <3>1, <3>3
  <2> QED BY <1>2, <2>1, <2>2
<1>4. CASE CompleteRow
  <2>1. pc = "complete" /\ row' = [row EXCEPT !.status = "COMPLETED", !.content = Nothing]
    BY <1>4 DEF CompleteRow
  <2>2. TextOf(out) = received
    <3>1. pieces = <<>> /\ PendingText = <<>> /\ Left = pieces
      BY <1>1, <2>1 DEF Buffers, Left
    <3>2. TextOf(out) \o (FlattenSeq(Left) \o PendingText) = received
      BY <2>1 DEF TextInv, Conserved, Over
    <3>3. TextOf(out) \in Seq(Chars) BY <1>1, TextTypes
    <3> QED BY <3>1, <3>2, <3>3, FlattenEmpty
  <2>3. MarksOf(out) = marks
    <3>1. held = 0 /\ held + MarksOf(out) = marks BY <2>1 DEF MarksInv
    <3>2. MarksOf(out) \in Nat BY <1>1, MarkAdded
    <3> QED BY <3>1, <3>2
  <2>4. row' \in Row /\ row'.cursor = row.cursor /\ row'.content = Nothing
    <3>1. Nothing \in Seq(Chars) BY DEF Nothing, Chars
    <3> QED BY <1>1, <2>1, <3>1 DEF Row
  <2> QED BY <1>2, <1>3, <2>2, <2>3, <2>4, TextEnds
<1>5. CASE ProviderError \/ Cancel \/ Fail
  <2>1. row' = [row EXCEPT !.status = "FAILED"] \/ row' = [row EXCEPT !.status = "CANCELLED"]
    BY <1>5 DEF ProviderError, Cancel, Fail
  <2>2. row' \in Row /\ row'.cursor = row.cursor /\ row'.content = row.content /\ row'.status # "COMPLETED"
    BY <1>1, <2>1 DEF Row
  <2> QED BY <1>2, <1>3, <2>2, TextEnds
<1>6. CASE Finish
  <2>1. row' = row BY <1>6 DEF Finish
  <2>2. row.status = "COMPLETED" => TextOf(out) = received /\ MarksOf(out) = marks
    BY DEF TextInv, Outcome, WholeShown
  <2> QED BY <1>1, <1>2, <1>3, <2>1, <2>2, TextEnds
<1> QED BY <1>4, <1>5, <1>6

LEMMA TextInitially == Init => TextInv
<1> SUFFICES ASSUME Init PROVE TextInv OBVIOUS
<1>1. /\ timing \in Timings /\ whole \in BOOLEAN
      /\ pc = "read" /\ received = <<>> /\ marks = 0 /\ pending = <<>> /\ size \in timing.min..timing.max
      /\ pieces = <<>> /\ held = 0 /\ out = <<>> /\ cursor = 0 /\ saved = 0
      /\ row = [status |-> "PENDING", content |-> Nothing, cursor |-> 0]
  BY DEF Init
<1>2. Nothing \in Seq(Chars)
  BY DEF Nothing, Chars
<1>3. Typed
  BY <1>1, <1>2 DEF Typed, Stages, Row
<1>4. TextOf(out) = <<>> /\ PendingText = <<>> /\ FlattenSeq(Left) = <<>>
  BY <1>1, TextOfNone, FlattenEmpty DEF PendingText, Left
<1>5. Buffers
  BY <1>1, <1>4 DEF Buffers
<1>6. Conserved
  BY <1>1, <1>4 DEF Conserved, Over
<1>7. Cursors
  BY <1>1, <1>4 DEF Cursors
<1>8. Outcome
  BY <1>1 DEF Outcome, WholeShown
<1> QED BY <1>3, <1>5, <1>6, <1>7, <1>8 DEF TextInv

LEMMA TextStutter ==
  ASSUME TextInv, UNCHANGED vars
  PROVE  TextInv'
<1>1. Typed' BY DEF TextInv, vars, Typed
<1>2. Buffers' BY DEF TextInv, vars, Buffers, PendingText
<1>3. Conserved' BY DEF TextInv, vars, Conserved, Left, PendingText
<1>4. Cursors' BY DEF TextInv, vars, Cursors
<1>5. Outcome' BY DEF TextInv, vars, Outcome, WholeShown
<1> QED BY <1>1, <1>2, <1>3, <1>4, <1>5 DEF TextInv

LEMMA TextStep ==
  ASSUME TextInv, MarksInv, NoWords, [Next]_vars
  PROVE  TextInv'
<1>1. CASE UNCHANGED vars
  BY <1>1, TextStutter
<1>2. ASSUME NEW t \in Texts(Len(received), Delta), ProviderText(t) PROVE TextInv'
  <2>1. Len(received) \in Int /\ Delta \in Int
    <3>1. Len(received) \in Nat BY DEF TextInv, Typed
    <3> QED BY <3>1, DeliveryAssumption DEF Delta, Most, Minimum
  <2>2. t \in Seq(Chars) /\ t # <<>>
    BY <2>1, TextsTyped
  <2> QED BY <1>2, <2>2, ArrivedText
<1>3. ASSUME NEW t \in Texts(0, Most), ProviderAnswers(t) PROVE TextInv'
  <2>1. t \in Seq(Chars)
    BY DeliveryAssumption, TextsTyped DEF Most
  <2> QED BY <1>3, <2>1, BodyText
<1>4. CASE ProviderMark \/ ProviderOther \/ ProviderEnds \/ Marks
  BY <1>4, RevealText
<1>5. CASE CompleteRow \/ ProviderError \/ Cancel \/ Fail \/ Finish
  BY <1>5, EndsText
<1>6. CASE Emit \/ First \/ Reveal
  BY <1>6, PieceText
<1>7. CASE Drain BY <1>7, DrainText
<1>8. CASE Halve BY <1>8, HalveText
<1>9. CASE Store BY <1>9, StoreText
<1>10. CASE Shown BY <1>10, ShownText
<1>11. CASE Revealed BY <1>11, RevealedText
<1> QED
  BY <1>1, <1>2, <1>3, <1>4, <1>5, <1>6, <1>7, <1>8, <1>9, <1>10, <1>11 DEF Next, Provider, Generator

LEMMA Invariant == NoWords => (Spec => []IInv)
<1> SUFFICES ASSUME NoWords PROVE Spec => []IInv OBVIOUS
<1>1. Init => IInv
  BY MarksInitially, TextInitially DEF IInv
<1>2. IInv /\ [Next]_vars => IInv'
  BY MarksStep, TextStep DEF IInv
<1> QED BY <1>1, <1>2, PTL DEF Spec

-----------------------------------------------------------------------------
(* The theorems.                                                             *)

\* Without words no reveal is by words a second.
LEMMA NoFastWords == ASSUME NoWords, IInv PROVE ~FastWords
BY DEF NoWords, FastWords, IInv, TextInv, Typed

\* A buffering mode never sends a terminal event ([DONE], response.completed)
\* before text, words included: the page would drop what follows.
THEOREM MarksAfterText == Spec => []MarksLast
<1>1. MarksInv => MarksLast
  BY DEF MarksInv
<1> QED BY <1>1, MarksInvariance, PTL

\* The participant reads the provider's text in order, without gaps or
\* repetitions, however the chunker, the halving, the quick reveal and the
\* parts of a line cut it up and wherever the request is interrupted
\* (wrap_streaming_response, apply_nonstream_timing).
THEOREM TextDeliveredInOrder == NoWords => (Spec => []TextInOrder)
<1> SUFFICES ASSUME NoWords PROVE Spec => []TextInOrder OBVIOUS
<1>1. IInv => TextInOrder
  BY TextPrefix, NoFastWords DEF IInv, TextInOrder
<1> QED BY <1>1, Invariant, PTL

\* A reloaded page (response_reveal_snapshot) never shows text that was not
\* yet revealed, at whatever checkpoint the cursor was saved.
THEOREM ReloadBehind == NoWords => (Spec => []SnapshotBehind)
<1>1. IInv => SnapshotBehind
  <2> SUFFICES ASSUME IInv PROVE SnapshotBehind OBVIOUS
  <2> DEFINE c == row.content
  <2>1. /\ TextOf(out) \in Seq(Chars) /\ c \in Seq(Chars) /\ received \in Seq(Chars)
        /\ row.cursor \in Nat /\ row.cursor <= Len(TextOf(out))
    BY TextTypes DEF IInv, TextInv, Typed, Cursors, Row
  <2>2. IsPrefix(TextOf(out), received)
    BY TextPrefix DEF IInv
  <2>3. CASE c = Nothing
    <3>1. Snapshot = <<>> BY <2>3 DEF Snapshot
    <3>2. SubSeq(TextOf(out), 1, 0) = <<>> BY <2>1
    <3>3. Len(TextOf(out)) \in Nat BY <2>1
    <3>4. Len(<<>>) = 0 /\ SubSeq(<<>>, 1, 0) = <<>> OBVIOUS
    <3> QED BY <3>1, <3>2, <3>3, <3>4 DEF SnapshotBehind, IsPrefix
  <2>4. CASE c # Nothing
    <3> DEFINE n == Minimum(row.cursor, Len(c))
    <3>1. IsPrefix(c, received)
      BY <2>4 DEF IInv, TextInv, Cursors
    <3>2. n \in Nat /\ n <= Len(c) /\ n <= Len(TextOf(out))
      <4>1. Len(c) \in Nat /\ Len(TextOf(out)) \in Nat BY <2>1
      <4> QED BY <2>1, <4>1 DEF Minimum
    <3>3. Snapshot = SubSeq(c, 1, n)
      BY <2>4 DEF Snapshot
    <3> HIDE DEF c, n
    <3> QED BY <2>1, <2>2, <3>1, <3>2, <3>3, ShownPrefix DEF SnapshotBehind
  <2> QED BY <2>3, <2>4
<1> QED BY <1>1, Invariant, PTL

\* A request is recorded as COMPLETED only when all of the text and every
\* terminal event were sent.
THEOREM CompletedWhole == NoWords => (Spec => []CompletedIsWhole)
<1> SUFFICES ASSUME NoWords PROVE Spec => []CompletedIsWhole OBVIOUS
<1>1. IInv => CompletedIsWhole
  BY NoFastWords DEF IInv, TextInv, Outcome, WholeShown, CompletedIsWhole
<1> QED BY <1>1, Invariant, PTL

\* Every reachable state is well typed; the cursors stay within the text, and
\* nothing waits in the chunker once the reveal began.
THEOREM DeliveryTypes == NoWords => (Spec => []TypeOK)
<1>1. IInv => TypeOK
  <2> SUFFICES ASSUME IInv PROVE TypeOK OBVIOUS
  <2>1. /\ timing \in Timings /\ whole \in BOOLEAN /\ pc \in Stages /\ size \in timing.min..timing.max
        /\ row \in Row /\ cursor \in Nat /\ out \in Seq(EventType)
    BY DEF IInv, TextInv, Typed
  <2>2. marks \in 0..2 + MaxMarks /\ held \in 0..2 + MaxMarks
    <3>1. MarksOf(out) \in Nat BY <2>1, MarkAdded
    <3>2. marks \in 0..2 + MaxMarks /\ held \in Nat /\ held + MarksOf(out) = marks
      BY DEF IInv, MarksInv
    <3> QED BY <3>1, <3>2, DeliveryAssumption
  <2>3. cursor <= Len(received) /\ row.cursor <= Len(received)
    <3>1. Len(TextOf(out)) <= Len(received)
      BY TextPrefix DEF IInv, IsPrefix
    <3>2. TextOf(out) \in Seq(Chars) /\ received \in Seq(Chars)
      BY TextTypes DEF IInv, TextInv, Typed
    <3>3. Len(TextOf(out)) \in Nat /\ Len(received) \in Nat
      BY <3>2
    <3>4. cursor <= Len(TextOf(out)) /\ row.cursor <= Len(TextOf(out)) /\ row.cursor \in Nat
      BY <2>1 DEF IInv, TextInv, Cursors, Row
    <3> QED BY <2>1, <3>1, <3>3, <3>4
  <2>4. pc \in {"reveal", "shown", "marks"} => PendingText = <<>>
    BY DEF IInv, TextInv, Buffers
  <2> QED BY <2>1, <2>2, <2>3, <2>4 DEF TypeOK, Stages, Over, Row
<1> QED BY <1>1, Invariant, PTL
=============================================================================
