----------------------------- MODULE PathProofs -----------------------------
(***************************************************************************)
(* What the path rules compute, for every path and URL:                    *)
(*   - AllowedAreNames: a path that split_path accepts becomes names;      *)
(*   - AddressedAsNamed: such names address the item that they name;       *)
(*   - RootUrlUnderstood, OtherUrlRefused: parse_root_url finds the site   *)
(*     and the folder meant, and takes no other URL for one of the site.   *)
(* Without and Addressed run down a sequence.  Of an induction over its    *)
(* length, the smallest length at which a fact fails is refuted.           *)
(***************************************************************************)
EXTENDS PathRules, SequenceTheorems, WellFoundedInduction, TLAPS

-----------------------------------------------------------------------------
(* Sequences and their prefixes.                                           *)

\* A prefix, element by element.
LEMMA PrefixMeans ==
  ASSUME NEW S, NEW s \in Seq(S), NEW t \in Seq(S)
  PROVE  IsPrefix(s, t) <=> Len(s) <= Len(t) /\ \A i \in 1 .. Len(s) : s[i] = t[i]
  <1> DEFINE m == Len(s)
             a == SubSeq(s, 1, m)
             b == SubSeq(t, 1, m)
  <1>1. m \in Nat /\ Len(t) \in Nat
    OBVIOUS
  <1>2. a = s
    BY SubSeqFull
  <1>3. ASSUME m <= Len(t)
        PROVE  b \in Seq(S) /\ Len(b) = m /\ \A i \in 1 .. m : b[i] = t[i]
    <2>1. \A i \in 1 .. m : t[i] \in S
      BY <1>1, <1>3, ElementOfSeq
    <2>2. m - 1 + 1 = m
      BY <1>1
    <2> QED BY <1>1, <2>1, <2>2, SubSeqProperties
  <1>4. ASSUME m <= Len(t), \A i \in 1 .. m : s[i] = t[i] PROVE s = b
    <2>1. b \in Seq(S) /\ Len(b) = Len(s) /\ \A i \in 1 .. Len(s) : s[i] = b[i]
      BY <1>3, <1>4
    <2> HIDE DEF b
    <2> QED BY <2>1, SeqEqual
  <1> HIDE DEF b
  <1>5. m <= Len(t) /\ s = b => \A i \in 1 .. m : s[i] = t[i]
    BY <1>3
  <1> QED BY <1>2, <1>4, <1>5 DEF IsPrefix, b

\* Prefixes are ordered, and those of one sequence are comparable.
LEMMA PrefixOrder ==
  ASSUME NEW S, NEW s \in Seq(S), NEW t \in Seq(S), NEW u \in Seq(S)
  PROVE  /\ IsPrefix(s, s)
         /\ IsPrefix(s, t) /\ IsPrefix(t, s) => s = t
         /\ IsPrefix(s, t) /\ IsPrefix(t, u) => IsPrefix(s, u)
         /\ IsPrefix(s, u) /\ IsPrefix(t, u) => IsPrefix(s, t) \/ IsPrefix(t, s)
         /\ IsStrictPrefix(s, t) => Len(s) < Len(t)
  <1>1. Len(s) \in Nat /\ Len(t) \in Nat /\ Len(u) \in Nat
    OBVIOUS
  <1>2. IsPrefix(s, s)
    BY <1>1, PrefixMeans
  <1>3. ASSUME IsPrefix(s, t), Len(s) = Len(t) PROVE s = t
    <2>1. \A i \in 1 .. Len(s) : s[i] = t[i]
      BY <1>3, PrefixMeans
    <2> QED BY <1>3, <2>1, SeqEqual
  <1>4. IsPrefix(s, t) => Len(s) <= Len(t)
    BY DEF IsPrefix
  <1>5. IsPrefix(t, s) => Len(t) <= Len(s)
    BY DEF IsPrefix
  <1>6. ASSUME IsPrefix(s, t), IsPrefix(t, u) PROVE IsPrefix(s, u)
    <2>1. Len(s) <= Len(t) /\ \A i \in 1 .. Len(s) : s[i] = t[i]
      BY <1>6, PrefixMeans
    <2>2. Len(t) <= Len(u) /\ \A i \in 1 .. Len(t) : t[i] = u[i]
      BY <1>6, PrefixMeans
    <2>3. Len(s) <= Len(u) /\ \A i \in 1 .. Len(s) : s[i] = u[i]
      BY <1>1, <2>1, <2>2
    <2> QED BY <2>3, PrefixMeans
  <1>7. ASSUME IsPrefix(s, u), IsPrefix(t, u) PROVE IsPrefix(s, t) \/ IsPrefix(t, s)
    <2>1. \A i \in 1 .. Len(s) : s[i] = u[i]
      BY <1>7, PrefixMeans
    <2>2. \A i \in 1 .. Len(t) : t[i] = u[i]
      BY <1>7, PrefixMeans
    <2>3. CASE Len(s) <= Len(t)
      <3>1. \A i \in 1 .. Len(s) : s[i] = t[i]
        BY <1>1, <2>1, <2>2, <2>3
      <3> QED BY <2>3, <3>1, PrefixMeans
    <2>4. CASE Len(t) <= Len(s)
      <3>1. \A i \in 1 .. Len(t) : t[i] = s[i]
        BY <1>1, <2>1, <2>2, <2>4
      <3> QED BY <2>4, <3>1, PrefixMeans
    <2> QED BY <1>1, <2>3, <2>4
  <1> QED BY <1>1, <1>2, <1>3, <1>4, <1>5, <1>6, <1>7 DEF IsStrictPrefix

\* A sequence is its front and its last element.
LEMMA FrontAndLast ==
  ASSUME NEW S, NEW s \in Seq(S), s # <<>>
  PROVE  /\ Front(s) \in Seq(S) /\ Len(Front(s)) = Len(s) - 1 /\ Last(s) \in S
         /\ s = Append(Front(s), Last(s)) /\ Len(s) \in Nat \ {0}
         /\ Len(Front(s)) \in Nat
  <1>1. PICK t \in Seq(S), e \in S : s = Append(t, e)
    BY SequenceEmptyOrAppend
  <1>2. /\ Len(t) \in Nat /\ Len(s) = Len(t) + 1 /\ s[Len(t) + 1] = e
        /\ \A i \in 1 .. Len(t) : s[i] = t[i]
    BY <1>1, AppendProperties
  <1>3. Last(s) = e
    BY <1>2 DEF Last
  <1>4. Front(s) = t
    <2> DEFINE f == SubSeq(s, 1, Len(t))
    <2>1. \A i \in 1 .. Len(t) : s[i] \in S
      BY <1>2, ElementOfSeq
    <2>2. f \in Seq(S) /\ Len(f) = Len(t) /\ \A i \in 1 .. Len(t) : f[i] = s[i]
      BY <1>2, <2>1, SubSeqProperties
    <2>3. \A i \in 1 .. Len(t) : f[i] = t[i]
      BY <1>2, <2>2
    <2>4. Front(s) = f
      BY <1>2 DEF Front
    <2> HIDE DEF f
    <2>5. f = t
      BY <2>2, <2>3, SeqEqual
    <2> QED BY <2>4, <2>5
  <1> QED BY <1>1, <1>2, <1>3, <1>4

LEMMA FrontOfAppend ==
  ASSUME NEW S, NEW s \in Seq(S), NEW e \in S
  PROVE  Front(Append(s, e)) = s /\ Last(Append(s, e)) = e
  <1> DEFINE t == Append(s, e)
  <1>1. t \in Seq(S) /\ t # <<>>
    BY AppendProperties
  <1>2. Front(t) \in Seq(S) /\ Last(t) \in S /\ t = Append(Front(t), Last(t))
    BY <1>1, FrontAndLast
  <1> DEFINE f == Front(t)
             l == Last(t)
  <1>3. f \in Seq(S) /\ l \in S /\ Append(s, e) = Append(f, l)
    BY <1>2
  <1> HIDE DEF f, l
  <1>4. s = f /\ e = l
    BY <1>3, AppendInjective
  <1> QED BY <1>4 DEF f, l

\* What is above a path is its parent, or above its parent.
LEMMA PrefixOfFront ==
  ASSUME NEW S, NEW s \in Seq(S), NEW t \in Seq(S), t # <<>>
  PROVE  IsStrictPrefix(s, t) <=> IsPrefix(s, Front(t))
  <1> DEFINE f == Front(t)
  <1>1. /\ f \in Seq(S) /\ Len(f) = Len(t) - 1 /\ t = Append(f, Last(t))
        /\ Last(t) \in S /\ Len(t) \in Nat \ {0} /\ Len(f) \in Nat
    BY FrontAndLast
  <1> HIDE DEF f
  <1>2. ASSUME NEW i \in 1 .. Len(f) PROVE t[i] = f[i]
    BY <1>1, AppendProperties
  <1>3. Len(s) \in Nat
    OBVIOUS
  <1>4. ASSUME IsPrefix(s, f) PROVE IsStrictPrefix(s, t)
    <2>1. Len(s) <= Len(f) /\ \A i \in 1 .. Len(s) : s[i] = f[i]
      BY <1>1, <1>4, PrefixMeans
    <2>2. Len(s) < Len(t) /\ \A i \in 1 .. Len(s) : s[i] = t[i]
      BY <1>1, <1>2, <1>3, <2>1
    <2>3. IsPrefix(s, t) /\ s # t
      BY <1>1, <1>3, <2>2, PrefixMeans
    <2> QED BY <2>3 DEF IsStrictPrefix
  <1>5. ASSUME IsStrictPrefix(s, t) PROVE IsPrefix(s, f)
    <2>1. Len(s) < Len(t)
      BY <1>5, PrefixOrder
    <2>2. \A i \in 1 .. Len(s) : s[i] = t[i]
      BY <1>5, PrefixMeans DEF IsStrictPrefix
    <2>3. Len(s) <= Len(f) /\ \A i \in 1 .. Len(s) : s[i] = f[i]
      BY <1>1, <1>2, <1>3, <2>1, <2>2
    <2> QED BY <1>1, <2>3, PrefixMeans
  <1> QED BY <1>4, <1>5 DEF f

\* Below one folder, prefixes are those of the rests.
LEMMA PrefixConcat ==
  ASSUME NEW S, NEW r \in Seq(S), NEW s \in Seq(S), NEW t \in Seq(S)
  PROVE  /\ IsPrefix(r, r \o s)
         /\ IsPrefix(r \o s, r \o t) <=> IsPrefix(s, t)
         /\ r \o s = r \o t <=> s = t
  <1> DEFINE a == r \o s
             b == r \o t
             n == Len(r)
  <1>1. /\ n \in Nat /\ Len(s) \in Nat /\ Len(t) \in Nat
        /\ a \in Seq(S) /\ Len(a) = n + Len(s)
        /\ b \in Seq(S) /\ Len(b) = n + Len(t)
    BY ConcatProperties
  <1>2. /\ \A i \in 1 .. n : a[i] = r[i] /\ b[i] = r[i]
        /\ \A i \in 1 .. Len(s) : a[n + i] = s[i]
        /\ \A i \in 1 .. Len(t) : b[n + i] = t[i]
    BY <1>1, ConcatProperties
  <1> HIDE DEF a, b, n
  <1>3. IsPrefix(r, a)
    <2>1. Len(r) <= Len(a) /\ \A i \in 1 .. Len(r) : r[i] = a[i]
      BY <1>1, <1>2 DEF n
    <2> QED BY <1>1, <2>1, PrefixMeans
  <1>4. ASSUME IsPrefix(a, b) PROVE IsPrefix(s, t)
    <2>1. a \in Seq(S) /\ b \in Seq(S)
      BY <1>1
    <2>2. Len(a) <= Len(b) /\ \A i \in 1 .. Len(a) : a[i] = b[i]
      BY <1>4, <2>1, PrefixMeans
    <2>3. Len(s) <= Len(t) /\ \A i \in 1 .. Len(s) : n + i \in 1 .. Len(a) /\ i \in 1 .. Len(t)
      BY <1>1, <2>2
    <2>4. \A i \in 1 .. Len(s) : s[i] = t[i]
      BY <1>2, <2>2, <2>3
    <2> QED BY <2>3, <2>4, PrefixMeans
  <1>5. ASSUME IsPrefix(s, t) PROVE IsPrefix(a, b)
    <2>1. Len(s) <= Len(t) /\ \A i \in 1 .. Len(s) : s[i] = t[i]
      BY <1>5, PrefixMeans
    <2>2. ASSUME NEW i \in 1 .. Len(a) PROVE a[i] = b[i]
      <3>1. CASE i <= n
        BY <1>1, <1>2, <3>1
      <3>2. CASE i > n
        <4>1. i - n \in 1 .. Len(s) /\ i - n \in 1 .. Len(t) /\ n + (i - n) = i
          BY <1>1, <2>1, <3>2
        <4> QED BY <1>2, <2>1, <4>1
      <3> QED BY <1>1, <3>1, <3>2
    <2>3. Len(a) <= Len(b)
      BY <1>1, <2>1
    <2> QED BY <1>1, <2>2, <2>3, PrefixMeans
  <1>6. ASSUME a = b PROVE s = t
    <2>1. Len(s) = Len(t)
      BY <1>1, <1>6
    <2>2. \A i \in 1 .. Len(s) : s[i] = t[i]
      BY <1>2, <1>6, <2>1
    <2> QED BY <2>1, <2>2, SeqEqual
  <1> QED BY <1>3, <1>4, <1>5, <1>6 DEF a, b

LEMMA Cancel ==
  \A S : \A r, s, t \in Seq(S) : r \o s = r \o t => s = t
  <1> SUFFICES ASSUME NEW S, NEW r \in Seq(S), NEW s \in Seq(S), NEW t \in Seq(S)
               PROVE  r \o s = r \o t => s = t
    OBVIOUS
  <1>1. r \o s = r \o t <=> s = t
    BY PrefixConcat
  <1> QED BY <1>1

\* What follows a prefix.
LEMMA Remainder ==
  ASSUME NEW S, NEW r \in Seq(S), NEW t \in Seq(S), IsPrefix(r, t)
  PROVE  /\ SubSeq(t, Len(r) + 1, Len(t)) \in Seq(S)
         /\ t = r \o SubSeq(t, Len(r) + 1, Len(t))
  <1> DEFINE n == Len(r)
             u == SubSeq(t, n + 1, Len(t))
             v == r \o u
  <1>1. n \in Nat /\ Len(t) \in Nat /\ n <= Len(t) /\ \A i \in 1 .. n : r[i] = t[i]
    BY PrefixMeans
  <1>2. u \in Seq(S) /\ Len(u) = Len(t) - n /\ \A i \in 1 .. Len(t) - n : u[i] = t[n + i]
    <2>1. \A i \in n + 1 .. Len(t) : t[i] \in S
      BY <1>1, ElementOfSeq
    <2>2. n + 1 \in Int /\ Len(t) \in Int
      BY <1>1
    <2>3. /\ u \in Seq(S) /\ Len(u) = IF n + 1 <= Len(t) THEN Len(t) - (n + 1) + 1 ELSE 0
          /\ \A i \in 1 .. Len(t) - (n + 1) + 1 : u[i] = t[(n + 1) + i - 1]
      BY <2>1, <2>2, SubSeqProperties
    <2>4. Len(t) - (n + 1) + 1 = Len(t) - n /\ (~(n + 1 <= Len(t)) => Len(t) - n = 0)
      BY <1>1
    <2>5. \A i \in 1 .. Len(t) - n : (n + 1) + i - 1 = n + i
      BY <1>1
    <2> HIDE DEF u
    <2> QED BY <2>3, <2>4, <2>5
  <1> HIDE DEF u
  <1>3. /\ v \in Seq(S) /\ Len(v) = Len(t)
        /\ \A i \in 1 .. Len(t) : v[i] = IF i <= n THEN r[i] ELSE u[i - n]
    BY <1>1, <1>2, ConcatProperties
  <1>4. \A i \in 1 .. Len(t) : v[i] = t[i]
    <2> TAKE i \in 1 .. Len(t)
    <2>1. CASE i <= n
      BY <1>1, <1>3, <2>1
    <2>2. CASE i > n
      <3>1. i - n \in 1 .. Len(t) - n /\ n + (i - n) = i
        BY <1>1, <2>2
      <3>2. ~(i <= n)
        BY <1>1, <2>2
      <3> QED BY <1>2, <1>3, <3>1, <3>2
    <2>3. i <= n \/ i > n
      BY <1>1
    <2> QED BY <2>1, <2>2, <2>3
  <1> HIDE DEF v
  <1>5. v = t
    BY <1>3, <1>4, SeqEqual
  <1> QED BY <1>2, <1>5 DEF u, v

-----------------------------------------------------------------------------
(* What is left of a sequence when some elements are dropped.              *)

LessThan == {p \in Nat \X Nat : p[1] < p[2]}

LEMMA LessThanWellFounded == IsWellFoundedOn(LessThan, Nat)
  <1>1. OpToRel(<, Nat) = {p \in Nat \X Nat : p[1] < p[2]}
    BY Zenon DEF OpToRel
  <1> QED BY <1>1, NatLessThanWellFounded, Zenon DEF LessThan

\* The least number: in place of an induction, of which this library's form takes an
\* operator, the smallest counterexample is refuted.
LEMMA Smallest ==
  ASSUME NEW T, T \subseteq Nat, T # {}
  PROVE  \E n \in T : \A m \in T : n <= m
  <1>1. PICK n \in T : \A m \in T : ~(<<m, n>> \in LessThan)
    BY LessThanWellFounded, WFMin, Zenon
  <1>2. ASSUME NEW m \in T PROVE n <= m
    <2>1. n \in Nat /\ m \in Nat
      OBVIOUS
    <2>2. ~(<<m, n>> \in LessThan)
      BY <1>1
    <2> QED BY <2>1, <2>2 DEF LessThan
  <1> QED BY <1>2

Rounds(f, s, dropped, n) ==
    f = [i \in 0 .. n |->
            IF i = 0 THEN <<>>
            ELSE IF s[i] \in dropped THEN f[i - 1] ELSE Append(f[i - 1], s[i])]

\* The recursion of Without has a value at every length.
LEMMA RoundsExist ==
  ASSUME NEW s, NEW dropped, NEW n \in Nat
  PROVE  \E f : Rounds(f, s, dropped, n)
  <1> DEFINE T == {k \in Nat : ~\E f : Rounds(f, s, dropped, k)}
  <1> SUFFICES ASSUME T # {} PROVE FALSE
    OBVIOUS
  <1>1. PICK k \in T : \A m \in T : k <= m
    BY Smallest
  <1>2. CASE k = 0
    <2> DEFINE f == [i \in 0 .. 0 |-> <<>>]
    <2>1. f = [i \in 0 .. 0 |->
            IF i = 0 THEN <<>>
            ELSE IF s[i] \in dropped THEN f[i - 1] ELSE Append(f[i - 1], s[i])]
      OBVIOUS
    <2> HIDE DEF f
    <2>2. Rounds(f, s, dropped, 0)
      BY <2>1 DEF Rounds
    <2> QED BY <1>2, <2>2
  <1>3. CASE k # 0
    <2>1. k - 1 \in Nat /\ ~(k <= k - 1)
      BY <1>3
    <2>2. PICK g : Rounds(g, s, dropped, k - 1)
      BY <1>1, <2>1
    <2> DEFINE f == [i \in 0 .. k |->
            IF i = 0 THEN <<>>
            ELSE IF s[i] \in dropped THEN g[i - 1] ELSE Append(g[i - 1], s[i])]
    <2>3. ASSUME NEW i \in 0 .. k - 1 PROVE f[i] = g[i]
      <3>1. i \in 0 .. k
        BY <2>1
      <3>2. g[i] = IF i = 0 THEN <<>>
                   ELSE IF s[i] \in dropped THEN g[i - 1] ELSE Append(g[i - 1], s[i])
        BY <2>2, Zenon DEF Rounds
      <3> QED BY <3>1, <3>2
    <2>4. f = [i \in 0 .. k |->
            IF i = 0 THEN <<>>
            ELSE IF s[i] \in dropped THEN f[i - 1] ELSE Append(f[i - 1], s[i])]
      <3>1. \A i \in 0 .. k : i # 0 => i - 1 \in 0 .. k - 1
        OBVIOUS
      <3> QED BY <2>3, <3>1
    <2> HIDE DEF f
    <2>5. Rounds(f, s, dropped, k)
      BY <2>4 DEF Rounds
    <2> QED BY <2>5
  <1> QED BY <1>2, <1>3

LEMMA WithoutRounds ==
  ASSUME NEW S, NEW s \in Seq(S), NEW dropped
  PROVE  \E f : Rounds(f, s, dropped, Len(s)) /\ Without(s, dropped) = f[Len(s)]
  <1> DEFINE g == CHOOSE f : Rounds(f, s, dropped, Len(s))
  <1>1. Rounds(g, s, dropped, Len(s))
    BY RoundsExist
  <1>2. Without(s, dropped) = g[Len(s)]
    BY DEF Without, Rounds
  <1> QED BY <1>1, <1>2

\* The shortest of some sequences.
LEMMA Shortest ==
  ASSUME NEW S, NEW T, T \subseteq Seq(S), T # {}
  PROVE  \E t \in T : \A u \in T : Len(t) <= Len(u)
  <1> DEFINE L == {Len(t) : t \in T}
  <1>1. L \subseteq Nat /\ L # {}
    <2>1. \A t \in T : Len(t) \in Nat
      BY LenProperties
    <2> QED BY <2>1
  <1>2. PICK n \in L : \A m \in L : n <= m
    BY <1>1, Smallest
  <1> QED BY <1>2

LEMMA WithoutEmpty ==
  ASSUME NEW dropped
  PROVE  Without(<<>>, dropped) = <<>>
  <1>1. <<>> \in Seq({}) /\ Len(<<>>) = 0 /\ 0 \in 0 .. 0
    OBVIOUS
  <1>2. PICK f : Rounds(f, <<>>, dropped, Len(<<>>))
                 /\ Without(<<>>, dropped) = f[Len(<<>>)]
    BY <1>1, WithoutRounds
  <1> QED BY <1>1, <1>2, Zenon DEF Rounds

\* Two runs of the recursion agree as far as their sequences do.
LEMMA RoundsAgree ==
  ASSUME NEW s, NEW t, NEW dropped, NEW m \in Nat, NEW n \in Nat, m <= n,
         \A i \in 1 .. m : s[i] = t[i],
         NEW f, Rounds(f, s, dropped, m), NEW g, Rounds(g, t, dropped, n)
  PROVE  \A i \in 0 .. m : f[i] = g[i]
  <1> DEFINE T == {i \in 0 .. m : f[i] # g[i]}
  <1> SUFFICES ASSUME T # {} PROVE FALSE
    OBVIOUS
  <1>1. PICK k \in T : \A j \in T : k <= j
    <2>1. T \subseteq Nat
      OBVIOUS
    <2> HIDE DEF T
    <2> QED BY <2>1, Smallest
  <1>2. k \in 0 .. m /\ k \in 0 .. n /\ f[k] # g[k]
    OBVIOUS
  <1>3. /\ f[k] = IF k = 0 THEN <<>>
                  ELSE IF s[k] \in dropped THEN f[k - 1] ELSE Append(f[k - 1], s[k])
        /\ g[k] = IF k = 0 THEN <<>>
                  ELSE IF t[k] \in dropped THEN g[k - 1] ELSE Append(g[k - 1], t[k])
    BY <1>2, Zenon DEF Rounds
  <1>4. k # 0
    BY <1>2, <1>3
  <1>5. f[k - 1] = g[k - 1] /\ s[k] = t[k]
    BY <1>1, <1>2, <1>4
  <1> QED BY <1>2, <1>3, <1>5

\* Without, one element at a time.
LEMMA WithoutAppend ==
  ASSUME NEW S, NEW s \in Seq(S), NEW e \in S, NEW dropped
  PROVE  Without(Append(s, e), dropped) =
            IF e \in dropped THEN Without(s, dropped)
            ELSE Append(Without(s, dropped), e)
  <1> DEFINE t == Append(s, e)
             n == Len(s)
  <1>1. /\ t \in Seq(S) /\ n \in Nat /\ Len(t) = n + 1 /\ t[n + 1] = e
        /\ \A i \in 1 .. n : t[i] = s[i]
    BY AppendProperties
  <1>2. PICK f : Rounds(f, s, dropped, n) /\ Without(s, dropped) = f[n]
    BY WithoutRounds
  <1>3. PICK g : Rounds(g, t, dropped, n + 1) /\ Without(t, dropped) = g[n + 1]
    BY <1>1, WithoutRounds
  <1>4. f[n] = g[n]
    <2>1. \A i \in 1 .. n : s[i] = t[i]
      BY <1>1
    <2>2. n <= n + 1 /\ n + 1 \in Nat /\ n \in 0 .. n
      BY <1>1
    <2> HIDE DEF t, n
    <2>3. \A i \in 0 .. n : f[i] = g[i]
      BY <1>1, <1>2, <1>3, <2>1, <2>2, RoundsAgree
    <2> QED BY <2>2, <2>3
  <1>5. n + 1 \in 0 .. n + 1 /\ n + 1 # 0 /\ (n + 1) - 1 = n
    BY <1>1
  <1>6. g[n + 1] = IF t[n + 1] \in dropped THEN g[(n + 1) - 1]
                   ELSE Append(g[(n + 1) - 1], t[n + 1])
    BY <1>3, <1>5, Zenon DEF Rounds
  <1> QED BY <1>1, <1>2, <1>3, <1>4, <1>5, <1>6

LEMMA WithoutType ==
  ASSUME NEW S, NEW s \in Seq(S), NEW dropped
  PROVE  Without(s, dropped) \in Seq(S \ dropped)
  <1> DEFINE T == {t \in Seq(S) : Without(t, dropped) \notin Seq(S \ dropped)}
  <1> SUFFICES ASSUME T # {} PROVE FALSE
    OBVIOUS
  <1>1. PICK t \in T : \A u \in T : Len(t) <= Len(u)
    <2>1. T \subseteq Seq(S)
      OBVIOUS
    <2> HIDE DEF T
    <2> QED BY <2>1, Shortest
  <1>2. CASE t = <<>>
    <2>1. Without(t, dropped) = <<>> /\ <<>> \in Seq(S \ dropped)
      BY <1>2, WithoutEmpty
    <2> QED BY <2>1
  <1>3. CASE t # <<>>
    <2>1. PICK u \in Seq(S), e \in S : t = Append(u, e)
      BY <1>3, SequenceEmptyOrAppend
    <2>2. Len(t) = Len(u) + 1 /\ Len(u) \in Nat
      BY <2>1, AppendProperties
    <2>3. Without(u, dropped) \in Seq(S \ dropped)
      BY <1>1, <2>2
    <2>4. CASE e \in dropped
      BY <2>1, <2>3, <2>4, WithoutAppend
    <2>5. CASE e \notin dropped
      <3>1. Append(Without(u, dropped), e) \in Seq(S \ dropped)
        BY <2>3, <2>5, AppendProperties
      <3>2. Without(t, dropped) = Append(Without(u, dropped), e)
        BY <2>1, <2>5, WithoutAppend
      <3> QED BY <3>1, <3>2
    <2> QED BY <2>4, <2>5
  <1> QED BY <1>2, <1>3

\* w consists of the elements of s at certain places, in their order, and all
\* elements that are not dropped are among them.
Picks(g, s, w, dropped) ==
    /\ g \in [1 .. Len(w) -> 1 .. Len(s)]
    /\ \A k \in 1 .. Len(w) : w[k] = s[g[k]] /\ w[k] \notin dropped
    /\ \A j, k \in 1 .. Len(w) : j < k => g[j] < g[k]
    /\ \A i \in 1 .. Len(s) : s[i] \notin dropped => \E k \in 1 .. Len(w) : g[k] = i

\* Without keeps what is not dropped, all of it and in its order.
LEMMA WithoutPicks ==
  ASSUME NEW S, NEW s \in Seq(S), NEW dropped
  PROVE  \E g : Picks(g, s, Without(s, dropped), dropped)
  <1> DEFINE T == {t \in Seq(S) : ~\E g : Picks(g, t, Without(t, dropped), dropped)}
  <1> SUFFICES ASSUME T # {} PROVE FALSE
    OBVIOUS
  <1>1. PICK t \in T : \A u \in T : Len(t) <= Len(u)
    <2>1. T \subseteq Seq(S)
      OBVIOUS
    <2> HIDE DEF T
    <2> QED BY <2>1, Shortest
  <1>2. CASE t = <<>>
    <2>1. Without(t, dropped) = <<>> /\ Len(t) = 0 /\ Len(<<>>) = 0 /\ 1 .. 0 = {}
      BY <1>2, WithoutEmpty
    <2> DEFINE g == [k \in {} |-> 1]
    <2>2. g \in [{} -> {}]
      OBVIOUS
    <2> HIDE DEF g
    <2>3. Picks(g, t, <<>>, dropped)
      BY <2>1, <2>2 DEF Picks
    <2>4. Picks(g, t, Without(t, dropped), dropped)
      BY <2>1, <2>3
    <2> QED BY <2>4
  <1>3. CASE t # <<>>
    <2>1. PICK u \in Seq(S), e \in S : t = Append(u, e)
      BY <1>3, SequenceEmptyOrAppend
    <2> DEFINE v == Without(u, dropped)
               w == Without(t, dropped)
               n == Len(v)
    <2>2. /\ Len(t) = Len(u) + 1 /\ Len(u) \in Nat /\ t[Len(u) + 1] = e
          /\ \A i \in 1 .. Len(u) : t[i] = u[i]
      BY <2>1, AppendProperties
    <2>3. PICK g : Picks(g, u, v, dropped)
      BY <1>1, <2>2
    <2>4. v \in Seq(S) /\ n \in Nat
      <3>1. v \in Seq(S \ dropped)
        BY WithoutType
      <3> QED BY <3>1
    <2>5. w = IF e \in dropped THEN v ELSE Append(v, e)
      BY <2>1, WithoutAppend
    <2> HIDE DEF v, w
    <2>6. CASE e \in dropped
      <3>1. w = v
        BY <2>5, <2>6
      <3>2. g \in [1 .. Len(v) -> 1 .. Len(t)]
        BY <2>2, <2>3 DEF Picks
      <3>3. \A k \in 1 .. Len(v) : v[k] = t[g[k]] /\ v[k] \notin dropped
        BY <2>2, <2>3 DEF Picks
      <3>4. \A i \in 1 .. Len(t) : t[i] \notin dropped => \E k \in 1 .. Len(v) : g[k] = i
        <4> TAKE i \in 1 .. Len(t)
        <4>1. CASE i = Len(u) + 1
          BY <2>2, <2>6, <4>1
        <4>2. CASE i # Len(u) + 1
          <5>1. i \in 1 .. Len(u)
            BY <2>2, <4>2
          <5> QED BY <2>2, <2>3, <5>1 DEF Picks
        <4> QED BY <4>1, <4>2
      <3>5. Picks(g, t, v, dropped)
        BY <2>3, <3>2, <3>3, <3>4 DEF Picks
      <3> QED BY <3>1, <3>5 DEF w
    <2>7. CASE e \notin dropped
      <3>1. /\ w = Append(v, e) /\ Len(w) = n + 1 /\ w[n + 1] = e
            /\ \A k \in 1 .. n : w[k] = v[k]
        BY <2>4, <2>5, <2>7, AppendProperties
      <3> DEFINE h == [k \in 1 .. n + 1 |-> IF k = n + 1 THEN Len(u) + 1 ELSE g[k]]
      <3>2. \A k \in 1 .. n + 1 : k # n + 1 => k \in 1 .. n
        BY <2>4
      <3>3. /\ h[n + 1] = Len(u) + 1
            /\ \A k \in 1 .. n : h[k] = g[k] /\ g[k] \in 1 .. Len(u)
        BY <2>3, <2>4 DEF Picks
      <3>4. h \in [1 .. n + 1 -> 1 .. Len(t)]
        <4>1. \A k \in 1 .. n + 1 :
                 (IF k = n + 1 THEN Len(u) + 1 ELSE g[k]) \in 1 .. Len(t)
          <5> TAKE k \in 1 .. n + 1
          <5>1. CASE k = n + 1
            BY <2>2, <5>1
          <5>2. CASE k # n + 1
            <6>1. g[k] \in 1 .. Len(u)
              BY <3>2, <3>3, <5>2
            <6> QED BY <2>2, <5>2, <6>1
          <5> QED BY <5>1, <5>2
        <4> QED BY <4>1
      <3> HIDE DEF h
      <3>5. \A k \in 1 .. n + 1 : w[k] = t[h[k]] /\ w[k] \notin dropped
        <4> TAKE k \in 1 .. n + 1
        <4>1. CASE k = n + 1
          BY <2>2, <2>7, <3>1, <3>3, <4>1
        <4>2. CASE k # n + 1
          <5>1. k \in 1 .. n
            BY <3>2, <4>2
          <5>2. w[k] = v[k] /\ h[k] = g[k] /\ g[k] \in 1 .. Len(u)
            BY <3>1, <3>3, <5>1
          <5>3. v[k] = u[g[k]] /\ v[k] \notin dropped
            BY <2>3, <5>1 DEF Picks
          <5> QED BY <2>2, <5>2, <5>3
        <4> QED BY <4>1, <4>2
      <3>6. \A j, k \in 1 .. n + 1 : j < k => h[j] < h[k]
        <4> TAKE j, k \in 1 .. n + 1
        <4> HAVE j < k
        <4>1. j \in 1 .. n /\ h[j] = g[j] /\ g[j] \in 1 .. Len(u)
          BY <2>4, <3>3
        <4>2. CASE k = n + 1
          BY <2>2, <3>3, <4>1, <4>2
        <4>3. CASE k # n + 1
          BY <2>3, <3>2, <3>3, <4>1, <4>3 DEF Picks
        <4> QED BY <4>2, <4>3
      <3>7. \A i \in 1 .. Len(t) :
               t[i] \notin dropped => \E k \in 1 .. n + 1 : h[k] = i
        <4> TAKE i \in 1 .. Len(t)
        <4> HAVE t[i] \notin dropped
        <4>1. CASE i = Len(u) + 1
          BY <2>4, <3>3, <4>1
        <4>2. CASE i # Len(u) + 1
          <5>1. i \in 1 .. Len(u)
            BY <2>2, <4>2
          <5>2. PICK k \in 1 .. n : g[k] = i
            BY <2>2, <2>3, <5>1 DEF Picks
          <5>3. k \in 1 .. n + 1 /\ h[k] = i
            BY <2>4, <3>3, <5>2
          <5> QED BY <5>3
        <4> QED BY <4>1, <4>2
      <3>8. Picks(h, t, w, dropped)
        BY <3>1, <3>4, <3>5, <3>6, <3>7 DEF Picks
      <3> QED BY <3>8 DEF w
    <2> QED BY <2>6, <2>7
  <1> QED BY <1>2, <1>3

\* Nothing is dropped from a sequence without such elements.
LEMMA WithoutNone ==
  ASSUME NEW S, NEW dropped, S \cap dropped = {}, NEW s \in Seq(S)
  PROVE  Without(s, dropped) = s
  <1> DEFINE T == {t \in Seq(S) : Without(t, dropped) # t}
  <1> SUFFICES ASSUME T # {} PROVE FALSE
    OBVIOUS
  <1>1. PICK t \in T : \A u \in T : Len(t) <= Len(u)
    <2>1. T \subseteq Seq(S)
      OBVIOUS
    <2> HIDE DEF T
    <2> QED BY <2>1, Shortest
  <1>2. CASE t = <<>>
    BY <1>2, WithoutEmpty
  <1>3. CASE t # <<>>
    <2>1. PICK u \in Seq(S), e \in S : t = Append(u, e)
      BY <1>3, SequenceEmptyOrAppend
    <2>2. Len(t) = Len(u) + 1 /\ Len(u) \in Nat
      BY <2>1, AppendProperties
    <2>3. Without(u, dropped) = u
      BY <1>1, <2>2
    <2> QED BY <2>1, <2>3, WithoutAppend
  <1> QED BY <1>2, <1>3

LEMMA ConcatAppend ==
  \A S : \A a, b \in Seq(S), e \in S :
     a \o b \in Seq(S) /\ a \o Append(b, e) = Append(a \o b, e)
  <1> SUFFICES ASSUME NEW S, NEW a \in Seq(S), NEW b \in Seq(S), NEW e \in S
               PROVE  a \o b \in Seq(S) /\ a \o Append(b, e) = Append(a \o b, e)
    OBVIOUS
  <1>1. <<e>> \in Seq(S) /\ a \o b \in Seq(S)
    BY ConcatProperties
  <1>2. Append(b, e) = b \o <<e>>
    BY AppendIsConcat
  <1>3. Append(a \o b, e) = (a \o b) \o <<e>>
    BY <1>1, AppendIsConcat
  <1>4. (a \o b) \o <<e>> = a \o (b \o <<e>>)
    BY <1>1, ConcatAssociative
  <1> QED BY <1>1, <1>2, <1>3, <1>4

\* Without, one part after the other.
LEMMA WithoutConcat ==
  ASSUME NEW S, NEW s \in Seq(S), NEW t \in Seq(S), NEW dropped
  PROVE  Without(s \o t, dropped) = Without(s, dropped) \o Without(t, dropped)
  <1>1. \A a, b \in Seq(S), e \in S :
           a \o b \in Seq(S) /\ a \o Append(b, e) = Append(a \o b, e)
    BY ONLY ConcatAppend
  <1>2. \A a \in Seq(S), e \in S :
           Without(Append(a, e), dropped) = IF e \in dropped THEN Without(a, dropped)
                                            ELSE Append(Without(a, dropped), e)
    BY ONLY WithoutAppend
  <1> DEFINE T == {u \in Seq(S) :
                    Without(s \o u, dropped) # Without(s, dropped) \o Without(u, dropped)}
  <1> SUFFICES ASSUME T # {} PROVE FALSE
    OBVIOUS
  <1>3. PICK u \in T : \A v \in T : Len(u) <= Len(v)
    <2>1. T \subseteq Seq(S)
      OBVIOUS
    <2> HIDE DEF T
    <2> QED BY <2>1, Shortest
  <1>4. Without(s, dropped) \in Seq(S)
    <2>1. Without(s, dropped) \in Seq(S \ dropped)
      BY WithoutType
    <2> QED BY <2>1
  <1>5. CASE u = <<>>
    <2>1. s \o u = s /\ Without(s, dropped) \o <<>> = Without(s, dropped)
      BY <1>4, <1>5, ConcatEmptySeq
    <2> QED BY <1>5, <2>1, WithoutEmpty
  <1>6. CASE u # <<>>
    <2>1. PICK v \in Seq(S), e \in S : u = Append(v, e)
      BY <1>6, SequenceEmptyOrAppend
    <2>2. Len(u) = Len(v) + 1 /\ Len(v) \in Nat
      BY <2>1, AppendProperties
    <2>3. Without(s \o v, dropped) = Without(s, dropped) \o Without(v, dropped)
      <3>1. v \notin T
        <4>1. ~(Len(u) <= Len(v))
          BY <2>2
        <4> QED BY <1>3, <4>1
      <3> QED BY <2>1, <3>1
    <2>4. Without(v, dropped) \in Seq(S)
      <3>1. Without(v, dropped) \in Seq(S \ dropped)
        BY WithoutType
      <3> QED BY <3>1
    <2>5. Without(s \o u, dropped) = IF e \in dropped THEN Without(s \o v, dropped)
                                     ELSE Append(Without(s \o v, dropped), e)
      <3>1. s \o u = Append(s \o v, e) /\ s \o v \in Seq(S)
        BY <1>1, <2>1
      <3> QED BY <1>2, <3>1
    <2>6. Without(u, dropped) = IF e \in dropped THEN Without(v, dropped)
                                ELSE Append(Without(v, dropped), e)
      BY <2>1, WithoutAppend
    <2>7. Without(s, dropped) \o Append(Without(v, dropped), e)
             = Append(Without(s, dropped) \o Without(v, dropped), e)
      BY <1>4, <1>1, <2>4
    <2>8. Without(s \o u, dropped) = Without(s, dropped) \o Without(u, dropped)
      BY <2>3, <2>5, <2>6, <2>7
    <2> QED BY <2>8
  <1> QED BY <1>5, <1>6

-----------------------------------------------------------------------------
(* Paths and root URLs.                                                    *)

\* The names are the elements of NameOrder, and nothing that the rules treat apart.
LEMMA NamesAreStrings ==
  /\ Names \subseteq STRING \ {"", ".", "..", "sites", "teams", "Forms", "AllItems.aspx"}
  /\ \A n \in Names : \E i \in DOMAIN NameOrder : NameOrder[i] = n
  /\ \A i \in DOMAIN NameOrder : NameOrder[i] \in Names
  /\ NameOrder \in Seq(Names)
  <1>1. \A i \in 1 .. Len(NameOrder) : NameOrder[i] \in STRING
    BY NameAssumption, ElementOfSeq
  <1>2. DOMAIN NameOrder = 1 .. Len(NameOrder) /\ Len(NameOrder) \in Nat
    BY NameAssumption, LenProperties
  <1>3. Names = {NameOrder[i] : i \in DOMAIN NameOrder}
    BY DEF Names, ToSet
  <1>4. Names \cap {"", ".", "..", "sites", "teams", "Forms", "AllItems.aspx"} = {}
    BY NameAssumption
  <1>5. Names \subseteq STRING
    BY <1>1, <1>2, <1>3
  <1>6. NameOrder \in Seq(Names)
    <2>1. \A i \in 1 .. Len(NameOrder) : NameOrder[i] \in Names
      BY <1>2, <1>3
    <2>2. NameOrder \in [1 .. Len(NameOrder) -> Names]
      BY <1>2, <2>1, NameAssumption, LenProperties
    <2> QED BY <1>2, <2>2, SeqDef
  <1> QED BY <1>3, <1>4, <1>5, <1>6

\* What split_path lets through are names, one for each folder it goes down.
THEOREM AllowedAreNames ==
  ASSUME NEW path \in Seq(STRING), IsAllowed(path)
  PROVE  split_path(path) \in Seq(Names)
  <1> DEFINE S == Names \cup {"", "."}
  <1>1. path \in Seq(S)
    <2>1. Len(path) \in Nat /\ DOMAIN path = 1 .. Len(path) /\ path \in [1 .. Len(path) -> STRING]
      BY LenProperties
    <2>2. \A i \in 1 .. Len(path) : path[i] \in S
      BY <2>1 DEF IsAllowed, ToSet
    <2> HIDE DEF S
    <2>3. path \in [1 .. Len(path) -> S]
      BY <2>1, <2>2
    <2> QED BY <2>1, <2>3, SeqDef
  <1>2. split_path(path) \in Seq(S \ {"", "."})
    BY <1>1, WithoutType DEF split_path
  <1>3. S \ {"", "."} = Names
    BY NamesAreStrings
  <1> QED BY <1>2, <1>3

Placing(f, s, n) ==
    f = [i \in 0 .. n |->
            IF i = 0 THEN <<>>
            ELSE IF s[i] # ".." THEN Append(f[i - 1], s[i])
            ELSE IF f[i - 1] = <<>> THEN <<>> ELSE Front(f[i - 1])]

\* The recursion of Addressed only appends, as long as it meets no "..".
LEMMA PlacingStays ==
  ASSUME NEW S, NEW s \in Seq(S), ".." \notin S, NEW f, Placing(f, s, Len(s))
  PROVE  \A i \in 0 .. Len(s) : f[i] = SubSeq(s, 1, i)
  <1> DEFINE T == {i \in 0 .. Len(s) : f[i] # SubSeq(s, 1, i)}
  <1> SUFFICES ASSUME T # {} PROVE FALSE
    OBVIOUS
  <1>1. PICK k \in T : \A j \in T : k <= j
    <2>1. T \subseteq Nat
      OBVIOUS
    <2> HIDE DEF T
    <2> QED BY <2>1, Smallest
  <1>2. k \in 0 .. Len(s) /\ f[k] # SubSeq(s, 1, k) /\ Len(s) \in Nat
    OBVIOUS
  <1>3. f[k] = IF k = 0 THEN <<>>
               ELSE IF s[k] # ".." THEN Append(f[k - 1], s[k])
               ELSE IF f[k - 1] = <<>> THEN <<>> ELSE Front(f[k - 1])
    BY <1>2, Zenon DEF Placing
  <1>4. k # 0
    <2>1. SubSeq(s, 1, 0) = <<>>
      BY SubSeqEmpty
    <2> QED BY <1>2, <1>3, <2>1
  <1>5. f[k - 1] = SubSeq(s, 1, k - 1) /\ k - 1 \in 0 .. Len(s) /\ k \in 1 .. Len(s)
    BY <1>1, <1>2, <1>4
  <1>6. s[k] \in S /\ s[k] # ".."
    BY <1>5, ElementOfSeq
  <1>7. f[k] = Append(SubSeq(s, 1, k - 1), s[k])
    BY <1>3, <1>4, <1>5, <1>6
  <1>8. SubSeq(s, 1, k) = Append(SubSeq(s, 1, k - 1), s[k])
    <2>1. 1 \in 1 .. Len(s) /\ k \in 1 .. Len(s)
      BY <1>5
    <2>2. SubSeq(s, 1, k) = SubSeq(s, 1, k - 1) \o <<s[k]>>
      BY <2>1, SubSeqRecursiveSecond
    <2>3. \A i \in 1 .. k - 1 : s[i] \in S
      BY <1>5, ElementOfSeq
    <2>4. SubSeq(s, 1, k - 1) \in Seq(S)
      BY <1>5, <2>3, SubSeqProperties
    <2>5. Append(SubSeq(s, 1, k - 1), s[k]) = SubSeq(s, 1, k - 1) \o <<s[k]>>
      BY <1>6, <2>4, AppendIsConcat
    <2> QED BY <2>2, <2>5
  <1> QED BY <1>2, <1>7, <1>8

\* Without "..", the item addressed is the one that the segments name.
LEMMA AddressedAsNamed ==
  ASSUME NEW s \in Seq(Names)
  PROVE  Addressed(s) = s
  <1> DEFINE n == Len(s)
             g == [i \in 0 .. n |-> SubSeq(s, 1, i)]
             c == CHOOSE f : Placing(f, s, n)
  <1>1. n \in Nat /\ ".." \notin Names /\ \A i \in 1 .. n : s[i] \in Names
    <2>1. n \in Nat /\ \A i \in 1 .. n : s[i] \in Names
      BY ElementOfSeq
    <2>2. ".." \notin Names
      BY NamesAreStrings
    <2> QED BY <2>1, <2>2
  <1>2. Placing(g, s, n)
    <2>1. ASSUME NEW i \in 0 .. n
          PROVE  SubSeq(s, 1, i) =
                    IF i = 0 THEN <<>>
                    ELSE IF s[i] # ".." THEN Append(g[i - 1], s[i])
                    ELSE IF g[i - 1] = <<>> THEN <<>> ELSE Front(g[i - 1])
      <3>1. CASE i = 0
        BY <3>1, SubSeqEmpty
      <3>2. CASE i # 0
        <4>1. i \in 1 .. n /\ 1 \in 1 .. n /\ i - 1 \in 0 .. n
          BY <1>1, <3>2
        <4>2. SubSeq(s, 1, i) = SubSeq(s, 1, i - 1) \o <<s[i]>>
          BY <4>1, SubSeqRecursiveSecond
        <4>3. SubSeq(s, 1, i - 1) \in Seq(Names)
          <5>1. \A j \in 1 .. i - 1 : s[j] \in Names
            BY <1>1, <4>1
          <5> QED BY <4>1, <5>1, SubSeqProperties
        <4>4. s[i] \in Names /\ s[i] # ".."
          BY <1>1, <4>1
        <4>5. Append(SubSeq(s, 1, i - 1), s[i]) = SubSeq(s, 1, i - 1) \o <<s[i]>>
          BY <4>3, <4>4, AppendIsConcat
        <4>6. g[i - 1] = SubSeq(s, 1, i - 1)
          BY <4>1
        <4> HIDE DEF g
        <4> QED BY <3>2, <4>2, <4>4, <4>5, <4>6
      <3> QED BY <3>1, <3>2
    <2>2. g = [i \in 0 .. n |->
                 IF i = 0 THEN <<>>
                 ELSE IF s[i] # ".." THEN Append(g[i - 1], s[i])
                 ELSE IF g[i - 1] = <<>> THEN <<>> ELSE Front(g[i - 1])]
      BY <2>1
    <2> HIDE DEF g
    <2> QED BY <2>2 DEF Placing
  <1> HIDE DEF g
  <1>3. Placing(c, s, n)
    BY <1>2
  <1>4. Addressed(s) = c[n]
    BY DEF Addressed, Placing
  <1> HIDE DEF c
  <1>5. c[n] = SubSeq(s, 1, n)
    BY <1>1, <1>3, PlacingStays
  <1>6. SubSeq(s, 1, n) = s
    BY SubSeqFull
  <1> QED BY <1>4, <1>5, <1>6

\* What stands between slashes; the provers do not know that these are strings.
Text == STRING \cup {"", "Forms", "AllItems.aspx"}

Segments == Text \ {""}

LEMMA TextSequences ==
  ASSUME NEW a \in Seq(Segments)
  PROVE  a \in Seq(Text)
  <1>1. Segments \subseteq Text
    BY Zenon DEF Segments
  <1> QED BY <1>1, SeqMonotonic

LEMMA WithoutFromText ==
  ASSUME NEW dropped
  PROVE  \A s, t \in Seq(Text) :
            /\ s \o t \in Seq(Text)
            /\ Without(s \o t, dropped) = Without(s, dropped) \o Without(t, dropped)
  BY WithoutConcat, ConcatProperties

LEMMA Singleton ==
  ASSUME NEW S, NEW e \in S
  PROVE  <<e>> \in Seq(S) /\ Append(<<>>, e) = <<e>> /\ <<>> \in Seq(S)
  <1>1. <<e>> \in Seq(S) /\ <<>> \in Seq(S)
    OBVIOUS
  <1>2. Append(<<>>, e) = <<>> \o <<e>>
    BY <1>1, AppendIsConcat
  <1> QED BY <1>1, <1>2, ConcatEmptySeq

\* Of a URL, the slashes around and between its parts go.
LEMMA StripSlashes ==
  ASSUME NEW a \in Seq(Segments), NEW b \in Seq(Segments)
  PROVE  /\ <<"">> \o a \o b \in Seq(Text)
         /\ Without(<<"">> \o a \o b, {""}) = a \o b
  <1> DEFINE blank == ""
             empty == <<blank>>
             slashes == {""}
             c == empty \o a
  <1>1. blank \in Text /\ blank \in slashes /\ Segments \cap slashes = {}
    BY DEF Segments, Text
  <1> HIDE DEF blank, slashes
  <1>2. empty \in Seq(Text) /\ Append(<<>>, blank) = empty /\ <<>> \in Seq(Text)
    BY <1>1, Singleton
  <1>3. a \in Seq(Text) /\ b \in Seq(Text)
    BY TextSequences
  <1> HIDE DEF empty
  <1>4. Without(a, slashes) = a /\ Without(b, slashes) = b
    BY <1>1, WithoutNone
  <1>5. Without(empty, slashes) = <<>>
    <2>1. Without(Append(<<>>, blank), slashes) = Without(<<>>, slashes)
      BY <1>1, <1>2, WithoutAppend
    <2> QED BY <1>2, <2>1, WithoutEmpty
  <1>6. c \in Seq(Text) /\ Without(c, slashes) = a
    <2>1. c \in Seq(Text) /\ Without(c, slashes) = Without(empty, slashes) \o Without(a, slashes)
      BY <1>2, <1>3, WithoutFromText
    <2>2. <<>> \o a = a
      BY <1>3, ConcatEmptySeq
    <2> QED BY <1>4, <1>5, <2>1, <2>2
  <1> HIDE DEF c
  <1>7. /\ c \o b \in Seq(Text)
        /\ Without(c \o b, slashes) = Without(c, slashes) \o Without(b, slashes)
    BY <1>3, <1>6, WithoutFromText
  <1>8. Without(c \o b, slashes) = a \o b
    BY <1>4, <1>6, <1>7
  <1> QED BY <1>7, <1>8 DEF c, empty, blank, slashes

\* A site has the two parts that SiteOf takes, or none.
LEMMA SiteShape ==
  ASSUME NEW site \in Seq(STRING), IsSite(site)
  PROVE  /\ site \in Seq(Segments)
         /\ site # <<>> => /\ Len(site) = 2 /\ Head(site) \in {"sites", "teams"}
                           /\ site[1] = Head(site)
  <1>1. CASE site = <<>>
    BY <1>1
  <1>2. CASE site # <<>>
    <2>1. Len(site) = 2 /\ Head(site) \in {"sites", "teams"} /\ site[2] # ""
      BY <1>2 DEF IsSite
    <2>2. site[1] = Head(site) /\ DOMAIN site = 1 .. 2 /\ site \in [1 .. 2 -> STRING]
      <3>1. site \in [1 .. Len(site) -> STRING]
        BY LenProperties
      <3>2. site \in [1 .. 2 -> STRING]
        BY <2>1, <3>1
      <3>3. site[1] = Head(site)
        OBVIOUS
      <3>4. DOMAIN site = 1 .. 2
        BY <3>2
      <3> QED BY <3>2, <3>3, <3>4
    <2>3. site[1] \in STRING /\ site[2] \in STRING
      BY <2>2
    <2>4. site[1] # ""
      BY <2>1, <2>2
    <2>5. \A x \in STRING : x # "" => x \in Segments
      BY DEF Segments, Text
    <2>6. site[1] \in Segments /\ site[2] \in Segments
      BY <2>1, <2>3, <2>4, <2>5
    <2>7. \A i \in 1 .. 2 : site[i] \in Segments
      BY <2>6
    <2>8. site \in [1 .. 2 -> Segments]
      BY <2>2, <2>7
    <2>9. site \in Seq(Segments)
      BY <2>8, SeqDef
    <2> QED BY <2>1, <2>2, <2>9
  <1> QED BY <1>1, <1>2

\* The parts of a server path: its site, and the rest from the library on.
LEMMA ServerPathParts ==
  ASSUME NEW site \in Seq(Segments), NEW rest \in Seq(Segments), NEW url,
         site # <<>> => Len(site) = 2 /\ Head(site) \in {"sites", "teams"},
         ServerPath(url) = site \o rest,
         site = <<>> /\ rest # <<>> => Head(rest) \notin {"sites", "teams"}
  PROVE  /\ IsRootUrl(url) /\ SiteOf(url) = site
         /\ InLibrary(url) = IF Len(rest) >= 2 /\ rest[2] = "Forms" THEN <<rest[1]>> ELSE rest
  <1> DEFINE sp == ServerPath(url)
             m == Len(site)
             part == SubSeq(sp, m + 1, Len(sp))
  <1>2. /\ m \in Nat /\ Len(rest) \in Nat /\ sp \in Seq(Segments) /\ Len(sp) = m + Len(rest)
        /\ \A i \in 1 .. m : sp[i] = site[i]
    BY ConcatProperties
  <1>3. part = rest
    <2>1. IsPrefix(site, sp)
      BY PrefixConcat
    <2>2. part \in Seq(Segments) /\ sp = site \o part
      BY <1>2, <2>1, Remainder
    <2>3. site \o part = site \o rest
      BY <2>2
    <2> HIDE DEF part, sp
    <2>4. part \in Seq(Segments)
      BY <2>2
    <2> QED BY <2>3, <2>4, Cancel
  <1>4. InSite(url) <=> site # <<>>
    <2>1. CASE site = <<>>
      <3>1. sp = rest
        BY <2>1, ConcatEmptySeq
      <3> QED BY <2>1, <3>1 DEF InSite
    <2>2. CASE site # <<>>
      <3>1. Head(site) \in {"sites", "teams"} /\ site[1] = Head(site) /\ m = 2
        BY <2>2
      <3>2. sp[1] = site[1] /\ Len(sp) >= 2
        BY <1>2, <3>1
      <3>3. sp # <<>> /\ Head(sp) = sp[1]
        BY <1>2, <3>2
      <3> QED BY <2>2, <3>1, <3>2, <3>3 DEF InSite
    <2> QED BY <2>1, <2>2
  <1>5. IsRootUrl(url)
    <2>1. site # <<>> => Len(sp) >= 2
      BY <1>2
    <2> QED BY <1>4, <2>1 DEF IsRootUrl
  <1>6. SiteOf(url) = site
    <2>1. CASE site = <<>>
      BY <1>4, <2>1 DEF SiteOf
    <2>2. CASE site # <<>>
      <3>1. m = 2 /\ 1 \in 1 .. m /\ m \in 1 .. m
        BY <2>2
      <3>2. SubSeq(site \o rest, 1, m) = SubSeq(site, 1, m)
        BY <3>1, SubSeqOfConcat1
      <3>3. SubSeq(site, 1, m) = site
        BY SubSeqFull
      <3> QED BY <1>4, <2>2, <3>1, <3>2, <3>3 DEF SiteOf
    <2> QED BY <2>1, <2>2
  <1>7. InLibrary(url) = IF Len(part) >= 2 /\ part[2] = "Forms" THEN <<part[1]>> ELSE part
    BY <1>6 DEF InLibrary
  <1> HIDE DEF part
  <1> QED BY <1>3, <1>5, <1>6, <1>7

LEMMA NamesAreSegments ==
  \A n \in Names : n \in Segments /\ n \notin {"sites", "teams"} /\ n # "Forms"
  <1> SUFFICES ASSUME NEW n \in Names
               PROVE  n \in Segments /\ n \notin {"sites", "teams"} /\ n # "Forms"
    OBVIOUS
  <1>1. n \in STRING
    BY NamesAreStrings
  <1>2. n # "" /\ n # "Forms" /\ n \notin {"sites", "teams"}
    BY NamesAreStrings
  <1> QED BY <1>1, <1>2 DEF Segments, Text

\* A folder, as it is told from the rest of a server path.
Means(rest, folder) ==
    \/ rest = folder
    \/ rest = <<folder[1], "Forms", "AllItems.aspx">> /\ Len(folder) = 1
    \/ rest = <<>> /\ folder = <<DefaultLibrary>>

\* From either form of what follows the site, the folder is understood.
LEMMA FolderUnderstood ==
  ASSUME NEW site \in Seq(Segments), NEW folder \in Seq(Names), NEW rest, NEW url,
         folder # <<>>, site # <<>> => Len(site) = 2 /\ Head(site) \in {"sites", "teams"},
         ServerPath(url) = site \o rest, Means(rest, folder)
  PROVE  IsRootUrl(url) /\ SiteOf(url) = site /\ RootOf(url) = folder
  <1> DEFINE first == folder[1]
             view == <<first, "Forms", "AllItems.aspx">>
  <1>1. Len(folder) \in Nat \ {0} /\ Head(folder) = first /\ first \in Names
    BY ElementOfSeq
  <1>2. first \in Segments /\ first \notin {"sites", "teams"}
    BY <1>1, NamesAreSegments
  <1>3. folder \in Seq(Segments)
    <2>1. Names \subseteq Segments
      BY NamesAreSegments
    <2> QED BY <2>1, SeqMonotonic
  <1>4. view \in Seq(Segments) /\ Len(view) = 3 /\ Head(view) = first
    <2>1. "Forms" \in Segments /\ "AllItems.aspx" \in Segments
      BY DEF Segments, Text
    <2> QED BY <1>2, <2>1
  <1>5. rest \in Seq(Segments) /\ (rest # <<>> => Head(rest) \notin {"sites", "teams"})
    <2>1. CASE rest = folder
      BY <1>1, <1>2, <1>3, <2>1
    <2>2. CASE rest = view
      <3> HIDE DEF view
      <3> QED BY <1>2, <1>4, <2>2
    <2>3. CASE rest = <<>>
      BY <2>3
    <2> QED BY <2>1, <2>2, <2>3 DEF Means
  <1>6. /\ IsRootUrl(url) /\ SiteOf(url) = site
        /\ InLibrary(url) = IF Len(rest) >= 2 /\ rest[2] = "Forms" THEN <<rest[1]>> ELSE rest
    BY <1>5, ServerPathParts
  <1>7. CASE rest = folder
    <2>1. Len(folder) >= 2 => folder[2] # "Forms"
      BY <1>1, ElementOfSeq, NamesAreSegments
    <2>2. InLibrary(url) = folder
      BY <1>6, <1>7, <2>1
    <2> QED BY <1>6, <2>2 DEF RootOf
  <1>8. CASE rest = view /\ Len(folder) = 1
    <2>1. rest[1] = first /\ rest[2] = "Forms" /\ Len(rest) >= 2
      BY <1>8
    <2>2. InLibrary(url) = <<first>>
      BY <1>6, <2>1
    <2>3. <<first>> = folder
      <3> DEFINE only == <<first>>
      <3>1. only \in Seq(Names) /\ Len(only) = 1 /\ only[1] = folder[1]
        BY <1>1
      <3>2. \A i \in 1 .. Len(only) : only[i] = folder[i]
        BY <3>1
      <3> HIDE DEF only
      <3>3. only = folder
        BY <1>8, <3>1, <3>2, SeqEqual
      <3> QED BY <3>3 DEF only
    <2> QED BY <1>6, <2>2, <2>3 DEF RootOf
  <1>9. CASE rest = <<>> /\ folder = <<DefaultLibrary>>
    <2>1. InLibrary(url) = <<>>
      BY <1>6, <1>9
    <2> QED BY <1>6, <1>9, <2>1 DEF RootOf
  <1> QED BY <1>7, <1>8, <1>9 DEF Means

\* parse_root_url: in whichever of its forms a folder is given, the site and the folder
\* that the client goes on to use are those that were meant.
THEOREM RootUrlUnderstood ==
  ASSUME NEW site \in Seq(STRING), IsSite(site), NEW folder \in Seq(Names), folder # <<>>,
         NEW url \in UrlsOf(site, folder)
  PROVE  IsRootUrl(url) /\ SiteOf(url) = site /\ RootOf(url) = folder
  <1> DEFINE view == <<folder[1], "Forms", "AllItems.aspx">>
             place == <<"">> \o site \o folder
             Understood == IsRootUrl(url) /\ SiteOf(url) = site /\ RootOf(url) = folder
  <1>1. /\ site \in Seq(Segments)
        /\ site # <<>> => Len(site) = 2 /\ Head(site) \in {"sites", "teams"}
    BY SiteShape
  <1>2. \A n \in Names : n \in Segments
    BY NamesAreSegments
  <1>3. folder \in Seq(Segments) /\ folder[1] \in Segments
    <2>1. folder[1] \in Names
      BY ElementOfSeq, LenProperties
    <2> QED BY <1>2, <2>1, SeqMonotonic
  <1>4. view \in Seq(Segments) /\ <<>> \in Seq(Segments)
    <2>1. "Forms" \in Segments /\ "AllItems.aspx" \in Segments
      BY DEF Segments, Text
    <2> QED BY <1>3, <2>1
  <1> HIDE DEF view
  <1>5. place \in Seq(Text) /\ Without(place, {""}) = site \o folder
    BY <1>1, <1>3, StripSlashes
  <1> HIDE DEF place
  <1>6. ASSUME ServerPath(url) = site \o folder PROVE Understood
    <2>1. Means(folder, folder)
      BY DEF Means
    <2> QED BY <1>1, <1>6, <2>1, FolderUnderstood
  <1>7. CASE url = [path |-> place, id |-> <<>>]
    <2>1. ServerPath(url) = site \o folder
      BY <1>5, <1>7 DEF ServerPath
    <2> QED BY <1>6, <2>1
  <1>8. CASE url = [path |-> Append(place, ""), id |-> <<>>]
    <2>1. Without(Append(place, ""), {""}) = Without(place, {""})
      <3> DEFINE blank == ""
                 slashes == {""}
      <3>1. blank \in Text /\ blank \in slashes
        BY DEF Text
      <3> HIDE DEF blank, slashes
      <3>2. Without(Append(place, blank), slashes) = Without(place, slashes)
        BY <1>5, <3>1, WithoutAppend
      <3> QED BY <3>2 DEF blank, slashes
    <2>2. ServerPath(url) = site \o folder
      BY <1>5, <1>8, <2>1 DEF ServerPath
    <2> QED BY <1>6, <2>2
  <1>9. CASE url = [path |-> <<"">> \o site \o view, id |-> place]
    <2>1. place # <<>>
      <3>1. Len(site \o folder) # 0
        BY <1>1, <1>3, ConcatProperties
      <3>2. site \o folder # <<>>
        BY <3>1
      <3> QED BY <1>5, <3>2, WithoutEmpty
    <2>2. ServerPath(url) = site \o folder
      BY <1>5, <1>9, <2>1 DEF ServerPath
    <2> QED BY <1>6, <2>2
  <1>10. CASE url = [path |-> <<"">> \o site \o view, id |-> <<>>] /\ Len(folder) = 1
    <2>1. Without(<<"">> \o site \o view, {""}) = site \o view
      BY <1>1, <1>4, StripSlashes
    <2>2. ServerPath(url) = site \o view
      BY <1>10, <2>1 DEF ServerPath
    <2>3. Means(view, folder)
      BY <1>10 DEF Means, view
    <2> QED BY <1>1, <2>2, <2>3, FolderUnderstood
  <1>11. CASE url = [path |-> <<"">> \o site, id |-> <<>>] /\ folder = <<DefaultLibrary>>
    <2>1. Without(<<"">> \o site \o <<>>, {""}) = site \o <<>>
      BY <1>1, <1>4, StripSlashes
    <2>2. <<"">> \o site \o <<>> = <<"">> \o site
      <3> DEFINE start == <<"">>
      <3>1. start \in Seq(Text) /\ site \in Seq(Text)
        <4>1. "" \in Text
          BY DEF Text
        <4> QED BY <1>1, <4>1, Singleton, TextSequences
      <3> HIDE DEF start
      <3>2. start \o site \in Seq(Text)
        BY <3>1, ConcatProperties
      <3>3. start \o site \o <<>> = start \o site
        BY <3>2, ConcatEmptySeq
      <3> QED BY <3>3 DEF start
    <2>3. ServerPath(url) = site \o <<>>
      BY <1>11, <2>1, <2>2 DEF ServerPath
    <2> DEFINE rest == <<>>
    <2>4. ServerPath(url) = site \o rest /\ Means(rest, folder)
      BY <1>11, <2>3 DEF Means
    <2> HIDE DEF rest
    <2> QED BY <1>1, <2>4, FolderUnderstood
  <1> QED BY <1>7, <1>8, <1>9, <1>10, <1>11 DEF UrlsOf, place, view

\* And a URL that names nothing in the site is not taken for one that does.
THEOREM OtherUrlRefused ==
  ASSUME NEW site \in Seq(STRING), IsSite(site), NEW url \in [path: Seq(STRING), id: Seq(STRING)],
         ~IsPrefix(site, ServerPath(url)) \/ (site = <<>> /\ InSite(url))
  PROVE  ~(IsRootUrl(url) /\ SiteOf(url) = site)
  <1> SUFFICES ASSUME IsRootUrl(url), SiteOf(url) = site PROVE FALSE
    OBVIOUS
  <1> DEFINE sp == ServerPath(url)
  <1>1. sp \in Seq(STRING)
    <2>1. url.path \in Seq(STRING) /\ url.id \in Seq(STRING)
      OBVIOUS
    <2>2. \A s \in Seq(STRING) : Without(s, {""}) \in Seq(STRING \ {""})
      BY WithoutType
    <2>3. \A s \in Seq(STRING \ {""}) : s \in Seq(STRING)
      BY SeqMonotonic
    <2> QED BY <2>1, <2>2, <2>3 DEF ServerPath
  <1> HIDE DEF sp
  <1>2. CASE InSite(url)
    <2>1. Len(sp) \in Nat /\ Len(sp) >= 2 /\ site = SubSeq(sp, 1, 2)
      BY <1>1, <1>2 DEF IsRootUrl, SiteOf, sp
    <2>2. Len(site) = 2
      BY <1>1, <2>1
    <2>3. site # <<>> /\ SubSeq(site, 1, Len(site)) = SubSeq(sp, 1, Len(site))
      <3>1. site \in Seq(Segments)
        BY SiteShape
      <3>2. SubSeq(site, 1, Len(site)) = site
        BY <3>1, SubSeqFull
      <3> QED BY <2>1, <2>2, <3>2
    <2> QED BY <2>1, <2>2, <2>3 DEF IsPrefix, sp
  <1>3. CASE ~InSite(url)
    <2>1. site = <<>>
      BY <1>3 DEF SiteOf
    <2>2. Len(site) = 0 /\ Len(sp) \in Nat
      BY <1>1, <2>1
    <2>3. SubSeq(site, 1, 0) = <<>> /\ SubSeq(sp, 1, 0) = <<>>
      BY SubSeqEmpty
    <2> QED BY <1>3, <2>1, <2>2, <2>3 DEF IsPrefix, sp
  <1> QED BY <1>2, <1>3
=============================================================================
