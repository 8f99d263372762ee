---------------------------- MODULE PathsProofs ----------------------------
(***************************************************************************)
(* The spellings of a path, for any base paths, names and depth.           *)
(*                                                                         *)
(* Names are put together component by component.  The first part shows    *)
(* what the recursive functions that do so compute: both follow the same   *)
(* components, so the name nftw() reports is the base path without its     *)
(* separators, and then each component with a separator before it.         *)
(***************************************************************************)
EXTENDS Paths, SequenceTheorems, FiniteSetTheorems, WellFoundedInduction, TLAPS

LEMMA LeastNumber ==
  ASSUME NEW S \in SUBSET Nat, S # {}
  PROVE  \E k \in S : \A m \in S : k <= m
<1> DEFINE R == OpToRel(<, Nat)
<1>1. IsWellFoundedOn(R, Nat)
  BY NatLessThanWellFounded
<1> HIDE DEF R
<1>2. PICK k \in S : \A m \in Nat : m \in S => ~(<<m, k>> \in R)
  BY <1>1, WFMin
<1>3. \A m \in S : ~(m < k)
  BY <1>2 DEF R, OpToRel
<1> QED
  BY <1>2, <1>3

\* Induction up to N, for a set.
LEMMA UpTo ==
  ASSUME NEW N \in Nat, NEW A, 0 \in A, \A k \in 1..N : k - 1 \in A => k \in A
  PROVE  0..N \subseteq A
<1> SUFFICES ASSUME ~(0..N \subseteq A) PROVE FALSE
  OBVIOUS
<1> DEFINE S == {k \in 0..N : k \notin A}
<1>1. S \in SUBSET Nat /\ S # {}
  OBVIOUS
<1> HIDE DEF S
<1>2. PICK k \in S : \A m \in S : k <= m
  BY <1>1, LeastNumber
<1> USE DEF S
<1>3. k \in 1..N /\ k - 1 \in 0..N /\ ~(k <= k - 1)
  BY <1>2
<1>4. k - 1 \in A
  BY <1>2, <1>3
<1> QED
  BY <1>2, <1>3, <1>4

\* f is what the recursion over 1..n gives.
Recursive(f, S, n, first, step) ==
  /\ f \in [0..n -> S]
  /\ f[0] = first
  /\ \A k \in 1..n : f[k] = step[k][f[k - 1]]

LEMMA Recursion ==
  ASSUME NEW S, NEW N \in Nat, NEW first \in S, NEW step \in [1..N -> [S -> S]]
  PROVE  \E f : Recursive(f, S, N, first, step)
<1> DEFINE Good(n, f) == Recursive(f, S, n, first, step)
           A == {n \in 0..N : \E f : Good(n, f)}
<1> USE DEF Recursive
<1>1. 0 \in A
  <2>1. Good(0, [k \in 0..0 |-> first])
    OBVIOUS
  <2>2. \E f : Good(0, f)
    <3> HIDE DEF Good
    <3> QED
      BY <2>1
  <2> QED
    BY <2>2
<1>2. ASSUME NEW n \in 1..N, n - 1 \in A PROVE n \in A
  <2>1. PICK f : Good(n - 1, f)
    BY <1>2
  <2> DEFINE h == [k \in 0..n |-> IF k = n THEN step[n][f[n - 1]] ELSE f[k]]
  <2>2. f[n - 1] \in S /\ step[n][f[n - 1]] \in S
    BY <2>1
  <2>3. h \in [0..n -> S] /\ h[0] = first
    BY <2>1, <2>2
  <2>4. ASSUME NEW k \in 1..n PROVE h[k] = step[k][h[k - 1]]
    BY <2>1, <2>4
  <2>5. Good(n, h)
    BY <2>3, <2>4
  <2>6. \E f2 : Good(n, f2)
    <3> HIDE DEF Good, h
    <3> QED
      BY <2>5
  <2> HIDE DEF Good, h
  <2> QED
    BY <2>6
<1> HIDE DEF A
<1>3. 0..N \subseteq A
  BY <1>1, <1>2, UpTo
<1> QED
  BY <1>3 DEF A

-----------------------------------------------------------------------------
(* Names and their components *)

\* f has the name of each of the directories on the way to the file with components c.
Names(f, base, c) ==
  /\ f \in [0..Len(c) -> Seq(Chars)]
  /\ f[0] = Stripped(base)
  /\ \A k \in 1..Len(c) : f[k] = NftwJoin(f[k - 1], c[k])

\* f has their components, each with a separator before it.
Flats(f, c) ==
  /\ f \in [0..Len(c) -> Seq(Chars)]
  /\ f[0] = <<>>
  /\ \A k \in 1..Len(c) : f[k] = f[k - 1] \o (<<Sep>> \o c[k])

LEMMA SepIsChar == Sep \in Chars /\ <<Sep>> \in Seq(Chars) /\ Len(<<Sep>>) = 1
BY DEF Chars

LEMMA NamesAre ==
  /\ FileNames \subseteq Seq(Chars) /\ BasePaths \subseteq Seq(Chars)
  /\ \A n \in FileNames :
       /\ n \in Seq(Chars) /\ Len(n) \in Nat \ {0}
       /\ \A i \in 1..Len(n) : n[i] # Sep
BY PathsAssumption, EmptySeq DEF Contains

LEMMA JoinedIsName ==
  ASSUME NEW d \in Seq(Chars), NEW n \in FileNames
  PROVE  NftwJoin(d, n) \in Seq(Chars) /\ d \o (<<Sep>> \o n) \in Seq(Chars)
BY NamesAre, SepIsChar, ConcatProperties DEF NftwJoin

LEMMA ReportedNames ==
  ASSUME NEW base, Stripped(base) \in Seq(Chars), NEW c \in Seq(FileNames)
  PROVE  \E f : Names(f, base, c) /\ Reported(base, c) = f[Len(c)]
<1>1. Len(c) \in Nat /\ \A k \in 1..Len(c) : c[k] \in FileNames
  BY LenProperties, ElementOfSeq
<1> DEFINE step == [k \in 1..Len(c) |-> [d \in Seq(Chars) |-> NftwJoin(d, c[k])]]
           F(f) == [k \in 0..Len(c) |-> IF k = 0 THEN Stripped(base) ELSE NftwJoin(f[k - 1], c[k])]
           g == CHOOSE f : f = F(f)
<1>2. step \in [1..Len(c) -> [Seq(Chars) -> Seq(Chars)]]
  BY <1>1, JoinedIsName
<1>3. PICK f : Recursive(f, Seq(Chars), Len(c), Stripped(base), step)
  <2> HIDE DEF step, F, g
  <2> QED
    BY <1>1, <1>2, Recursion
<1>4. ASSUME NEW k \in 1..Len(c) PROVE f[k] = NftwJoin(f[k - 1], c[k])
  <2>1. f[k - 1] \in Seq(Chars) /\ f[k] = step[k][f[k - 1]]
    <3> HIDE DEF step, F, g
    <3> QED
      BY <1>1, <1>3 DEF Recursive
  <2> QED
    BY <2>1
<1>5. f = F(f)
  BY <1>1, <1>3, <1>4 DEF Recursive
<1>6. g = F(g)
  BY <1>5
<1>7. Reported(base, c) = g[Len(c)]
  BY DEF Reported
<1> HIDE DEF g
<1>8. DOMAIN g = 0..Len(c) /\ g[0] = Stripped(base)
      /\ \A k \in 1..Len(c) : g[k] = NftwJoin(g[k - 1], c[k])
  BY <1>1, <1>6
<1> DEFINE A == {k \in 0..Len(c) : g[k] \in Seq(Chars)}
<1>9. 0 \in A /\ \A k \in 1..Len(c) : k - 1 \in A => k \in A
  <2>1. 0 \in A
    BY <1>1, <1>8
  <2>2. ASSUME NEW k \in 1..Len(c), k - 1 \in A PROVE k \in A
    <3>1. g[k] = NftwJoin(g[k - 1], c[k]) /\ c[k] \in FileNames /\ g[k - 1] \in Seq(Chars)
      BY <1>1, <1>8, <2>2
    <3>2. g[k] \in Seq(Chars)
      <4> HIDE DEF A, step, F
      <4> QED
        BY <3>1, JoinedIsName
    <3> QED
      BY <2>2, <3>2
  <2> QED
    BY <2>1, <2>2
<1>10. 0..Len(c) \subseteq A
  <2> HIDE DEF A
  <2> QED
    BY <1>1, <1>9, UpTo
<1>11. g \in [0..Len(c) -> Seq(Chars)]
  BY <1>6, <1>10
<1> QED
  BY <1>7, <1>8, <1>11 DEF Names

LEMMA NamesAgree ==
  ASSUME NEW base, NEW c, NEW d, NEW f, NEW g, Names(f, base, c), Names(g, base, d),
         Len(c) \in Nat, Len(d) \in Nat, Len(c) <= Len(d), \A k \in 1..Len(c) : c[k] = d[k]
  PROVE  \A k \in 0..Len(c) : f[k] = g[k]
<1> DEFINE A == {k \in 0..Len(c) : f[k] = g[k]}
<1>1. 0 \in A
  BY DEF Names
<1>2. ASSUME NEW k \in 1..Len(c), k - 1 \in A PROVE k \in A
  <2>1. f[k] = NftwJoin(f[k - 1], c[k]) /\ g[k] = NftwJoin(g[k - 1], d[k])
    BY <1>2 DEF Names
  <2> QED
    BY <1>2, <2>1
<1> HIDE DEF A
<1>3. 0..Len(c) \subseteq A
  BY <1>1, <1>2, UpTo
<1> QED
  BY <1>3 DEF A

\* The names on the way are those nftw() reports.
LEMMA ReportedOnTheWay ==
  ASSUME NEW base, Stripped(base) \in Seq(Chars), NEW c \in Seq(FileNames),
         NEW f, Names(f, base, c), NEW n \in 0..Len(c)
  PROVE  Reported(base, SubSeq(c, 1, n)) = f[n]
<1> DEFINE d == SubSeq(c, 1, n)
<1>1. Len(c) \in Nat /\ \A k \in 1..Len(c) : c[k] \in FileNames
  BY LenProperties, ElementOfSeq
<1>2. d \in Seq(FileNames) /\ Len(d) = n /\ \A k \in 1..n : d[k] = c[k]
  BY <1>1, SubSeqProperties
<1> HIDE DEF d
<1>3. PICK g : Names(g, base, d) /\ Reported(base, d) = g[Len(d)]
  BY <1>2, ReportedNames
<1>4. \A k \in 0..Len(d) : g[k] = f[k]
  BY <1>1, <1>2, <1>3, NamesAgree
<1> QED
  BY <1>2, <1>3, <1>4 DEF d

LEMMA RelativeFlats ==
  ASSUME NEW c \in Seq(FileNames), c # <<>>
  PROVE  \E f : Flats(f, c) /\ Relative(c) = Tail(f[Len(c)])
<1>1. /\ Len(c) \in Nat \ {0} /\ DOMAIN c = 1..Len(c)
      /\ \A k \in 1..Len(c) : c[k] \in FileNames
  BY LenProperties, ElementOfSeq, EmptySeq
<1> DEFINE N == Len(c)
           s == [k \in DOMAIN c |-> <<Sep>> \o c[k]]
           step == [k \in 1..N |-> [d \in Seq(Chars) |-> d \o s[k]]]
           F(h) == [k \in 1..N |-> IF k = 1 THEN s[k] ELSE h[k - 1] \o s[k]]
           g == CHOOSE h : h = F(h)
<1>2. s \in [1..N -> Seq(Chars)]
  <2>1. ASSUME NEW k \in 1..N PROVE <<Sep>> \o c[k] \in Seq(Chars)
    <3>1. c[k] \in Seq(Chars)
      BY <1>1, NamesAre
    <3> QED
      BY <3>1, SepIsChar, ConcatProperties
  <2> QED
    BY <1>1, <2>1
<1>3. s \in Seq(Seq(Chars)) /\ Len(s) = N /\ Len(s) # 0
  BY <1>1, <1>2
<1>4. Relative(c) = Tail(g[N])
  <2>1. FlattenSeq(s) = g[N]
    BY <1>3 DEF FlattenSeq
  <2> QED
    BY <2>1 DEF Relative
<1>5. step \in [1..N -> [Seq(Chars) -> Seq(Chars)]]
  <2>1. \A k \in 1..N : \A d \in Seq(Chars) : d \o s[k] \in Seq(Chars)
    <3> HIDE DEF s
    <3> QED
      BY <1>2, ConcatProperties
  <2> HIDE DEF s
  <2> QED
    BY <2>1
<1>6. PICK f : Recursive(f, Seq(Chars), N, <<>>, step)
  <2>1. <<>> \in Seq(Chars) /\ N \in Nat
    BY <1>1, EmptySeq
  <2> HIDE DEF step, F, g, s, N
  <2> QED
    BY <1>5, <2>1, Recursion
<1> DEFINE J(d, k) == d \o s[k]
<1>7. N \in Nat /\ 1 \in 1..N /\ N >= 1
  BY <1>1
<1>8. f[0] = <<>> /\ \A k \in 1..N : f[k] = J(f[k - 1], k)
  <2>1. ASSUME NEW k \in 1..N PROVE f[k] = J(f[k - 1], k)
    <3>1. f[k - 1] \in Seq(Chars) /\ f[k] = step[k][f[k - 1]]
      <4> HIDE DEF step, s, g, F, N, J
      <4> QED
        BY <1>6, <1>7 DEF Recursive
    <3> HIDE DEF s
    <3> QED
      BY <3>1
  <2> HIDE DEF step, s, g, F, N, J
  <2> QED
    BY <1>6, <2>1 DEF Recursive
<1>9. J(f[0], 1) = s[1]
  <2>1. s[1] \in Seq(Chars)
    <3> HIDE DEF s, N
    <3> QED
      BY <1>2, <1>7
  <2> HIDE DEF s
  <2> QED
    BY <1>8, <2>1, ConcatEmptySeq
<1> DEFINE Flatten(h) == [k \in 1..N |-> IF k = 1 THEN s[k] ELSE J(h[k - 1], k)]
<1>10. g = Flatten(g)
  <2> DEFINE h == [k \in 1..N |-> f[k]]
  <2>1. ASSUME NEW k \in 1..N PROVE h[k] = IF k = 1 THEN s[k] ELSE J(h[k - 1], k)
    <3> HIDE DEF s, N, J
    <3> QED
      BY <1>7, <1>8, <1>9
  <2>2. h = Flatten(h)
    <3> HIDE DEF s, N, J
    <3> QED
      BY <2>1
  <2>3. h = F(h)
    BY <2>2
  <2> HIDE DEF h, F
  <2>4. g = F(g)
    BY <2>3
  <2> HIDE DEF g
  <2> QED
    BY <2>4 DEF F
<1> HIDE DEF g, s, N, J
<1>11. g[1] = s[1] /\ \A k \in 2..N : g[k] = J(g[k - 1], k)
  BY <1>7, <1>10
<1> DEFINE A == {k \in 0..N : k = 0 \/ g[k] = f[k]}
<1>12. 0 \in A
  BY <1>7
<1>13. ASSUME NEW k \in 1..N, k - 1 \in A PROVE k \in A
  <2>1. CASE k = 1
    BY <1>7, <1>8, <1>9, <1>11, <2>1
  <2>2. CASE k # 1
    <3>1. k \in 2..N /\ k - 1 # 0
      BY <1>7, <2>2
    <3>2. g[k - 1] = f[k - 1]
      BY <1>13, <3>1
    <3> QED
      BY <1>8, <1>11, <3>1, <3>2
  <2> QED
    BY <2>1, <2>2
<1> HIDE DEF A
<1>14. 0..N \subseteq A
  BY <1>7, <1>12, <1>13, UpTo
<1>16. g[N] = f[N]
  BY <1>7, <1>14 DEF A
<1>15. Flats(f, c)
  <2>1. \A k \in 1..N : s[k] = <<Sep>> \o c[k]
    BY <1>1 DEF s, N
  <2> HIDE DEF step
  <2> QED
    BY <1>6, <1>8, <2>1 DEF Flats, Recursive, J, N
<1> QED
  BY <1>4, <1>15, <1>16 DEF N

-----------------------------------------------------------------------------
(* Prefixes, and the separators at the ends of a path *)

LEMMA PrefixIs ==
  ASSUME NEW p \in Seq(Chars), NEW q \in Seq(Chars)
  PROVE  StrPrefix(p, q) <=> Len(p) <= Len(q) /\ \A i \in 1..Len(p) : p[i] = q[i]
<1>1. Len(p) \in Nat /\ Len(q) \in Nat
  BY LenProperties
<1>2. ASSUME Len(p) <= Len(q)
      PROVE  /\ SubSeq(p, 1, Len(p)) \in Seq(Chars) /\ SubSeq(q, 1, Len(p)) \in Seq(Chars)
             /\ Len(SubSeq(p, 1, Len(p))) = Len(p) /\ Len(SubSeq(q, 1, Len(p))) = Len(p)
             /\ \A i \in 1..Len(p) : SubSeq(p, 1, Len(p))[i] = p[i] /\ SubSeq(q, 1, Len(p))[i] = q[i]
  <2>1. \A i \in 1..Len(p) : p[i] \in Chars /\ q[i] \in Chars
    BY <1>1, <1>2, ElementOfSeq
  <2> QED
    BY <1>1, <2>1, SubSeqProperties
<1>3. ASSUME Len(p) <= Len(q), \A i \in 1..Len(p) : p[i] = q[i] PROVE StrPrefix(p, q)
  <2>1. SubSeq(p, 1, Len(p)) = SubSeq(q, 1, Len(p))
    BY <1>2, <1>3, SeqEqual
  <2> QED
    BY <1>3, <2>1 DEF StrPrefix, IsPrefix
<1>4. ASSUME StrPrefix(p, q) PROVE Len(p) <= Len(q) /\ \A i \in 1..Len(p) : p[i] = q[i]
  <2>1. Len(p) <= Len(q) /\ SubSeq(p, 1, Len(p)) = SubSeq(q, 1, Len(p))
    BY <1>4 DEF StrPrefix, IsPrefix
  <2> QED
    BY <1>2, <2>1
<1> QED
  BY <1>3, <1>4

\* What is left of a path without the separators at its end.
Trunk(p) == SubSeq(p, 1, SelectLastInSeq(p, LAMBDA ch : ch # Sep))

LEMMA GreatestNumber ==
  ASSUME NEW N \in Nat, NEW S \in SUBSET (1..N), S # {}
  PROVE  \E k \in S : \A m \in S : k >= m
<1> DEFINE D == {d \in 0..N : N - d \in S}
<1>1. \A k \in S : N - k \in D
  <2>1. ASSUME NEW k \in S PROVE k \in 1..N /\ N - k \in 0..N /\ N - (N - k) = k
    OBVIOUS
  <2> QED
    BY <2>1
<1>2. D \in SUBSET Nat /\ D # {}
  <2>1. D \in SUBSET Nat
    OBVIOUS
  <2>2. D # {}
    <3> HIDE DEF D
    <3> QED
      BY <1>1
  <2> QED
    BY <2>1, <2>2
<1> HIDE DEF D
<1>3. PICK d \in D : \A m \in D : d <= m
  BY <1>2, LeastNumber
<1>4. N - d \in S /\ d \in 0..N
  BY <1>3 DEF D
<1>5. \A m \in S : N - d >= m
  BY <1>1, <1>3, <1>4
<1> QED
  BY <1>4, <1>5

LEMMA TrunkIs ==
  ASSUME NEW p \in Seq(Chars)
  PROVE  /\ Trunk(p) \in Seq(Chars) /\ Len(p) \in Nat
         /\ Len(Trunk(p)) \in 0..Len(p)
         /\ \A i \in 1..Len(Trunk(p)) : p[i] = Trunk(p)[i]
         /\ \A i \in Len(Trunk(p)) + 1..Len(p) : p[i] = Sep
         /\ Len(Trunk(p)) > 0 => Trunk(p)[Len(Trunk(p))] # Sep
         /\ Stripped(p) = IF Len(Trunk(p)) = 0 THEN <<Sep>> ELSE Trunk(p)
<1> DEFINE n == SelectLastInSeq(p, LAMBDA ch : ch # Sep)
           S == {i \in 1..Len(p) : p[i] # Sep}
<1>1. Len(p) \in Nat /\ \A i \in 1..Len(p) : p[i] \in Chars
  BY LenProperties, ElementOfSeq
<1>2. n = IF S # {} THEN Max(S) ELSE 0
  BY DEF SelectLastInSeq
<1>4. Stripped(p) = IF n = 0 THEN <<Sep>> ELSE Trunk(p)
  BY DEF Stripped, Trunk
<1>5. Trunk(p) = SubSeq(p, 1, n)
  BY DEF Trunk
<1> HIDE DEF n
<1>3. n \in 0..Len(p) /\ (n > 0 => p[n] # Sep) /\ \A i \in n + 1..Len(p) : p[i] = Sep
  <2>1. CASE S = {}
    BY <1>1, <1>2, <2>1
  <2>2. CASE S # {}
    <3>1. \E k \in S : \A m \in S : k >= m
      BY <1>1, <2>2, GreatestNumber
    <3>2. n \in S /\ \A m \in S : n >= m
      BY <1>2, <2>2, <3>1 DEF Max
    <3> QED
      BY <1>1, <3>2
  <2> QED
    BY <2>1, <2>2
<1>6. Trunk(p) \in Seq(Chars) /\ Len(Trunk(p)) = n /\ \A i \in 1..n : Trunk(p)[i] = p[i]
  <2>1. \A i \in 1..n : p[i] \in Chars
    BY <1>1, <1>3
  <2> QED
    BY <1>3, <1>5, <2>1, SubSeqProperties
<1> QED
  BY <1>1, <1>3, <1>4, <1>6

\* A path that does not start with a separator is not touched; otherwise one is dropped,
\* provided that another does not follow it.
LEMMA SkipSepsIs ==
  ASSUME NEW s \in Seq(Chars), s # <<>>
  PROVE  /\ s[1] # Sep => SkipSeps(s) = s
         /\ s[1] = Sep /\ Len(s) > 1 /\ s[2] # Sep => SkipSeps(s) = Tail(s)
<1> DEFINE n == SelectInSeq(s, LAMBDA ch : ch # Sep)
           S == {i \in 1..Len(s) : s[i] # Sep}
<1>1. Len(s) \in Nat \ {0}
  BY EmptySeq
<1>2. n = IF S # {} THEN Min(S) ELSE 0
  BY DEF SelectInSeq
<1>3. SkipSeps(s) = IF n = 0 THEN <<>> ELSE SubSeq(s, n, Len(s))
  BY DEF SkipSeps
<1>4. S # {} => n \in S /\ \A m \in S : n <= m
  <2> SUFFICES ASSUME S # {} PROVE n \in S /\ \A m \in S : n <= m
    OBVIOUS
  <2>2. S \in SUBSET Nat
    OBVIOUS
  <2> HIDE DEF n, S
  <2>1. \E k \in S : \A m \in S : k <= m
    BY <2>2, LeastNumber
  <2> QED
    BY <1>2, <2>1 DEF Min
<1> HIDE DEF n
<1>5. ASSUME s[1] # Sep PROVE SkipSeps(s) = s
  <2>1. n = 1
    BY <1>1, <1>4, <1>5
  <2> QED
    BY <1>3, <2>1, SubSeqFull
<1>6. ASSUME s[1] = Sep, Len(s) > 1, s[2] # Sep PROVE SkipSeps(s) = Tail(s)
  <2>1. n = 2
    BY <1>1, <1>4, <1>6
  <2> QED
    BY <1>3, <2>1, TailIsSubSeq
<1> QED
  BY <1>5, <1>6

-----------------------------------------------------------------------------
(* What a sequence of components looks like *)

\* d is a, a separator, and the name b.
Longer(d, a, b) ==
  /\ d \in Seq(Chars) /\ a \in Seq(Chars) /\ b \in FileNames
  /\ Len(a) \in Nat /\ Len(b) \in Nat \ {0} /\ Len(d) = Len(a) + 1 + Len(b)
  /\ \A i \in 1..Len(a) : d[i] = a[i]
  /\ d[Len(a) + 1] = Sep
  /\ \A i \in 1..Len(b) : d[Len(a) + 1 + i] = b[i] /\ b[i] # Sep

LEMMA ConcatLonger ==
  ASSUME NEW a \in Seq(Chars), NEW b \in FileNames
  PROVE  Longer(a \o (<<Sep>> \o b), a, b)
<1> DEFINE h == <<Sep>> \o b
           d == a \o h
<1>1. b \in Seq(Chars) /\ Len(b) \in Nat \ {0} /\ (\A i \in 1..Len(b) : b[i] # Sep) /\ Len(a) \in Nat
  BY NamesAre, LenProperties
<1>2. h \in Seq(Chars) /\ Len(h) = 1 + Len(b)
      /\ \A i \in 1..1 + Len(b) : h[i] = IF i <= 1 THEN Sep ELSE b[i - 1]
  <2>1. <<Sep>>[1] = Sep
    OBVIOUS
  <2>2. \A i \in 1..1 + Len(b) : i <= 1 => i = 1
    OBVIOUS
  <2> QED
    BY <1>1, <2>1, <2>2, SepIsChar, ConcatProperties
<1> HIDE DEF h
<1>3. d \in Seq(Chars) /\ Len(d) = Len(a) + Len(h)
      /\ \A i \in 1..Len(a) + Len(h) : d[i] = IF i <= Len(a) THEN a[i] ELSE h[i - Len(a)]
  BY <1>1, <1>2, ConcatProperties
<1> HIDE DEF d
<1>4. \A i \in 1..Len(a) : d[i] = a[i]
  BY <1>1, <1>2, <1>3
<1>5. d[Len(a) + 1] = Sep
  BY <1>1, <1>2, <1>3
<1>6. ASSUME NEW i \in 1..Len(b) PROVE d[Len(a) + 1 + i] = b[i]
  <2>1. /\ Len(a) + 1 + i \in 1..Len(a) + Len(h) /\ ~(Len(a) + 1 + i <= Len(a))
        /\ Len(a) + 1 + i - Len(a) = i + 1 /\ i + 1 \in 1..1 + Len(b) /\ ~(i + 1 <= 1)
        /\ i + 1 - 1 = i
    BY <1>1, <1>2
  <2>2. d[Len(a) + 1 + i] = h[i + 1]
    BY <1>3, <2>1
  <2> QED
    BY <1>2, <2>1, <2>2
<1>7. Longer(d, a, b)
  BY <1>1, <1>2, <1>3, <1>4, <1>5, <1>6 DEF Longer
<1> QED
  BY <1>7 DEF d, h

LEMMA FlatStep ==
  ASSUME NEW c \in Seq(FileNames), NEW g, Flats(g, c), NEW k \in 1..Len(c)
  PROVE  Longer(g[k], g[k - 1], c[k])
<1>1. Len(c) \in Nat /\ c[k] \in FileNames
  BY LenProperties, ElementOfSeq
<1>2. g[k] = g[k - 1] \o (<<Sep>> \o c[k]) /\ g[k - 1] \in Seq(Chars)
  <2>1. k - 1 \in 0..Len(c)
    BY <1>1
  <2> QED
    BY <2>1 DEF Flats
<1> QED
  BY <1>1, <1>2, ConcatLonger

\* Each is longer than those before it, which it starts with.
LEMMA FlatPrefix ==
  ASSUME NEW c \in Seq(FileNames), NEW g, Flats(g, c)
  PROVE  \A k \in 0..Len(c) : \A j \in 0..k :
           /\ Len(g[j]) \in Nat /\ (j < k => Len(g[j]) + 2 <= Len(g[k]))
           /\ \A i \in 1..Len(g[j]) : g[k][i] = g[j][i]
<1> DEFINE P(j, k) == /\ Len(g[j]) \in Nat /\ (j < k => Len(g[j]) + 2 <= Len(g[k]))
                      /\ \A i \in 1..Len(g[j]) : g[k][i] = g[j][i]
           A == {k \in 0..Len(c) : \A j \in 0..k : P(j, k)}
<1>1. Len(c) \in Nat /\ \A k \in 0..Len(c) : g[k] \in Seq(Chars) /\ Len(g[k]) \in Nat
  BY LenProperties DEF Flats
<1>2. 0 \in A
  BY <1>1
<1>3. ASSUME NEW k \in 1..Len(c), k - 1 \in A PROVE k \in A
  <2>1. ASSUME NEW j \in 0..k PROVE P(j, k)
    <3>1. CASE j = k
      BY <1>1, <3>1
    <3>2. CASE j # k
      <4>1. j \in 0..k - 1 /\ j \in 0..Len(c) /\ (j < k - 1 \/ j = k - 1)
        BY <1>1, <3>2
      <4>2. P(j, k - 1)
        BY <1>3, <4>1
      <4>3. /\ Len(g[k - 1]) \in Nat /\ Len(g[k - 1]) + 2 <= Len(g[k])
            /\ \A i \in 1..Len(g[k - 1]) : g[k][i] = g[k - 1][i]
        <5>1. Longer(g[k], g[k - 1], c[k])
          BY FlatStep
        <5> HIDE DEF A, P
        <5>2. Len(g[k - 1]) \in Nat /\ \A i \in 1..Len(g[k - 1]) : g[k][i] = g[k - 1][i]
          BY <5>1 DEF Longer
        <5>3. Len(c[k]) \in Nat \ {0} /\ Len(g[k]) = Len(g[k - 1]) + 1 + Len(c[k])
          BY <5>1 DEF Longer
        <5>4. \A x \in Nat, y \in Nat \ {0} : x + 2 <= x + 1 + y
          OBVIOUS
        <5>5. Len(g[k - 1]) + 2 <= Len(g[k])
          BY <5>2, <5>3, <5>4, Zenon
        <5> QED
          BY <5>2, <5>5
      <4>4. Len(g[j]) <= Len(g[k - 1]) /\ Len(g[j]) \in Nat
        BY <1>1, <4>1, <4>2, <4>3
      <4>5. Len(g[k]) \in Nat
        BY <1>1
      <4>6. \A i \in 1..Len(g[j]) : g[k][i] = g[j][i]
        BY <4>2, <4>3, <4>4
      <4> QED
        BY <4>3, <4>4, <4>5, <4>6
    <3> QED
      BY <3>1, <3>2
  <2> HIDE DEF P
  <2> QED
    BY <2>1, <1>1
<1> HIDE DEF A
<1>4. 0..Len(c) \subseteq A
  BY <1>1, <1>2, <1>3, UpTo
<1> QED
  BY <1>4 DEF A

\* Separators are where a component begins, and nowhere else.
SeparatorsAt(g, k) ==
  /\ g[k] \in Seq(Chars) /\ Len(g[k]) \in Nat
  /\ \A x \in 1..Len(g[k]) : g[k][x] = Sep <=> \E j \in 0..k - 1 : x = Len(g[j]) + 1

LEMMA FlatSeparators ==
  ASSUME NEW c \in Seq(FileNames), NEW g, Flats(g, c), NEW k \in 0..Len(c)
  PROVE  SeparatorsAt(g, k)
<1> USE DEF SeparatorsAt
<1> DEFINE P(n) == \A x \in 1..Len(g[n]) : g[n][x] = Sep <=> \E j \in 0..n - 1 : x = Len(g[j]) + 1
           A == {n \in 0..Len(c) : P(n)}
<1>1. Len(c) \in Nat /\ \A n \in 0..Len(c) : g[n] \in Seq(Chars) /\ Len(g[n]) \in Nat
  BY LenProperties DEF Flats
<1>2. 0 \in A
  <2>1. Len(g[0]) = 0
    BY EmptySeq DEF Flats
  <2> QED
    BY <1>1, <2>1
<1>3. ASSUME NEW n \in 1..Len(c), n - 1 \in A PROVE n \in A
  <2>1. /\ Len(g[n - 1]) \in Nat /\ Len(c[n]) \in Nat \ {0}
        /\ Len(g[n]) = Len(g[n - 1]) + 1 + Len(c[n])
        /\ \A i \in 1..Len(g[n - 1]) : g[n][i] = g[n - 1][i]
        /\ g[n][Len(g[n - 1]) + 1] = Sep
        /\ \A i \in 1..Len(c[n]) : /\ g[n][Len(g[n - 1]) + 1 + i] = c[n][i]
                                   /\ c[n][i] # Sep
    <3>1. Longer(g[n], g[n - 1], c[n])
      BY FlatStep
    <3> QED
      BY <3>1 DEF Longer
  <2>2. P(n - 1)
    BY <1>3
  <2>3. \A j \in 0..n - 1 : Len(g[j]) \in Nat /\ (j < n - 1 => Len(g[j]) + 2 <= Len(g[n - 1]))
    <3>1. n - 1 \in 0..Len(c)
      BY <1>1
    <3> QED
      BY <3>1, FlatPrefix
  <2>4. ASSUME NEW x \in 1..Len(g[n])
        PROVE  g[n][x] = Sep <=> \E j \in 0..n - 1 : x = Len(g[j]) + 1
    <3>1. CASE x <= Len(g[n - 1])
      <4>1. x \in 1..Len(g[n - 1])
        BY <2>1, <3>1
      <4>2. g[n][x] = Sep <=> \E j \in 0..n - 1 - 1 : x = Len(g[j]) + 1
        BY <2>1, <2>2, <4>1
      <4> QED
        BY <2>1, <2>3, <4>1, <4>2
    <3>2. CASE x = Len(g[n - 1]) + 1
      <4>1. n - 1 \in 0..n - 1
        OBVIOUS
      <4> QED
        BY <2>1, <3>2, <4>1
    <3>3. CASE x > Len(g[n - 1]) + 1
      <4> DEFINE La == Len(g[n - 1])
                 Lb == Len(c[n])
      <4>1. La \in Nat /\ Lb \in Nat /\ x \in 1..La + 1 + Lb /\ x > La + 1
        BY <2>1, <3>3
      <4>2. \A i \in 1..Lb : g[n][La + 1 + i] # Sep
        BY <2>1
      <4>3. \A j \in 0..n - 1 : Len(g[j]) \in Nat /\ Len(g[j]) <= La
        <5> SUFFICES ASSUME NEW j \in 0..n - 1 PROVE Len(g[j]) \in Nat /\ Len(g[j]) <= La
          OBVIOUS
        <5>1. Len(g[j]) \in Nat /\ (j < n - 1 => Len(g[j]) + 2 <= La)
          BY <2>3
        <5>2. CASE j = n - 1
          BY <2>1, <5>2
        <5>3. CASE j < n - 1
          <6> DEFINE Lj == Len(g[j])
          <6>1. Lj \in Nat /\ Lj + 2 <= La /\ La \in Nat
            BY <4>1, <5>1, <5>3
          <6> HIDE DEF La, Lj
          <6>2. Lj <= La
            BY <6>1
          <6> QED
            BY <6>1, <6>2 DEF Lj
        <5> QED
          BY <5>2, <5>3
      <4> HIDE DEF La, Lb
      <4>4. x - La - 1 \in 1..Lb /\ x = La + 1 + (x - La - 1)
        BY <4>1
      <4>5. g[n][x] # Sep
        BY <4>2, <4>4
      <4>6. ~\E j \in 0..n - 1 : x = Len(g[j]) + 1
        BY <4>1, <4>3
      <4> QED
        BY <4>5, <4>6
    <3> QED
      BY <2>1, <3>1, <3>2, <3>3
  <2> HIDE DEF P
  <2> QED
    BY <1>1, <2>4 DEF P
<1> HIDE DEF A
<1>4. 0..Len(c) \subseteq A
  BY <1>1, <1>2, <1>3, UpTo
<1> QED
  BY <1>1, <1>4 DEF A

\* It starts with a separator, and no two meet, nor is one at the end.
LEMMA FlatEnds ==
  ASSUME NEW c \in Seq(FileNames), NEW g, Flats(g, c), NEW k \in 1..Len(c)
  PROVE  /\ g[k] \in Seq(Chars) /\ Len(g[k]) \in Nat /\ Len(g[k]) >= 2
         /\ g[k][1] = Sep /\ g[k][2] # Sep /\ g[k][Len(g[k])] # Sep
         /\ \A x \in 2..Len(g[k]) :
              g[k][x] = Sep => g[k][x - 1] # Sep /\ \E j \in 1..k - 1 : x = Len(g[j]) + 1
<1>1. Len(c) \in Nat /\ k \in 0..Len(c)
  BY LenProperties
<1>2. /\ g[k] \in Seq(Chars) /\ Len(g[k]) \in Nat
      /\ \A x \in 1..Len(g[k]) : g[k][x] = Sep <=> \E j \in 0..k - 1 : x = Len(g[j]) + 1
  <2>1. SeparatorsAt(g, k)
    BY <1>1, FlatSeparators
  <2> QED
    BY <2>1 DEF SeparatorsAt
<1>3. \A m \in 0..k : \A j \in 0..m : Len(g[j]) \in Nat /\ (j < m => Len(g[j]) + 2 <= Len(g[m]))
  <2>1. \A m \in 0..k : m \in 0..Len(c)
    BY <1>1
  <2> QED
    BY <2>1, FlatPrefix
<1>4. Len(g[0]) = 0
  BY EmptySeq DEF Flats
<1>5. Len(g[k]) >= 2 /\ \A j \in 1..k : Len(g[j]) >= 2
  BY <1>1, <1>3, <1>4
<1>6. g[k][1] = Sep
  BY <1>1, <1>2, <1>4, <1>5
<1>7. \A i \in 0..k - 1 : \A j \in 0..k - 1 : Len(g[i]) # Len(g[j]) + 1
  <2> SUFFICES ASSUME NEW i \in 0..k - 1, NEW j \in 0..k - 1 PROVE Len(g[i]) # Len(g[j]) + 1
    OBVIOUS
  <2>1. CASE i < j
    BY <1>1, <1>3, <2>1
  <2>2. CASE j < i
    BY <1>1, <1>3, <2>2
  <2>3. CASE i = j
    BY <1>1, <1>3, <2>3
  <2> QED
    BY <2>1, <2>2, <2>3
<1>8. g[k][Len(g[k])] # Sep
  <2>1. ~\E j \in 0..k - 1 : Len(g[k]) = Len(g[j]) + 1
    BY <1>1, <1>2, <1>3
  <2> QED
    BY <1>2, <1>5, <2>1
<1>9. ASSUME NEW x \in 2..Len(g[k]), g[k][x] = Sep
      PROVE  g[k][x - 1] # Sep /\ \E j \in 1..k - 1 : x = Len(g[j]) + 1
  <2>1. PICK j \in 0..k - 1 : x = Len(g[j]) + 1
    BY <1>2, <1>9
  <2>2. j # 0 /\ j \in 1..k - 1
    BY <1>4, <2>1
  <2>3. x - 1 = Len(g[j]) /\ x - 1 \in 1..Len(g[k])
    BY <1>2, <1>3, <2>1
  <2>4. ~\E i \in 0..k - 1 : x - 1 = Len(g[i]) + 1
    BY <1>7, <2>3
  <2> QED
    BY <1>2, <2>1, <2>2, <2>3, <2>4
<1>10. g[k][2] # Sep
  <2>1. 2 \in 2..Len(g[k])
    BY <1>2, <1>5
  <2> QED
    BY <1>6, <1>9, <2>1
<1> QED
  BY <1>2, <1>5, <1>6, <1>8, <1>9, <1>10

LEMMA ConcatLast ==
  ASSUME NEW p \in Seq(Chars), NEW q \in Seq(Chars), Len(q) \in Nat \ {0}, q[Len(q)] # Sep
  PROVE  p \o q \in Seq(Chars) /\ ~EndsWithSep(p \o q)
<1>1. Len(p) \in Nat
  BY LenProperties
<1>2. Len(p) + Len(q) \in 1..Len(p) + Len(q) /\ ~(Len(p) + Len(q) <= Len(p))
      /\ Len(p) + Len(q) - Len(p) = Len(q)
  BY <1>1
<1>3. (p \o q)[Len(p) + Len(q)] = q[Len(q)] /\ Len(p \o q) = Len(p) + Len(q)
  BY <1>2, ConcatProperties
<1> QED
  BY <1>3, ConcatProperties DEF EndsWithSep, Last

LEMMA Associative ==
  \A p \in Seq(Chars), q \in Seq(Chars), r \in Seq(Chars) : (p \o q) \o r = p \o (q \o r)
BY ConcatAssociative

\* The name of a file is the base path without its separators, then its components.
LEMMA NamesFlats ==
  ASSUME NEW base \in Seq(Chars), NEW c \in Seq(FileNames), NEW f, NEW g,
         Names(f, base, c), Flats(g, c)
  PROVE  \A k \in 1..Len(c) : f[k] = Trunk(base) \o g[k]
<1> DEFINE t == Trunk(base)
           A == {k \in 0..Len(c) : k = 0 \/ f[k] = t \o g[k]}
<1>1. Len(c) \in Nat /\ \A k \in 1..Len(c) : c[k] \in FileNames /\ c[k] \in Seq(Chars)
  BY LenProperties, ElementOfSeq, NamesAre
<1>2. /\ t \in Seq(Chars) /\ Len(t) \in Nat
      /\ Len(t) > 0 => t[Len(t)] # Sep
      /\ Stripped(base) = IF Len(t) = 0 THEN <<Sep>> ELSE t
  BY TrunkIs
<1> HIDE DEF t
<1>3. <<>> \in Seq(Chars) /\ <<Sep>> \in Seq(Chars) /\ EndsWithSep(<<Sep>>)
  BY SepIsChar, EmptySeq DEF EndsWithSep, Last
<1>4. ASSUME NEW k \in 1..Len(c), k - 1 \in A PROVE k \in A
  <2> DEFINE n == c[k]
             m == <<Sep>> \o n
             q == g[k - 1]
  <2>1. f[k] = NftwJoin(f[k - 1], n) /\ g[k] = q \o m /\ q \in Seq(Chars)
    <3>1. k - 1 \in 0..Len(c)
      BY <1>1
    <3> QED
      BY <3>1 DEF Names, Flats
  <2>2. n \in Seq(Chars) /\ m \in Seq(Chars)
    BY <1>1, <1>3, ConcatProperties
  <2>3. CASE k = 1
    <3>1. k - 1 = 0 /\ f[0] = Stripped(base) /\ g[0] = <<>>
      BY <2>3 DEF Names, Flats
    <3>2. f[k] = NftwJoin(Stripped(base), n) /\ g[k] = <<>> \o m
      BY <2>1, <3>1
    <3>3. g[k] = m
      BY <2>2, <3>2, ConcatEmptySeq
    <3>4. f[k] = t \o m
      <4>1. CASE Len(t) = 0
        <5>1. t = <<>>
          BY <1>2, <4>1, EmptySeq
        <5>2. t \o m = m
          BY <2>2, <5>1, ConcatEmptySeq
        <5>3. f[k] = m
          BY <1>2, <1>3, <3>2, <4>1 DEF NftwJoin
        <5> QED
          BY <5>2, <5>3
      <4>2. CASE Len(t) # 0
        <5>1. ~EndsWithSep(t)
          BY <1>2, <4>2 DEF EndsWithSep, Last
        <5>2. f[k] = (t \o <<Sep>>) \o n
          BY <1>2, <3>2, <4>2, <5>1 DEF NftwJoin
        <5>3. (t \o <<Sep>>) \o n = t \o m
          BY <1>2, <1>3, <2>2, Associative, ZenonT(60)
        <5> QED
          BY <5>2, <5>3
      <4> QED
        BY <4>1, <4>2
    <3>5. f[k] = t \o g[k]
      BY <3>3, <3>4
    <3> QED
      BY <3>5
  <2>4. CASE k # 1
    <3>1. k - 1 \in 1..Len(c) /\ k - 1 # 0
      BY <1>1, <2>4
    <3>2. f[k - 1] = t \o q
      BY <1>4, <3>1
    <3>3. q \in Seq(Chars) /\ Len(q) \in Nat \ {0} /\ q[Len(q)] # Sep
      BY <3>1, FlatEnds
    <3>4. f[k] = NftwJoin(t \o q, n)
      BY <2>1, <3>2
    <3>5. t \o q \in Seq(Chars) /\ ~EndsWithSep(t \o q)
      <4> HIDE DEF q
      <4> QED
        BY <1>2, <3>3, ConcatLast
    <3>6. f[k] = ((t \o q) \o <<Sep>>) \o n
      BY <3>4, <3>5 DEF NftwJoin
    <3>7. ((t \o q) \o <<Sep>>) \o n = (t \o q) \o m
      <4> DEFINE a == t \o q
      <4>1. a \in Seq(Chars) /\ <<Sep>> \in Seq(Chars) /\ n \in Seq(Chars)
        BY <1>3, <2>2, <3>5
      <4> HIDE DEF a, n
      <4>2. (a \o <<Sep>>) \o n = a \o (<<Sep>> \o n)
        BY <4>1, Associative, Zenon
      <4> QED
        BY <4>2 DEF a
    <3>8. (t \o q) \o m = t \o (q \o m)
      <4> HIDE DEF q, m
      <4> QED
        BY <1>2, <2>2, <3>3, Associative, Zenon
    <3>9. f[k] = t \o g[k]
      BY <2>1, <3>6, <3>7, <3>8
    <3> QED
      BY <3>9
  <2> QED
    BY <2>3, <2>4
<1>5. 0 \in A
  BY <1>1
<1> HIDE DEF A
<1>6. 0..Len(c) \subseteq A
  BY <1>1, <1>4, <1>5, UpTo
<1> QED
  BY <1>1, <1>6 DEF A, t

-----------------------------------------------------------------------------
(* The path functions on a name f: a base b, whose trunk is t, and h below *)

\* b is t and separators.
Base(b, t) ==
  /\ b \in Seq(Chars) /\ t \in Seq(Chars) /\ Len(b) \in Nat \ {0} /\ Len(t) \in 0..Len(b)
  /\ \A i \in 1..Len(t) : b[i] = t[i]
  /\ \A i \in Len(t) + 1..Len(b) : b[i] = Sep
  /\ Len(t) > 0 => t[Len(t)] # Sep

Below(h) == h \in Seq(Chars) /\ Len(h) \in Nat /\ Len(h) >= 2 /\ h[1] = Sep /\ h[2] # Sep

Whole(f, t, h) ==
  /\ f = t \o h /\ f \in Seq(Chars) /\ Len(t) \in Nat /\ Len(f) = Len(t) + Len(h)
  /\ \A i \in 1..Len(t) : f[i] = t[i]
  /\ \A i \in 1..Len(h) : f[Len(t) + i] = h[i]

LEMMA ConcatWhole ==
  ASSUME NEW t \in Seq(Chars), NEW h \in Seq(Chars)
  PROVE  Whole(t \o h, t, h)
<1> DEFINE f == t \o h
<1>1. Len(t) \in Nat /\ Len(h) \in Nat
  BY LenProperties
<1>2. f \in Seq(Chars) /\ Len(f) = Len(t) + Len(h)
      /\ \A i \in 1..Len(t) + Len(h) : f[i] = IF i <= Len(t) THEN t[i] ELSE h[i - Len(t)]
  BY ConcatProperties
<1> HIDE DEF f
<1>3. \A i \in 1..Len(t) : f[i] = t[i]
  BY <1>1, <1>2
<1>4. ASSUME NEW i \in 1..Len(h) PROVE f[Len(t) + i] = h[i]
  <2>1. Len(t) + i \in 1..Len(t) + Len(h) /\ ~(Len(t) + i <= Len(t)) /\ Len(t) + i - Len(t) = i
    BY <1>1
  <2> QED
    BY <1>2, <2>1
<1> QED
  BY <1>1, <1>2, <1>3, <1>4 DEF Whole, f

LEMMA BaseIsPrefix ==
  ASSUME NEW b, NEW t, NEW h, NEW f, Base(b, t), Below(h), Whole(f, t, h)
  PROVE  StrPrefix(b, f) <=> Len(b) <= Len(t) + 1
<1> USE DEF Base, Below, Whole
<1>1. StrPrefix(b, f) <=> Len(b) <= Len(f) /\ \A i \in 1..Len(b) : b[i] = f[i]
  BY PrefixIs
<1>2. ASSUME Len(b) <= Len(t) + 1, NEW i \in 1..Len(b) PROVE b[i] = f[i]
  <2>1. CASE i <= Len(t)
    BY <2>1
  <2>2. CASE i > Len(t)
    <3>1. i = Len(t) + 1 /\ 1 \in 1..Len(h)
      BY <1>2, <2>2
    <3>2. f[Len(t) + 1] = h[1]
      BY <3>1
    <3> QED
      BY <3>1, <3>2
  <2>3. i <= Len(t) \/ i > Len(t)
    BY DEF Base
  <2> QED
    BY <2>1, <2>2, <2>3, Zenon
<1>3. ASSUME ~(Len(b) <= Len(t) + 1), \A i \in 1..Len(b) : b[i] = f[i] PROVE FALSE
  <2>1. Len(t) + 2 \in 1..Len(b) /\ Len(t) + 2 \in Len(t) + 1..Len(b) /\ 2 \in 1..Len(h)
    BY <1>3
  <2>2. b[Len(t) + 2] = Sep /\ f[Len(t) + 2] = h[2]
    BY <2>1
  <2> QED
    BY <1>3, <2>1, <2>2
<1> QED
  BY <1>1, <1>2, <1>3

LEMMA RootIsNot ==
  ASSUME NEW b, NEW t, NEW h, NEW f, Base(b, t), Below(h), Whole(f, t, h)
  PROVE  ~StrPrefix(f, b)
<1> USE DEF Base, Below, Whole
<1> SUFFICES ASSUME Len(f) <= Len(b), \A i \in 1..Len(f) : f[i] = b[i] PROVE FALSE
  BY PrefixIs
<1>1. Len(t) + 2 \in 1..Len(f) /\ Len(t) + 2 \in Len(t) + 1..Len(b) /\ 2 \in 1..Len(h)
  OBVIOUS
<1>2. b[Len(t) + 2] = Sep /\ f[Len(t) + 2] = h[2]
  BY <1>1
<1> QED
  BY <1>1, <1>2

LEMMA EndsOnceIs ==
  ASSUME NEW t, Base(basepath, t)
  PROVE  EndsOnce <=> Len(basepath) <= Len(t) + 1
<1> DEFINE b == basepath
           e == SubSeq(b, 1, Len(b) - 1)
<1> USE DEF Base
<1>1. /\ b \in Seq(Chars) /\ Len(b) \in Nat \ {0} /\ Len(t) \in 0..Len(b)
      /\ \A i \in 1..Len(t) : b[i] = t[i]
      /\ \A i \in Len(t) + 1..Len(b) : b[i] = Sep
      /\ Len(t) > 0 => t[Len(t)] # Sep
  OBVIOUS
<1>2. EndsWithSep(b) <=> b[Len(b)] = Sep
  BY <1>1, EmptySeq DEF EndsWithSep, Last
<1>3. ASSUME Len(b) >= 2 PROVE EndsWithSep(Front(b)) <=> b[Len(b) - 1] = Sep
  <2>1. \A i \in 1..Len(b) - 1 : b[i] \in Chars
    BY <1>1, ElementOfSeq
  <2>2. e \in Seq(Chars) /\ Len(e) = Len(b) - 1 /\ \A i \in 1..Len(b) - 1 : e[i] = b[i]
    BY <1>1, <1>3, <2>1, SubSeqProperties
  <2>3. e # <<>> /\ e[Len(e)] = b[Len(b) - 1]
    <3> HIDE DEF e, Base, b
    <3>1. Len(b) - 1 \in 1..Len(b) - 1 /\ Len(b) - 1 # 0
      BY <1>1, <1>3
    <3>2. Len(<<>>) = 0
      BY EmptySeq
    <3> QED
      BY <2>2, <3>1, <3>2
  <2> QED
    BY <2>3 DEF EndsWithSep, Last, Front
<1>4. EndsOnce <=> (Len(b) < 2 \/ ~(b[Len(b)] = Sep /\ b[Len(b) - 1] = Sep))
  BY <1>1, <1>2, <1>3 DEF EndsOnce
<1> HIDE DEF b, Base
<1>5. ASSUME Len(b) <= Len(t) + 1, Len(b) >= 2, b[Len(b)] = Sep, b[Len(b) - 1] = Sep PROVE FALSE
  BY <1>1, <1>5
<1>6. ASSUME ~(Len(b) <= Len(t) + 1) PROVE Len(b) >= 2 /\ b[Len(b)] = Sep /\ b[Len(b) - 1] = Sep
  BY <1>1, <1>6
<1>7. EndsOnce <=> Len(b) <= Len(t) + 1
  BY <1>1, <1>4, <1>5, <1>6
<1> QED
  BY <1>7 DEF b

LEMMA TailIs ==
  ASSUME NEW h, Below(h)
  PROVE  /\ Tail(h) \in Seq(Chars) /\ Len(Tail(h)) = Len(h) - 1
         /\ \A i \in 1..Len(h) - 1 : Tail(h)[i] = h[i + 1]
         /\ Tail(h) # <<>> /\ h # <<>>
<1>1. h \in Seq(Chars) /\ Len(h) \in Nat /\ Len(h) >= 2 /\ Len(<<>>) = 0
  BY EmptySeq DEF Below
<1>2. h # <<>>
  BY <1>1
<1>3. Tail(h) \in Seq(Chars) /\ Len(Tail(h)) = Len(h) - 1
      /\ \A i \in 1..Len(Tail(h)) : Tail(h)[i] = h[i + 1]
  BY <1>1, <1>2, HeadTailProperties
<1> HIDE DEF Below
<1>4. Tail(h) # <<>>
  <2>1. Tail(h) = <<>> => Len(Tail(h)) = Len(<<>>)
    OBVIOUS
  <2>2. Len(Tail(h)) # 0
    BY <1>1, <1>3
  <2> QED
    BY <1>1, <2>1, <2>2, Zenon
<1>5. \A i \in 1..Len(h) - 1 : Tail(h)[i] = h[i + 1]
  BY <1>1, <1>3
<1> QED
  BY <1>2, <1>3, <1>4, <1>5

\* full2rela() on a name the base path is a prefix of.
LEMMA RelaIsTail ==
  ASSUME NEW t, NEW h, NEW f, Base(basepath, t), Below(h), Whole(f, t, h)
  PROVE  Full2Rela(f) = IF Len(basepath) <= Len(t) + 1 THEN Tail(h) ELSE Died
<1> DEFINE b == basepath
           s == SubSeq(f, Len(b) + 1, Len(f))
<1>1. /\ Len(b) \in Nat \ {0} /\ Len(t) \in Nat /\ Len(t) <= Len(b)
      /\ h \in Seq(Chars) /\ Len(h) \in Nat /\ Len(h) >= 2 /\ h[1] = Sep /\ h[2] # Sep
      /\ f \in Seq(Chars) /\ Len(f) = Len(t) + Len(h)
      /\ \A i \in 1..Len(h) : f[Len(t) + i] = h[i]
  BY DEF Base, Below, Whole
<1>2. StrPrefix(b, f) <=> Len(b) <= Len(t) + 1
  BY BaseIsPrefix
<1>3. ASSUME Len(b) <= Len(t) + 1 PROVE SkipSeps(s) = Tail(h)
  <2>1. \A i \in Len(b) + 1..Len(f) : f[i] \in Chars
    BY <1>1, ElementOfSeq
  <2>2. s \in Seq(Chars) /\ Len(s) = Len(f) - Len(b)
        /\ \A i \in 1..Len(f) - Len(b) : s[i] = f[Len(b) + i]
    <3>1. Len(b) + 1 <= Len(f) /\ Len(f) - (Len(b) + 1) + 1 = Len(f) - Len(b)
          /\ \A i \in 1..Len(f) - Len(b) : Len(b) + 1 + i - 1 = Len(b) + i
      BY <1>1, <1>3
    <3> QED
      BY <1>1, <2>1, <3>1, SubSeqProperties
  <2> HIDE DEF b, s
  <2>3. CASE Len(b) = Len(t)
    <3>4. Len(f) - Len(b) = Len(h) /\ \A i \in 1..Len(h) : Len(b) + i = Len(t) + i
      BY <1>1, <2>3
    <3>1. Len(s) = Len(h) /\ \A i \in 1..Len(h) : s[i] = h[i]
      BY <1>1, <2>2, <3>4
    <3>2. s = h
      BY <1>1, <2>2, <3>1, SeqEqual
    <3>3. h # <<>>
      BY TailIs
    <3> QED
      BY <1>1, <3>2, <3>3, SkipSepsIs
  <2>4. CASE Len(b) = Len(t) + 1
    <3>1. Tail(h) \in Seq(Chars) /\ Len(Tail(h)) = Len(h) - 1 /\ Tail(h) # <<>>
          /\ \A i \in 1..Len(h) - 1 : Tail(h)[i] = h[i + 1]
      BY TailIs
    <3>2. ASSUME NEW i \in 1..Len(h) - 1 PROVE s[i] = Tail(h)[i]
      <4>1. i + 1 \in 1..Len(h) /\ Len(b) + i = Len(t) + (i + 1) /\ i \in 1..Len(f) - Len(b)
        BY <1>1, <2>4
      <4> QED
        BY <1>1, <2>2, <3>1, <4>1
    <3>3. Len(s) = Len(Tail(h))
      BY <1>1, <2>2, <2>4, <3>1
    <3>4. s = Tail(h)
      BY <2>2, <3>1, <3>2, <3>3, SeqEqual
    <3>5. Tail(h)[1] # Sep
      BY <1>1, <3>1
    <3> QED
      BY <3>1, <3>4, <3>5, SkipSepsIs
  <2> QED
    BY <1>1, <1>3, <2>3, <2>4 DEF b
<1> QED
  BY <1>2, <1>3 DEF Full2Rela

\* What pathncat() puts between a directory and a name that does not start with a separator.
LEMMA JoinedIs ==
  ASSUME NEW d \in Seq(Chars), d # <<>>, NEW n, ~StartsWithSep(n)
  PROVE  Joined(d, n) = NftwJoin(d, n)
BY DEF Joined, NftwJoin

\* The name of something below the base path; h is a separator and that name.
LEMMA BaseJoined ==
  ASSUME NEW b, NEW t, NEW n \in Seq(Chars), Base(b, t), Len(b) <= Len(t) + 1, ~StartsWithSep(n)
  PROVE  Joined(b, n) = t \o (<<Sep>> \o n)
<1>1. /\ b \in Seq(Chars) /\ Len(b) \in Nat \ {0} /\ t \in Seq(Chars) /\ Len(t) \in Nat
      /\ Len(t) <= Len(b) /\ b # <<>> /\ <<Sep>> \in Seq(Chars)
      /\ Len(t) > 0 => t[Len(t)] # Sep
      /\ \A i \in 1..Len(t) : b[i] = t[i]
      /\ \A i \in Len(t) + 1..Len(b) : b[i] = Sep
  BY SepIsChar, EmptySeq DEF Base
<1>2. Joined(b, n) = NftwJoin(b, n)
  BY <1>1, JoinedIs
<1>3. CASE Len(b) = Len(t)
  <2>1. b = t
    BY <1>1, <1>3, SeqEqual
  <2>2. ~EndsWithSep(b)
    BY <1>1, <1>3, <2>1 DEF EndsWithSep, Last
  <2>3. NftwJoin(b, n) = (t \o <<Sep>>) \o n
    BY <2>1, <2>2 DEF NftwJoin
  <2> QED
    BY <1>1, <1>2, <2>3, Associative, Zenon
<1>4. CASE Len(b) = Len(t) + 1
  <2>1. /\ t \o <<Sep>> \in Seq(Chars) /\ Len(t \o <<Sep>>) = Len(t) + 1
        /\ \A i \in 1..Len(t) + 1 : (t \o <<Sep>>)[i] = IF i <= Len(t) THEN t[i] ELSE Sep
    <3>1. Len(<<Sep>>) = 1 /\ <<Sep>>[1] = Sep
      OBVIOUS
    <3>2. \A i \in 1..Len(t) + 1 : ~(i <= Len(t)) => i - Len(t) = 1
      BY <1>1
    <3> QED
      BY <1>1, <3>1, <3>2, ConcatProperties
  <2>2. \A i \in 1..Len(b) : b[i] = (t \o <<Sep>>)[i]
    BY <1>1, <1>4, <2>1
  <2>3. b = t \o <<Sep>>
    BY <1>1, <1>4, <2>1, <2>2, SeqEqual
  <2>4. EndsWithSep(b)
    BY <1>1, <1>4 DEF EndsWithSep, Last
  <2>5. NftwJoin(b, n) = (t \o <<Sep>>) \o n
    BY <2>3, <2>4 DEF NftwJoin
  <2> QED
    BY <1>1, <1>2, <2>5, Associative, Zenon
<1> QED
  BY <1>1, <1>3, <1>4

LEMMA HeadBack ==
  ASSUME NEW h, Below(h)
  PROVE  <<Sep>> \o Tail(h) = h
<1> DEFINE r == Tail(h)
           q == <<Sep>> \o r
<1>1. /\ r \in Seq(Chars) /\ Len(r) = Len(h) - 1 /\ \A i \in 1..Len(h) - 1 : r[i] = h[i + 1]
      /\ h \in Seq(Chars) /\ Len(h) \in Nat /\ Len(h) >= 2 /\ h[1] = Sep
  BY TailIs DEF Below
<1> HIDE DEF r
<1>2. q \in Seq(Chars) /\ Len(q) = 1 + Len(r)
      /\ \A i \in 1..1 + Len(r) : q[i] = IF i <= 1 THEN Sep ELSE r[i - 1]
  <2>1. Len(<<Sep>>) = 1 /\ <<Sep>>[1] = Sep /\ \A i \in 1..1 + Len(r) : i <= 1 => i = 1
    OBVIOUS
  <2> QED
    BY <1>1, <2>1, SepIsChar, ConcatProperties
<1> HIDE DEF q
<1>3. ASSUME NEW i \in 1..Len(h) PROVE q[i] = h[i]
  <2>1. CASE i = 1
    BY <1>1, <1>2, <2>1
  <2>2. CASE i # 1
    <3>1. i - 1 \in 1..Len(h) - 1 /\ i - 1 + 1 = i /\ i \in 1..1 + Len(r) /\ ~(i <= 1)
      BY <1>1, <2>2
    <3>2. q[i] = r[i - 1]
      BY <1>2, <3>1
    <3> QED
      BY <1>1, <3>1, <3>2
  <2> QED
    BY <2>1, <2>2
<1>4. Len(q) = Len(h)
  BY <1>1, <1>2
<1>5. q = h
  BY <1>1, <1>2, <1>3, <1>4, SeqEqual
<1> QED
  BY <1>5 DEF q, r

\* rela2full() gives the name back.
LEMMA FullAgain ==
  ASSUME NEW t, NEW h, NEW f, Base(basepath, t), Below(h), Whole(f, t, h),
         Len(basepath) <= Len(t) + 1, KernelTakes(f)
  PROVE  Rela2Full(Tail(h)) = f
<1> DEFINE b == basepath
           r == Tail(h)
<1>1. /\ Len(b) \in Nat \ {0} /\ Len(t) \in Nat /\ Len(b) <= Len(t) + 1
      /\ Len(h) \in Nat /\ h[2] # Sep /\ Len(h) >= 2
      /\ Len(f) = Len(t) + Len(h) /\ f = t \o h /\ Len(f) < PathMax /\ PathMax \in Nat
  BY PathsAssumption DEF Base, Below, Whole, KernelTakes
<1>2. r \in Seq(Chars) /\ Len(r) = Len(h) - 1 /\ \A i \in 1..Len(h) - 1 : r[i] = h[i + 1]
  BY TailIs
<1>3. ~StartsWithSep(r)
  BY <1>1, <1>2 DEF StartsWithSep
<1> HIDE DEF r
<1>4. Fits(b, r, PathMax) /\ Fits(<<>>, b, PathMax)
  <2>1. PathMax > Len(b) + Len(r) /\ PathMax > 0 + Len(b)
    BY <1>1, <1>2
  <2>2. Len(<<>>) = 0
    BY EmptySeq
  <2> QED
    BY <2>1, <2>2 DEF Fits
<1>5. Rela2Full(r) = Joined(b, r)
  BY <1>4 DEF Rela2Full, Pathncat2, Pathncat
<1>6. Joined(b, r) = t \o (<<Sep>> \o r)
  BY <1>1, <1>2, <1>3, BaseJoined
<1>7. <<Sep>> \o r = h
  BY HeadBack DEF r
<1> QED
  BY <1>1, <1>5, <1>6, <1>7 DEF r

\* The name of the file with components c, and of the directories on the way.
Layout(base, c, t, g) ==
  /\ Base(base, t) /\ Flats(g, c)
  /\ Relative(c) = Tail(g[Len(c)])
  /\ Reported(base, c) = t \o g[Len(c)]
  /\ \A k \in 1..Len(c) : Reported(base, SubSeq(c, 1, k)) = t \o g[k]

LEMMA BaseTrunk ==
  ASSUME NEW base \in BasePaths
  PROVE  Base(base, Trunk(base)) /\ base \in Seq(Chars) /\ Stripped(base) \in Seq(Chars)
<1>1. base \in Seq(Chars) /\ base # <<>> /\ Len(base) \in Nat \ {0}
  BY PathsAssumption, EmptySeq
<1> QED
  BY <1>1, TrunkIs, SepIsChar DEF Base

LEMMA LaidOut ==
  ASSUME NEW base \in BasePaths, NEW c \in Seq(FileNames), c # <<>>
  PROVE  \E t, g : Layout(base, c, t, g)
<1> DEFINE t == Trunk(base)
<1>1. Base(base, t) /\ base \in Seq(Chars) /\ Stripped(base) \in Seq(Chars)
  BY BaseTrunk
<1>2. PICK g : Flats(g, c) /\ Relative(c) = Tail(g[Len(c)])
  BY RelativeFlats
<1>3. PICK f : Names(f, base, c) /\ Reported(base, c) = f[Len(c)]
  BY <1>1, ReportedNames
<1>4. \A k \in 1..Len(c) : f[k] = t \o g[k]
  BY <1>1, <1>2, <1>3, NamesFlats
<1>5. Len(c) \in Nat \ {0}
  BY EmptySeq
<1>6. \A k \in 1..Len(c) : Reported(base, SubSeq(c, 1, k)) = t \o g[k]
  BY <1>1, <1>3, <1>4, <1>5, ReportedOnTheWay
<1>7. Reported(base, c) = t \o g[Len(c)]
  BY <1>3, <1>4, <1>5
<1> HIDE DEF t
<1>8. Layout(base, c, t, g)
  BY <1>1, <1>2, <1>6, <1>7 DEF Layout
<1> QED
  BY <1>8

LEMMA LayoutIs ==
  ASSUME NEW base, NEW c \in Seq(FileNames), c # <<>>, NEW t, NEW g, Layout(base, c, t, g)
  PROVE  /\ Len(c) \in Nat \ {0}
         /\ \A k \in 1..Len(c) : Below(g[k]) /\ Whole(t \o g[k], t, g[k])
<1>1. Len(c) \in Nat \ {0}
  BY EmptySeq
<1>2. ASSUME NEW k \in 1..Len(c) PROVE Below(g[k]) /\ Whole(t \o g[k], t, g[k])
  <2>1. Flats(g, c) /\ t \in Seq(Chars)
    BY DEF Layout, Base
  <2>2. Below(g[k])
    BY <2>1, FlatEnds DEF Below
  <2> QED
    BY <2>1, <2>2, ConcatWhole DEF Below
<1> QED
  BY <1>1, <1>2

\* mkdir_p() stops at each component.
OnTheWay(c, t, g) == {t \o g[k] : k \in 1..Len(c)}

LEMMA MkdirPIs ==
  ASSUME NEW c \in Seq(FileNames), c # <<>>, NEW t, NEW g, Layout(basepath, c, t, g),
         Len(basepath) <= Len(t) + 1
  PROVE  MkdirP(Reported(basepath, c)) = OnTheWay(c, t, g)
<1> DEFINE N == Len(c)
           h == g[N]
           f == t \o h
           L == Len(t)
           start == Len(f) - Len(Full2Rela(f))
           Stops == {j \in start + 2..Len(f) : f[j] = Sep /\ f[j - 1] # Sep}
<1>1. N \in Nat \ {0} /\ N \in 1..N /\ \A k \in 1..N : Below(g[k]) /\ Whole(t \o g[k], t, g[k])
  BY LayoutIs
<1>2. Base(basepath, t) /\ Flats(g, c) /\ Reported(basepath, c) = f
  BY DEF Layout
<1>3. Full2Rela(f) = Tail(h)
  BY <1>1, <1>2, RelaIsTail
<1>4. Below(h) /\ Whole(f, t, h)
  BY <1>1
<1> HIDE DEF f
<1>5. /\ L \in Nat /\ Len(h) \in Nat /\ Len(h) >= 2 /\ Len(f) = L + Len(h)
      /\ f \in Seq(Chars) /\ h \in Seq(Chars)
      /\ \A i \in 1..L : f[i] = t[i]
      /\ \A i \in 1..Len(h) : f[L + i] = h[i]
  BY <1>4 DEF Below, Whole
<1>6. start = L + 1
  <2>1. Len(Tail(h)) = Len(h) - 1
    BY <1>4, TailIs
  <2>2. start = Len(f) - Len(Tail(h))
    BY <1>3
  <2> DEFINE H == Len(h)
             F == Len(f)
             T == Len(Tail(h))
  <2>3. start = F - T /\ F = L + H /\ T = H - 1 /\ L \in Nat /\ H \in Nat
    BY <1>5, <2>1, <2>2
  <2> HIDE DEF start, h, L, H, F, T
  <2> QED
    BY <2>3
<1>7. \A x \in 2..Len(h) :
        h[x] = Sep => h[x - 1] # Sep /\ \E j \in 1..N - 1 : x = Len(g[j]) + 1
  BY <1>1, <1>2, FlatEnds
<1>8. SeparatorsAt(g, N)
  <2>1. N \in 0..N
    BY <1>1
  <2> QED
    BY <1>2, <2>1, FlatSeparators
<1>9. \A j \in 1..N - 1 : /\ Len(g[j]) \in Nat /\ Len(g[j]) >= 2 /\ Len(g[j]) + 2 <= Len(h)
                          /\ \A i \in 1..Len(g[j]) : h[i] = g[j][i]
  <2> SUFFICES ASSUME NEW j \in 1..N - 1
               PROVE  /\ Len(g[j]) \in Nat /\ Len(g[j]) >= 2 /\ Len(g[j]) + 2 <= Len(h)
                      /\ \A i \in 1..Len(g[j]) : h[i] = g[j][i]
    OBVIOUS
  <2>1. N \in 0..N /\ j \in 0..N /\ j < N /\ j \in 1..N
    BY <1>1
  <2>2. Len(g[j]) \in Nat /\ (j < N => Len(g[j]) + 2 <= Len(h))
        /\ \A i \in 1..Len(g[j]) : h[i] = g[j][i]
    BY <1>2, <2>1, FlatPrefix
  <2>3. Len(g[j]) >= 2
    BY <1>1, <2>1 DEF Below
  <2> QED
    BY <2>1, <2>2, <2>3
<1> HIDE DEF start, Stops, h, L, N
<1>10. ASSUME NEW j \in 1..N - 1
       PROVE  /\ L + Len(g[j]) + 1 \in Stops
              /\ SubSeq(f, 1, L + Len(g[j])) = t \o g[j]
  <2> DEFINE m == Len(g[j])
             q == t \o g[j]
  <2>1. m \in Nat /\ m >= 2 /\ m + 2 <= Len(h) /\ \A i \in 1..m : h[i] = g[j][i]
    BY <1>9
  <2>2. Whole(q, t, g[j])
    BY <1>1, <1>10
  <2>3. q \in Seq(Chars) /\ Len(q) = L + m
        /\ (\A i \in 1..L : q[i] = t[i]) /\ \A i \in 1..m : q[L + i] = g[j][i]
    BY <2>2 DEF Whole, L
  <2> HIDE DEF m, q
  <2>4. h[m + 1] = Sep
    <3>1. m + 1 \in 1..Len(h) /\ j \in 0..N - 1 /\ m + 1 = Len(g[j]) + 1
      BY <1>5, <2>1 DEF m
    <3>2. h[m + 1] = Sep <=> \E i \in 0..N - 1 : m + 1 = Len(g[i]) + 1
      BY <1>8, <3>1 DEF SeparatorsAt, h
    <3> QED
      BY <3>1, <3>2
  <2>5. h[m] # Sep
    <3>1. m + 1 \in 2..Len(h) /\ m + 1 - 1 = m
      BY <1>5, <2>1
    <3> DEFINE y == m + 1
    <3>2. h[y] = Sep
      BY <2>4
    <3>3. y \in 2..Len(h) /\ y - 1 = m
      BY <2>1, <3>1
    <3> HIDE DEF y
    <3> QED
      BY <1>7, <3>2, <3>3
  <2>6. L + m + 1 \in Stops
    <3> DEFINE H == Len(h)
    <3>3. L \in Nat /\ m \in Nat /\ H \in Nat /\ m >= 2 /\ m + 2 <= H
      BY <1>5, <2>1
    <3> HIDE DEF H
    <3>4. L + m + 1 = L + (m + 1) /\ L + m + 1 - 1 = L + m /\ m + 1 \in 1..H /\ m \in 1..H
          /\ L + m + 1 \in L + 1 + 2..L + H
      BY <3>3
    <3>5. H = Len(h)
      BY DEF H
    <3>1. L + m + 1 = L + (m + 1) /\ L + m + 1 - 1 = L + m /\ m + 1 \in 1..Len(h) /\ m \in 1..Len(h)
          /\ L + m + 1 \in L + 1 + 2..L + Len(h)
      <4> HIDE DEF H
      <4> QED
        BY <3>4, <3>5, Zenon
    <3>6. f[L + (m + 1)] = h[m + 1] /\ f[L + m] = h[m]
      BY <1>5, <3>1
    <3>2. f[L + m + 1] = Sep /\ f[L + m + 1 - 1] # Sep
      BY <2>4, <2>5, <3>1, <3>6, Zenon
    <3> QED
      BY <1>5, <1>6, <3>1, <3>2 DEF Stops
  <2>7. SubSeq(f, 1, L + m) = q
    <3>1. \A i \in 1..L + m : f[i] \in Chars
      <4>1. \A i \in 1..L + m : i \in 1..Len(f)
        BY <1>5, <2>1
      <4> QED
        BY <1>5, <4>1, ElementOfSeq
    <3> DEFINE s == SubSeq(f, 1, L + m)
    <3>2. s \in Seq(Chars) /\ Len(s) = L + m /\ \A i \in 1..L + m : s[i] = f[i]
      <4>1. L + m \in Int /\ 1 <= L + m /\ L + m - 1 + 1 = L + m /\ \A i \in 1..L + m : 1 + i - 1 = i
        BY <1>5, <2>1
      <4> QED
        BY <3>1, <4>1, SubSeqProperties
    <3> HIDE DEF s
    <3>3. ASSUME NEW i \in 1..L + m PROVE s[i] = q[i]
      <4>1. CASE i <= L
        BY <1>5, <2>3, <3>2, <4>1
      <4>2. CASE i > L
        <5>1. i - L \in 1..m /\ i - L \in 1..Len(h) /\ i = L + (i - L)
          BY <1>5, <2>1, <4>2
        <5>2. f[L + (i - L)] = h[i - L] /\ q[L + (i - L)] = g[j][i - L] /\ h[i - L] = g[j][i - L]
          BY <1>5, <2>1, <2>3, <5>1
        <5> QED
          BY <3>2, <5>1, <5>2
      <4> QED
        BY <1>5, <2>1, <4>1, <4>2
    <3>4. s = q
      BY <2>3, <3>2, <3>3, SeqEqual
    <3> QED
      BY <3>4 DEF s
  <2> QED
    BY <2>6, <2>7 DEF m, q
<1>11. ASSUME NEW x \in Stops PROVE \E j \in 1..N - 1 : x = L + Len(g[j]) + 1
  <2>1. x \in L + 1 + 2..L + Len(h) /\ f[x] = Sep /\ f[x - 1] # Sep
    BY <1>5, <1>6, <1>11 DEF Stops
  <2>2. x - L \in 2..Len(h) /\ x - L \in 1..Len(h) /\ x = L + (x - L)
    BY <1>5, <2>1
  <2>3. h[x - L] = Sep
    BY <1>5, <2>1, <2>2
  <2>4. PICK j \in 1..N - 1 : x - L = Len(g[j]) + 1
    BY <1>7, <2>2, <2>3
  <2>5. x = L + Len(g[j]) + 1
    BY <1>5, <1>9, <2>2, <2>4, SMTT(30)
  <2> QED
    BY <2>5
<1>12. ASSUME NEW x \in Stops PROVE \E k \in 1..N : SubSeq(f, 1, x - 1) = t \o g[k]
  <2>1. PICK j \in 1..N - 1 : x = L + Len(g[j]) + 1
    BY <1>11
  <2>2. x - 1 = L + Len(g[j]) /\ j \in 1..N
    BY <1>1, <1>5, <1>9, <2>1
  <2> QED
    BY <1>10, <2>2
<1>13. ASSUME NEW k \in 1..N
       PROVE  t \o g[k] = f \/ \E x \in Stops : t \o g[k] = SubSeq(f, 1, x - 1)
  <2>1. CASE k = N
    BY <2>1 DEF f, h
  <2>2. CASE k # N
    <3>1. k \in 1..N - 1
      BY <1>1, <2>2
    <3>2. L + Len(g[k]) + 1 \in Stops /\ SubSeq(f, 1, L + Len(g[k])) = t \o g[k]
      BY <1>10, <3>1
    <3>3. L + Len(g[k]) + 1 - 1 = L + Len(g[k])
      BY <1>5, <1>9, <3>1
    <3> DEFINE x == L + Len(g[k]) + 1
    <3>4. x \in Stops
      BY <3>2
    <3>5. x - 1 = L + Len(g[k])
      BY <1>5, <1>9, <3>1
    <3> HIDE DEF x
    <3>6. t \o g[k] = SubSeq(f, 1, x - 1)
      BY <3>2, <3>5
    <3> QED
      BY <3>4, <3>6
  <2> QED
    BY <2>1, <2>2
<1>14. MkdirP(f) = {SubSeq(f, 1, x - 1) : x \in Stops} \cup {f}
  BY DEF MkdirP, Stops, start
<1>15. f = t \o g[N] /\ N \in 1..N
  BY <1>1 DEF f, h
<1>16. MkdirP(f) = {t \o g[k] : k \in 1..N}
  BY <1>12, <1>13, <1>14, <1>15
<1> QED
  BY <1>2, <1>16 DEF N, OnTheWay

\* .fss, and names that begin like it, are skipped by their first component.
LEMMA FssSkipped ==
  ASSUME NEW c \in Seq(FileNames), c # <<>>, NEW t, NEW g, Layout(basepath, c, t, g),
         Len(basepath) <= Len(t) + 1, KernelTakes(Reported(basepath, c))
  PROVE  SkippedFss(Reported(basepath, c)) <=> StrPrefix(FssDir, c[1])
<1> DEFINE N == Len(c)
           h == g[N]
           f == t \o h
           L == Len(t)
           p == t \o (<<Sep>> \o FssDir)
           B == Len(basepath)
           D == Len(FssDir)
           C == Len(c[1])
           F == Len(f)
           H == Len(h)
<1>1. N \in Nat \ {0} /\ N \in 1..N /\ 1 \in 1..N /\ \A k \in 1..N : Below(g[k]) /\ Whole(t \o g[k], t, g[k])
  BY LayoutIs
<1>2. Base(basepath, t) /\ Flats(g, c) /\ Reported(basepath, c) = f /\ t \in Seq(Chars)
  BY DEF Layout, Base
<1>3. Longer(p, t, FssDir)
  <2>1. FssDir \in FileNames
    BY PathsAssumption
  <2> QED
    BY <1>2, <2>1, ConcatLonger
<1>4. Longer(g[1], g[0], c[1]) /\ Len(g[0]) = 0
  <2>1. Longer(g[1], g[1 - 1], c[1])
    BY <1>1, <1>2, FlatStep
  <2>2. g[0] = <<>>
    BY <1>2 DEF Flats
  <2> QED
    BY <2>1, <2>2, EmptySeq
<1>5. Below(h) /\ Whole(f, t, h)
  BY <1>1
<1> HIDE DEF h, p
<1>6. /\ L \in Nat /\ D \in Nat \ {0} /\ Len(p) = L + 1 + D /\ p \in Seq(Chars) /\ FssDir \in Seq(Chars)
      /\ \A i \in 1..L : p[i] = t[i]
      /\ p[L + 1] = Sep
      /\ \A i \in 1..D : p[L + 1 + i] = FssDir[i] /\ FssDir[i] # Sep
  BY <1>3, NamesAre DEF Longer
<1>7. /\ C \in Nat \ {0} /\ Len(g[1]) = 1 + C /\ c[1] \in Seq(Chars)
      /\ \A i \in 1..C : g[1][1 + i] = c[1][i]
  <2>1. /\ C \in Nat \ {0} /\ Len(g[1]) = 0 + 1 + C /\ c[1] \in FileNames
        /\ \A i \in 1..C : g[1][0 + 1 + i] = c[1][i]
    BY <1>4 DEF Longer
  <2> QED
    BY <2>1, NamesAre
<1>8. /\ H \in Nat /\ F = L + H /\ f \in Seq(Chars) /\ h[1] = Sep
      /\ \A i \in 1..L : f[i] = t[i]
      /\ \A i \in 1..H : f[L + i] = h[i]
  BY <1>5 DEF Below, Whole
<1>9. /\ 1 + C <= H /\ \A i \in 1..C : h[1 + i] = c[1][i]
      /\ H > 1 + C => h[1 + C + 1] = Sep
  <2>1. N \in 0..N /\ 1 \in 0..N
    BY <1>1
  <2>2. Len(g[1]) \in Nat /\ (1 < N => Len(g[1]) + 2 <= H) /\ \A i \in 1..Len(g[1]) : h[i] = g[1][i]
    <3>1. \A k \in 0..N : \A j \in 0..k :
            /\ Len(g[j]) \in Nat /\ (j < k => Len(g[j]) + 2 <= Len(g[k]))
            /\ \A i \in 1..Len(g[j]) : g[k][i] = g[j][i]
      BY <1>2, FlatPrefix
    <3> QED
      BY <2>1, <3>1 DEF h
  <2>3. SeparatorsAt(g, N)
    BY <1>2, <2>1, FlatSeparators
  <2>4. CASE N = 1
    <3>1. h = g[1] /\ H = Len(g[1])
      BY <2>4 DEF h
    <3> HIDE DEF H, C
    <3> QED
      BY <1>7, <1>8, <3>1
  <2>5. CASE N # 1
    <3>7. N \in Nat \ {0}
      BY <1>1
    <3> HIDE DEF H, C, N
    <3>1. 1 < N /\ 1 \in 0..N - 1
      BY <2>5, <3>7
    <3>2. 1 + C + 2 <= H
      BY <1>7, <2>2, <3>1
    <3>3. 1 + C + 1 \in 1..H
      BY <1>7, <1>8, <3>2, SMTT(30)
    <3>4. h[1 + C + 1] = Sep <=> \E j \in 0..N - 1 : 1 + C + 1 = Len(g[j]) + 1
      BY <2>3, <3>3 DEF SeparatorsAt, h, H
    <3>5. h[1 + C + 1] = Sep
      BY <1>7, <3>1, <3>4
    <3>6. \A i \in 1..C : 1 + i \in 1..1 + C
      BY <1>7
    <3> QED
      BY <1>7, <1>8, <2>2, <3>2, <3>5, <3>6
  <2> QED
    BY <2>4, <2>5
<1>10. FssDirPath = IF B + D < PathMax /\ B < PathMax THEN p ELSE Died
  <2>1. ~StartsWithSep(FssDir)
    BY <1>6 DEF StartsWithSep
  <2>2. Joined(basepath, FssDir) = p
    BY <1>2, <1>6, <2>1, BaseJoined DEF p
  <2>3. Fits(basepath, FssDir, PathMax) <=> B + D < PathMax
    BY DEF Fits
  <2>4. Fits(<<>>, basepath, PathMax) <=> B < PathMax
    <3>1. Len(<<>>) = 0 /\ B \in Nat
      BY <1>2, EmptySeq DEF Base
    <3>2. PathMax > 0 + B <=> B < PathMax
      BY <3>1, PathsAssumption
    <3> QED
      BY <3>1, <3>2 DEF Fits
  <2> HIDE DEF B, D
  <2> QED
    BY <2>2, <2>3, <2>4 DEF FssDirPath, Pathncat2, Pathncat
<1>11. p # Died
  BY <1>6, PathsAssumption
<1>12. B \in Nat /\ B <= L + 1 /\ F < PathMax /\ PathMax \in Nat
  BY <1>2, PathsAssumption DEF Base, KernelTakes
<1>13. StrPrefix(p, f) <=> Len(p) <= F /\ \A i \in 1..Len(p) : p[i] = f[i]
  BY <1>6, <1>8, PrefixIs
<1>14. StrPrefix(FssDir, c[1]) <=> D <= C /\ \A i \in 1..D : FssDir[i] = c[1][i]
  BY <1>6, <1>7, PrefixIs
<1> HIDE DEF f, L, B, D, C, F, H, N
<1>15. ASSUME D <= C, \A i \in 1..D : FssDir[i] = c[1][i]
       PROVE  B + D < PathMax /\ B < PathMax /\ StrPrefix(p, f)
  <2>1. B + D < PathMax /\ B < PathMax /\ Len(p) <= F
    BY <1>6, <1>7, <1>8, <1>9, <1>12, <1>15
  <2>2. ASSUME NEW i \in 1..Len(p) PROVE p[i] = f[i]
    <3>1. CASE i <= L
      BY <1>6, <1>8, <3>1
    <3>2. CASE i = L + 1
      <4>1. 1 \in 1..H
        BY <1>7, <1>8, <1>9
      <4>2. f[L + 1] = h[1]
        BY <1>8, <4>1
      <4> QED
        BY <1>6, <1>8, <3>2, <4>2
    <3>3. CASE i > L + 1
      <4> DEFINE k == i - (L + 1)
      <4>1. k \in 1..D /\ k \in 1..C /\ 1 + k \in 1..H /\ i = L + 1 + k /\ i = L + (1 + k)
        BY <1>6, <1>7, <1>8, <1>9, <1>15, <3>3
      <4> HIDE DEF k
      <4>2. p[i] = FssDir[k] /\ f[i] = h[1 + k] /\ h[1 + k] = c[1][k] /\ FssDir[k] = c[1][k]
        BY <1>6, <1>8, <1>9, <1>15, <4>1
      <4> QED
        BY <4>2
    <3> QED
      BY <1>6, <3>1, <3>2, <3>3
  <2> QED
    BY <1>13, <2>1, <2>2
<1>16. ASSUME StrPrefix(p, f) PROVE D <= C /\ \A i \in 1..D : FssDir[i] = c[1][i]
  <2>1. L + 1 + D <= L + H /\ \A i \in 1..L + 1 + D : p[i] = f[i]
    BY <1>6, <1>8, <1>13, <1>16
  <2>2. \A k \in 1..D : FssDir[k] = h[1 + k] /\ FssDir[k] # Sep
    <3> SUFFICES ASSUME NEW k \in 1..D PROVE FssDir[k] = h[1 + k] /\ FssDir[k] # Sep
      OBVIOUS
    <3>1. L + 1 + k \in 1..L + 1 + D /\ 1 + k \in 1..H /\ L + 1 + k = L + (1 + k)
      BY <1>6, <1>8, <2>1
    <3>2. p[L + 1 + k] = FssDir[k] /\ f[L + 1 + k] = h[1 + k] /\ p[L + 1 + k] = f[L + 1 + k]
      BY <1>6, <1>8, <2>1, <3>1
    <3> QED
      BY <1>6, <3>2
  <2>3. D <= C
    <3> SUFFICES ASSUME ~(D <= C) PROVE FALSE
      OBVIOUS
    <3>1. C + 1 \in 1..D /\ H > 1 + C /\ 1 + (C + 1) = 1 + C + 1
      BY <1>6, <1>7, <1>8, <2>1
    <3>2. FssDir[C + 1] = h[1 + (C + 1)] /\ FssDir[C + 1] # Sep
      BY <2>2, <3>1
    <3> QED
      BY <1>9, <3>1, <3>2
  <2>4. \A i \in 1..D : FssDir[i] = c[1][i]
    <3>1. \A i \in 1..D : i \in 1..C
      BY <1>6, <1>7, <2>3
    <3> QED
      BY <1>9, <2>2, <3>1
  <2> QED
    BY <2>3, <2>4
<1>17. SkippedFss(f) <=> StrPrefix(FssDir, c[1])
  BY <1>10, <1>11, <1>14, <1>15, <1>16 DEF SkippedFss
<1> QED
  BY <1>2, <1>17

-----------------------------------------------------------------------------
(* The calls *)

LEMMA ComponentsAre == Components \subseteq Seq(FileNames)
BY DEF Components

LEMMA EmptyKept == KernelTakes(<<>>)
BY PathsAssumption, EmptySeq DEF KernelTakes

\* The monitored directory itself is skipped, however its path ends.
LEMMA RootSkipped ==
  ASSUME basepath \in BasePaths
  PROVE  SkippedRoot(Reported(basepath, <<>>))
<1> DEFINE t == Trunk(basepath)
           f == Stripped(basepath)
<1>1. Base(basepath, t) /\ basepath \in Seq(Chars) /\ f \in Seq(Chars)
  BY BaseTrunk
<1>2. f = IF Len(t) = 0 THEN <<Sep>> ELSE t
  BY <1>1, TrunkIs
<1> HIDE DEF t
<1>3. StrPrefix(f, basepath)
  <2>1. CASE Len(t) = 0
    <3>1. f = <<Sep>> /\ Len(<<Sep>>) = 1 /\ <<Sep>>[1] = Sep
      BY <1>2, <2>1
    <3>2. Len(f) <= Len(basepath) /\ \A i \in 1..Len(f) : f[i] = basepath[i]
      <4> HIDE DEF f
      <4> QED
        BY <1>1, <2>1, <3>1 DEF Base
    <3> QED
      BY <1>1, <3>2, PrefixIs
  <2>2. CASE Len(t) # 0
    <3>1. Len(f) <= Len(basepath) /\ \A i \in 1..Len(f) : f[i] = basepath[i]
      <4> HIDE DEF f
      <4> QED
        BY <1>1, <1>2, <2>2 DEF Base
    <3> QED
      BY <1>1, <3>1, PrefixIs
  <2> QED
    BY <2>1, <2>2
<1>4. Reported(basepath, <<>>) = f
  <2>1. <<>> \in Seq(FileNames) /\ Len(<<>>) = 0
    BY EmptySeq
  <2>2. PICK g : Names(g, basepath, <<>>) /\ Reported(basepath, <<>>) = g[Len(<<>>)]
    BY <1>1, <2>1, ReportedNames
  <2> QED
    BY <2>1, <2>2 DEF Names
<1> QED
  BY <1>3, <1>4 DEF SkippedRoot

\* What a scan finds out about a file.
WalkRight(c, w) ==
  /\ EndsOnce =>
       /\ w.skipped <=> c = <<>> \/ StrPrefix(FssDir, c[1])
       /\ ~w.skipped => w.rela = Relative(c) /\ w.back = w.full
  /\ w.rela # Died /\ w.back # Died => KernelTakes(w.back)

LEMMA WalkIsRight ==
  ASSUME basepath \in BasePaths, NEW c \in Components, KernelTakes(Reported(basepath, c))
  PROVE  WalkRight(c, Walked(c))
<1> DEFINE f == Reported(basepath, c)
           skipped == SkippedRoot(f) \/ SkippedFss(f)
           rela == IF skipped THEN <<>> ELSE Full2Rela(f)
           back == IF skipped \/ rela = Died THEN rela ELSE Rela2Full(rela)
           w == Walked(c)
<1>1. w.full = f /\ w.skipped = skipped /\ w.rela = rela /\ w.back = back
  BY DEF Walked
<1>2. c \in Seq(FileNames)
  BY ComponentsAre
<1>3. CASE c = <<>>
  <2>1. skipped
    BY <1>3, RootSkipped
  <2>2. w.skipped /\ w.back = <<>>
    BY <1>1, <2>1
  <2> HIDE DEF w
  <2>3. WalkRight(c, w)
    BY <1>3, <2>2, EmptyKept DEF WalkRight
  <2> QED
    BY <2>3 DEF w
<1>4. CASE c # <<>>
  <2>1. PICK t, g : Layout(basepath, c, t, g)
    BY <1>2, <1>4, LaidOut
  <2> DEFINE h == g[Len(c)]
  <2>2. Base(basepath, t) /\ Below(h) /\ f = t \o h /\ Whole(f, t, h) /\ Relative(c) = Tail(h)
    <3>1. Len(c) \in 1..Len(c) /\ Below(g[Len(c)]) /\ Whole(t \o g[Len(c)], t, g[Len(c)])
      BY <1>2, <1>4, <2>1, LayoutIs
    <3> QED
      BY <2>1, <3>1 DEF Layout
  <2> HIDE DEF f, h
  <2>3. ~SkippedRoot(f)
    BY <2>2, RootIsNot DEF SkippedRoot
  <2>4. Full2Rela(f) = IF EndsOnce THEN Relative(c) ELSE Died
    BY <2>2, EndsOnceIs, RelaIsTail
  <2>5. CASE EndsOnce
    <3>1. Len(basepath) <= Len(t) + 1
      BY <2>2, <2>5, EndsOnceIs
    <3>2. skipped <=> StrPrefix(FssDir, c[1])
      BY <1>2, <1>4, <2>1, <2>3, <3>1, FssSkipped DEF f
    <3>3. Rela2Full(Relative(c)) = f
      BY <2>2, <3>1, FullAgain DEF f
    <3>4. Relative(c) # Died
      BY <2>2, TailIs, PathsAssumption
    <3>5. ~skipped => rela = Relative(c) /\ back = f
      BY <2>4, <2>5, <3>3, <3>4
    <3>6. skipped => back = <<>>
      OBVIOUS
    <3>7. KernelTakes(f)
      BY DEF f
    <3> HIDE DEF skipped, rela, back, w
    <3>8. w.skipped <=> c = <<>> \/ StrPrefix(FssDir, c[1])
      BY <1>1, <1>4, <3>2
    <3>9. ~w.skipped => w.rela = Relative(c) /\ w.back = w.full
      BY <1>1, <3>5
    <3>10. KernelTakes(w.back)
      BY <1>1, <3>5, <3>6, <3>7, EmptyKept
    <3>11. WalkRight(c, w)
      BY <3>8, <3>9, <3>10 DEF WalkRight
    <3> QED
      BY <3>11 DEF w
  <2>6. CASE ~EndsOnce
    <3>1. ~skipped => rela = Died
      BY <2>4, <2>6
    <3>2. skipped => back = <<>>
      OBVIOUS
    <3> HIDE DEF skipped, rela, back, w
    <3>3. w.rela = Died \/ KernelTakes(w.back)
      BY <1>1, <3>1, <3>2, EmptyKept
    <3>4. WalkRight(c, w)
      BY <2>6, <3>3 DEF WalkRight
    <3> QED
      BY <3>4 DEF w
  <2> QED
    BY <2>5, <2>6
<1> QED
  BY <1>3, <1>4

\* What is heard about a name in a directory.
EventRight(c, e) ==
  /\ e.full # Died => e.full = Reported(basepath, c) /\ Len(e.full) <= PathMax

LEMMA ReportedIsName ==
  ASSUME basepath \in BasePaths, NEW c \in Seq(FileNames)
  PROVE  Reported(basepath, c) \in Seq(Chars) /\ Reported(basepath, c) # <<>>
<1>1. Base(basepath, Trunk(basepath)) /\ basepath \in Seq(Chars) /\ Stripped(basepath) \in Seq(Chars)
  BY BaseTrunk
<1>2. Len(<<>>) = 0
  BY EmptySeq
<1>3. CASE c = <<>>
  <2>1. PICK g : Names(g, basepath, c) /\ Reported(basepath, c) = g[Len(c)]
    BY <1>1, ReportedNames
  <2>2. Reported(basepath, c) = Stripped(basepath)
    BY <1>2, <1>3, <2>1 DEF Names
  <2>3. Stripped(basepath) # <<>>
    <3>1. Stripped(basepath) = IF Len(Trunk(basepath)) = 0 THEN <<Sep>> ELSE Trunk(basepath)
      BY <1>1, TrunkIs
    <3>2. <<Sep>> # <<>>
      OBVIOUS
    <3> QED
      BY <1>2, <3>1, <3>2
  <2> QED
    BY <1>1, <2>2, <2>3
<1>4. CASE c # <<>>
  <2>1. PICK t, g : Layout(basepath, c, t, g)
    BY <1>4, LaidOut
  <2> DEFINE h == g[Len(c)]
             f == t \o h
  <2>2. Below(h) /\ Whole(f, t, h) /\ Reported(basepath, c) = f
    <3>1. Len(c) \in 1..Len(c) /\ Below(g[Len(c)]) /\ Whole(t \o g[Len(c)], t, g[Len(c)])
      BY <1>4, <2>1, LayoutIs
    <3> QED
      BY <2>1, <3>1 DEF Layout
  <2> HIDE DEF h, f
  <2>3. f \in Seq(Chars) /\ Len(f) # 0
    BY <2>2 DEF Below, Whole
  <2> QED
    BY <1>2, <2>2, <2>3
<1> QED
  BY <1>3, <1>4

LEMMA EventIsRight ==
  ASSUME basepath \in BasePaths, NEW c \in Components, NEW n \in FileNames
  PROVE  EventRight(Append(c, n), Heard(c, n))
<1> DEFINE d == Reported(basepath, c)
           a == Append(c, n)
           e == Heard(c, n)
<1>1. c \in Seq(FileNames) /\ Len(c) \in Nat
  BY ComponentsAre, LenProperties
<1>2. d \in Seq(Chars) /\ d # <<>> /\ Len(d) \in Nat
  BY <1>1, ReportedIsName, LenProperties
<1>3. n \in Seq(Chars) /\ Len(n) \in Nat \ {0} /\ ~StartsWithSep(n)
  BY NamesAre DEF StartsWithSep
<1>4. Reported(basepath, a) = NftwJoin(d, n)
  <2>1. a \in Seq(FileNames) /\ Len(a) = Len(c) + 1 /\ a[Len(c) + 1] = n
        /\ \A i \in 1..Len(c) : a[i] = c[i]
    BY <1>1, AppendProperties
  <2>2. Stripped(basepath) \in Seq(Chars)
    BY BaseTrunk
  <2> HIDE DEF a
  <2>3. PICK f : Names(f, basepath, a) /\ Reported(basepath, a) = f[Len(a)]
    BY <2>1, <2>2, ReportedNames
  <2>4. PICK g : Names(g, basepath, c) /\ Reported(basepath, c) = g[Len(c)]
    BY <1>1, <2>2, ReportedNames
  <2>5. \A k \in 0..Len(c) : g[k] = f[k]
    <3>1. Len(c) <= Len(a) /\ Len(a) \in Nat /\ \A k \in 1..Len(c) : c[k] = a[k]
      BY <1>1, <2>1
    <3> QED
      BY <1>1, <2>3, <2>4, <3>1, NamesAgree
  <2>6. f[Len(c)] = d
    BY <1>1, <2>4, <2>5
  <2>7. f[Len(a)] = NftwJoin(f[Len(a) - 1], a[Len(a)])
    <3>1. Len(a) \in 1..Len(a)
      BY <1>1, <2>1
    <3> QED
      BY <2>3, <3>1 DEF Names
  <2>8. Len(a) - 1 = Len(c)
    BY <1>1, <2>1
  <2> QED
    BY <2>1, <2>3, <2>6, <2>7, <2>8
<1> HIDE DEF d, a
<1>5. e.full = Pathncat2(d, n, PathMax)
  BY DEF Heard, d
<1> HIDE DEF e
<1>6. Joined(d, n) = NftwJoin(d, n)
  BY <1>2, <1>3, JoinedIs
<1>7. ASSUME e.full # Died PROVE e.full = NftwJoin(d, n) /\ Len(d) + Len(n) < PathMax
  <2>1. e.full = Joined(d, n) /\ Fits(d, n, PathMax)
    BY <1>5, <1>7 DEF Pathncat2, Pathncat
  <2>2. PathMax \in Nat /\ PathMax > Len(d) + Len(n)
    BY <2>1, PathsAssumption DEF Fits
  <2> QED
    BY <1>2, <1>3, <1>6, <2>1, <2>2
<1>8. Len(NftwJoin(d, n)) <= Len(d) + Len(n) + 1
  <2>1. Len(d \o n) = Len(d) + Len(n)
    BY <1>2, <1>3, ConcatProperties
  <2>2. d \o <<Sep>> \in Seq(Chars) /\ Len(d \o <<Sep>>) = Len(d) + 1
    BY <1>2, SepIsChar, ConcatProperties
  <2>3. Len((d \o <<Sep>>) \o n) = Len(d) + 1 + Len(n)
    BY <1>3, <2>2, ConcatProperties
  <2> DEFINE x == Len(d)
             y == Len(n)
  <2>4. x \in Nat /\ y \in Nat
    BY <1>2, <1>3
  <2>5. Len(NftwJoin(d, n)) = x + y \/ Len(NftwJoin(d, n)) = x + 1 + y
    BY <2>1, <2>3 DEF NftwJoin
  <2> HIDE DEF x, y
  <2>6. Len(NftwJoin(d, n)) <= x + y + 1
    BY <2>4, <2>5
  <2> QED
    BY <2>6 DEF x, y
<1>9. ASSUME e.full # Died PROVE Len(e.full) <= PathMax
  <2>1. Len(NftwJoin(d, n)) \in Nat
    BY <1>2, JoinedIsName, LenProperties
  <2> QED
    BY <1>2, <1>3, <1>7, <1>8, <1>9, <2>1, PathsAssumption
<1>10. EventRight(a, e)
  BY <1>4, <1>7, <1>9 DEF EventRight
<1> QED
  BY <1>10 DEF a, e

\* Which directories mkdir_p() makes.
MkdirRight(c, m) ==
  m.full # Died => m.made = {Reported(basepath, SubSeq(c, 1, k)) : k \in 1..Len(c)}

LEMMA MkdirIsRight ==
  ASSUME basepath \in BasePaths, NEW c \in Components, KernelTakes(Reported(basepath, c)),
         c # <<>>
  PROVE  MkdirRight(c, MkdirCalled(c))
<1> DEFINE f == Reported(basepath, c)
           rela == Full2Rela(f)
           full == IF rela = Died THEN Died ELSE Rela2Full(rela)
           m == MkdirCalled(c)
<1>1. m.full = full /\ (full # Died => m.made = MkdirP(full))
  BY DEF MkdirCalled
<1>2. c \in Seq(FileNames)
  BY ComponentsAre
<1>3. PICK t, g : Layout(basepath, c, t, g)
  BY <1>2, LaidOut
<1> DEFINE h == g[Len(c)]
<1>4. Base(basepath, t) /\ Below(h) /\ Whole(f, t, h) /\ Relative(c) = Tail(h)
  <2>1. Len(c) \in 1..Len(c) /\ Below(g[Len(c)]) /\ Whole(t \o g[Len(c)], t, g[Len(c)])
    BY <1>2, <1>3, LayoutIs
  <2> QED
    BY <1>3, <2>1 DEF Layout
<1>5. KernelTakes(f)
  OBVIOUS
<1> HIDE DEF m, h
<1>6. CASE Len(basepath) <= Len(t) + 1
  <2>1. rela = Tail(h) /\ Rela2Full(Tail(h)) = f
    <3> HIDE DEF f
    <3> QED
      BY <1>4, <1>5, <1>6, RelaIsTail, FullAgain
  <2>2. full # Died => full = f
    BY <2>1
  <2>3. MkdirP(f) = OnTheWay(c, t, g)
    BY <1>2, <1>3, <1>6, MkdirPIs
  <2>4. \A k \in 1..Len(c) : Reported(basepath, SubSeq(c, 1, k)) = t \o g[k]
    BY <1>3 DEF Layout
  <2>5. MkdirP(f) = {Reported(basepath, SubSeq(c, 1, k)) : k \in 1..Len(c)}
    BY <2>3, <2>4 DEF OnTheWay
  <2> HIDE DEF full, rela, f
  <2>6. MkdirRight(c, m)
    BY <1>1, <2>2, <2>5 DEF MkdirRight
  <2> QED
    BY <2>6 DEF m
<1>7. CASE ~(Len(basepath) <= Len(t) + 1)
  <2>1. rela = Died
    <3> HIDE DEF f
    <3> QED
      BY <1>4, <1>7, RelaIsTail
  <2>2. m.full = Died
    BY <1>1, <2>1
  <2>3. MkdirRight(c, m)
    BY <2>2 DEF MkdirRight
  <2> QED
    BY <2>3 DEF m
<1> QED
  BY <1>6, <1>7
=============================================================================
