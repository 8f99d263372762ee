-------------------------- MODULE HashtableProofs --------------------------
(***************************************************************************)
(* The hash table, for any finite set of nodes, any size and any hash: the *)
(* chains are lists of all the nodes there are, no pointer leads to a      *)
(* freed one, and the table with its traversal is a table of nodes.        *)
(*                                                                         *)
(* What the pointers lead to is a matter of lists: the first part is about *)
(* lists that pointers c link, whatever c is, so that it holds of those    *)
(* before and after a step.                                                *)
(***************************************************************************)
EXTENDS Hashtable, SequenceTheorems, FiniteSetTheorems, FunctionTheorems,
        WellFoundedInduction, TLAPS

Pointers == Nodes \cup {Nil, Freed}

Distinct(s) == \A j, l \in 1..Len(s) : s[j] = s[l] => j = l

\* The pointer that leads to place j of the list s, if p leads to its first node.
Before(c, s, p, j) == IF j = 1 THEN p ELSE c[s[j - 1]]
Linked(c, s, p) == \A j \in 1..Len(s) : s[j] = Before(c, s, p, j)
EndOf(c, s, p)  == IF s = <<>> THEN p ELSE c[s[Len(s)]]

\* The list that c makes from p on, if it is one.
Reached(c, p) ==
  CHOOSE s \in Lists : Linked(c, s, p) /\ EndOf(c, s, p) \notin Nodes

\* The pointers c make the list s of p.
Ordered(c, s, p) ==
  /\ s \in Seq(Nodes)
  /\ Distinct(s)
  /\ Linked(c, s, p)
  /\ EndOf(c, s, p) = Nil

\* The list s without what is at place j.
Less(s, j) == [l \in 1..Len(s) - 1 |-> IF l < j THEN s[l] ELSE s[l + 1]]

-----------------------------------------------------------------------------
(* Lists *)

LEMMA LeastOfNat ==
  ASSUME NEW S \in SUBSET Nat, S # {}
  PROVE  \E k \in S : \A m \in S : k <= m
<1> DEFINE R == OpToRel(<, Nat)
<1>1. IsWellFoundedOn(R, Nat)
  BY NatLessThanWellFounded
<1> HIDE DEF R
<1>2. PICK k \in S : \A m \in Nat : m \in S => ~(<<m, k>> \in R)
  BY <1>1, WFMin
<1>3. \A m \in S : ~(m < k)
  BY <1>2 DEF R, OpToRel
<1> QED
  BY <1>2, <1>3

LEMMA ListIsSeq == \A s : s \in Lists <=> s \in Seq(Nodes) /\ Len(s) <= Cardinality(Nodes)
<1>1. Cardinality(Nodes) \in Nat
  BY HashtableAssumption, FS_CardinalityType
<1>2. ASSUME NEW s \in Lists
      PROVE  s \in Seq(Nodes) /\ Len(s) <= Cardinality(Nodes)
  <2>1. PICK n \in 0..Cardinality(Nodes) : s \in [1..n -> Nodes]
    BY DEF Lists
  <2>2. n \in Nat
    BY <1>1, <2>1
  <2>3. s \in Seq(Nodes) /\ Len(s) = n
    BY <2>1, <2>2, SeqDef, LenProperties
  <2> QED
    BY <1>1, <2>1, <2>3
<1>3. ASSUME NEW s \in Seq(Nodes), Len(s) <= Cardinality(Nodes)
      PROVE  s \in Lists
  <2>1. Len(s) \in Nat /\ s \in [1..Len(s) -> Nodes]
    BY LenProperties
  <2>2. Len(s) \in 0..Cardinality(Nodes)
    BY <1>1, <1>3, <2>1
  <2> QED
    BY <2>1, <2>2 DEF Lists
<1> QED
  BY <1>2, <1>3

\* A list without repetition has room for every node at most.
LEMMA DistinctFits ==
  ASSUME NEW s \in Seq(Nodes), Distinct(s)
  PROVE  Len(s) <= Cardinality(Nodes)
<1>1. Len(s) \in Nat /\ s \in [1..Len(s) -> Nodes]
  BY LenProperties
<1>2. s \in Injection(1..Len(s), Nodes)
  BY <1>1 DEF Distinct, Injection, IsInjective
<1>3. Cardinality(1..Len(s)) <= Cardinality(Nodes)
  BY <1>2, HashtableAssumption, FS_Injection
<1>4. 1 \in Int /\ Len(s) \in Int
  BY <1>1
<1>5. Cardinality(1..Len(s)) = Len(s)
  BY <1>1, <1>4, FS_Interval
<1> QED
  BY <1>3, <1>5

\* From one pointer two lists agree as far as both go.
LEMMA SameSoFar ==
  ASSUME NEW c, NEW p, NEW s \in Seq(Nodes), NEW t \in Seq(Nodes),
         Linked(c, s, p), Linked(c, t, p)
  PROVE  \A j \in 1..Len(s) : j <= Len(t) => s[j] = t[j]
<1>1. Len(s) \in Nat /\ Len(t) \in Nat
  BY LenProperties
<1> DEFINE D == {j \in Nat : j \in 1..Len(s) /\ j <= Len(t) /\ s[j] # t[j]}
<1> SUFFICES ASSUME D # {} PROVE FALSE
  BY <1>1
<1>2. D \in SUBSET Nat
  OBVIOUS
<1>3. PICK j \in D : \A m \in D : j <= m
  <2> HIDE DEF D
  <2> QED
    BY <1>2, LeastOfNat
<1>4. j \in Nat /\ j \in 1..Len(s) /\ j \in 1..Len(t) /\ s[j] # t[j]
  BY <1>1
<1>5. s[j] = Before(c, s, p, j) /\ t[j] = Before(c, t, p, j)
  BY <1>4 DEF Linked
<1>6. j # 1
  BY <1>4, <1>5 DEF Before
<1>7. j - 1 \in Nat /\ j - 1 \in 1..Len(s) /\ j - 1 <= Len(t) /\ ~(j <= j - 1)
  BY <1>1, <1>4, <1>6
<1>8. s[j - 1] = t[j - 1]
  BY <1>3, <1>7
<1> QED
  BY <1>4, <1>5, <1>6, <1>8 DEF Before

\* What the pointers make of p is the list they make.
LEMMA ReachedIs ==
  ASSUME NEW c, NEW p, NEW s, Ordered(c, s, p)
  PROVE  Reached(c, p) = s
<1>1. s \in Seq(Nodes) /\ Len(s) \in Nat /\ s \in Lists
  BY DistinctFits, ListIsSeq, LenProperties DEF Ordered
<1>2. Linked(c, s, p) /\ EndOf(c, s, p) \notin Nodes
  BY HashtableAssumption DEF Ordered
<1>3. ASSUME NEW t \in Lists, Linked(c, t, p), EndOf(c, t, p) \notin Nodes
      PROVE  t = s
  <2>1. t \in Seq(Nodes) /\ Len(t) \in Nat
    BY ListIsSeq, LenProperties
  <2>2. ASSUME NEW a \in Seq(Nodes), NEW b \in Seq(Nodes), Len(a) < Len(b),
               Linked(c, a, p), Linked(c, b, p), EndOf(c, a, p) \notin Nodes
        PROVE  FALSE
    <3>1. Len(a) \in Nat /\ Len(b) \in Nat
      BY LenProperties
    <3>2. PICK n \in Nat : n = Len(a)
      BY <3>1
    <3>3. n + 1 \in 1..Len(b)
      BY <2>2, <3>1, <3>2
    <3>4. b[n + 1] \in Nodes
      BY <3>3, ElementOfSeq
    <3>5. b[n + 1] = Before(c, b, p, n + 1)
      BY <2>2, <3>3 DEF Linked
    <3>6. CASE n = 0
      <4>1. a = <<>>
        BY <3>2, <3>6, EmptySeq
      <4>2. n + 1 = 1
        BY <3>6
      <4>3. b[n + 1] = p
        BY <3>5, <4>2 DEF Before
      <4>4. p \notin Nodes
        BY <2>2, <4>1 DEF EndOf
      <4> QED
        BY <3>4, <4>3, <4>4
    <3>7. CASE n # 0
      <4>1. n \in 1..Len(a) /\ n <= Len(b) /\ n + 1 # 1 /\ (n + 1) - 1 = n
        BY <2>2, <3>1, <3>2, <3>7
      <4>2. a[n] = b[n]
        BY <2>2, <4>1, SameSoFar
      <4>3. a # <<>>
        BY <3>2, <3>7, EmptySeq
      <4> QED
        BY <2>2, <3>2, <3>4, <3>5, <4>1, <4>2, <4>3 DEF Before, EndOf
    <3> QED
      BY <3>6, <3>7
  <2>3. ~(Len(t) < Len(s)) /\ ~(Len(s) < Len(t))
    BY <1>1, <1>2, <1>3, <2>1, <2>2
  <2>4. Len(s) = Len(t)
    BY <1>1, <2>1, <2>3
  <2>5. \A j \in 1..Len(s) : s[j] = t[j]
    <3>1. \A j \in 1..Len(s) : j <= Len(t) => s[j] = t[j]
      BY <1>1, <1>2, <1>3, <2>1, SameSoFar
    <3> QED
      BY <1>1, <2>4, <3>1
  <2> QED
    BY <1>1, <2>1, <2>4, <2>5, SeqEqual
<1> QED
  BY <1>1, <1>2, <1>3 DEF Reached

\* Lists whose pointers stay are lists still.
LEMMA OrderedStays ==
  ASSUME NEW c, NEW d, NEW p, NEW s, Ordered(c, s, p), \A n \in In(s) : d[n] = c[n]
  PROVE  Ordered(d, s, p)
<1>1. s \in Seq(Nodes) /\ Len(s) \in Nat
  BY LenProperties DEF Ordered
<1>2. \A j \in 1..Len(s) : d[s[j]] = c[s[j]]
  BY DEF In
<1>3. Linked(d, s, p)
  <2> SUFFICES ASSUME NEW j \in 1..Len(s)
               PROVE  s[j] = Before(d, s, p, j)
    BY DEF Linked
  <2>1. j = 1 \/ j - 1 \in 1..Len(s)
    BY <1>1
  <2> QED
    BY <1>2, <2>1 DEF Before, Ordered, Linked
<1>4. EndOf(d, s, p) = Nil
  <2>1. s = <<>> \/ Len(s) \in 1..Len(s)
    BY <1>1, EmptySeq
  <2> QED
    BY <1>2, <2>1 DEF EndOf, Ordered
<1> QED
  BY <1>3, <1>4 DEF Ordered

\* p leads to s, and n, whose pointer is p, to n and then s.
LEMMA OrderedBefore ==
  ASSUME NEW c, NEW p, NEW s, Ordered(c, s, p), NEW n \in Nodes, n \notin In(s), c[n] = p
  PROVE  Ordered(c, <<n>> \o s, n) /\ In(<<n>> \o s) = In(s) \cup {n}
<1> DEFINE t == <<n>> \o s
<1>1. s \in Seq(Nodes) /\ Len(s) \in Nat /\ Distinct(s) /\ Linked(c, s, p) /\ EndOf(c, s, p) = Nil
  BY LenProperties DEF Ordered
<1>2. /\ t \in Seq(Nodes) /\ Len(t) = Len(s) + 1 /\ t[1] = n
      /\ \A j \in 1..Len(s) : t[j + 1] = s[j]
  <2>1. <<n>> \in Seq(Nodes) /\ Len(<<n>>) = 1 /\ <<n>>[1] = n
    OBVIOUS
  <2>2. /\ t \in Seq(Nodes) /\ Len(t) = 1 + Len(s)
        /\ \A j \in 1..1 + Len(s) : t[j] = IF j <= 1 THEN <<n>>[j] ELSE s[j - 1]
    BY <1>1, <2>1, ConcatProperties
  <2>3. \A j \in 1..Len(s) : j + 1 \in 1..1 + Len(s) /\ ~(j + 1 <= 1) /\ (j + 1) - 1 = j
    BY <1>1
  <2>4. 1 \in 1..1 + Len(s)
    BY <1>1
  <2> QED
    BY <1>1, <2>1, <2>2, <2>3, <2>4
<1>3. \A j \in 1..Len(t) : j = 1 \/ (j - 1 \in 1..Len(s) /\ t[j] = s[j - 1])
  <2> TAKE j \in 1..Len(t)
  <2>1. j = 1 \/ (j - 1 \in 1..Len(s) /\ (j - 1) + 1 = j)
    BY <1>1, <1>2
  <2> QED
    BY <1>2, <2>1
<1> HIDE DEF t
<1>4. In(t) = In(s) \cup {n}
  <2>1. \A m \in In(s) : m \in In(t)
    <3> TAKE m \in In(s)
    <3>1. PICK j \in 1..Len(s) : s[j] = m
      BY DEF In
    <3>2. j + 1 \in 1..Len(t)
      BY <1>1, <1>2
    <3> QED
      BY <1>2, <3>1, <3>2 DEF In
  <2>2. n \in In(t)
    <3>1. 1 \in 1..Len(t)
      BY <1>1, <1>2
    <3> QED
      BY <1>2, <3>1 DEF In
  <2>3. \A m \in In(t) : m = n \/ m \in In(s)
    BY <1>2, <1>3 DEF In
  <2> QED
    BY <2>1, <2>2, <2>3
<1>5. Distinct(t)
  <2> SUFFICES ASSUME NEW j \in 1..Len(t), NEW l \in 1..Len(t), t[j] = t[l]
               PROVE  j = l
    BY DEF Distinct
  <2>1. \A m \in 1..Len(s) : s[m] # n
    BY DEF In
  <2>2. \/ j = 1 /\ l = 1
        \/ j - 1 \in 1..Len(s) /\ l - 1 \in 1..Len(s) /\ s[j - 1] = s[l - 1]
    BY <1>2, <1>3, <2>1
  <2>3. \/ j = 1 /\ l = 1
        \/ j - 1 = l - 1
    BY <1>1, <2>2 DEF Distinct
  <2> QED
    BY <1>1, <1>2, <2>3
<1>6. Linked(c, t, n)
  <2> SUFFICES ASSUME NEW j \in 1..Len(t), j # 1
               PROVE  t[j] = c[t[j - 1]]
    BY <1>2 DEF Linked, Before
  <2>1. j - 1 \in 1..Len(s) /\ t[j] = s[j - 1] /\ j - 1 \in 1..Len(t)
    BY <1>1, <1>2, <1>3
  <2>2. s[j - 1] = Before(c, s, p, j - 1)
    BY <1>1, <2>1 DEF Linked
  <2>3. CASE j - 1 = 1
    BY <1>2, <2>1, <2>2, <2>3 DEF Before
  <2>4. CASE j - 1 # 1
    <3>1. t[j - 1] = s[(j - 1) - 1]
      BY <1>3, <2>1, <2>4
    <3> QED
      BY <2>1, <2>2, <2>4, <3>1 DEF Before
  <2> QED
    BY <2>3, <2>4
<1>7. EndOf(c, t, n) = Nil
  <2>1. t # <<>>
    BY <1>1, <1>2, EmptySeq
  <2>2. CASE s = <<>>
    <3>1. Len(t) = 1
      BY <1>2, <2>2, EmptySeq
    <3> QED
      BY <1>1, <1>2, <2>1, <2>2, <3>1 DEF EndOf
  <2>3. CASE s # <<>>
    <3>1. Len(s) \in 1..Len(s)
      BY <1>1, <2>3, EmptySeq
    <3>2. t[Len(t)] = s[Len(s)]
      BY <1>2, <3>1
    <3> QED
      BY <1>1, <2>1, <2>3, <3>2 DEF EndOf
  <2> QED
    BY <2>2, <2>3
<1>8. Ordered(c, t, n)
  BY <1>2, <1>5, <1>6, <1>7 DEF Ordered
<1> QED
  BY <1>4, <1>8 DEF t

LEMMA LessIs ==
  ASSUME NEW s \in Seq(Nodes), NEW j \in 1..Len(s), Distinct(s)
  PROVE  /\ Less(s, j) \in Seq(Nodes) /\ Len(Less(s, j)) = Len(s) - 1
         /\ Distinct(Less(s, j))
         /\ In(Less(s, j)) = In(s) \ {s[j]}
<1> DEFINE t == Less(s, j)
<1>1. Len(s) \in Nat /\ j \in Nat /\ \A l \in 1..Len(s) : s[l] \in Nodes
  BY LenProperties, ElementOfSeq
<1>2. PICK m \in Nat : m = Len(s) - 1
  BY <1>1
<1>3. t = [l \in 1..m |-> IF l < j THEN s[l] ELSE s[l + 1]]
  BY <1>2 DEF Less
<1>4. \A l \in 1..m : l \in 1..Len(s) /\ l + 1 \in 1..Len(s)
  BY <1>1, <1>2
<1> HIDE DEF t
<1>5. \A l \in 1..m : t[l] = IF l < j THEN s[l] ELSE s[l + 1]
  BY <1>3
<1>6. t \in [1..m -> Nodes]
  BY <1>1, <1>3, <1>4
<1>7. t \in Seq(Nodes) /\ Len(t) = m
  BY <1>6, LenProperties
<1>8. Distinct(t)
  <2> SUFFICES ASSUME NEW k \in 1..m, NEW l \in 1..m, t[k] = t[l]
               PROVE  k = l
    BY <1>7 DEF Distinct
  <2>1. k \in Nat /\ l \in Nat /\ k \in 1..Len(s) /\ k + 1 \in 1..Len(s) /\ l \in 1..Len(s) /\ l + 1 \in 1..Len(s)
    BY <1>2, <1>4
  <2>2. (IF k < j THEN s[k] ELSE s[k + 1]) = (IF l < j THEN s[l] ELSE s[l + 1])
    BY <1>5
  <2>3. (IF k < j THEN k ELSE k + 1) = (IF l < j THEN l ELSE l + 1)
    BY <2>1, <2>2 DEF Distinct
  <2> QED
    BY <1>1, <2>1, <2>3
<1>9. In(t) = In(s) \ {s[j]}
  <2>1. \A n \in In(t) : n \in In(s) /\ n # s[j]
    <3> TAKE n \in In(t)
    <3>1. PICK l \in 1..m : n = t[l]
      BY <1>7 DEF In
    <3>2. PICK k \in 1..Len(s) : n = s[k] /\ k # j
      <4>1. CASE l < j
        BY <1>4, <1>5, <3>1, <4>1
      <4>2. CASE ~(l < j)
        <5>1. l + 1 # j
          BY <1>1, <1>2, <4>2
        <5> QED
          BY <1>4, <1>5, <3>1, <4>2, <5>1
      <4> QED
        BY <4>1, <4>2
    <3> QED
      BY <3>2 DEF In, Distinct
  <2>2. \A n \in In(s) : n # s[j] => n \in In(t)
    <3> TAKE n \in In(s)
    <3> HAVE n # s[j]
    <3>1. PICK k \in 1..Len(s) : n = s[k]
      BY DEF In
    <3>2. k # j
      BY <3>1
    <3>3. CASE k < j
      <4>1. k \in 1..m
        BY <1>1, <1>2, <3>3
      <4> QED
        BY <1>5, <1>7, <3>1, <3>3, <4>1 DEF In
    <3>4. CASE ~(k < j)
      <4>1. k - 1 \in 1..m /\ ~(k - 1 < j) /\ (k - 1) + 1 = k
        BY <1>1, <1>2, <3>2, <3>4
      <4> QED
        BY <1>5, <1>7, <3>1, <4>1 DEF In
    <3> QED
      BY <3>3, <3>4
  <2> QED
    BY <2>1, <2>2
<1> QED
  BY <1>2, <1>7, <1>8, <1>9 DEF t

\* What Unlink() does to the pointers of the node at place j of s, which p leads to.
LEMMA OrderedWithout ==
  ASSUME NEW c \in [Nodes -> Pointers], NEW d \in [Nodes -> Pointers], NEW p, NEW q, NEW s,
         Ordered(c, s, p), NEW j \in 1..Len(s),
         d = IF j > 1 THEN [c EXCEPT ![s[j - 1]] = c[s[j]], ![s[j]] = Freed]
                      ELSE [c EXCEPT ![s[j]] = Freed],
         q = IF j > 1 THEN p ELSE c[s[j]]
  PROVE  Ordered(d, Less(s, j), q)
<1> DEFINE t == Less(s, j)
<1>1. /\ s \in Seq(Nodes) /\ Len(s) \in Nat /\ Distinct(s) /\ Linked(c, s, p) /\ EndOf(c, s, p) = Nil
      /\ j \in Nat /\ \A l \in 1..Len(s) : s[l] \in Nodes
  BY LenProperties, ElementOfSeq DEF Ordered
<1>2. t \in Seq(Nodes) /\ Len(t) = Len(s) - 1 /\ Distinct(t)
  BY <1>1, LessIs
<1>3. \A l \in 1..Len(s) - 1 : t[l] = IF l < j THEN s[l] ELSE s[l + 1]
  BY DEF Less
<1>4. \A l \in 1..Len(s) : l # j /\ l # j - 1 => d[s[l]] = c[s[l]]
  <2> TAKE l \in 1..Len(s)
  <2> HAVE l # j /\ l # j - 1
  <2>1. s[l] # s[j] /\ s[l] \in Nodes /\ s[j] \in Nodes
    BY <1>1 DEF Distinct
  <2>2. CASE j > 1
    <3>1. j - 1 \in 1..Len(s)
      BY <1>1, <2>2
    <3>2. s[l] # s[j - 1] /\ s[j - 1] \in Nodes
      BY <1>1, <3>1 DEF Distinct
    <3> QED
      BY <2>1, <2>2, <3>2
  <2>3. CASE ~(j > 1)
    BY <2>1, <2>3
  <2> QED
    BY <2>2, <2>3
<1>5. j > 1 => j - 1 \in 1..Len(s) /\ d[s[j - 1]] = c[s[j]]
  <2> HAVE j > 1
  <2>1. j - 1 \in 1..Len(s) /\ j - 1 # j
    BY <1>1
  <2>2. s[j - 1] # s[j] /\ s[j - 1] \in Nodes
    BY <1>1, <2>1 DEF Distinct
  <2> QED
    BY <2>1, <2>2
<1>6. \A l \in 1..Len(s) - 1 : l + 1 \in 1..Len(s) /\ s[l + 1] = c[s[l]]
  <2> TAKE l \in 1..Len(s) - 1
  <2>1. l + 1 \in 1..Len(s) /\ l + 1 # 1 /\ (l + 1) - 1 = l
    BY <1>1
  <2> QED
    BY <1>1, <2>1 DEF Linked, Before
<1> HIDE DEF t
<1>7. Linked(d, t, q)
  <2> SUFFICES ASSUME NEW l \in 1..Len(s) - 1
               PROVE  t[l] = Before(d, t, q, l)
    BY <1>2 DEF Linked
  <2>1. l \in Nat /\ l \in 1..Len(s) /\ l + 1 \in 1..Len(s) /\ s[l + 1] = c[s[l]]
    BY <1>1, <1>6
  <2>2. CASE l = 1
    <3>1. CASE j > 1
      <4>1. t[1] = s[1] /\ s[1] = p
        BY <1>1, <1>3, <2>1, <2>2, <3>1 DEF Linked, Before
      <4> QED
        BY <2>2, <3>1, <4>1 DEF Before
    <3>2. CASE ~(j > 1)
      <4>1. j = 1 /\ t[1] = s[2]
        BY <1>1, <1>3, <2>2, <3>2
      <4> QED
        BY <2>1, <2>2, <3>2, <4>1 DEF Before
    <3> QED
      BY <3>1, <3>2
  <2>3. CASE l # 1
    <3>1. PICK k \in Nat : k = l - 1 /\ k \in 1..Len(s) - 1 /\ k + 1 = l /\ k \in 1..Len(s)
      BY <1>1, <2>1, <2>3
    <3>2. s[l] = c[s[k]]
      BY <1>6, <3>1
    <3>3. CASE l < j
      <4>1. t[l] = s[l] /\ t[k] = s[k] /\ k # j /\ k # j - 1
        BY <1>1, <1>3, <3>1, <3>3
      <4> QED
        BY <1>4, <2>3, <3>1, <3>2, <4>1 DEF Before
    <3>4. CASE l = j
      <4>1. t[l] = s[l + 1] /\ t[k] = s[k] /\ k = j - 1 /\ j > 1
        BY <1>1, <1>3, <2>1, <2>3, <3>1, <3>4
      <4>2. d[s[k]] = c[s[j]]
        BY <1>5, <4>1
      <4> QED
        BY <2>1, <2>3, <3>1, <3>4, <4>1, <4>2 DEF Before
    <3>5. CASE l > j
      <4>1. t[l] = s[l + 1] /\ t[k] = s[l] /\ l # j /\ l # j - 1
        BY <1>1, <1>3, <2>1, <3>1, <3>5
      <4> QED
        BY <1>4, <2>1, <2>3, <3>1, <4>1 DEF Before
    <3> QED
      BY <1>1, <2>1, <3>3, <3>4, <3>5
  <2> QED
    BY <2>2, <2>3
<1>8. EndOf(d, t, q) = Nil
  <2>1. s # <<>> /\ c[s[Len(s)]] = Nil
    BY <1>1, EmptySeq DEF EndOf
  <2>2. CASE Len(s) = 1
    <3>1. t = <<>> /\ j = 1
      BY <1>1, <1>2, <2>2, EmptySeq
    <3> QED
      BY <2>1, <2>2, <3>1 DEF EndOf
  <2>3. CASE Len(s) # 1
    <3>0. j <= Len(s) /\ 1 <= j
      BY <1>1
    <3>1. PICK m \in Nat : m = Len(s) - 1 /\ 1 <= m /\ m + 1 = Len(s)
      <4> DEFINE n == Len(s)
      <4>1. n \in Nat /\ n # 1 /\ j <= n /\ 1 <= j /\ j \in Nat
        BY <1>1, <2>3, <3>0
      <4> HIDE DEF n
      <4>2. \E m \in Nat : m = n - 1 /\ 1 <= m /\ m + 1 = n
        BY <4>1
      <4> QED
        BY <4>2 DEF n
    <3>2. t # <<>> /\ Len(t) = m
      BY <1>2, <3>1, EmptySeq
    <3>3. CASE j = Len(s)
      <4>1. t[m] = s[m] /\ m = j - 1 /\ j > 1
        BY <1>1, <1>3, <3>0, <3>1, <3>3
      <4> QED
        BY <1>5, <2>1, <3>2, <3>3, <4>1 DEF EndOf
    <3>4. CASE j # Len(s)
      <4>1. t[m] = s[Len(s)] /\ Len(s) # j /\ Len(s) # j - 1 /\ Len(s) \in 1..Len(s)
        BY <1>1, <1>3, <3>0, <3>1, <3>4
      <4> QED
        BY <1>4, <2>1, <3>2, <4>1 DEF EndOf
    <3> QED
      BY <3>3, <3>4
  <2> QED
    BY <2>2, <2>3
<1> QED
  BY <1>2, <1>7, <1>8 DEF Ordered, t

\* The end of a list from place j on.
Suffix(s, j) == [l \in 1..Len(s) - j + 1 |-> s[l + j - 1]]

\* From a pointer to the node at place j one meets the nodes from there on.
LEMMA OrderedFrom ==
  ASSUME NEW c, NEW p, NEW s, Ordered(c, s, p), NEW j \in 1..Len(s)
  PROVE  /\ Ordered(c, Suffix(s, j), s[j])
         /\ In(Suffix(s, j)) = {s[l] : l \in j..Len(s)}
<1> DEFINE t == Suffix(s, j)
<1>1. /\ s \in Seq(Nodes) /\ Len(s) \in Nat /\ Distinct(s) /\ Linked(c, s, p) /\ EndOf(c, s, p) = Nil
      /\ j \in Nat /\ \A l \in 1..Len(s) : s[l] \in Nodes
  BY LenProperties, ElementOfSeq DEF Ordered
<1>2. PICK m \in Nat : m = Len(s) - j + 1 /\ m # 0
  BY <1>1
<1>3. t = [l \in 1..m |-> s[l + j - 1]]
  BY <1>2 DEF Suffix
<1>4. \A l \in 1..m : l + j - 1 \in 1..Len(s) /\ l + j - 1 \in j..Len(s) /\ l + j - 1 \in Nat
  BY <1>1, <1>2
<1> HIDE DEF t
<1>5. \A l \in 1..m : t[l] = s[l + j - 1]
  BY <1>3
<1>6. t \in [1..m -> Nodes]
  BY <1>1, <1>3, <1>4
<1>7. t \in Seq(Nodes) /\ Len(t) = m /\ t # <<>>
  <2>1. t \in Seq(Nodes) /\ Len(t) = m
    BY <1>6, LenProperties
  <2> QED
    BY <1>2, <2>1, EmptySeq
<1>8. Distinct(t)
  <2> SUFFICES ASSUME NEW k \in 1..m, NEW l \in 1..m, t[k] = t[l]
               PROVE  k = l
    BY <1>7 DEF Distinct
  <2>1. k + j - 1 = l + j - 1
    BY <1>1, <1>4, <1>5 DEF Distinct
  <2> QED
    BY <1>1, <1>2, <2>1
<1>9. Linked(c, t, s[j])
  <2> SUFFICES ASSUME NEW l \in 1..m
               PROVE  t[l] = Before(c, t, s[j], l)
    BY <1>7 DEF Linked
  <2>1. CASE l = 1
    <3>1. t[l] = s[j]
      BY <1>1, <1>5, <2>1
    <3> QED
      BY <2>1, <3>1 DEF Before
  <2>2. CASE l # 1
    <3>1. l - 1 \in 1..m /\ (l - 1) + j - 1 = (l + j - 1) - 1 /\ l + j - 1 # 1
      BY <1>1, <1>2, <2>2
    <3>2. t[l] = s[l + j - 1] /\ t[l - 1] = s[(l + j - 1) - 1]
      BY <1>5, <3>1
    <3>3. s[l + j - 1] = c[s[(l + j - 1) - 1]]
      BY <1>1, <1>4, <3>1 DEF Linked, Before
    <3> QED
      BY <2>2, <3>2, <3>3 DEF Before
  <2> QED
    BY <2>1, <2>2
<1>10. EndOf(c, t, s[j]) = Nil
  <2>1. s # <<>> /\ m \in 1..m /\ m + j - 1 = Len(s)
    BY <1>1, <1>2, EmptySeq
  <2>2. t[m] = s[Len(s)]
    BY <1>5, <2>1
  <2> QED
    BY <1>1, <1>7, <2>1, <2>2 DEF EndOf
<1>11. In(t) = {s[l] : l \in j..Len(s)}
  <2>1. \A l \in j..Len(s) : s[l] \in In(t)
    <3> TAKE l \in j..Len(s)
    <3>1. l - j + 1 \in 1..m /\ (l - j + 1) + j - 1 = l
      BY <1>1, <1>2
    <3>2. t[l - j + 1] = s[l]
      BY <1>5, <3>1
    <3> QED
      BY <1>7, <3>1, <3>2 DEF In
  <2>2. \A n \in In(t) : \E l \in j..Len(s) : n = s[l]
    <3> TAKE n \in In(t)
    <3>1. PICK l \in 1..m : n = t[l]
      BY <1>7 DEF In
    <3> QED
      BY <1>4, <1>5, <3>1
  <2> QED
    BY <2>1, <2>2
<1> QED
  BY <1>7, <1>8, <1>9, <1>10, <1>11 DEF Ordered, t

-----------------------------------------------------------------------------
(* The invariant *)

Typed ==
  /\ bucket \in [Keys -> Nodes \cup {Nil}]
  /\ chain \in [Nodes -> Pointers]
  /\ count = Cardinality(Allocated)
  /\ found \in Nodes \cup {Nil}
  /\ pc \in {"idle", "visit"}
  /\ i \in Keys

\* Under each key the nodes there are with that key, in a list.
Listed ==
  \A k \in Keys :
    /\ Ordered(chain, Chain(k), bucket[k])
    /\ In(Chain(k)) = {n \in Allocated : KeyOf[n] = k}

\* A traversal is at a node of the bucket it is in.
Visiting ==
  /\ cur \in Allocated \cup {Nil}
  /\ pc = "idle" => cur = Nil
  /\ cur \in Nodes => KeyOf[cur] = i

TableInv == Typed /\ Listed /\ Visiting

LEMMA FromIs ==
  /\ \A p : From(p) = Reached(chain, p)
  /\ \A k : Chain(k) = Reached(chain, bucket[k])
BY DEF Chain, From, Reached, Follows, Linked, Before, EndOf

LEMMA FromWillBe ==
  /\ \A p : From(p)' = Reached(chain', p)
  /\ \A k : Chain(k)' = Reached(chain', bucket'[k])
BY DEF Chain, From, Reached, Follows, Linked, Before, EndOf

LEMMA KeysOf == size \in Nat \ {0} /\ \A n \in Nodes : KeyOf[n] \in Keys
BY HashtableAssumption

\* No pointer leads to a freed node.
LEMMA PointersAllocated ==
  ASSUME TableInv
  PROVE  /\ bucket \in [Keys -> Allocated \cup {Nil}]
         /\ \A n \in Allocated : chain[n] \in Allocated \cup {Nil}
         /\ \A n \in Allocated : chain[n] \in Nodes => KeyOf[chain[n]] = KeyOf[n]
         /\ \A k \in Keys : bucket[k] \in Nodes => KeyOf[bucket[k]] = k
<1>1. Typed /\ Listed
  BY DEF TableInv
<1>2. ASSUME NEW k \in Keys
      PROVE  bucket[k] = Nil \/ (bucket[k] \in Allocated /\ KeyOf[bucket[k]] = k)
  <2>1. /\ Chain(k) \in Seq(Nodes) /\ Linked(chain, Chain(k), bucket[k])
        /\ EndOf(chain, Chain(k), bucket[k]) = Nil /\ Len(Chain(k)) \in Nat
        /\ In(Chain(k)) = {n \in Allocated : KeyOf[n] = k}
    BY <1>1, LenProperties DEF Listed, Ordered
  <2>2. CASE Chain(k) = <<>>
    BY <2>1, <2>2 DEF EndOf
  <2>3. CASE Chain(k) # <<>>
    <3>1. 1 \in 1..Len(Chain(k))
      BY <2>1, <2>3, EmptySeq
    <3>2. bucket[k] = Chain(k)[1]
      BY <2>1, <3>1 DEF Linked, Before
    <3> QED
      BY <2>1, <3>1, <3>2 DEF In
  <2> QED
    BY <2>2, <2>3
<1>3. ASSUME NEW n \in Allocated
      PROVE  chain[n] = Nil \/ (chain[n] \in Allocated /\ KeyOf[chain[n]] = KeyOf[n])
  <2>1. n \in Nodes /\ KeyOf[n] \in Keys
    BY KeysOf DEF Allocated
  <2> DEFINE s == Chain(KeyOf[n])
             p == bucket[KeyOf[n]]
  <2>2. /\ s \in Seq(Nodes) /\ Linked(chain, s, p)
        /\ EndOf(chain, s, p) = Nil /\ Len(s) \in Nat
        /\ In(s) = {m \in Allocated : KeyOf[m] = KeyOf[n]}
    BY <1>1, <2>1, LenProperties DEF Listed, Ordered
  <2> HIDE DEF s, p
  <2>3. PICK j \in 1..Len(s) : s[j] = n
    BY <2>2 DEF In
  <2>4. CASE j = Len(s)
    <3>1. s # <<>>
      BY <2>2, <2>3, EmptySeq
    <3> QED
      BY <2>2, <2>3, <2>4, <3>1 DEF EndOf
  <2>5. CASE j # Len(s)
    <3>1. j + 1 \in 1..Len(s) /\ j + 1 # 1 /\ (j + 1) - 1 = j
      BY <2>2, <2>3, <2>5
    <3>2. s[j + 1] = chain[n]
      BY <2>2, <2>3, <3>1 DEF Linked, Before
    <3> QED
      BY <2>2, <3>1, <3>2 DEF In
  <2> QED
    BY <2>4, <2>5
<1> QED
  BY <1>1, <1>2, <1>3, HashtableAssumption DEF Typed

LEMMA InvIsWellChained == TableInv => WellChained
<1> SUFFICES ASSUME TableInv PROVE WellChained
  OBVIOUS
<1>1. Typed /\ Listed /\ Visiting
  BY DEF TableInv
<1>2. count \in 0..Cardinality(Nodes)
  <2>1. Allocated \subseteq Nodes
    BY DEF Allocated
  <2>2. Cardinality(Allocated) <= Cardinality(Nodes) /\ IsFiniteSet(Allocated)
    BY <2>1, HashtableAssumption, FS_Subset
  <2>3. Cardinality(Allocated) \in Nat /\ Cardinality(Nodes) \in Nat
    BY <2>2, HashtableAssumption, FS_CardinalityType
  <2> QED
    BY <1>1, <2>2, <2>3 DEF Typed
<1>3. TypeOK
  BY <1>1, <1>2, PointersAllocated DEF TypeOK, Typed, Visiting, Pointers
<1>4. \A n \in Allocated : n \in In(Chain(KeyOf[n]))
  BY <1>1, KeysOf DEF Listed, Allocated
<1>5. \A k \in Keys : \A n \in In(Chain(k)) : KeyOf[n] = k
  BY <1>1 DEF Listed
<1> QED
  BY <1>1, <1>3, <1>4, <1>5 DEF WellChained, Typed

\* hashtable_insert(): n comes first under its key.
LEMMA InsertLists ==
  ASSUME TableInv, NEW n \in Nodes, Insert(n)
  PROVE  /\ TableInv'
         /\ \A k \in Keys : Chain(k)' = IF k = KeyOf[n] THEN <<n>> \o Chain(k) ELSE Chain(k)
<1>1. Typed /\ Listed /\ Visiting /\ pc = "idle" /\ cur = Nil
  BY DEF TableInv, Insert, Visiting
<1>2. /\ chain[n] = Freed
      /\ chain' = [chain EXCEPT ![n] = bucket[KeyOf[n]]]
      /\ bucket' = [bucket EXCEPT ![KeyOf[n]] = n]
      /\ count' = count + 1
      /\ UNCHANGED <<found, pc, i, cur>>
  BY DEF Insert, Allocated
<1>3. bucket[KeyOf[n]] # Freed /\ bucket[KeyOf[n]] \in Nodes \cup {Nil} /\ KeyOf[n] \in Keys
  BY <1>1, KeysOf, HashtableAssumption DEF Typed
<1>4. Allocated' = Allocated \cup {n} /\ n \notin Allocated
  BY <1>1, <1>2, <1>3 DEF Allocated, Typed
<1>5. Typed'
  <2>1. Allocated \subseteq Nodes
    BY DEF Allocated
  <2>2. IsFiniteSet(Allocated)
    BY <2>1, HashtableAssumption, FS_Subset
  <2>3. count' = Cardinality(Allocated')
    BY <1>1, <1>2, <1>4, <2>2, FS_AddElement DEF Typed
  <2> QED
    BY <1>1, <1>2, <1>3, <2>3 DEF Typed, Pointers
<1>6. ASSUME NEW k \in Keys
      PROVE  /\ Chain(k)' = IF k = KeyOf[n] THEN <<n>> \o Chain(k) ELSE Chain(k)
             /\ Ordered(chain', Chain(k)', bucket'[k])
             /\ In(Chain(k)') = {m \in Allocated' : KeyOf[m] = k}
  <2>1. Ordered(chain, Chain(k), bucket[k]) /\ In(Chain(k)) = {m \in Allocated : KeyOf[m] = k}
    BY <1>1 DEF Listed
  <2>2. n \notin In(Chain(k)) /\ In(Chain(k)) \subseteq Nodes
    BY <1>4, <2>1 DEF Allocated
  <2>3. \A m \in In(Chain(k)) : chain'[m] = chain[m]
    BY <1>1, <1>2, <2>2 DEF Typed
  <2>4. Ordered(chain', Chain(k), bucket[k])
    BY <2>1, <2>3, OrderedStays
  <2>5. CASE k = KeyOf[n]
    <3>1. chain'[n] = bucket[k] /\ bucket'[k] = n
      BY <1>1, <1>2, <2>5 DEF Typed
    <3>2. Ordered(chain', <<n>> \o Chain(k), n) /\ In(<<n>> \o Chain(k)) = In(Chain(k)) \cup {n}
      BY <2>2, <2>4, <3>1, OrderedBefore
    <3>3. Chain(k)' = <<n>> \o Chain(k)
      BY <3>1, <3>2, ReachedIs, FromWillBe
    <3>4. In(Chain(k)') = {m \in Allocated' : KeyOf[m] = k}
      BY <1>4, <2>1, <2>5, <3>2, <3>3
    <3> QED
      BY <2>5, <3>1, <3>2, <3>3, <3>4
  <2>6. CASE k # KeyOf[n]
    <3>1. bucket'[k] = bucket[k]
      BY <1>1, <1>2, <2>6 DEF Typed
    <3>2. Chain(k)' = Chain(k)
      BY <2>4, <3>1, ReachedIs, FromWillBe
    <3>3. In(Chain(k)') = {m \in Allocated' : KeyOf[m] = k}
      BY <1>4, <2>1, <2>6, <3>2
    <3> QED
      BY <2>4, <2>6, <3>1, <3>2, <3>3
  <2> QED
    BY <2>5, <2>6
<1>7. Listed'
  BY <1>6 DEF Listed, In
<1>8. Visiting'
  BY <1>1, <1>2, HashtableAssumption DEF Visiting
<1> QED
  BY <1>5, <1>6, <1>7, <1>8 DEF TableInv

\* The place of n in a list that has it.
LEMMA PlaceIs ==
  ASSUME NEW s, Distinct(s), NEW j \in 1..Len(s)
  PROVE  (CHOOSE l \in 1..Len(s) : s[l] = s[j]) = j
BY DEF Distinct

\* hashtable_remove() and free(): n leaves the list it is in.
LEMMA TakenLists ==
  ASSUME TableInv, NEW n \in Allocated, RemoveTarget(n)
  PROVE  \E at \in 1..Len(Chain(KeyOf[n])) :
           /\ Chain(KeyOf[n])[at] = n
           /\ chain' \in [Nodes -> Pointers] /\ bucket' \in [Keys -> Nodes \cup {Nil}]
           /\ count' = Cardinality(Allocated')
           /\ Allocated' = Allocated \ {n}
           /\ Listed'
           /\ \A k \in Keys : Chain(k)' = IF k = KeyOf[n] THEN Less(Chain(k), at) ELSE Chain(k)
<1> DEFINE key == KeyOf[n]
           s == Chain(key)
           p == bucket[key]
<1>1. /\ Typed /\ Listed /\ n \in Nodes /\ key \in Keys /\ chain[n] # Freed
      /\ Ordered(chain, s, p) /\ In(s) = {m \in Allocated : KeyOf[m] = key}
  BY KeysOf DEF TableInv, Listed, Allocated
<1>2. s \in Seq(Nodes) /\ Len(s) \in Nat /\ Distinct(s)
  BY <1>1, LenProperties DEF Ordered
<1>3. PICK at \in 1..Len(s) : s[at] = n
  BY <1>1 DEF In
<1>4. (CHOOSE l \in 1..Len(s) : s[l] = n) = at
  BY <1>2, <1>3, PlaceIs
<1> DEFINE q == IF at > 1 THEN p ELSE chain[s[at]]
<1>5. /\ chain' = IF at > 1 THEN [chain EXCEPT ![s[at - 1]] = chain[s[at]], ![s[at]] = Freed]
                            ELSE [chain EXCEPT ![s[at]] = Freed]
      /\ bucket' = [bucket EXCEPT ![key] = q]
      /\ count' = count - 1
  <2>1. Unlink(n) /\ count' = count - 1
    BY DEF RemoveTarget
  <2>2. CASE at > 1
    <3>1. chain' = [chain EXCEPT ![s[at - 1]] = chain[n], ![n] = Freed] /\ UNCHANGED bucket
      BY <1>4, <2>1, <2>2 DEF Unlink
    <3>2. bucket = [bucket EXCEPT ![key] = p]
      BY <1>1 DEF Typed
    <3> QED
      BY <1>3, <2>1, <2>2, <3>1, <3>2
  <2>3. CASE ~(at > 1)
    <3>1. chain' = [chain EXCEPT ![n] = Freed] /\ bucket' = [bucket EXCEPT ![key] = chain[n]]
      BY <1>4, <2>1, <2>3 DEF Unlink
    <3> QED
      BY <1>3, <2>1, <2>3, <3>1
  <2> QED
    BY <2>2, <2>3
<1> HIDE DEF key, s, p, q
<1>6. chain[n] \in Nodes \cup {Nil} /\ chain[n] \in Pointers
  BY <1>1 DEF Typed, Pointers
<1>7. p \in Nodes \cup {Nil} /\ q \in Nodes \cup {Nil}
  BY <1>1, <1>3, <1>6 DEF Typed, p, q
<1>8. chain' \in [Nodes -> Pointers]
  BY <1>1, <1>3, <1>5, <1>6 DEF Typed, Pointers
<1>9. bucket' \in [Keys -> Nodes \cup {Nil}]
  BY <1>1, <1>5, <1>7 DEF Typed
<1>10. /\ chain'[n] = Freed
       /\ \A m \in Nodes : m \notin In(s) => chain'[m] = chain[m]
       /\ \A m \in Nodes : m # n => (chain'[m] = Freed <=> chain[m] = Freed)
  <2>1. n \in In(s)
    BY <1>3 DEF In
  <2>2. CASE at > 1
    <3>1. at - 1 \in 1..Len(s) /\ at - 1 # at
      BY <1>2, <2>2
    <3>2. s[at - 1] \in In(s) /\ s[at - 1] # n
      BY <1>2, <1>3, <3>1 DEF In, Distinct
    <3>3. s[at - 1] \in Nodes /\ chain[s[at - 1]] # Freed
      BY <1>1, <3>2 DEF Allocated
    <3>4. chain' = [chain EXCEPT ![s[at - 1]] = chain[n], ![n] = Freed]
      BY <1>3, <1>5, <2>2
    <3> DEFINE b == s[at - 1]
    <3> HIDE DEF b
    <3>5. chain' = [chain EXCEPT ![b] = chain[n], ![n] = Freed] /\ b \in In(s) /\ b # n
          /\ b \in Nodes /\ chain[b] # Freed
      BY <3>2, <3>3, <3>4 DEF b
    <3> QED
      BY <1>1, <2>1, <3>5 DEF Typed
  <2>3. CASE ~(at > 1)
    <3>1. chain' = [chain EXCEPT ![n] = Freed]
      BY <1>3, <1>5, <2>3
    <3> QED
      BY <1>1, <2>1, <3>1 DEF Typed
  <2> QED
    BY <2>2, <2>3
<1>11. Allocated' = Allocated \ {n}
  BY <1>10 DEF Allocated
<1>12. count' = Cardinality(Allocated')
  <2>1. Allocated \subseteq Nodes
    BY DEF Allocated
  <2>2. IsFiniteSet(Allocated)
    BY <2>1, HashtableAssumption, FS_Subset
  <2> QED
    BY <1>1, <1>5, <1>11, <2>2, FS_RemoveElement DEF Typed
<1>13. ASSUME NEW k \in Keys
       PROVE  /\ Chain(k)' = IF k = key THEN Less(Chain(k), at) ELSE Chain(k)
              /\ Ordered(chain', Chain(k)', bucket'[k])
              /\ In(Chain(k)') = {m \in Allocated' : KeyOf[m] = k}
  <2>1. CASE k = key
    <3>1. s = Chain(k)
      BY <2>1 DEF s
    <3>2. Ordered(chain', Less(s, at), q)
      BY <1>1, <1>5, <1>8, <1>3, OrderedWithout DEF q, Typed
    <3>3. In(Less(s, at)) = In(s) \ {n}
      BY <1>2, <1>3, LessIs
    <3>4. bucket'[k] = q
      BY <1>1, <1>5, <2>1 DEF Typed
    <3>5. Chain(k)' = Less(s, at)
      BY <3>2, <3>4, ReachedIs, FromWillBe
    <3>6. In(Chain(k)') = {m \in Allocated' : KeyOf[m] = k}
      BY <1>1, <1>11, <2>1, <3>3, <3>5
    <3> QED
      BY <2>1, <3>1, <3>2, <3>4, <3>5, <3>6
  <2>2. CASE k # key
    <3>1. Ordered(chain, Chain(k), bucket[k]) /\ In(Chain(k)) = {m \in Allocated : KeyOf[m] = k}
      BY <1>1 DEF Listed
    <3>2. \A m \in In(Chain(k)) : m \in Nodes /\ m \notin In(s)
      BY <1>1, <2>2, <3>1 DEF Allocated
    <3>3. Ordered(chain', Chain(k), bucket[k])
      BY <1>10, <3>1, <3>2, OrderedStays
    <3>4. bucket'[k] = bucket[k]
      BY <1>1, <1>5, <2>2 DEF Typed
    <3>5. Chain(k)' = Chain(k)
      BY <3>3, <3>4, ReachedIs, FromWillBe
    <3>6. In(Chain(k)') = {m \in Allocated' : KeyOf[m] = k}
      BY <1>11, <2>2, <3>1, <3>5 DEF key
    <3> QED
      BY <2>2, <3>3, <3>4, <3>5, <3>6
  <2> QED
    BY <2>1, <2>2
<1>14. Listed'
  BY <1>13 DEF Listed, In
<1> QED
  BY <1>3, <1>8, <1>9, <1>11, <1>12, <1>13, <1>14 DEF key, s

LEMMA EmptyOrdered == \A c : Ordered(c, <<>>, Nil) /\ Reached(c, Nil) = <<>> /\ In(<<>>) = {}
<1> TAKE c
<1>1. <<>> \in Seq(Nodes) /\ Len(<<>>) = 0
  BY EmptySeq
<1>2. Ordered(c, <<>>, Nil)
  BY <1>1 DEF Ordered, Distinct, Linked, EndOf
<1>3. In(<<>>) = {}
  BY <1>1 DEF In
<1> QED
  BY <1>2, <1>3, ReachedIs

\* The nodes of s from place j on.
OnFrom(s, j) == {s[l] : l \in j..Len(s)}

\* From the pointer of the node at place j one meets the nodes after it.
LEMMA RestIs ==
  ASSUME NEW c, NEW p, NEW s, Ordered(c, s, p), NEW j \in 1..Len(s)
  PROVE  /\ j = Len(s) => c[s[j]] = Nil
         /\ j # Len(s) => j + 1 \in 1..Len(s) /\ c[s[j]] = s[j + 1]
         /\ In(Reached(c, c[s[j]])) = OnFrom(s, j + 1)
         /\ In(Reached(c, s[j])) = OnFrom(s, j)
<1>1. s \in Seq(Nodes) /\ Len(s) \in Nat /\ Linked(c, s, p) /\ EndOf(c, s, p) = Nil /\ j \in Nat
  BY LenProperties DEF Ordered
<1>2. In(Reached(c, s[j])) = OnFrom(s, j)
  <2>1. Ordered(c, Suffix(s, j), s[j]) /\ In(Suffix(s, j)) = OnFrom(s, j)
    BY OrderedFrom DEF OnFrom
  <2> QED
    BY <2>1, ReachedIs
<1>3. CASE j = Len(s)
  <2>1. s # <<>>
    BY <1>1, <1>3, EmptySeq
  <2>2. c[s[j]] = Nil
    BY <1>1, <1>3, <2>1 DEF EndOf
  <2>3. j + 1..Len(s) = {}
    BY <1>1, <1>3
  <2>4. OnFrom(s, j + 1) = {}
    BY <2>3 DEF OnFrom
  <2> QED
    BY <1>2, <1>3, <2>2, <2>4, EmptyOrdered
<1>4. CASE j # Len(s)
  <2>1. j + 1 \in 1..Len(s) /\ j + 1 # 1 /\ (j + 1) - 1 = j
    BY <1>1, <1>4
  <2>2. c[s[j]] = s[j + 1]
    BY <1>1, <2>1 DEF Linked, Before
  <2>3. /\ Ordered(c, Suffix(s, j + 1), s[j + 1])
        /\ In(Suffix(s, j + 1)) = OnFrom(s, j + 1)
    BY <2>1, OrderedFrom DEF OnFrom
  <2>4. In(Reached(c, s[j + 1])) = OnFrom(s, j + 1)
    BY <2>3, ReachedIs
  <2> QED
    BY <1>2, <1>4, <2>1, <2>2, <2>4
<1> QED
  BY <1>3, <1>4

\* traverse_hashtable() steps on, over a node that fn() may have taken out and freed: what is
\* still to be visited is what was, without that node.
LEMMA VisitLeft ==
  ASSUME TableInv, NEW keep \in BOOLEAN, Visit(keep)
  PROVE  /\ TableInv'
         /\ cur \in Allocated /\ cur \in In(From(cur)) /\ In(From(cur))' = In(From(cur)) \ {cur}
         /\ \A k \in Keys : k # i => Chain(k)' = Chain(k) /\ cur \notin In(Chain(k))
<1> DEFINE n == cur
           s == Chain(i)
           p == bucket[i]
<1>1. /\ Typed /\ Listed /\ Visiting /\ pc = "visit" /\ cur \in Nodes
      /\ cur' = chain[cur]
      /\ UNCHANGED <<found, pc, i>>
      /\ IF keep THEN UNCHANGED <<bucket, chain, count>> ELSE RemoveTarget(cur)
  BY DEF TableInv, Visit, NextOf, tableVars
<1>2. cur \in Allocated /\ KeyOf[cur] = i /\ i \in Keys
  BY <1>1, HashtableAssumption DEF Visiting, Typed
<1>3. Ordered(chain, s, p) /\ In(s) = {m \in Allocated : KeyOf[m] = i}
  BY <1>1, <1>2 DEF Listed
<1>4. s \in Seq(Nodes) /\ Len(s) \in Nat /\ Distinct(s)
  BY <1>3, LenProperties DEF Ordered
<1>5. \A k \in Keys : k # i => cur \notin In(Chain(k))
  BY <1>1, <1>2 DEF Listed
<1>6. chain[cur] \in Allocated \cup {Nil} /\ (chain[cur] \in Nodes => KeyOf[chain[cur]] = i)
  BY <1>2, PointersAllocated
<1>7. ASSUME NEW j \in 1..Len(s), s[j] = cur
      PROVE  /\ In(From(cur)) = OnFrom(s, j)
             /\ In(Reached(chain, chain[cur])) = OnFrom(s, j + 1)
             /\ j # Len(s) => j + 1 \in 1..Len(s) /\ chain[cur] = s[j + 1]
             /\ j = Len(s) => chain[cur] = Nil
             /\ OnFrom(s, j + 1) = OnFrom(s, j) \ {cur}
             /\ cur \in OnFrom(s, j)
  <2>1. /\ j = Len(s) => chain[s[j]] = Nil
        /\ j # Len(s) => j + 1 \in 1..Len(s) /\ chain[s[j]] = s[j + 1]
        /\ In(Reached(chain, chain[s[j]])) = OnFrom(s, j + 1)
        /\ In(Reached(chain, s[j])) = OnFrom(s, j)
    BY <1>3, RestIs
  <2>2. OnFrom(s, j + 1) = OnFrom(s, j) \ {cur}
    <3>1. \A l \in j + 1..Len(s) : l \in j..Len(s) /\ l # j /\ l \in 1..Len(s)
      BY <1>4
    <3>2. \A l \in j..Len(s) : l = j \/ l \in j + 1..Len(s)
      BY <1>4
    <3>3. \A l \in j + 1..Len(s) : s[l] # cur
      BY <1>4, <1>7, <3>1 DEF Distinct
    <3> HIDE DEF s
    <3> QED
      BY <1>7, <3>1, <3>2, <3>3 DEF OnFrom
  <2>3. cur \in OnFrom(s, j)
    <3>1. j \in j..Len(s)
      BY <1>4
    <3> HIDE DEF s
    <3> QED
      BY <1>7, <3>1 DEF OnFrom
  <2> QED
    BY <1>7, <2>1, <2>2, <2>3, FromIs
<1>8. CASE keep
  <2>1. UNCHANGED <<bucket, chain, count, found, pc, i>>
    BY <1>1, <1>8
  <2>2. Allocated' = Allocated /\ \A k \in Keys : Chain(k)' = Chain(k)
    BY <2>1, FromIs, FromWillBe DEF Allocated
  <2>3. Typed' /\ Listed' /\ Visiting'
    BY <1>1, <1>6, <2>1, <2>2 DEF Typed, Listed, Visiting, In
  <2>4. In(From(cur))' = In(Reached(chain, chain[cur]))
    BY <1>1, <2>1, FromWillBe DEF From, In, Reached, Follows, Linked, Before, EndOf
  <2>5. PICK j \in 1..Len(s) : s[j] = cur
    BY <1>2, <1>3 DEF In
  <2>6. cur \in In(From(cur)) /\ In(From(cur))' = In(From(cur)) \ {cur}
    BY <1>7, <2>4, <2>5
  <2> QED
    BY <1>2, <1>5, <2>2, <2>3, <2>6 DEF TableInv
<1>9. CASE ~keep
  <2>1. RemoveTarget(cur)
    BY <1>1, <1>9
  <2>2. PICK j \in 1..Len(s) :
          /\ s[j] = cur
          /\ chain' \in [Nodes -> Pointers] /\ bucket' \in [Keys -> Nodes \cup {Nil}]
          /\ count' = Cardinality(Allocated')
          /\ Allocated' = Allocated \ {cur}
          /\ Listed'
          /\ \A k \in Keys : Chain(k)' = IF k = i THEN Less(Chain(k), j) ELSE Chain(k)
    BY <1>2, <2>1, TakenLists
  <2>3. Typed'
    BY <1>1, <2>2 DEF Typed
  <2>4. /\ In(From(cur)) = OnFrom(s, j)
        /\ j # Len(s) => j + 1 \in 1..Len(s) /\ chain[cur] = s[j + 1]
        /\ j = Len(s) => chain[cur] = Nil
        /\ OnFrom(s, j + 1) = OnFrom(s, j) \ {cur}
        /\ cur \in OnFrom(s, j)
    BY <1>7, <2>2
  <2>5. cur' \in Allocated' \cup {Nil}
    <3>1. j # Len(s) => chain[cur] # cur
      BY <1>4, <2>2, <2>4 DEF Distinct
    <3> QED
      BY <1>1, <1>6, <2>2, <2>4, <3>1
  <2>6. Visiting'
    BY <1>1, <1>6, <2>5 DEF Visiting
  <2>7. In(From(cur))' = OnFrom(s, j + 1)
    <3>1. In(From(cur))' = In(Reached(chain', chain[cur]))
      BY <1>1 DEF From, In, Reached, Follows, Linked, Before, EndOf
    <3>2. CASE j = Len(s)
      <4>1. j + 1..Len(s) = {}
        BY <1>4, <3>2
      <4>2. OnFrom(s, j + 1) = {}
        BY <4>1 DEF OnFrom
      <4> QED
        BY <2>4, <3>1, <3>2, <4>2, EmptyOrdered
    <3>3. CASE j # Len(s)
      <4> DEFINE t == Less(s, j)
      <4>1. t \in Seq(Nodes) /\ Len(t) = Len(s) - 1
        BY <1>4, LessIs
      <4>2. \A l \in 1..Len(s) - 1 : t[l] = IF l < j THEN s[l] ELSE s[l + 1]
        BY DEF Less
      <4>3. Ordered(chain', t, bucket'[i])
        BY <1>1, <1>2, <2>2 DEF Listed
      <4>4. j \in 1..Len(t) /\ t[j] = chain[cur]
        BY <1>4, <2>4, <3>3, <4>1, <4>2
      <4> HIDE DEF t
      <4>5. In(Reached(chain', t[j])) = OnFrom(t, j)
        BY <4>3, <4>4, RestIs
      <4>6. \A l \in j..Len(t) : l + 1 \in j + 1..Len(s) /\ t[l] = s[l + 1]
        BY <1>4, <4>1, <4>2
      <4>7. \A l \in j + 1..Len(s) : l - 1 \in j..Len(t) /\ t[l - 1] = s[l]
        <5> TAKE l \in j + 1..Len(s)
        <5>1. l - 1 \in j..Len(t) /\ (l - 1) + 1 = l
          BY <1>4, <4>1
        <5> QED
          BY <4>6, <5>1
      <4>8. OnFrom(t, j) = OnFrom(s, j + 1)
        <5> HIDE DEF s
        <5>1. \A m \in OnFrom(t, j) : m \in OnFrom(s, j + 1)
          BY <4>6 DEF OnFrom
        <5>2. \A m \in OnFrom(s, j + 1) : m \in OnFrom(t, j)
          BY <4>7 DEF OnFrom
        <5> QED
          BY <5>1, <5>2
      <4> QED
        BY <3>1, <4>4, <4>5, <4>8
    <3> QED
      BY <3>2, <3>3
  <2>8. \A k \in Keys : k # i => Chain(k)' = Chain(k)
    BY <2>2
  <2> QED
    BY <1>2, <1>5, <2>2, <2>3, <2>4, <2>6, <2>7, <2>8 DEF TableInv
<1> QED
  BY <1>8, <1>9

LEMMA RemoveKeeps ==
  ASSUME TableInv, NEW n \in Nodes, Remove(n)
  PROVE  TableInv'
<1>1. n \in Allocated /\ RemoveTarget(n) /\ UNCHANGED <<found, pc, i, cur>> /\ pc = "idle" /\ cur = Nil
  BY DEF Remove, TableInv, Visiting
<1>2. /\ chain' \in [Nodes -> Pointers] /\ bucket' \in [Keys -> Nodes \cup {Nil}]
      /\ count' = Cardinality(Allocated') /\ Listed'
  BY <1>1, TakenLists
<1>3. Typed'
  BY <1>1, <1>2 DEF Typed, TableInv
<1>4. Visiting'
  BY <1>1, HashtableAssumption DEF Visiting
<1> QED
  BY <1>2, <1>3, <1>4 DEF TableInv

\* A step that leaves the table alone.
LEMMA TableStays ==
  ASSUME UNCHANGED tableVars
  PROVE  Allocated' = Allocated /\ \A k \in Keys : Chain(k)' = Chain(k)
BY FromIs, FromWillBe DEF tableVars, Allocated

LEMMA StartOf ==
  ASSUME TableInv, NEW k \in Keys
  PROVE  bucket[k] \in Allocated \cup {Nil} /\ (bucket[k] \in Nodes => KeyOf[bucket[k]] = k)
BY PointersAllocated

LEMMA ZeroIsKey == 0 \in Keys /\ size - 1 \in Keys /\ Keys \subseteq Int
BY HashtableAssumption DEF Keys

LEMMA SearchKeeps ==
  ASSUME TableInv, NEW k \in Keys, NEW hits \in SUBSET Nodes, Search(k, hits)
  PROVE  /\ TableInv'
         /\ \/ /\ In(Chain(k)) \cap hits = {}
               /\ found' = Nil
            \/ \E j \in 1..Len(Chain(k)) :
                 /\ Chain(k)[j] \in hits
                 /\ \A l \in 1..j - 1 : Chain(k)[l] \notin hits
                 /\ found' = Chain(k)[j]
<1> DEFINE s == Chain(k)
           at == {j \in 1..Len(s) : s[j] \in hits}
<1>1. /\ UNCHANGED <<tableVars, pc, i, cur>>
      /\ found' = IF at = {} THEN Nil ELSE s[CHOOSE j \in at : \A l \in at : j <= l]
  BY DEF Search
<1>2. s \in Seq(Nodes) /\ Len(s) \in Nat /\ \A j \in 1..Len(s) : s[j] \in Nodes
  BY LenProperties, ElementOfSeq DEF TableInv, Listed, Ordered
<1>3. CASE at = {}
  <2>1. In(s) \cap hits = {}
    BY <1>3 DEF In
  <2> QED
    <3>1. found' = Nil
      BY <1>1, <1>3
    <3>2. TableInv'
      BY <1>1, <3>1, TableStays DEF TableInv, Typed, Listed, Visiting, tableVars, In
    <3> QED
      BY <2>1, <3>1, <3>2
<1>4. CASE at # {}
  <2>1. at \in SUBSET Nat
    BY <1>2
  <2>2. \E j \in at : \A l \in at : j <= l
    <3> HIDE DEF at
    <3> QED
      BY <1>4, <2>1, LeastOfNat
  <2> DEFINE j == CHOOSE j \in at : \A l \in at : j <= l
  <2>3. j \in at /\ \A l \in at : j <= l
    <3> HIDE DEF at
    <3> QED
      BY <2>2
  <2>4. found' = s[j]
    BY <1>1, <1>4
  <2> HIDE DEF j
  <2>5. j \in 1..Len(s) /\ s[j] \in hits
    BY <2>3
  <2>6. \A l \in 1..j - 1 : s[l] \notin hits
    <3> TAKE l \in 1..j - 1
    <3>1. l \in 1..Len(s) /\ ~(j <= l)
      BY <1>2, <2>5
    <3> QED
      BY <2>3, <3>1
  <2>7. found' \in Nodes
    BY <1>2, <2>4, <2>5
  <2>8. TableInv'
    BY <1>1, <2>7, TableStays DEF TableInv, Typed, Listed, Visiting, tableVars, In
  <2> QED
    BY <2>4, <2>5, <2>6, <2>8
<1> QED
  BY <1>3, <1>4

LEMMA TraverseKeeps ==
  ASSUME TableInv, TraverseStart \/ NextBucket \/ TraverseEnd \/ UNCHANGED vars
  PROVE  TableInv' /\ UNCHANGED tableVars
<1>1. UNCHANGED tableVars /\ UNCHANGED found
  BY DEF TraverseStart, NextBucket, TraverseEnd, vars, tableVars
<1>2. Listed' /\ Allocated' = Allocated
  BY <1>1, TableStays DEF TableInv, Listed, tableVars, In
<1>3. Typed /\ Visiting
  BY DEF TableInv
<1>4. i' \in Keys /\ pc' \in {"idle", "visit"}
  <2>1. CASE NextBucket
    BY <1>3, <2>1, HashtableAssumption DEF NextBucket, Keys, Typed
  <2>2. CASE TraverseStart \/ TraverseEnd \/ UNCHANGED vars
    BY <1>3, <2>2, ZeroIsKey DEF TraverseStart, TraverseEnd, vars, Typed
  <2> QED
    BY <2>1, <2>2
<1>5. Typed'
  BY <1>1, <1>2, <1>3, <1>4 DEF Typed, tableVars
<1>6. Visiting'
  <2>1. CASE TraverseStart
    BY <1>2, <2>1, ZeroIsKey, StartOf DEF TraverseStart, Visiting
  <2>2. CASE NextBucket
    <3>1. cur' = bucket[i'] /\ pc' # "idle"
      BY <2>2 DEF NextBucket
    <3> QED
      BY <1>2, <1>4, <3>1, StartOf DEF Visiting
  <2>3. CASE TraverseEnd \/ UNCHANGED vars
    BY <1>2, <1>3, <2>3, HashtableAssumption DEF TraverseEnd, vars, Visiting
  <2> QED
    BY <2>1, <2>2, <2>3
<1> QED
  BY <1>1, <1>2, <1>5, <1>6 DEF TableInv

LEMMA InitTable == Init => TableInv
<1> SUFFICES ASSUME Init PROVE TableInv
  OBVIOUS
<1>1. Allocated = {}
  BY DEF Init, Allocated
<1>2. Typed
  BY <1>1, ZeroIsKey, FS_EmptySet, HashtableAssumption DEF Init, Typed, Pointers
<1>3. \A k \in Keys : bucket[k] = Nil /\ Chain(k) = <<>>
  BY EmptyOrdered, FromIs DEF Init
<1>4. Listed
  BY <1>1, <1>3, EmptyOrdered DEF Listed
<1>5. Visiting
  BY HashtableAssumption DEF Init, Visiting
<1> QED
  BY <1>2, <1>4, <1>5 DEF TableInv

LEMMA StepTable ==
  ASSUME TableInv, [Next]_vars
  PROVE  TableInv'
<1>1. CASE \E n \in Nodes : Insert(n) \/ Remove(n)
  BY <1>1, InsertLists, RemoveKeeps
<1>2. CASE \E k \in Keys, hits \in SUBSET Nodes : Search(k, hits)
  BY <1>2, SearchKeeps
<1>3. CASE \E keep \in BOOLEAN : Visit(keep)
  BY <1>3, VisitLeft
<1>4. CASE TraverseStart \/ NextBucket \/ TraverseEnd \/ UNCHANGED vars
  BY <1>4, TraverseKeeps
<1> QED
  BY <1>1, <1>2, <1>3, <1>4 DEF Next

\* The chains are disjoint lists of the nodes there are, each under its key, no pointer, that of
\* a traversal included, leads to a freed node, and htb->count is their number: what
\* assert(cur == target) in hashtable_remove() asks, after any insertions, removals and
\* traversals that free what they visit.
THEOREM TableWellChained == Spec => []WellChained
<1>1. TableInv /\ [Next]_vars => TableInv'
  BY StepTable
<1> QED
  BY InitTable, <1>1, InvIsWellChained, PTL DEF Spec

-----------------------------------------------------------------------------
(* The table is a table of nodes: what the chains make under each key are its entries. *)

Entries == [k \in Keys |-> Chain(k)]

LEMMA EntriesAre ==
  ASSUME TableInv
  PROVE  /\ \A k \in Keys : Table!Members(k) = In(Chain(k))
         /\ Table!All = Allocated
         /\ pc = "idle" => Unvisited = {}
<1>1. \A k \in Keys : Table!Members(k) = In(Chain(k))
  BY DEF Table!Members, In
<1>2. \A k \in Keys : In(Chain(k)) = {n \in Allocated : KeyOf[n] = k}
  BY DEF TableInv, Listed
<1>3. \A n \in Allocated : KeyOf[n] \in Keys
  BY KeysOf DEF Allocated
<1>4. Table!All = Allocated
  BY <1>1, <1>2, <1>3 DEF Table!All
<1> QED
  BY <1>1, <1>4 DEF Unvisited

\* Without what is at its place, a list is what NodeTable says it is without the node.
LEMMA WithoutIs ==
  ASSUME NEW s, Distinct(s), NEW j \in 1..Len(s)
  PROVE  Table!Without(s, s[j]) = Less(s, j)
<1>1. Table!Place(s, s[j]) = j
  BY PlaceIs DEF Table!Place
<1> QED
  BY <1>1 DEF Table!Without, Less

LEMMA IdleStays ==
  ASSUME pc = "idle", pc' = "idle"
  PROVE  Unvisited = {} /\ Unvisited' = {}
BY DEF Unvisited

LEMMA InsertRefines ==
  ASSUME TableInv, NEW n \in Nodes, Insert(n)
  PROVE  Table!Insert(n)
<1>1. pc = "idle" /\ pc' = "idle" /\ n \notin Allocated /\ found' = found
  BY DEF Insert
<1>2. \A k \in Keys : Chain(k)' = IF k = KeyOf[n] THEN <<n>> \o Chain(k) ELSE Chain(k)
  BY InsertLists
<1>3. Entries' = [Entries EXCEPT ![KeyOf[n]] = <<n>> \o Entries[KeyOf[n]]]
  BY <1>2, KeysOf DEF Entries
<1> QED
  BY <1>1, <1>3, IdleStays, EntriesAre DEF Table!Insert, Entries

\* What hashtable_remove() leaves.
LEMMA TakenRefines ==
  ASSUME TableInv, NEW n \in Allocated, RemoveTarget(n)
  PROVE  Entries' = Table!Taken(n)
<1>1. n \in Nodes /\ KeyOf[n] \in Keys
  BY KeysOf DEF Allocated
<1>2. PICK at \in 1..Len(Chain(KeyOf[n])) :
        /\ Chain(KeyOf[n])[at] = n
        /\ \A k \in Keys : Chain(k)' = IF k = KeyOf[n] THEN Less(Chain(k), at) ELSE Chain(k)
  BY TakenLists
<1>3. Distinct(Chain(KeyOf[n]))
  BY <1>1 DEF TableInv, Listed, Ordered
<1>4. Table!Without(Chain(KeyOf[n]), n) = Less(Chain(KeyOf[n]), at)
  BY <1>2, <1>3, WithoutIs
<1>5. Table!Taken(n) = [Entries EXCEPT ![KeyOf[n]] = Table!Without(Entries[KeyOf[n]], n)]
  BY DEF Table!Taken, Entries
<1>6. Entries[KeyOf[n]] = Chain(KeyOf[n])
  BY <1>1 DEF Entries
<1> QED
  BY <1>2, <1>4, <1>5, <1>6 DEF Entries

LEMMA RemoveRefines ==
  ASSUME TableInv, NEW n \in Nodes, Remove(n)
  PROVE  Table!Remove(n)
<1>1. pc = "idle" /\ pc' = "idle" /\ n \in Allocated /\ found' = found /\ RemoveTarget(n)
  BY DEF Remove
<1>2. Entries' = Table!Taken(n)
  BY <1>1, TakenRefines
<1> QED
  BY <1>1, <1>2, IdleStays, EntriesAre DEF Table!Remove, Entries

LEMMA SearchRefines ==
  ASSUME TableInv, NEW k \in Keys, NEW hits \in SUBSET Nodes, Search(k, hits)
  PROVE  Table!Search(k, hits)
<1>1. pc = "idle" /\ pc' = "idle" /\ UNCHANGED tableVars
  BY DEF Search
<1>2. Entries' = Entries
  BY <1>1, TableStays DEF Entries
<1>3. Entries[k] = Chain(k)
  BY DEF Entries
<1>4. \/ Table!Members(k) \cap hits = {} /\ found' = Nil
      \/ \E j \in 1..Len(Entries[k]) :
           /\ Entries[k][j] \in hits
           /\ \A l \in 1..j - 1 : Entries[k][l] \notin hits
           /\ found' = Entries[k][j]
  BY <1>3, SearchKeeps, EntriesAre
<1> QED
  BY <1>1, <1>2, <1>4, IdleStays DEF Table!Search, Entries

\* What a traversal has yet to visit: of its bucket, and of later ones.
Later(k) == UNION {In(Chain(x)) : x \in {y \in Keys : y > k}}

LEMMA LaterIs ==
  ASSUME TableInv, NEW k \in Keys
  PROVE  /\ Later(k) = {n \in Allocated : KeyOf[n] > k}
         /\ k + 1 \in Keys => Later(k) = In(Chain(k + 1)) \cup Later(k + 1)
<1>1. \A x \in Keys : In(Chain(x)) = {n \in Allocated : KeyOf[n] = x}
  BY DEF TableInv, Listed
<1>2. \A n \in Allocated : KeyOf[n] \in Keys
  BY KeysOf DEF Allocated
<1>3. \A y \in Keys : Later(y) = {n \in Allocated : KeyOf[n] > y}
  <2> TAKE y \in Keys
  <2>1. \A n \in Later(y) : n \in Allocated /\ KeyOf[n] > y
    BY <1>1 DEF Later
  <2>2. \A n \in Allocated : KeyOf[n] > y => n \in Later(y)
    BY <1>1, <1>2 DEF Later
  <2> QED
    BY <2>1, <2>2
<1>4. ASSUME k + 1 \in Keys
      PROVE  Later(k) = In(Chain(k + 1)) \cup Later(k + 1)
  <2>1. \A x \in Keys : x > k <=> x = k + 1 \/ x > k + 1
    BY ZeroIsKey
  <2>2. \A n \in Allocated : KeyOf[n] > k <=> KeyOf[n] = k + 1 \/ KeyOf[n] > k + 1
    BY <1>2, <2>1
  <2> QED
    BY <1>1, <1>3, <1>4, <2>2
<1> QED
  BY <1>3, <1>4

LEMMA VisitRefines ==
  ASSUME TableInv, NEW keep \in BOOLEAN, Visit(keep)
  PROVE  Table!Visit(cur, keep)
<1>1. /\ cur \in Allocated /\ cur \in In(From(cur)) /\ In(From(cur))' = In(From(cur)) \ {cur}
      /\ \A k \in Keys : k # i => Chain(k)' = Chain(k) /\ cur \notin In(Chain(k))
  BY VisitLeft
<1>2. pc = "visit" /\ pc' = "visit" /\ found' = found /\ i' = i /\ i \in Keys
      /\ IF keep THEN UNCHANGED tableVars ELSE RemoveTarget(cur)
  BY DEF Visit, TableInv, Typed
<1>3. Unvisited = In(From(cur)) \cup Later(i)
  BY <1>2 DEF Unvisited, Later
<1>4. Unvisited' = In(From(cur))' \cup Later(i)'
  BY <1>2 DEF Unvisited, Later
<1>5. Later(i)' = Later(i) /\ cur \notin Later(i)
  <2>1. \A x \in Keys : x > i => In(Chain(x))' = In(Chain(x)) /\ cur \notin In(Chain(x))
    <3> TAKE x \in Keys
    <3> HAVE x > i
    <3>1. x # i
      BY <1>2, ZeroIsKey
    <3> QED
      BY <1>1, <3>1 DEF In
  <2> QED
    BY <1>2, <2>1 DEF Later
<1>6. cur \in Unvisited /\ Unvisited' = Unvisited \ {cur}
  BY <1>1, <1>3, <1>4, <1>5
<1>7. Entries' = IF keep THEN Entries ELSE Table!Taken(cur)
  <2>1. CASE keep
    BY <1>2, <2>1, TableStays DEF Entries
  <2>2. CASE ~keep
    BY <1>1, <1>2, <2>2, TakenRefines
  <2> QED
    BY <2>1, <2>2
<1> QED
  BY <1>2, <1>6, <1>7 DEF Table!Visit, Entries

LEMMA NoneFromNil == In(From(Nil)) = {}
BY EmptyOrdered, FromIs

LEMMA BeginRefines ==
  ASSUME TableInv, TraverseStart
  PROVE  Table!Begin
<1>1. /\ pc = "idle" /\ pc' = "visit" /\ found' = found /\ UNCHANGED tableVars
      /\ i' = 0 /\ cur' = bucket[0]
  BY DEF TraverseStart
<1>2. Entries' = Entries
  BY <1>1, TableStays DEF Entries
<1>3. Unvisited' = In(Chain(0)) \cup Later(0)
  <2>1. Unvisited' = In(From(cur))' \cup Later(i)'
    BY <1>1 DEF Unvisited, Later
  <2>2. From(cur)' = Chain(0)
    BY <1>1, FromIs DEF From, Reached, Follows, Linked, Before, EndOf, tableVars
  <2>3. Later(i)' = Later(0)
    <3>1. \A x \in Keys : In(Chain(x))' = In(Chain(x))
      BY <1>1, TableStays DEF In
    <3> QED
      BY <1>1, <3>1 DEF Later
  <2>4. In(From(cur))' = In(Chain(0))
    BY <2>2 DEF In
  <2> QED
    BY <2>1, <2>3, <2>4
<1>4. In(Chain(0)) = {n \in Allocated : KeyOf[n] = 0} /\ Later(0) = {n \in Allocated : KeyOf[n] > 0}
  BY ZeroIsKey, LaterIs DEF TableInv, Listed
<1>5. \A n \in Allocated : KeyOf[n] = 0 \/ KeyOf[n] > 0
  <2>1. \A n \in Allocated : KeyOf[n] \in 0..size - 1 /\ size - 1 \in Int
    BY KeysOf, ZeroIsKey DEF Allocated, Keys
  <2> QED
    BY <2>1
<1>6. Unvisited' = Allocated
  BY <1>3, <1>4, <1>5
<1> QED
  BY <1>1, <1>2, <1>6, EntriesAre DEF Table!Begin, Entries

LEMMA NextBucketRefines ==
  ASSUME TableInv, NextBucket
  PROVE  UNCHANGED Table!vars
<1>1. /\ pc = "visit" /\ pc' = "visit" /\ found' = found /\ UNCHANGED tableVars
      /\ i' = i + 1 /\ cur' = bucket[i + 1] /\ cur = Nil /\ i < size - 1
  BY DEF NextBucket
<1>2. i \in Keys /\ i + 1 \in Keys
  BY <1>1, HashtableAssumption DEF TableInv, Typed, Keys
<1>3. Entries' = Entries
  BY <1>1, TableStays DEF Entries
<1>4. Unvisited = Later(i)
  BY <1>1, NoneFromNil DEF Unvisited, Later
<1>5. Unvisited' = In(Chain(i + 1)) \cup Later(i + 1)
  <2>1. Unvisited' = In(From(cur))' \cup Later(i)'
    BY <1>1 DEF Unvisited, Later
  <2>2. From(cur)' = Chain(i + 1)
    BY <1>1, FromIs DEF From, Reached, Follows, Linked, Before, EndOf, tableVars
  <2>3. Later(i)' = Later(i + 1)
    <3>1. \A x \in Keys : In(Chain(x))' = In(Chain(x))
      BY <1>1, TableStays DEF In
    <3> QED
      BY <1>1, <3>1 DEF Later
  <2>4. In(From(cur))' = In(Chain(i + 1))
    BY <2>2 DEF In
  <2> QED
    BY <2>1, <2>3, <2>4
<1>6. Unvisited' = Unvisited
  BY <1>2, <1>4, <1>5, LaterIs
<1> QED
  BY <1>1, <1>3, <1>6 DEF Table!vars, Entries

LEMMA EndRefines ==
  ASSUME TableInv, TraverseEnd
  PROVE  Table!End
<1>1. /\ pc = "visit" /\ pc' = "idle" /\ found' = found /\ UNCHANGED tableVars
      /\ cur = Nil /\ i = size - 1
  BY DEF TraverseEnd
<1>2. Entries' = Entries
  BY <1>1, TableStays DEF Entries
<1>3. Later(i) = {}
  <2>1. \A n \in Allocated : KeyOf[n] \in 0..size - 1 /\ size - 1 \in Int
    BY KeysOf, ZeroIsKey DEF Allocated, Keys
  <2>2. \A n \in Allocated : ~(KeyOf[n] > i)
    BY <1>1, <2>1
  <2> QED
    BY <1>1, <2>2, ZeroIsKey, LaterIs
<1>4. Unvisited = {}
  BY <1>1, <1>3, NoneFromNil DEF Unvisited, Later
<1>5. Unvisited' = {}
  BY <1>1 DEF Unvisited
<1> QED
  BY <1>1, <1>2, <1>4, <1>5 DEF Table!End, Entries

LEMMA StutterRefines ==
  ASSUME UNCHANGED vars
  PROVE  UNCHANGED Table!vars
<1>1. UNCHANGED <<tableVars, found, pc, i, cur>>
  BY DEF vars, tableVars
<1>2. Entries' = Entries
  BY <1>1, TableStays DEF Entries
<1>3. In(From(cur))' = In(From(cur)) /\ \A x \in Keys : In(Chain(x))' = In(Chain(x))
  BY <1>1, TableStays DEF From, In, Follows, tableVars
<1>4. Unvisited' = Unvisited
  BY <1>1, <1>3 DEF Unvisited
<1> QED
  BY <1>1, <1>2, <1>4 DEF Table!vars, Entries

LEMMA StepRefines ==
  ASSUME TableInv, [Next]_vars
  PROVE  [Table!Next]_(Table!vars)
<1>1. ASSUME NEW n \in Nodes, Insert(n) \/ Remove(n)
      PROVE  Table!Next
  BY <1>1, InsertRefines, RemoveRefines DEF Table!Next
<1>2. ASSUME NEW k \in Keys, NEW hits \in SUBSET Nodes, Search(k, hits)
      PROVE  Table!Next
  BY <1>2, SearchRefines DEF Table!Next
<1>3. ASSUME NEW keep \in BOOLEAN, Visit(keep)
      PROVE  Table!Next
  <2>1. cur \in Nodes
    BY <1>3 DEF Visit
  <2> QED
    BY <1>3, <2>1, VisitRefines DEF Table!Next
<1>4. TraverseStart \/ TraverseEnd => Table!Next
  BY BeginRefines, EndRefines DEF Table!Next
<1>5. NextBucket \/ UNCHANGED vars => UNCHANGED Table!vars
  BY NextBucketRefines, StutterRefines
<1> QED
  BY <1>1, <1>2, <1>3, <1>4, <1>5 DEF Next

LEMMA InitRefines == Init => Table!Init
<1> SUFFICES ASSUME Init PROVE Table!Init
  OBVIOUS
<1>1. \A k \in Keys : Chain(k) = <<>>
  BY EmptyOrdered, FromIs DEF Init
<1> QED
  BY <1>1 DEF Init, Table!Init, Unvisited

\* The hash table with its chains is a table of nodes: under each key a list, newest first; a
\* search finds the newest node that hits; and traverse_hashtable() hands each node there is
\* to fn() once, though fn() may take it out and free it.
THEOREM TableRefines == Spec => IsNodeTable
<1>1. TableInv /\ [Next]_vars => TableInv'
  BY StepTable
<1>2. TableInv /\ [Next]_vars => [Table!Next]_(Table!vars)
  BY StepRefines
<1> QED
  BY InitTable, InitRefines, <1>1, <1>2, PTL DEF Spec, IsNodeTable, Table!Spec
=============================================================================
