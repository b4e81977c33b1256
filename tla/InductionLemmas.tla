-------------------------- MODULE InductionLemmas --------------------------
(***************************************************************************)
(* Induction over numbers and sequences, and functions defined by          *)
(* recursion on an initial segment of the numbers, in a form without       *)
(* operator parameters: a property is a set, a step is a function.  With   *)
(* them, what sequences are that were put one behind the other.            *)
(***************************************************************************)
EXTENDS Integers, Sequences, SequencesExt, WellFoundedInduction, TLAPS

\* The usual order of the natural numbers, which is well founded.
Less == {pair \in Nat \X Nat : pair[1] < pair[2]}
\* Every set of numbers that is not empty has a least one.
LEMMA LessIsWellFounded == IsWellFoundedOn(Less, Nat)
<1>1. Less = OpToRel(<, Nat) BY Zenon DEF Less, OpToRel
<1> QED BY <1>1, NatLessThanWellFounded, Zenon

\* A set that has 0, and with each number the next one, has all numbers: its
\* complement has no least element.
LEMMA SetInduction ==
  ASSUME NEW T, 0 \in T, \A n \in Nat : n \in T => n + 1 \in T
  PROVE  Nat \subseteq T
<1> SUFFICES ASSUME Nat \ T # {} PROVE FALSE OBVIOUS
<1> DEFINE B == Nat \ T
<1>1. B \subseteq Nat /\ B # {} OBVIOUS
<1> HIDE DEF B
<1>2. PICK x \in B : \A y \in B : ~ (<<y, x>> \in Less) BY <1>1, LessIsWellFounded, WFMin
<1>3. x \in Nat /\ x # 0 /\ x - 1 \in Nat /\ x - 1 \notin T BY DEF B
<1>4. <<x - 1, x>> \in Less BY <1>3 DEF Less
<1> QED BY <1>2, <1>3, <1>4 DEF B

\* The same up to a bound.
LEMMA BoundedInduction ==
  ASSUME NEW l \in Nat, NEW T, 0 \in T, \A n \in 0..(l - 1) : n \in T => n + 1 \in T
  PROVE  0..l \subseteq T
<1> DEFINE U == {n \in Nat : n <= l => n \in T}
<1>1. 0 \in U OBVIOUS
<1>2. ASSUME NEW n \in Nat, n \in U PROVE n + 1 \in U
  <2>1. CASE n + 1 <= l
    <3>1. n \in 0..(l - 1) /\ n \in T BY <1>2, <2>1
    <3> QED BY <3>1
  <2>2. CASE ~(n + 1 <= l) BY <2>2
  <2> QED BY <2>1, <2>2
<1> HIDE DEF U
<1>3. Nat \subseteq U BY <1>1, <1>2, SetInduction
<1> QED BY <1>3 DEF U

-----------------------------------------------------------------------------
\* Append and \o under names that are expanded where it is said: the provers
\* otherwise replace both by the functions they stand for, and then no longer
\* see that equals may be put for equals in them.
Add(s, e) == Append(s, e)
Cat(s, u) == s \o u

\* An element is added behind those that were there.
LEMMA AddFacts ==
  ASSUME NEW S, NEW s \in Seq(S), NEW e \in S
  PROVE  /\ Add(s, e) \in Seq(S) /\ Add(s, e) # <<>>
         /\ Len(Add(s, e)) = Len(s) + 1 /\ Add(s, e)[Len(s) + 1] = e
         /\ \A i \in 1..Len(s) : Add(s, e)[i] = s[i]
BY DEF Add

\* The empty sequence adds nothing, on either side.
LEMMA CatFacts ==
  ASSUME NEW S, NEW s \in Seq(S)
  PROVE  /\ Cat(s, <<>>) = s /\ Cat(<<>>, s) = s
         /\ \A u \in Seq(S) : Cat(s, u) \in Seq(S)
BY DEF Cat

\* Sequences of the same elements are the same.
LEMMA SameElements ==
  ASSUME NEW S, NEW s \in Seq(S), NEW u \in Seq(S), NEW n \in Nat, Len(s) = n, Len(u) = n,
         \A i \in 1..n : s[i] = u[i]
  PROVE  s = u
OBVIOUS

\* The first element.
LEMMA AddToNone ==
  ASSUME NEW S, NEW none \in Seq(S), NEW a \in S, Len(none) = 0
  PROVE  Add(none, a) = <<a>>
BY DEF Add

\* A second element behind the first.
LEMMA AddToOne ==
  ASSUME NEW S, NEW one \in Seq(S), NEW a \in S, NEW b \in S, Len(one) = 1, one[1] = a
  PROVE  Add(one, b) = <<a, b>>
<1>1. \A s \in Seq(S), e \in S :
        /\ Add(s, e) \in Seq(S) /\ Len(Add(s, e)) = Len(s) + 1 /\ Add(s, e)[Len(s) + 1] = e
        /\ \A i \in 1..Len(s) : Add(s, e)[i] = s[i]
  BY AddFacts
<1>2. /\ Len(Add(one, b)) = Len(one) + 1 /\ Add(one, b)[Len(one) + 1] = b
      /\ \A i \in 1..Len(one) : Add(one, b)[i] = one[i]
  BY <1>1
<1>3. Len(Add(one, b)) = 2 /\ Add(one, b)[2] = b /\ Add(one, b)[1] = a
  <2>1. Len(one) + 1 = 2 /\ 1 \in 1..Len(one) OBVIOUS
  <2> QED BY <1>2, <2>1
<1>4. PICK pair \in Seq(S) : pair = <<a, b>>
  <2>1. <<a, b>> \in Seq(S) OBVIOUS
  <2> QED BY <2>1
<1>5. Len(pair) = 2 /\ pair[1] = a /\ pair[2] = b BY <1>4
<1>6. \A i \in 1..2 : Add(one, b)[i] = pair[i] BY <1>3, <1>5
<1> QED BY <1>1, <1>3, <1>4, <1>5, <1>6, SameElements

\* An element behind the second of two sequences is behind both.
LEMMA CatAdd ==
  ASSUME NEW S, NEW a \in Seq(S), NEW b \in Seq(S), NEW e \in S
  PROVE  Cat(a, Add(b, e)) = Add(Cat(a, b), e)
<1>1. PICK m \in Nat, n \in Nat : m = Len(a) /\ n = Len(b) OBVIOUS
<1> DEFINE lhs == a \o Append(b, e)
           rhs == Append(a \o b, e)
<1>2. /\ lhs \in Seq(S) /\ rhs \in Seq(S) /\ Len(lhs) = m + n + 1 /\ Len(rhs) = m + n + 1
  BY <1>1
<1>3. \A i \in 1..(m + n + 1) : lhs[i] = rhs[i] BY <1>1
<1>4. Cat(a, Add(b, e)) = lhs /\ Add(Cat(a, b), e) = rhs BY DEF Cat, Add
<1> HIDE DEF lhs, rhs
<1> QED BY <1>1, <1>2, <1>3, <1>4, SameElements

\* A set that has the empty sequence, and with each sequence those that are one
\* longer, has all sequences.
LEMMA SeqInduction ==
  ASSUME NEW S, NEW T, <<>> \in T,
         \A s \in Seq(S), e \in S : s \in T => Add(s, e) \in T
  PROVE  Seq(S) \subseteq T
<1> DEFINE U == {n \in Nat : \A s \in Seq(S) : Len(s) = n => s \in T}
<1>1. 0 \in U
  <2>1. \A s \in Seq(S) : Len(s) = 0 => s = <<>> OBVIOUS
  <2> QED BY <2>1
<1>2. ASSUME NEW n \in Nat, n \in U PROVE n + 1 \in U
  <2> SUFFICES ASSUME NEW s \in Seq(S), Len(s) = n + 1 PROVE s \in T OBVIOUS
  <2> DEFINE front == SubSeq(s, 1, n)
  <2>1. front \in Seq(S) /\ Len(front) = n /\ \A i \in 1..n : front[i] = s[i] OBVIOUS
  <2>2. s[n + 1] \in S OBVIOUS
  <2> HIDE DEF front
  <2>3. Add(front, s[n + 1]) = s
    <3>1. /\ Add(front, s[n + 1]) \in Seq(S) /\ Len(Add(front, s[n + 1])) = n + 1
          /\ \A i \in 1..(n + 1) : Add(front, s[n + 1])[i] = s[i]
      BY <2>1, <2>2 DEF Add
    <3> QED BY <3>1, SameElements
  <2>4. front \in T BY <1>2, <2>1
  <2> QED BY <2>1, <2>2, <2>3, <2>4
<1> HIDE DEF U
<1>3. Nat \subseteq U BY <1>1, <1>2, SetInduction
<1>4. ASSUME NEW s \in Seq(S) PROVE s \in T
  <2>1. Len(s) \in U BY <1>3
  <2> QED BY <2>1 DEF U
<1> QED BY <1>4

-----------------------------------------------------------------------------
\* What a recursion of l steps from base computes, if there is such a function.
Runs(f, S, l, base, step) ==
  /\ f \in [0..l -> S]
  /\ f[0] = base
  /\ \A n \in 1..l : f[n] = step[<<n, f[n - 1]>>]

\* There is one.
LEMMA RecursionExists ==
  ASSUME NEW S, NEW l \in Nat, NEW base \in S, NEW step \in [(1..l) \X S -> S]
  PROVE  \E f : Runs(f, S, l, base, step)
<1> DEFINE T == {n \in Nat : n <= l => \E f : Runs(f, S, n, base, step)}
<1>1. 0 \in T
  <2>1. Runs([n \in 0..0 |-> base], S, 0, base, step) BY DEF Runs
  <2> QED BY <2>1
<1>2. ASSUME NEW n \in Nat, n \in T PROVE n + 1 \in T
  <2> SUFFICES ASSUME n + 1 <= l PROVE \E f : Runs(f, S, n + 1, base, step) OBVIOUS
  <2>1. PICK f : Runs(f, S, n, base, step) BY <1>2
  <2> DEFINE g == [i \in 0..(n + 1) |-> IF i <= n THEN f[i] ELSE step[<<n + 1, f[n]>>]]
  <2>2. f \in [0..n -> S] /\ f[n] \in S BY <2>1 DEF Runs
  <2>3. <<n + 1, f[n]>> \in (1..l) \X S BY <2>2
  <2>4. step[<<n + 1, f[n]>>] \in S BY <2>3
  <2>5. g \in [0..(n + 1) -> S] BY <2>2, <2>4
  <2>6. g[0] = base BY <2>1 DEF Runs
  <2>7. ASSUME NEW i \in 1..(n + 1) PROVE g[i] = step[<<i, g[i - 1]>>]
    <3>1. g[i - 1] = f[i - 1] OBVIOUS
    <3>2. CASE i <= n BY <2>1, <3>1, <3>2 DEF Runs
    <3>3. CASE i = n + 1
      <4>1. g[i] = step[<<n + 1, f[n]>>] /\ i - 1 = n BY <3>3
      <4> QED BY <3>1, <3>3, <4>1
    <3> QED BY <3>2, <3>3
  <2> HIDE DEF g
  <2>8. Runs(g, S, n + 1, base, step) BY <2>5, <2>6, <2>7 DEF Runs
  <2> QED BY <2>8
<1> HIDE DEF T
<1>3. Nat \subseteq T BY <1>1, <1>2, SetInduction
<1> QED BY <1>3 DEF T

\* Two recursions that take the same steps compute the same.
LEMMA RecursionAgrees ==
  ASSUME NEW l \in Nat, NEW f, NEW g, f[0] = g[0],
         \A n \in 1..l : f[n - 1] = g[n - 1] => f[n] = g[n]
  PROVE  \A n \in 0..l : f[n] = g[n]
<1> DEFINE T == {n \in 0..l : f[n] = g[n]}
<1>1. 0 \in T OBVIOUS
<1>2. ASSUME NEW n \in 0..(l - 1), n \in T PROVE n + 1 \in T
  <2>1. PICK m \in 1..l : m = n + 1 /\ m - 1 = n OBVIOUS
  <2>2. f[m] = g[m] BY <1>2, <2>1
  <2> QED BY <2>1, <2>2
<1> HIDE DEF T
<1>3. 0..l \subseteq T BY <1>1, <1>2, BoundedInduction
<1> QED BY <1>3 DEF T

-----------------------------------------------------------------------------
\* Concatenation is associative.
LEMMA CatAssoc ==
  ASSUME NEW S, NEW a \in Seq(S), NEW b \in Seq(S), NEW c \in Seq(S)
  PROVE  Cat(Cat(a, b), c) = Cat(a, Cat(b, c))
<1>1. PICK k \in Nat, m \in Nat, n \in Nat : k = Len(a) /\ m = Len(b) /\ n = Len(c) OBVIOUS
<1> DEFINE lhs == (a \o b) \o c
           rhs == a \o (b \o c)
<1>2. /\ lhs \in Seq(S) /\ rhs \in Seq(S) /\ Len(lhs) = k + m + n /\ Len(rhs) = k + m + n
  BY <1>1
<1>3. \A i \in 1..(k + m + n) : lhs[i] = rhs[i] BY <1>1
<1>4. Cat(Cat(a, b), c) = lhs /\ Cat(a, Cat(b, c)) = rhs BY DEF Cat
<1> HIDE DEF lhs, rhs
<1> QED BY <1>1, <1>2, <1>3, <1>4, SameElements

\* A sequence is a prefix of itself with more behind it.
LEMMA PrefixOfCat ==
  ASSUME NEW S, NEW a \in Seq(S), NEW b \in Seq(S)
  PROVE  IsPrefix(a, Cat(a, b))
<1>1. PICK m \in Nat, n \in Nat : m = Len(a) /\ n = Len(b) OBVIOUS
<1>2. PICK c \in Seq(S) : c = a \o b /\ Len(c) = m + n /\ \A i \in 1..m : c[i] = a[i]
  <2>1. a \o b \in Seq(S) /\ Len(a \o b) = m + n BY <1>1
  <2>2. \A i \in 1..m : (a \o b)[i] = a[i] BY <1>1
  <2> QED BY <2>1, <2>2
<1> DEFINE lhs == SubSeq(a, 1, m)
           rhs == SubSeq(c, 1, m)
<1>3. lhs \in Seq(S) /\ rhs \in Seq(S) /\ Len(lhs) = m /\ Len(rhs) = m BY <1>1, <1>2
<1>4. \A i \in 1..m : lhs[i] = rhs[i] BY <1>1, <1>2
<1> HIDE DEF lhs, rhs
<1>5. lhs = rhs BY <1>1, <1>3, <1>4, SameElements
<1> QED BY <1>1, <1>2, <1>5 DEF IsPrefix, Cat, lhs, rhs

\* Which element is where.
LEMMA CatIndex ==
  ASSUME NEW S, NEW a \in Seq(S), NEW b \in Seq(S)
  PROVE  /\ Cat(a, b) \in Seq(S) /\ Len(Cat(a, b)) = Len(a) + Len(b)
         /\ \A i \in 1..Len(a) : Cat(a, b)[i] = a[i]
         /\ \A i \in 1..Len(b) : Cat(a, b)[Len(a) + i] = b[i]
<1>1. a \o b \in Seq(S) /\ Len(a \o b) = Len(a) + Len(b) OBVIOUS
<1>2. \A i \in 1..Len(a) : (a \o b)[i] = a[i] OBVIOUS
<1>3. \A i \in 1..Len(b) : (a \o b)[Len(a) + i] = b[i] OBVIOUS
<1> QED BY <1>1, <1>2, <1>3 DEF Cat

\* A sequence cut in two, and one that is cut one element later.
LEMMA CutInTwo ==
  ASSUME NEW S, NEW s \in Seq(S), NEW g \in Nat, NEW n \in Nat, g <= n, n <= Len(s)
  PROVE  /\ SubSeq(s, 1, n) \in Seq(S) /\ Len(SubSeq(s, 1, n)) = n
         /\ SubSeq(s, g + 1, n) \in Seq(S) /\ Len(SubSeq(s, g + 1, n)) = n - g
         /\ \A i \in 1..(n - g) : SubSeq(s, g + 1, n)[i] = s[g + i]
         /\ SubSeq(s, 1, n) = Cat(SubSeq(s, 1, g), SubSeq(s, g + 1, n))
<1>1. PICK m \in Nat : m = n - g OBVIOUS
<1> DEFINE a == SubSeq(s, 1, g)
           b == SubSeq(s, g + 1, n)
           c == SubSeq(s, 1, n)
           d == Cat(a, b)
<1>2. a \in Seq(S) /\ Len(a) = g /\ \A i \in 1..g : a[i] = s[i] OBVIOUS
<1>3. b \in Seq(S) /\ Len(b) = m /\ \A i \in 1..m : b[i] = s[g + i] BY <1>1
<1>4. c \in Seq(S) /\ Len(c) = n /\ \A i \in 1..n : c[i] = s[i] OBVIOUS
<1> HIDE DEF a, b, c
<1>5. /\ d \in Seq(S) /\ Len(d) = n /\ \A i \in 1..g : d[i] = a[i]
      /\ \A i \in 1..m : d[g + i] = b[i]
  <2>1. a \in Seq(S) /\ b \in Seq(S) /\ g \in Nat /\ m \in Nat /\ g = Len(a) /\ m = Len(b)
    BY <1>2, <1>3
  <2>2. /\ Cat(a, b) \in Seq(S) /\ Len(Cat(a, b)) = g + m /\ \A i \in 1..g : Cat(a, b)[i] = a[i]
        /\ \A i \in 1..m : Cat(a, b)[g + i] = b[i]
    <3>0. a \in Seq(S) /\ b \in Seq(S) BY <2>1
    <3>1. Cat(a, b) \in Seq(S) /\ Len(Cat(a, b)) = Len(a) + Len(b) BY ONLY <3>0, CatIndex
    <3>2. \A i \in 1..Len(a) : Cat(a, b)[i] = a[i] BY ONLY <3>0, CatIndex
    <3>3. \A i \in 1..Len(b) : Cat(a, b)[Len(a) + i] = b[i] BY ONLY <3>0, CatIndex
    <3> QED BY ONLY <2>1, <3>1, <3>2, <3>3
  <2>3. g + m = n BY <1>1
  <2> QED BY <2>2, <2>3
<1> HIDE DEF d
<1>6. ASSUME NEW i \in 1..n PROVE d[i] = c[i]
  <2>1. CASE i <= g BY <1>2, <1>4, <1>5, <2>1
  <2>2. CASE i > g
    <3>1. PICK j \in 1..m : g + j = i
      <4>1. i - g \in 1..m /\ g + (i - g) = i BY <1>1, <2>2
      <4> QED BY <4>1
    <3> QED BY <1>3, <1>4, <1>5, <3>1
  <2> QED BY <2>1, <2>2
<1>7. c = d BY <1>4, <1>5, <1>6, SameElements
<1> QED BY <1>1, <1>3, <1>4, <1>7 DEF a, b, c, d

-----------------------------------------------------------------------------
\* The recursive function inside FlattenSeq.
FlatOf(ss) ==
  CHOOSE flat : flat = [i \in 1..Len(ss) |-> IF i = 1 THEN ss[i] ELSE flat[i - 1] \o ss[i]]

\* It puts one sequence behind the other.
LEMMA FlattenRuns ==
  ASSUME NEW S, NEW ss \in Seq(Seq(S))
  PROVE  \E f : /\ f \in [0..Len(ss) -> Seq(S)] /\ f[0] = <<>>
                /\ \A n \in 1..Len(ss) : f[n] = Cat(f[n - 1], ss[n])
                /\ FlattenSeq(ss) = f[Len(ss)]
<1>1. PICK l \in Nat : l = Len(ss) OBVIOUS
<1>2. \A n \in 1..l : ss[n] \in Seq(S) BY <1>1
<1> DEFINE step == [pair \in (1..l) \X Seq(S) |-> Cat(pair[2], ss[pair[1]])]
<1>3. step \in [(1..l) \X Seq(S) -> Seq(S)]
  <2> SUFFICES ASSUME NEW pair \in (1..l) \X Seq(S) PROVE Cat(pair[2], ss[pair[1]]) \in Seq(S) OBVIOUS
  <2>1. pair[1] \in 1..l /\ pair[2] \in Seq(S) /\ ss[pair[1]] \in Seq(S) BY <1>2
  <2> QED BY <2>1, CatFacts
<1>4. \A n \in 1..l, r \in Seq(S) : step[<<n, r>>] = Cat(r, ss[n]) OBVIOUS
<1> HIDE DEF step
<1>5. PICK f : Runs(f, Seq(S), l, <<>>, step) BY <1>3, RecursionExists, <<>> \in Seq(S)
<1>6. /\ f \in [0..l -> Seq(S)] /\ f[0] = <<>>
      /\ \A n \in 1..l : f[n] = Cat(f[n - 1], ss[n])
  <2>1. f \in [0..l -> Seq(S)] /\ f[0] = <<>> BY <1>5 DEF Runs
  <2>2. ASSUME NEW n \in 1..l PROVE f[n] = Cat(f[n - 1], ss[n])
    <3>1. f[n - 1] \in Seq(S) BY <2>1
    <3>2. f[n] = step[<<n, f[n - 1]>>] BY <1>5 DEF Runs
    <3> QED BY <1>4, <3>1, <3>2
  <2> QED BY <2>1, <2>2
<1>7. CASE l = 0
  <2>1. ss = <<>>
    <3>1. \A W : \A s \in Seq(W) : Len(s) = 0 => s = <<>> OBVIOUS
    <3> QED BY <1>1, <1>7, <3>1
  <2>2. FlattenSeq(ss) = <<>> BY <2>1 DEF FlattenSeq
  <2> QED BY <1>1, <1>6, <1>7, <2>2
<1>8. CASE l # 0
  <2>1. l >= 1 /\ 1 \in 1..l BY <1>8
  <2>2. f[1] = ss[1]
    <3>1. f[1] = Cat(f[1 - 1], ss[1]) BY <1>6, <2>1
    <3>2. f[1 - 1] = <<>> BY <1>6
    <3> QED BY <1>2, <2>1, <3>1, <3>2, CatFacts
  <2> DEFINE e == [i \in 1..l |-> f[i]]
             h == [i \in 1..l |-> IF i = 1 THEN ss[i] ELSE e[i - 1] \o ss[i]]
  <2>3. e = h
    <3>1. ASSUME NEW i \in 1..l PROVE f[i] = IF i = 1 THEN ss[i] ELSE e[i - 1] \o ss[i]
      <4>1. CASE i = 1 BY <2>2, <4>1
      <4>2. CASE i # 1
        <5>1. i - 1 \in 1..l BY <4>2
        <5>2. e[i - 1] = f[i - 1] BY <5>1
        <5> HIDE DEF e
        <5>3. f[i] = Cat(f[i - 1], ss[i]) BY <1>6
        <5> QED BY <4>2, <5>2, <5>3 DEF Cat
      <4> QED BY <4>1, <4>2
    <3> QED BY <3>1
  <2>4. FlatOf(ss) = [i \in 1..Len(ss) |-> IF i = 1 THEN ss[i] ELSE FlatOf(ss)[i - 1] \o ss[i]]
    <3>1. e = [i \in 1..Len(ss) |-> IF i = 1 THEN ss[i] ELSE e[i - 1] \o ss[i]] BY <1>1, <2>3
    <3> HIDE DEF e
    <3> QED BY <3>1 DEF FlatOf
  <2>5. FlattenSeq(ss) = FlatOf(ss)[Len(ss)] BY <1>1, <1>8 DEF FlattenSeq, FlatOf
  <2> HIDE DEF e, h
  <2> DEFINE g == FlatOf(ss)
  <2> HIDE DEF g
  <2>6. g[1] = ss[1] /\ \A n \in 1..l : n # 1 => g[n] = Cat(g[n - 1], ss[n])
    <3> DEFINE k == [i \in 1..l |-> IF i = 1 THEN ss[i] ELSE g[i - 1] \o ss[i]]
    <3>1. g = k BY <1>1, <2>4 DEF g
    <3>2. k[1] = ss[1] /\ \A n \in 1..l : n # 1 => k[n] = g[n - 1] \o ss[n] BY <2>1
    <3> HIDE DEF k
    <3> QED BY <3>1, <3>2 DEF Cat
  <2> DEFINE T == {n \in 0..l : n > 0 => g[n] = f[n]}
  <2>7. 0 \in T OBVIOUS
  <2>8. ASSUME NEW n \in 0..(l - 1), n \in T PROVE n + 1 \in T
    <3>1. PICK m \in 1..l : m = n + 1 /\ m - 1 = n OBVIOUS
    <3>2. CASE m = 1 BY <2>2, <2>6, <3>1, <3>2
    <3>3. CASE m # 1
      <4>1. g[n] = f[n] BY <2>8, <3>1, <3>3
      <4>2. g[m] = Cat(g[n], ss[m]) /\ f[m] = Cat(f[n], ss[m]) BY <1>6, <2>6, <3>1, <3>3
      <4> QED BY <3>1, <4>1, <4>2
    <3> QED BY <3>2, <3>3
  <2> HIDE DEF T
  <2>9. 0..l \subseteq T BY <2>7, <2>8, BoundedInduction
  <2>10. g[l] = f[l] BY <2>1, <2>9 DEF T
  <2> QED BY <1>1, <1>6, <2>5, <2>10 DEF g
<1> QED BY <1>7, <1>8

\* The recursion, on the last of the sequences.
LEMMA FlattenAdd ==
  ASSUME NEW S, NEW ss \in Seq(Seq(S)), NEW s \in Seq(S)
  PROVE  FlattenSeq(ss) \in Seq(S) /\ FlattenSeq(Add(ss, s)) = Cat(FlattenSeq(ss), s)
<1>1. PICK l \in Nat : l = Len(ss) OBVIOUS
<1> DEFINE more == Add(ss, s)
<1>2. /\ more \in Seq(Seq(S)) /\ Len(more) = l + 1 /\ more[l + 1] = s
      /\ \A n \in 1..l : more[n] = ss[n]
  BY <1>1, AddFacts
<1> HIDE DEF more
<1>3. PICK f : /\ f \in [0..l -> Seq(S)] /\ f[0] = <<>>
               /\ \A n \in 1..l : f[n] = Cat(f[n - 1], ss[n])
               /\ FlattenSeq(ss) = f[l]
  BY <1>1, FlattenRuns
<1>4. PICK g : /\ g[0] = <<>>
               /\ \A n \in 1..(l + 1) : g[n] = Cat(g[n - 1], more[n])
               /\ FlattenSeq(more) = g[l + 1]
  <2>1. \E g : /\ g \in [0..Len(more) -> Seq(S)] /\ g[0] = <<>>
               /\ \A n \in 1..Len(more) : g[n] = Cat(g[n - 1], more[n])
               /\ FlattenSeq(more) = g[Len(more)]
    BY <1>2, FlattenRuns
  <2> QED BY <1>2, <2>1
<1>5. \A n \in 0..l : f[n] = g[n]
  <2>1. \A n \in 1..l : g[n] = Cat(g[n - 1], ss[n]) BY <1>2, <1>4
  <2>2. \A n \in 1..l : f[n - 1] = g[n - 1] => f[n] = g[n] BY <1>3, <2>1
  <2>3. f[0] = g[0] BY <1>3, <1>4
  <2> QED BY <2>2, <2>3, RecursionAgrees
<1>6. g[l + 1] = Cat(g[l], s)
  <2>1. l + 1 \in 1..(l + 1) /\ (l + 1) - 1 = l OBVIOUS
  <2> QED BY <1>2, <1>4, <2>1
<1> QED BY <1>3, <1>4, <1>5, <1>6 DEF more

\* Nothing but nothing comes of nothing.
LEMMA FlattenNone == FlattenSeq(<<>>) = <<>>
BY DEF FlattenSeq

\* Two sequences of sequences behind each other.
LEMMA FlattenCat ==
  ASSUME NEW S, NEW a \in Seq(Seq(S)), NEW b \in Seq(Seq(S))
  PROVE  FlattenSeq(Cat(a, b)) = Cat(FlattenSeq(a), FlattenSeq(b))
<1>1. PICK W : W = Seq(S) OBVIOUS
<1> DEFINE T == {c \in Seq(W) : FlattenSeq(Cat(a, c)) = Cat(FlattenSeq(a), FlattenSeq(c))}
<1>2. FlattenSeq(a) \in Seq(S) /\ a \in Seq(W)
  <2>1. <<>> \in Seq(S) OBVIOUS
  <2> QED BY <1>1, <2>1, FlattenAdd
<1>3. <<>> \in T
  <2>1. <<>> \in Seq(W) OBVIOUS
  <2>2. Cat(a, <<>>) = a /\ Cat(FlattenSeq(a), <<>>) = FlattenSeq(a) BY <1>2, CatFacts
  <2> QED BY <2>1, <2>2, FlattenNone
<1>4. ASSUME NEW c \in Seq(W), NEW e \in W, c \in T PROVE Add(c, e) \in T
  <2>1. Add(c, e) \in Seq(W) BY AddFacts
  <2>2. Cat(a, c) \in Seq(W) BY <1>2, CatFacts
  <2>3. Cat(a, Add(c, e)) = Add(Cat(a, c), e) BY <1>2, CatAdd
  <2>4. FlattenSeq(Add(Cat(a, c), e)) = Cat(FlattenSeq(Cat(a, c)), e) BY <1>1, <2>2, FlattenAdd
  <2>5. FlattenSeq(c) \in Seq(S) /\ FlattenSeq(Add(c, e)) = Cat(FlattenSeq(c), e) BY <1>1, FlattenAdd
  <2>6. Cat(Cat(FlattenSeq(a), FlattenSeq(c)), e) = Cat(FlattenSeq(a), Cat(FlattenSeq(c), e))
    BY <1>1, <1>2, <2>5, CatAssoc
  <2>7. FlattenSeq(Cat(a, c)) = Cat(FlattenSeq(a), FlattenSeq(c)) BY <1>4
  <2>8. FlattenSeq(Cat(a, Add(c, e))) = Cat(FlattenSeq(a), FlattenSeq(Add(c, e)))
    BY <2>3, <2>4, <2>5, <2>6, <2>7
  <2> QED BY <2>1, <2>8
<1> HIDE DEF T
<1>5. Seq(W) \subseteq T BY <1>3, <1>4, SeqInduction
<1> QED BY <1>1, <1>5 DEF T

\* The first n + 1 elements.
LEMMA OneMore ==
  ASSUME NEW S, NEW s \in Seq(S), NEW n \in Nat, n + 1 <= Len(s)
  PROVE  SubSeq(s, 1, n + 1) = Add(SubSeq(s, 1, n), s[n + 1])
<1>1. PICK a \in Seq(S) : a = SubSeq(s, 1, n) /\ Len(a) = n /\ \A i \in 1..n : a[i] = s[i]
  <2>1. SubSeq(s, 1, n) \in Seq(S) /\ Len(SubSeq(s, 1, n)) = n OBVIOUS
  <2>2. \A i \in 1..n : SubSeq(s, 1, n)[i] = s[i] OBVIOUS
  <2> QED BY <2>1, <2>2
<1>2. PICK b \in Seq(S) : b = SubSeq(s, 1, n + 1) /\ Len(b) = n + 1 /\ \A i \in 1..(n + 1) : b[i] = s[i]
  <2>1. PICK m \in Nat : m = n + 1 /\ m <= Len(s) OBVIOUS
  <2>2. SubSeq(s, 1, m) \in Seq(S) /\ Len(SubSeq(s, 1, m)) = m BY <2>1
  <2>3. \A i \in 1..m : SubSeq(s, 1, m)[i] = s[i] BY <2>1
  <2> QED BY <2>1, <2>2, <2>3
<1>3. PICK e \in S : e = s[n + 1] OBVIOUS
<1>4. /\ Add(a, e) \in Seq(S) /\ Len(Add(a, e)) = n + 1 /\ Add(a, e)[n + 1] = e
      /\ \A i \in 1..n : Add(a, e)[i] = a[i]
  <2>1. a \in Seq(S) /\ e \in S OBVIOUS
  <2>2. /\ Add(a, e) \in Seq(S) /\ Len(Add(a, e)) = Len(a) + 1 /\ Add(a, e)[Len(a) + 1] = e
        /\ \A i \in 1..Len(a) : Add(a, e)[i] = a[i]
    BY ONLY <2>1, AddFacts
  <2> QED BY <1>1, <2>2
<1>5. \A i \in 1..(n + 1) : b[i] = Add(a, e)[i] BY <1>1, <1>2, <1>3, <1>4
<1>6. b = Add(a, e)
  <2>1. /\ b \in Seq(S) /\ Add(a, e) \in Seq(S) /\ n + 1 \in Nat
        /\ Len(b) = n + 1 /\ Len(Add(a, e)) = n + 1
    BY <1>2, <1>4
  <2> QED BY ONLY <1>5, <2>1, SameElements
<1> QED BY ONLY <1>1, <1>2, <1>3, <1>6

\* Where the sequences lie in what comes of putting them behind each other, and
\* what comes of those behind the first n.
Upto(ss, n) == Len(FlattenSeq(SubSeq(ss, 1, n)))
Behind(ss, n) == FlattenSeq(SubSeq(ss, n + 1, Len(ss)))
LEMMA Layout ==
  ASSUME NEW S, NEW ss \in Seq(Seq(S))
  PROVE  /\ FlattenSeq(ss) \in Seq(S)
         /\ Upto(ss, 0) = 0 /\ Upto(ss, Len(ss)) = Len(FlattenSeq(ss))
         /\ \A n \in 0..Len(ss) : /\ Upto(ss, n) \in Nat /\ Upto(ss, n) <= Len(FlattenSeq(ss))
                                  /\ Behind(ss, n) \in Seq(S)
                                  /\ Len(Behind(ss, n)) = Len(FlattenSeq(ss)) - Upto(ss, n)
                                  /\ \A i \in 1..(Len(FlattenSeq(ss)) - Upto(ss, n)) :
                                       Behind(ss, n)[i] = FlattenSeq(ss)[Upto(ss, n) + i]
         /\ \A n \in 1..Len(ss) : /\ Upto(ss, n) = Upto(ss, n - 1) + Len(ss[n])
                                  /\ \A i \in 1..Len(ss[n]) :
                                       FlattenSeq(ss)[Upto(ss, n - 1) + i] = ss[n][i]
<1>1. PICK W : W = Seq(S) OBVIOUS
<1>2. PICK l \in Nat : l = Len(ss) /\ ss \in Seq(W) BY <1>1
<1>3. \A t \in Seq(W) : FlattenSeq(t) \in Seq(S)
  <2>1. <<>> \in Seq(S) OBVIOUS
  <2> QED BY <1>1, <2>1, FlattenAdd
<1>4. PICK flat \in Seq(S) : flat = FlattenSeq(ss) BY <1>2, <1>3
<1>5. PICK len \in Nat : len = Len(flat) OBVIOUS
<1>6. SubSeq(ss, 1, l) = ss /\ SubSeq(ss, 1, 0) = <<>>
  <2>1. SubSeq(ss, 1, l) = ss BY <1>2
  <2>2. SubSeq(ss, 1, 0) = <<>> BY <1>2
  <2> QED BY <2>1, <2>2
<1>7. ASSUME NEW n \in 0..l
      PROVE  /\ SubSeq(ss, 1, n) \in Seq(W) /\ SubSeq(ss, n + 1, l) \in Seq(W)
             /\ flat = Cat(FlattenSeq(SubSeq(ss, 1, n)), FlattenSeq(SubSeq(ss, n + 1, l)))
  <2>1. n \in Nat /\ l \in Nat /\ n <= l /\ l <= Len(ss) /\ ss \in Seq(W) /\ 0 \in Nat /\ 0 <= n /\ n <= Len(ss)
    BY <1>2
  <2>2. SubSeq(ss, 1, n) \in Seq(W) BY ONLY <2>1, CutInTwo
  <2>3. SubSeq(ss, n + 1, l) \in Seq(W) /\ SubSeq(ss, 1, l) = Cat(SubSeq(ss, 1, n), SubSeq(ss, n + 1, l))
    BY ONLY <2>1, CutInTwo
  <2> QED BY <1>1, <1>4, <1>6, <2>2, <2>3, FlattenCat
<1>8. ASSUME NEW n \in 0..l
      PROVE  /\ Upto(ss, n) \in Nat /\ Upto(ss, n) <= len
             /\ \A i \in 1..(len - Upto(ss, n)) : FlattenSeq(SubSeq(ss, n + 1, l))[i] = flat[Upto(ss, n) + i]
             /\ \A i \in 1..Upto(ss, n) : flat[i] = FlattenSeq(SubSeq(ss, 1, n))[i]
             /\ FlattenSeq(SubSeq(ss, n + 1, l)) \in Seq(S)
             /\ Len(FlattenSeq(SubSeq(ss, n + 1, l))) = len - Upto(ss, n)
  <2>1. PICK a \in Seq(S), b \in Seq(S) :
          a = FlattenSeq(SubSeq(ss, 1, n)) /\ b = FlattenSeq(SubSeq(ss, n + 1, l)) /\ flat = Cat(a, b)
    BY <1>3, <1>7
  <2>2. PICK k \in Nat, m \in Nat : k = Len(a) /\ m = Len(b) OBVIOUS
  <2>3. /\ Len(flat) = k + m /\ \A i \in 1..k : flat[i] = a[i]
        /\ \A i \in 1..m : flat[k + i] = b[i]
    <3>1. Len(Cat(a, b)) = Len(a) + Len(b) BY CatIndex
    <3>2. \A i \in 1..Len(a) : Cat(a, b)[i] = a[i] BY CatIndex
    <3>3. \A i \in 1..Len(b) : Cat(a, b)[Len(a) + i] = b[i] BY CatIndex
    <3> QED BY ONLY <2>1, <2>2, <3>1, <3>2, <3>3
  <2>4. Upto(ss, n) = k /\ len - k = m BY <1>5, <2>1, <2>2, <2>3 DEF Upto
  <2> QED BY <2>1, <2>2, <2>3, <2>4
<1>9. ASSUME NEW n \in 1..l
      PROVE  /\ Upto(ss, n) = Upto(ss, n - 1) + Len(ss[n])
             /\ \A i \in 1..Len(ss[n]) : flat[Upto(ss, n - 1) + i] = ss[n][i]
  <2>1. PICK m \in 0..l : m = n - 1 /\ m + 1 = n /\ m + 1 <= Len(ss) /\ m \in Nat BY <1>2
  <2>2. PICK s \in Seq(S) : s = ss[n] BY <1>2
  <2>3. SubSeq(ss, 1, n) = Add(SubSeq(ss, 1, m), s)
    <3>1. SubSeq(ss, 1, m + 1) = Add(SubSeq(ss, 1, m), ss[m + 1]) BY <1>2, <2>1, OneMore
    <3> QED BY <2>1, <2>2, <3>1
  <2>4. PICK a \in Seq(S) : a = FlattenSeq(SubSeq(ss, 1, m)) BY <1>3, <1>7, <2>1
  <2>5. FlattenSeq(SubSeq(ss, 1, n)) = Cat(a, s)
    <3>1. PICK front \in Seq(Seq(S)) : front = SubSeq(ss, 1, m) BY <1>1, <1>7, <2>1
    <3>2. FlattenSeq(Add(front, s)) = Cat(FlattenSeq(front), s) BY ONLY s \in Seq(S), front \in Seq(Seq(S)), FlattenAdd
    <3> QED BY ONLY <2>3, <2>4, <3>1, <3>2
  <2>6. PICK k \in Nat, j \in Nat : k = Len(a) /\ j = Len(s) OBVIOUS
  <2>7. Len(Cat(a, s)) = k + j /\ \A i \in 1..j : Cat(a, s)[k + i] = s[i]
    <3>1. Len(Cat(a, s)) = Len(a) + Len(s) BY CatIndex
    <3>2. \A i \in 1..Len(s) : Cat(a, s)[Len(a) + i] = s[i] BY CatIndex
    <3> QED BY ONLY <2>6, <3>1, <3>2
  <2>8. Upto(ss, m) = k /\ Upto(ss, n) = k + j BY <2>4, <2>5, <2>6, <2>7 DEF Upto
  <2>9. \A i \in 1..j : flat[k + i] = s[i]
    <3>1. \A i \in 1..(k + j) : flat[i] = Cat(a, s)[i]
      <4>1. \A i \in 1..Upto(ss, n) : flat[i] = FlattenSeq(SubSeq(ss, 1, n))[i]
        <5>1. n \in 0..l OBVIOUS
        <5> QED BY ONLY <1>8, <5>1
      <4> QED BY ONLY <2>5, <2>8, <4>1
    <3>2. \A i \in 1..j : k + i \in 1..(k + j) OBVIOUS
    <3> QED BY <2>7, <3>1, <3>2
  <2> QED BY <2>1, <2>2, <2>6, <2>8, <2>9
<1>10. Upto(ss, 0) = 0 /\ Upto(ss, l) = len
  <2>1. Len(<<>>) = 0 OBVIOUS
  <2> QED BY <1>4, <1>5, <1>6, <2>1, FlattenNone DEF Upto
<1>11. \A n : Behind(ss, n) = FlattenSeq(SubSeq(ss, n + 1, l)) BY <1>2 DEF Behind
<1> QED BY <1>2, <1>4, <1>5, <1>8, <1>9, <1>10, <1>11
=============================================================================
