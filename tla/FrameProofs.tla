----------------------------- MODULE FrameProofs -----------------------------
(***************************************************************************)
(* Proofs about Frame and the BufferList under it, for payloads and chunks *)
(* of any length.  A list holds a part of the wire, whatever the buffers   *)
(* it is made of, and its operations are what they would be on that part;  *)
(* the parser reads frames off it, and processFrame() makes messages of    *)
(* them.                                                                   *)
(***************************************************************************)
EXTENDS Frame, InductionLemmas, FiniteSetTheorems, TLAPS

\* A list as write() and advance() leave it: no buffer is empty, the first is
\* not used up, and the _length kept beside them is what is unused.
Sound(list) ==
  /\ list = [buffers |-> list.buffers, offset |-> list.offset, length |-> list.length]
  /\ list.buffers \in Seq(Seq(Nat)) /\ list.offset \in Nat /\ list.length \in Nat
  /\ \A k \in 1..Len(list.buffers) : Len(list.buffers[k]) > 0
  /\ Len(FlattenSeq(list.buffers)) = list.offset + list.length
  /\ list.buffers # <<>> => list.offset < Len(list.buffers[1])

\* The list holds what lies on the wire behind the first from bytes, up to to.
Holds(list, wire, from, to) ==
  /\ Sound(list)
  /\ wire \in Seq(Nat) /\ from \in Nat /\ to \in Nat /\ from <= to /\ to <= Len(wire)
  /\ list.length = to - from
  /\ \A i \in 1..(to - from) : FlattenSeq(list.buffers)[list.offset + i] = wire[from + i]

LEMMA EmptyHolds ==
  ASSUME NEW wire \in Seq(Nat)
  PROVE  Holds(EmptyList, wire, 0, 0)
<1>1. PICK none \in Seq(Seq(Nat)) : none = <<>> /\ Len(none) = 0
  <2>1. <<>> \in Seq(Seq(Nat)) /\ Len(<<>>) = 0 OBVIOUS
  <2> QED BY <2>1
<1>2. EmptyList = [buffers |-> none, offset |-> 0, length |-> 0] BY <1>1 DEF EmptyList
<1>3. FlattenSeq(none) = <<>> BY <1>1, FlattenNone
<1>4. Len(FlattenSeq(none)) = 0 BY <1>3
<1>5. Sound(EmptyList) BY <1>1, <1>2, <1>4 DEF Sound
<1> QED BY <1>2, <1>5 DEF Holds

\* write() adds the bytes behind those that are held.
THEOREM WriteHolds ==
  ASSUME NEW list, NEW wire, NEW from, NEW to, Holds(list, wire, from, to),
         NEW n \in Nat, to < n, n <= Len(wire)
  PROVE  Holds(Write(list, SubSeq(wire, to + 1, n)), wire, from, n)
<1>1. /\ wire \in Seq(Nat) /\ from \in Nat /\ to \in Nat /\ from <= to /\ to <= Len(wire)
      /\ list.length = to - from
      /\ \A i \in 1..(to - from) : FlattenSeq(list.buffers)[list.offset + i] = wire[from + i]
  BY DEF Holds
<1>2. PICK buffers \in Seq(Seq(Nat)), offset \in Nat, length \in Nat :
        /\ list = [buffers |-> buffers, offset |-> offset, length |-> length]
        /\ \A k \in 1..Len(buffers) : Len(buffers[k]) > 0
        /\ Len(FlattenSeq(buffers)) = offset + length
        /\ buffers # <<>> => offset < Len(buffers[1])
  BY DEF Holds, Sound
<1>3. PICK buf \in Seq(Nat), m \in Nat :
        /\ buf = SubSeq(wire, to + 1, n) /\ m = n - to /\ m > 0 /\ Len(buf) = m
        /\ \A i \in 1..m : buf[i] = wire[to + i]
  <2>1. n \in Nat /\ to \in Nat /\ wire \in Seq(Nat) /\ to <= n /\ n <= Len(wire) BY <1>1
  <2>2. SubSeq(wire, to + 1, n) \in Seq(Nat) /\ Len(SubSeq(wire, to + 1, n)) = n - to BY ONLY <2>1
  <2>3. ASSUME NEW i \in 1..(n - to) PROVE SubSeq(wire, to + 1, n)[i] = wire[to + i] BY ONLY <2>1, <2>3
  <2>4. n - to \in Nat /\ n - to > 0 BY <1>1
  <2> QED BY <2>2, <2>3, <2>4
<1>4. PICK l \in Nat : l = Len(buffers) OBVIOUS
<1>5. PICK more : more = Add(buffers, buf) OBVIOUS
<1>6. /\ more \in Seq(Seq(Nat)) /\ Len(more) = l + 1 /\ more[l + 1] = buf
      /\ \A i \in 1..l : more[i] = buffers[i]
  <2>1. PICK W : W = Seq(Nat) OBVIOUS
  <2>2. buffers \in Seq(W) /\ buf \in W BY <2>1
  <2>3. /\ Add(buffers, buf) \in Seq(W)
        /\ Len(Add(buffers, buf)) = Len(buffers) + 1 /\ Add(buffers, buf)[Len(buffers) + 1] = buf
        /\ \A i \in 1..Len(buffers) : Add(buffers, buf)[i] = buffers[i]
    BY ONLY <2>2, AddFacts
  <2> QED BY <1>4, <1>5, <2>1, <2>3
<1>7. PICK flat \in Seq(Nat) : flat = FlattenSeq(buffers) /\ Len(flat) = offset + length
  BY <1>2, FlattenAdd
<1>8. FlattenSeq(more) = Cat(flat, buf) BY <1>5, <1>7, FlattenAdd
<1>9. PICK all \in Seq(Nat) :
        /\ all = FlattenSeq(more) /\ Len(all) = offset + length + m
        /\ \A i \in 1..(offset + length) : all[i] = flat[i]
        /\ \A i \in 1..m : all[offset + length + i] = buf[i]
  <2>1. PICK c : c = Cat(flat, buf) OBVIOUS
  <2>2. PICK u \in Nat : u = offset + length /\ u = Len(flat) BY <1>7
  <2>3. /\ c \in Seq(Nat) /\ Len(c) = u + m /\ \A i \in 1..u : c[i] = flat[i]
        /\ \A i \in 1..m : c[u + i] = buf[i]
    <3>1. flat \in Seq(Nat) /\ buf \in Seq(Nat) /\ u \in Nat /\ m \in Nat /\ u = Len(flat) /\ m = Len(buf)
      BY <1>3, <2>2
    <3>2. flat \in Seq(Nat) /\ buf \in Seq(Nat) BY <3>1
    <3>3. Cat(flat, buf) \in Seq(Nat) /\ Len(Cat(flat, buf)) = Len(flat) + Len(buf)
      BY ONLY <3>2, CatIndex
    <3>4. \A i \in 1..Len(flat) : Cat(flat, buf)[i] = flat[i] BY ONLY <3>2, CatIndex
    <3>5. \A i \in 1..Len(buf) : Cat(flat, buf)[Len(flat) + i] = buf[i] BY ONLY <3>2, CatIndex
    <3> QED BY ONLY <2>1, <3>1, <3>3, <3>4, <3>5
  <2> QED BY <1>8, <2>1, <2>2, <2>3
<1>10. Write(list, buf) = [buffers |-> more, offset |-> offset, length |-> length + m]
  <2>1. Write(list, buf) = [list EXCEPT !.buffers = Add(list.buffers, buf), !.length = list.length + Len(buf)]
    BY Zenon DEF Write, Add
  <2> QED BY <1>2, <1>3, <1>5, <2>1
<1>11. \A k \in 1..Len(more) : Len(more[k]) > 0
  <2> SUFFICES ASSUME NEW k \in 1..(l + 1) PROVE Len(more[k]) > 0 BY <1>6
  <2>1. CASE k = l + 1 BY <1>3, <1>6, <2>1
  <2>2. CASE k \in 1..l BY <1>2, <1>4, <1>6, <2>2
  <2> QED BY <2>1, <2>2
<1>12. offset < Len(more[1])
  <2>1. CASE l = 0
    <3>1. length = 0 /\ offset = 0
      <4>1. buffers = <<>>
        <5>1. \A W : \A s \in Seq(W) : Len(s) = 0 => s = <<>> OBVIOUS
        <5> QED BY <1>4, <2>1, <5>1
      <4>2. flat = <<>> BY <1>7, <4>1, FlattenNone
      <4>3. Len(<<>>) = 0 OBVIOUS
      <4> QED BY <1>7, <4>2, <4>3
    <3>2. more[1] = buf BY <1>6, <2>1
    <3> QED BY <1>3, <3>1, <3>2
  <2>2. CASE l > 0
    <3>1. buffers # <<>> /\ 1 \in 1..l BY <1>4, <2>2
    <3> QED BY <1>2, <1>6, <3>1
  <2> QED BY <2>1, <2>2
<1>13. Sound(Write(list, buf))
  <2>1. length + m \in Nat /\ Len(FlattenSeq(more)) = offset + (length + m) BY <1>9
  <2>2. PICK total \in Nat : total = length + m BY <2>1
  <2> DEFINE w == Write(list, buf)
  <2>3. /\ w = [buffers |-> more, offset |-> offset, length |-> total]
        /\ more \in Seq(Seq(Nat)) /\ offset \in Nat /\ total \in Nat
        /\ \A k \in 1..Len(more) : Len(more[k]) > 0
        /\ Len(FlattenSeq(more)) = offset + total /\ offset < Len(more[1])
    BY <1>6, <1>10, <1>11, <1>12, <2>1, <2>2
  <2> HIDE DEF w
  <2>4. w.buffers = more /\ w.offset = offset /\ w.length = total BY ONLY <2>3
  <2>5. Sound(w) BY ONLY <2>3, <2>4 DEF Sound
  <2> QED BY <2>5 DEF w
<1>14. ASSUME NEW i \in 1..(n - from) PROVE all[offset + i] = wire[from + i]
  <2>1. length = to - from /\ from + length = to BY <1>1, <1>2
  <2>2. CASE i <= length
    <3>1. offset + i \in 1..(offset + length) /\ i \in 1..(to - from) BY <1>1, <2>1, <2>2
    <3>2. all[offset + i] = flat[offset + i] BY ONLY <1>9, <3>1
    <3>3. flat[offset + i] = wire[from + i] BY ONLY <1>1, <1>2, <1>7, <3>1
    <3> QED BY ONLY <3>2, <3>3
  <2>3. CASE i > length
    <3>1. PICK j \in 1..m : i = length + j
      <4>1. /\ from \in Nat /\ to \in Nat /\ n \in Nat /\ m \in Nat /\ length \in Nat
            /\ i \in 1..(n - from) /\ n = to + m /\ length = to - from
        BY <1>1, <1>3, <2>1
      <4>2. i - length \in 1..m /\ i = length + (i - length) BY ONLY <2>3, <4>1
      <4> QED BY ONLY <4>2
    <3>2. offset + i = offset + length + j /\ from + i = to + j
      <4>1. from \in Nat /\ to \in Nat /\ j \in Nat /\ i = length + j /\ from + length = to
        BY <1>1, <2>1, <3>1
      <4> QED BY ONLY <4>1, offset \in Nat, length \in Nat
    <3>3. all[offset + length + j] = buf[j] BY ONLY <1>9, <3>1
    <3>4. buf[j] = wire[to + j] BY ONLY <1>3, <3>1
    <3> QED BY ONLY <3>2, <3>3, <3>4
  <2> QED BY <2>2, <2>3
<1>15. length + m = n - from BY <1>1, <1>2, <1>3
<1> DEFINE new == Write(list, buf)
<1>16. new.buffers = more /\ new.offset = offset /\ new.length = n - from BY <1>10, <1>15
<1> HIDE DEF new
<1>17. Holds(new, wire, from, n)
  <2>1. \A i \in 1..(n - from) : FlattenSeq(new.buffers)[new.offset + i] = wire[from + i]
    BY <1>9, <1>14, <1>16
  <2>2. from <= n BY <1>1
  <2> QED BY <1>1, <1>13, <1>16, <2>1, <2>2 DEF Holds, new
<1> QED BY <1>3, <1>17 DEF new

\* Of numbers that begin with 0, the last one up to which none is above t.
LEMMA LastBelow ==
  ASSUME NEW l \in Nat, NEW u, \A n \in 0..l : u[n] \in Nat, u[0] = 0, NEW t \in Nat
  PROVE  \E k \in 0..l : u[k] <= t /\ (k < l => u[k + 1] > t)
<1> DEFINE T == {m \in 0..l : \E k \in 0..m : u[k] <= t /\ (k < m => u[k + 1] > t)}
<1>1. 0 \in T OBVIOUS
<1>2. ASSUME NEW m \in 0..(l - 1), m \in T PROVE m + 1 \in T
  <2>1. PICK k \in 0..m : u[k] <= t /\ (k < m => u[k + 1] > t) BY <1>2
  <2>2. PICK j \in 0..l : j = m + 1 /\ m < j OBVIOUS
  <2>3. \E i \in 0..j : u[i] <= t /\ (i < j => u[i + 1] > t)
    <3>1. CASE k < m BY <2>1, <2>2, <3>1
    <3>2. CASE k = m /\ u[j] <= t BY <2>2, <3>2
    <3>3. CASE k = m /\ ~(u[j] <= t)
      <4>1. u[j] > t BY <2>2, <3>3
      <4> QED BY <2>1, <2>2, <3>3, <4>1
    <3> QED BY <2>1, <3>1, <3>2, <3>3
  <2> QED BY <2>2, <2>3
<1> HIDE DEF T
<1>3. 0..l \subseteq T BY <1>1, <1>2, BoundedInduction
<1>4. l \in T BY <1>3
<1> QED BY <1>4 DEF T

\* The buffers of a sound list, and where they lie in all the bytes.
Totals == UNION {[0..n -> Nat] : n \in Nat}
Lies(list, buffers, offset, length, l, flat, u) ==
  /\ list = [buffers |-> buffers, offset |-> offset, length |-> length]
  /\ l = Len(buffers) /\ flat = FlattenSeq(buffers) /\ Len(flat) = offset + length
  /\ \A k \in 1..l : Len(buffers[k]) > 0
  /\ l > 0 => offset < Len(buffers[1])
  /\ \A k \in 0..l : u[k] = Before(list, k) /\ u[k] \in Nat /\ u[k] <= offset + length
  /\ u[0] = 0 /\ u[l] = offset + length
  /\ \A k \in 1..l : u[k] = u[k - 1] + Len(buffers[k])
  /\ \A k \in 1..l : \A i \in 1..Len(buffers[k]) : flat[u[k - 1] + i] = buffers[k][i]
  /\ \A k \in 0..l : Behind(buffers, k) \in Seq(Nat) /\ Len(Behind(buffers, k)) = Len(flat) - u[k]
  /\ \A k \in 0..l : \A i \in 1..(Len(flat) - u[k]) : Behind(buffers, k)[i] = flat[u[k] + i]

LEMMA NumbersLie ==
  ASSUME NEW ss \in Seq(Seq(Nat))
  PROVE  /\ \A n \in 0..Len(ss) : /\ Behind(ss, n) \in Seq(Nat)
                                  /\ Len(Behind(ss, n)) = Len(FlattenSeq(ss)) - Upto(ss, n)
                                  /\ \A i \in 1..(Len(FlattenSeq(ss)) - Upto(ss, n)) :
                                       Behind(ss, n)[i] = FlattenSeq(ss)[Upto(ss, n) + i]
         /\ \A n \in 1..Len(ss) : \A i \in 1..Len(ss[n]) :
              FlattenSeq(ss)[Upto(ss, n - 1) + i] = ss[n][i]
BY ONLY ss \in Seq(Seq(Nat)), Layout

LEMMA SoundLies ==
  ASSUME NEW list, Sound(list)
  PROVE  \E buffers \in Seq(Seq(Nat)), offset \in Nat, length \in Nat, l \in Nat, flat \in Seq(Nat), u \in Totals :
           Lies(list, buffers, offset, length, l, flat, u)
<1>1. PICK buffers \in Seq(Seq(Nat)), offset \in Nat, length \in Nat :
        /\ list = [buffers |-> buffers, offset |-> offset, length |-> length]
        /\ \A k \in 1..Len(buffers) : Len(buffers[k]) > 0
        /\ Len(FlattenSeq(buffers)) = offset + length
        /\ buffers # <<>> => offset < Len(buffers[1])
  BY DEF Sound
<1>2. PICK l \in Nat : l = Len(buffers) OBVIOUS
<1>3. PICK flat \in Seq(Nat), len \in Nat :
        flat = FlattenSeq(buffers) /\ Len(flat) = offset + length /\ len = offset + length
  BY <1>1, FlattenAdd
<1>4. PICK u : u = [n \in 0..l |-> Upto(buffers, n)] OBVIOUS
<1>5. \A n \in 0..l : u[n] = Before(list, n) /\ u[n] = Upto(buffers, n)
  BY <1>1, <1>4 DEF Before, Upto
<1>6. buffers \in Seq(Seq(Nat)) /\ l = Len(buffers) /\ flat = FlattenSeq(buffers) /\ len = Len(flat)
  BY <1>2, <1>3
<1>7. Upto(buffers, 0) = 0 /\ Upto(buffers, Len(buffers)) = Len(FlattenSeq(buffers)) BY ONLY <1>6, Layout
<1>8. \A k \in 0..Len(buffers) : Upto(buffers, k) \in Nat /\ Upto(buffers, k) <= Len(FlattenSeq(buffers))
  BY ONLY <1>6, Layout
<1>9. \A k \in 1..Len(buffers) : Upto(buffers, k) = Upto(buffers, k - 1) + Len(buffers[k])
  BY ONLY <1>6, Layout
<1>10. \A k \in 1..Len(buffers) : \A i \in 1..Len(buffers[k]) :
         FlattenSeq(buffers)[Upto(buffers, k - 1) + i] = buffers[k][i]
  BY ONLY <1>6, NumbersLie
<1>11. \A k \in 0..Len(buffers) :
         Behind(buffers, k) \in Seq(Nat) /\ Len(Behind(buffers, k)) = Len(FlattenSeq(buffers)) - Upto(buffers, k)
  BY ONLY <1>6, NumbersLie
<1>12. \A k \in 0..Len(buffers) : \A i \in 1..(Len(FlattenSeq(buffers)) - Upto(buffers, k)) :
         Behind(buffers, k)[i] = FlattenSeq(buffers)[Upto(buffers, k) + i]
  BY ONLY <1>6, NumbersLie
<1>13. \A k \in 0..l : u[k] \in Nat /\ u[k] <= len BY <1>5, <1>6, <1>8
<1>14. u[0] = 0 /\ u[l] = len BY <1>5, <1>6, <1>7
<1>15. \A k \in 1..l : u[k] = u[k - 1] + Len(buffers[k])
  <2>1. \A k \in 1..l : k \in 0..l /\ k - 1 \in 0..l OBVIOUS
  <2> QED BY <1>5, <1>6, <1>9, <2>1
<1>16. \A k \in 1..l : \A i \in 1..Len(buffers[k]) : flat[u[k - 1] + i] = buffers[k][i]
  <2>1. \A k \in 1..l : k - 1 \in 0..l OBVIOUS
  <2> QED BY <1>5, <1>6, <1>10, <2>1
<1>17. \A k \in 0..l : Behind(buffers, k) \in Seq(Nat) /\ Len(Behind(buffers, k)) = len - u[k]
  BY ONLY <1>5, <1>6, <1>11
<1>18. \A k \in 0..l : \A i \in 1..(len - u[k]) : Behind(buffers, k)[i] = flat[u[k] + i]
  BY ONLY <1>5, <1>6, <1>12
<1>19. l > 0 => offset < Len(buffers[1])
  <2>1. l > 0 => buffers # <<>>
    <3>1. Len(<<>>) = 0 OBVIOUS
    <3> QED BY <1>2, <3>1
  <2> QED BY <1>1, <2>1
<1>20. Lies(list, buffers, offset, length, l, flat, u)
  <2>1. len = offset + length BY <1>3
  <2>2. \A k \in 0..l : u[k] = Before(list, k) /\ u[k] \in Nat /\ u[k] <= offset + length
    BY ONLY <1>5, <1>13, <2>1
  <2>3. u[0] = 0 /\ u[l] = offset + length BY <1>14, <2>1
  <2>4. \A k \in 0..l :
          Behind(buffers, k) \in Seq(Nat) /\ Len(Behind(buffers, k)) = Len(flat) - u[k]
    BY ONLY <1>6, <1>17
  <2>6. \A k \in 0..l : \A i \in 1..(Len(flat) - u[k]) : Behind(buffers, k)[i] = flat[u[k] + i]
    BY ONLY <1>6, <1>18
  <2>5. /\ list = [buffers |-> buffers, offset |-> offset, length |-> length]
        /\ l = Len(buffers) /\ flat = FlattenSeq(buffers) /\ Len(flat) = offset + length
        /\ \A k \in 1..l : Len(buffers[k]) > 0
    BY ONLY <1>1, <1>2, <1>3
  <2> QED BY ONLY <1>15, <1>16, <1>19, <2>2, <2>3, <2>4, <2>5, <2>6, Zenon DEF Lies
<1>21. u \in Totals
  <2>1. u \in [0..l -> Nat] BY <1>4, <1>13
  <2> QED BY <2>1 DEF Totals
<1> QED BY <1>20, <1>21

\* advance() takes bytes from the front, and buffers only when they are used up.
THEOREM AdvanceHolds ==
  ASSUME NEW list, NEW wire, NEW from, NEW to, Holds(list, wire, from, to),
         NEW d \in Nat, d <= to - from
  PROVE  Holds(Advance(list, d), wire, from + d, to)
<1>1. PICK f \in Nat, n \in Nat : f = from /\ n = to /\ f <= n /\ n <= Len(wire) /\ wire \in Seq(Nat)
  BY DEF Holds
<1>2. PICK buffers \in Seq(Seq(Nat)), offset \in Nat, length \in Nat, l \in Nat, flat \in Seq(Nat), u \in Totals :
        Lies(list, buffers, offset, length, l, flat, u)
  BY SoundLies DEF Holds
<1>3. /\ list = [buffers |-> buffers, offset |-> offset, length |-> length]
      /\ l = Len(buffers) /\ flat = FlattenSeq(buffers)
  BY <1>2 DEF Lies
<1>4. length = n - f /\ d <= length /\ \A i \in 1..length : flat[offset + i] = wire[f + i]
  BY <1>1, <1>3 DEF Holds
<1>5. PICK t \in Nat : t = offset + d /\ t <= offset + length BY <1>4
<1>6. /\ \A k \in 0..l : u[k] = Before(list, k) /\ u[k] \in Nat /\ u[k] <= offset + length
      /\ u[0] = 0 /\ u[l] = offset + length
  BY <1>2 DEF Lies
<1>7. PICK k \in 0..l : k = UsedUp(list, d) /\ u[k] <= t /\ (k < l => u[k + 1] > t)
  <2>1. PICK j \in 0..l : u[j] <= t /\ (j < l => u[j + 1] > t) BY <1>6, LastBelow
  <2>2. \A i \in 0..l : (Before(list, i) <= t /\ (i < l => Before(list, i + 1) > t))
                          <=> (u[i] <= t /\ (i < l => u[i + 1] > t))
    <3>1. \A i \in 0..l : i < l => i + 1 \in 0..l OBVIOUS
    <3> QED BY <1>6, <3>1
  <2>3. UsedUp(list, d) = CHOOSE i \in 0..l : Before(list, i) <= t /\ (i < l => Before(list, i + 1) > t)
    <3>1. Len(list.buffers) = l /\ list.offset + d = t BY <1>3, <1>5
    <3> QED BY ONLY <3>1 DEF UsedUp
  <2>4. PICK x : x = CHOOSE i \in 0..l : Before(list, i) <= t /\ (i < l => Before(list, i + 1) > t) OBVIOUS
  <2>5. x \in 0..l /\ Before(list, x) <= t /\ (x < l => Before(list, x + 1) > t)
    BY ONLY <2>1, <2>2, <2>4
  <2> QED BY ONLY <2>2, <2>3, <2>4, <2>5
<1>8. PICK before \in Nat, o \in Nat, left \in Nat :
        /\ before = u[k] /\ o = t - before /\ left = length - d
        /\ before + o = offset + d /\ o + left = offset + length - before
  <2>1. PICK b \in Nat : b = u[k] /\ b <= t BY <1>6, <1>7
  <2>2. t - b \in Nat /\ length - d \in Nat BY <1>4, <2>1
  <2>3. b + (t - b) = offset + d /\ (t - b) + (length - d) = offset + length - b BY <1>5
  <2> QED BY <2>1, <2>2, <2>3
<1>9. PICK rest \in Seq(Seq(Nat)), m \in Nat :
        /\ rest = SubSeq(buffers, k + 1, l) /\ m = l - k /\ Len(rest) = m
        /\ \A i \in 1..m : rest[i] = buffers[k + i]
  <2>1. PICK W : W = Seq(Nat) OBVIOUS
  <2>2. buffers \in Seq(W) /\ k \in Nat /\ l \in Nat /\ k <= l /\ l <= Len(buffers) BY <1>3, <2>1
  <2>3. SubSeq(buffers, k + 1, l) \in Seq(W) /\ Len(SubSeq(buffers, k + 1, l)) = l - k
    BY ONLY <2>2, CutInTwo
  <2>4. \A i \in 1..(l - k) : SubSeq(buffers, k + 1, l)[i] = buffers[k + i] BY ONLY <2>2, CutInTwo
  <2>5. l - k \in Nat OBVIOUS
  <2> QED BY ONLY <2>1, <2>3, <2>4, <2>5
<1>10. Advance(list, d) = [buffers |-> rest, offset |-> o, length |-> left]
  <2>1. /\ SubSeq(list.buffers, UsedUp(list, d) + 1, Len(list.buffers)) = rest
        /\ list.offset + d - Before(list, UsedUp(list, d)) = o /\ list.length - d = left
    <3>1. list.buffers = buffers /\ list.offset = offset /\ list.length = length BY <1>3
    <3>2. Before(list, UsedUp(list, d)) = before BY <1>6, <1>7, <1>8
    <3>3. SubSeq(buffers, UsedUp(list, d) + 1, Len(buffers)) = rest BY <1>3, <1>7, <1>9
    <3>4. offset + d - before = o /\ length - d = left BY <1>5, <1>8
    <3> QED BY ONLY <3>1, <3>2, <3>3, <3>4
  <2> QED BY ONLY <2>1 DEF Advance
<1>11. PICK tail \in Seq(Nat) :
         /\ tail = FlattenSeq(rest) /\ Len(tail) = o + left
         /\ \A i \in 1..(o + left) : tail[i] = flat[before + i]
  <2>1. /\ Behind(buffers, k) \in Seq(Nat) /\ Len(Behind(buffers, k)) = Len(flat) - u[k]
        /\ \A i \in 1..(Len(flat) - u[k]) : Behind(buffers, k)[i] = flat[u[k] + i]
    BY <1>2 DEF Lies
  <2>2. Behind(buffers, k) = FlattenSeq(rest) BY <1>3, <1>9 DEF Behind
  <2>3. Len(flat) - u[k] = o + left /\ u[k] = before
    <3>1. Len(flat) = offset + length BY <1>2 DEF Lies
    <3> QED BY <1>8, <3>1
  <2> QED BY ONLY <2>1, <2>2, <2>3
<1>12. \A i \in 1..m : Len(rest[i]) > 0
  <2>1. \A i \in 1..m : k + i \in 1..l BY <1>9
  <2>2. \A i \in 1..l : Len(buffers[i]) > 0 BY <1>2 DEF Lies
  <2> QED BY <1>9, <2>1, <2>2
<1>13. rest # <<>> => o < Len(rest[1])
  <2> SUFFICES ASSUME rest # <<>> PROVE o < Len(rest[1]) OBVIOUS
  <2>1. m # 0
    <3>1. \A W : \A s \in Seq(W) : Len(s) = 0 => s = <<>> OBVIOUS
    <3> QED BY <1>9, <3>1
  <2>2. PICK j \in 1..l : j = k + 1 /\ j - 1 = k /\ k < l BY <1>9, <2>1
  <2>3. u[j] = u[j - 1] + Len(buffers[j]) BY <1>2 DEF Lies
  <2>4. u[j] > t BY <1>7, <2>2
  <2>5. rest[1] = buffers[j] BY <1>9, <2>1, <2>2
  <2>6. Len(buffers[j]) \in Nat BY <1>3
  <2>7. u[j] = before + Len(buffers[j]) BY <1>8, <2>2, <2>3
  <2>8. PICK h \in Nat : h = Len(rest[1]) /\ u[j] = before + h BY <2>5, <2>6, <2>7
  <2>9. before + h > t /\ o = t - before BY <1>8, <2>4, <2>8
  <2> QED BY ONLY <2>8, <2>9, before \in Nat, t \in Nat, o \in Nat, h \in Nat
<1>14. ASSUME NEW i \in 1..left PROVE tail[o + i] = wire[(f + d) + i]
  <2>1. PICK z \in 1..(o + left), y \in 1..length :
          z = o + i /\ y = d + i /\ before + z = offset + y /\ f + y = (f + d) + i
    <3>1. o + i \in 1..(o + left) /\ d + i \in 1..length
      <4>1. left = length - d BY <1>8
      <4> QED BY ONLY <4>1, o \in Nat, d \in Nat, length \in Nat, left \in Nat, i \in 1..left
    <3>2. before + (o + i) = offset + (d + i)
      <4>1. before + o = offset + d /\ i \in Nat BY <1>8
      <4> QED BY ONLY <4>1, before \in Nat, o \in Nat, offset \in Nat, d \in Nat
    <3>3. f + (d + i) = (f + d) + i OBVIOUS
    <3> QED BY <3>1, <3>2, <3>3
  <2>2. tail[z] = flat[before + z] BY <1>11
  <2>3. flat[offset + y] = wire[f + y] BY <1>4
  <2> QED BY <2>1, <2>2, <2>3
<1> DEFINE new == Advance(list, d)
<1>15. new.buffers = rest /\ new.offset = o /\ new.length = left
       /\ new = [buffers |-> new.buffers, offset |-> new.offset, length |-> new.length]
  BY <1>10
<1> HIDE DEF new
<1>16. Sound(new) BY <1>9, <1>11, <1>12, <1>13, <1>15 DEF Sound
<1>17. left = n - (f + d) /\ f + d \in Nat /\ f + d <= n BY <1>4, <1>8
<1>18. \A i \in 1..(n - (f + d)) : FlattenSeq(new.buffers)[new.offset + i] = wire[(f + d) + i]
  BY <1>11, <1>14, <1>15, <1>17
<1>19. Holds(new, wire, f + d, n) BY <1>1, <1>15, <1>16, <1>17, <1>18 DEF Holds
<1> QED BY <1>1, <1>19 DEF new

\* The d bytes behind the first n.
Slice(bytes, n, d) == [i \in 1..d |-> bytes[n + i]]

\* join() copies the first bytes that are held.
THEOREM JoinHolds ==
  ASSUME NEW list, NEW wire, NEW from, NEW to, Holds(list, wire, from, to),
         NEW d \in Nat, d <= to - from
  PROVE  Join(list, d) = Slice(wire, from, d)
<1>1. PICK f \in Nat, n \in Nat : f = from /\ n = to /\ f <= n /\ n <= Len(wire) /\ wire \in Seq(Nat)
  BY DEF Holds
<1>2. PICK buffers \in Seq(Seq(Nat)), offset \in Nat, length \in Nat, l \in Nat, flat \in Seq(Nat), u \in Totals :
        Lies(list, buffers, offset, length, l, flat, u)
  BY SoundLies DEF Holds
<1>3. /\ list = [buffers |-> buffers, offset |-> offset, length |-> length]
      /\ l = Len(buffers) /\ flat = FlattenSeq(buffers)
      /\ l > 0 => offset < Len(buffers[1])
  BY <1>2 DEF Lies
<1>4. length = n - f /\ d <= length /\ \A i \in 1..length : flat[offset + i] = wire[f + i]
  BY <1>1, <1>3 DEF Holds
<1>5. /\ \A k \in 0..l : u[k] = Before(list, k) /\ u[k] \in Nat /\ u[k] <= offset + length
      /\ u[0] = 0 /\ u[l] = offset + length
  BY <1>2 DEF Lies
<1>6. ~(list.buffers # <<>> /\ Len(Head(list.buffers)) <= list.offset)
  <2> SUFFICES ASSUME buffers # <<>> PROVE ~(Len(Head(buffers)) <= offset) BY <1>3
  <2>1. l > 0
    <3>1. \A W : \A s \in Seq(W) : Len(s) = 0 => s = <<>> OBVIOUS
    <3> QED BY <1>3, <3>1
  <2>2. Head(buffers) = buffers[1] OBVIOUS
  <2>3. PICK h \in Nat : h = Len(buffers[1]) BY <1>3, <2>1
  <2> QED BY <1>3, <2>1, <2>2, <2>3
<1> DEFINE Within(at) == CHOOSE k \in 1..Len(list.buffers) : Before(list, k - 1) < at /\ at <= Before(list, k)
           Byte1(at) == list.buffers[Within(at)][at - Before(list, Within(at) - 1)]
<1>7. Join(list, d) = [i \in 1..d |-> Byte1(list.offset + i)]
  BY ONLY <1>6 DEF Join
<1>8. ASSUME NEW at \in 1..(offset + length) PROVE Byte1(at) = flat[at]
  <2>1. PICK t \in Nat : t = at - 1 OBVIOUS
  <2>2. PICK j \in 0..l : u[j] <= t /\ (j < l => u[j + 1] > t) BY <1>5, LastBelow
  <2>3. j < l BY <1>5, <2>1, <2>2
  <2>4. PICK k \in 1..l : k = j + 1 /\ k - 1 = j BY <2>3
  <2>5. u[k - 1] < at /\ at <= u[k]
    <3>1. u[j] \in Nat /\ u[k] \in Nat /\ u[k] > t BY <1>5, <2>2, <2>3, <2>4
    <3> QED BY <2>1, <2>2, <2>4, <3>1
  <2>6. PICK x : x = Within(at) OBVIOUS
  <2>7. x \in 1..l /\ u[x - 1] < at /\ at <= u[x]
    <3>1. \A i \in 1..l : i \in 0..l /\ i - 1 \in 0..l OBVIOUS
    <3>2. \A i \in 1..l : (Before(list, i - 1) < at /\ at <= Before(list, i)) <=> (u[i - 1] < at /\ at <= u[i])
      BY <1>5, <3>1
    <3>3. Len(list.buffers) = l BY <1>3
    <3>4. x = CHOOSE i \in 1..l : Before(list, i - 1) < at /\ at <= Before(list, i) BY <2>6, <3>3
    <3>5. \E i \in 1..l : Before(list, i - 1) < at /\ at <= Before(list, i) BY ONLY <2>5, <3>2
    <3>6. x \in 1..l /\ Before(list, x - 1) < at /\ at <= Before(list, x) BY ONLY <3>4, <3>5
    <3> QED BY ONLY <3>2, <3>6
  <2> HIDE DEF Within
  <2>8. u[x] = u[x - 1] + Len(buffers[x]) BY <1>2, <2>7 DEF Lies
  <2>9. \A i \in 1..Len(buffers[x]) : flat[u[x - 1] + i] = buffers[x][i] BY <1>2, <2>7 DEF Lies
  <2>10. PICK h \in Nat, b \in Nat : h = Len(buffers[x]) /\ b = u[x - 1] /\ b < at /\ at <= b + h
    <3>1. x - 1 \in 0..l /\ Len(buffers[x]) \in Nat BY <1>3, <2>7
    <3>2. u[x - 1] \in Nat BY <1>5, <3>1
    <3> QED BY <2>7, <2>8, <3>1, <3>2
  <2>11. PICK i \in 1..h : i = at - b /\ b + i = at
    <3>1. at - b \in 1..h /\ b + (at - b) = at
      BY ONLY <2>10, at \in 1..(offset + length), offset \in Nat, length \in Nat, h \in Nat, b \in Nat
    <3> QED BY <3>1
  <2>12. flat[at] = buffers[x][i] BY <2>9, <2>10, <2>11
  <2>13. Before(list, x - 1) = b
    <3>1. x - 1 \in 0..l BY <2>7
    <3> QED BY <1>5, <2>10, <3>1
  <2> QED BY <1>3, <2>6, <2>11, <2>12, <2>13
<1> HIDE DEF Byte1
<1>9. ASSUME NEW i \in 1..d PROVE Byte1(list.offset + i) = wire[from + i]
  <2>1. offset + i \in 1..(offset + length) /\ i \in 1..length /\ list.offset = offset BY <1>3, <1>4
  <2>2. Byte1(offset + i) = flat[offset + i] BY <1>8, <2>1
  <2> QED BY <1>1, <1>4, <2>1, <2>2
<1> QED BY <1>7, <1>9 DEF Slice

-----------------------------------------------------------------------------
\* A frame at its next step, with another length or not.
Moved(f, t) == [f EXCEPT !.state = t]
Long(f, m) == [f EXCEPT !.length = m]
Sized(f, m, t) == [f EXCEPT !.length = m, !.state = t]

\* What the parser makes of the bytes of one frame: its header, the key and the
\* data, and the frame when all of it is there.
HeaderOf(bytes, state, length) ==
  [state |-> state, fin |-> bytes[1] >= 128, rsv |-> (bytes[1] \div 16) % 8 # 0,
   opcode |-> bytes[1] % 16, mask |-> bytes[2] >= MaskBit, length |-> length,
   status |-> -1, payload |-> <<>>, shortClose |-> FALSE, bad |-> FALSE]
KeyOf(bytes) == Slice(bytes, 2 + LengthSize(bytes), 4)
RawOf(bytes) == Slice(bytes, BodyAt(bytes), Declared(bytes))
BodyOf(bytes) == IF bytes[2] >= MaskBit THEN Unmask(RawOf(bytes), KeyOf(bytes)) ELSE RawOf(bytes)
WholeOf(bytes) ==
  LET f == HeaderOf(bytes, "payload", Declared(bytes))
  IN IF Declared(bytes) = 0 THEN Moved(f, "complete")
     ELSE IF ~IsClose(f) THEN Moved([f EXCEPT !.payload = BodyOf(bytes)], "complete")
     ELSE IF Declared(bytes) = 1 THEN Moved([f EXCEPT !.shortClose = TRUE], "complete")
     ELSE Moved([f EXCEPT !.status = ReadUInt16(BodyOf(bytes), 0),
                          !.payload = SubSeq(BodyOf(bytes), 3, Declared(bytes))], "complete")

\* The bytes lie on the wire behind the first at, as far as the parser reads.
Piece(bytes, wire, at) ==
  /\ bytes \in Seq(Nat) /\ wire \in Seq(Nat) /\ at \in Nat /\ at + Len(bytes) <= Len(wire)
  /\ \A i \in 1..Len(bytes) : wire[at + i] = bytes[i]
  /\ Len(bytes) >= 2 /\ Len(bytes) >= Decided(bytes)
  /\ BadControl(bytes) \/ Len(bytes) >= 2 + LengthSize(bytes)

\* A parser, and how far it may be with a piece of which bytes up to to are
\* there.
Parser(f, list, key, done) == [frame |-> f, list |-> list, maskBytes |-> key, done |-> done]
At(p, f, wire, from, to) ==
  /\ p = Parser(p.frame, p.list, p.maskBytes, FALSE)
  /\ p.frame = f
  /\ Holds(p.list, wire, from, to)
AtHeader(p, bytes, wire, at, to) == At(p, NewFrame, wire, at, to)
AtLength16(p, bytes, wire, at, to) ==
  /\ ~BadControl(bytes) /\ Code(bytes) = Length16
  /\ At(p, HeaderOf(bytes, "length16", Length16), wire, at + 2, to)
AtLength64(p, bytes, wire, at, to) ==
  /\ ~BadControl(bytes) /\ Code(bytes) = Length64
  /\ At(p, HeaderOf(bytes, "length64", Length64), wire, at + 2, to)
AtMask(p, bytes, wire, at, to) ==
  /\ ~BadControl(bytes) /\ ~TooLong(bytes)
  /\ At(p, HeaderOf(bytes, "mask", Declared(bytes)), wire, at + (2 + LengthSize(bytes)), to)
AtPayload(p, bytes, wire, at, to) ==
  /\ ~BadControl(bytes) /\ ~TooLong(bytes)
  /\ At(p, HeaderOf(bytes, "payload", Declared(bytes)), wire, at + BodyAt(bytes), to)
  /\ bytes[2] >= MaskBit => p.maskBytes = KeyOf(bytes)
Rejects(p, bytes, at, to) ==
  /\ p.done = TRUE /\ p.frame.bad = TRUE
  /\ IsIllegal(bytes) /\ at + Decided(bytes) <= to
Completes(p, bytes, wire, at, to) ==
  /\ p.done = TRUE /\ p.frame = WholeOf(bytes)
  /\ ~BadControl(bytes) /\ ~TooLong(bytes) /\ Declared(bytes) <= MaxFrame
  /\ Holds(p.list, wire, at + (BodyAt(bytes) + Declared(bytes)), to)

\* The numbers in the header of a piece.
LEMMA PieceNumbers ==
  ASSUME NEW bytes, NEW wire, NEW at, Piece(bytes, wire, at)
  PROVE  /\ bytes[1] \in Nat /\ bytes[2] \in Nat /\ Code(bytes) \in 0..(Short + 2)
         /\ LengthSize(bytes) \in {0, 2, 8}
         /\ ~BadControl(bytes) => /\ Declared(bytes) \in Nat /\ BodyAt(bytes) \in Nat
                                  /\ BodyAt(bytes) = 2 + LengthSize(bytes) + (IF bytes[2] >= MaskBit THEN 4 ELSE 0)
         /\ Decided(bytes) \in Nat
<1>1. bytes \in Seq(Nat) /\ Len(bytes) >= 2 /\ (BadControl(bytes) \/ Len(bytes) >= 2 + LengthSize(bytes))
  BY DEF Piece
<1>2. \A i \in 1..Len(bytes) : bytes[i] \in Nat BY <1>1
<1>3. bytes[1] \in Nat /\ bytes[2] \in Nat BY <1>1, <1>2
<1>4. MaskBit \in Nat /\ MaskBit = Short + 3 /\ Short \in Nat /\ Radix \in Nat
  BY LengthsAssumption DEF MaskBit
<1>5. Code(bytes) \in 0..(Short + 2)
  <2>1. \A v, m \in Nat : m > 0 => v % m \in 0..(m - 1) OBVIOUS
  <2>2. bytes[2] % MaskBit \in 0..(MaskBit - 1) BY <1>3, <1>4, <2>1
  <2> QED BY <1>4, <2>2 DEF Code
<1>6. LengthSize(bytes) \in {0, 2, 8} BY DEF LengthSize
<1>7. ASSUME ~BadControl(bytes) PROVE Declared(bytes) \in Nat
  <2>1. CASE Code(bytes) = Length16
    <3>1. bytes[3] \in Nat /\ bytes[4] \in Nat BY <1>1, <1>2, <1>7, <2>1 DEF LengthSize
    <3>2. ReadUInt16(bytes, 2) = bytes[3] * Radix + bytes[4] BY DEF ReadUInt16
    <3>3. bytes[3] * Radix + bytes[4] \in Nat BY <1>4, <3>1
    <3> QED BY <2>1, <3>2, <3>3 DEF Declared
  <2>2. CASE Code(bytes) = Length64
    <3>1. Code(bytes) # Length16 BY <1>4, <2>2 DEF Length16, Length64
    <3>2. bytes[7] \in Nat /\ bytes[8] \in Nat /\ bytes[9] \in Nat /\ bytes[10] \in Nat
      BY <1>1, <1>2, <1>7, <2>2, <3>1 DEF LengthSize
    <3>3. ReadUInt32(bytes, 6) = (bytes[7] * Radix + bytes[8]) * (Radix * Radix) + (bytes[9] * Radix + bytes[10])
      BY DEF ReadUInt32, ReadUInt16
    <3>4. bytes[7] * Radix + bytes[8] \in Nat /\ Radix * Radix \in Nat /\ bytes[9] * Radix + bytes[10] \in Nat
      BY <1>4, <3>2
    <3>5. \A v, m, r \in Nat : v * m + r \in Nat OBVIOUS
    <3>6. ReadUInt32(bytes, 6) \in Nat BY <3>3, <3>4, <3>5
    <3> QED BY <2>2, <3>1, <3>6 DEF Declared
  <2>3. CASE Code(bytes) # Length16 /\ Code(bytes) # Length64 BY <1>5, <2>3 DEF Declared
  <2> QED BY <2>1, <2>2, <2>3
<1>8. BodyAt(bytes) = 2 + LengthSize(bytes) + (IF bytes[2] >= MaskBit THEN 4 ELSE 0) BY DEF BodyAt
<1>9. BodyAt(bytes) \in Nat BY <1>6, <1>8
<1>10. Decided(bytes) \in Nat BY <1>7, <1>9 DEF Decided
<1> QED BY <1>3, <1>5, <1>6, <1>7, <1>8, <1>9, <1>10

\* A sum by name: for equations the provers put the sum in the place of n, and
\* then see no instance of a lemma about n.
Sums(n, a, b) == n = a + b

\* A parser at a step reads what it needs as it is in the piece, and takes it.
LEMMA Reads ==
  ASSUME NEW p, NEW f, NEW bytes, NEW wire, NEW at \in Nat, NEW from \in Nat, NEW to \in Nat,
         Piece(bytes, wire, at), At(p, f, wire, from, to),
         NEW c \in Nat, NEW d \in Nat, Sums(from, at, c), d <= to - from, c + d <= Len(bytes)
  PROVE  Join(p.list, d) = Slice(bytes, c, d)
<1>1. bytes \in Seq(Nat) /\ \A i \in 1..Len(bytes) : wire[at + i] = bytes[i] BY DEF Piece
<1>2. Holds(p.list, wire, from, to) /\ from = at + c BY DEF At, Sums
<1>3. Join(p.list, d) = Slice(wire, from, d) BY <1>2, JoinHolds
<1>4. \A i \in 1..d : wire[from + i] = bytes[c + i]
  <2>1. \A i \in 1..d : c + i \in 1..Len(bytes) /\ from + i = at + (c + i) BY <1>1, <1>2
  <2> QED BY <1>1, <2>1
<1> QED BY ONLY <1>3, <1>4 DEF Slice

\* A parser that is given another key, or ends, with this frame or another.
Keyed(p, key) == [p EXCEPT !.maskBytes = key]
Ended(p, done) == [p EXCEPT !.done = done]

LEMMA ParserKeyed ==
  ASSUME NEW f, NEW l, NEW k, NEW d, NEW p, p = Parser(f, l, k, d), NEW m
  PROVE  Keyed(p, m) = Parser(f, l, m, d)
<1>1. [p EXCEPT !.maskBytes = m] = Parser(f, l, m, d) BY Z3 DEF Parser
<1> QED BY <1>1 DEF Keyed

LEMMA ParserEnded ==
  ASSUME NEW f, NEW l, NEW k, NEW d, NEW p, p = Parser(f, l, k, d), NEW e
  PROVE  Ended(p, e) = Parser(f, l, k, e)
<1>1. [p EXCEPT !.done = e] = Parser(f, l, k, e) BY Z3 DEF Parser
<1> QED BY <1>1 DEF Ended

LEMMA TakesIs ==
  ASSUME NEW p, p = Parser(p.frame, p.list, p.maskBytes, FALSE), NEW d, NEW g
  PROVE  Takes(p, d, g) = Parser(g, Advance(p.list, d), p.maskBytes, FALSE)
<1>1. PICK h, l, k : p = [frame |-> h, list |-> l, maskBytes |-> k, done |-> FALSE] BY DEF Parser
<1>2. Takes(p, d, g) = [p EXCEPT !.list = Advance(p.list, d), !.frame = g] BY Zenon DEF Takes
<1> QED BY ONLY <1>1, <1>2 DEF Parser

LEMMA Taken ==
  ASSUME NEW p, NEW f, NEW wire, NEW from \in Nat, NEW to \in Nat, At(p, f, wire, from, to),
         NEW d \in Nat, NEW next \in Nat, Sums(next, from, d), next <= to, NEW g
  PROVE  /\ p.list.length >= d
         /\ At(Takes(p, d, g), g, wire, next, to)
<1>1. Holds(p.list, wire, from, to) /\ p = Parser(p.frame, p.list, p.maskBytes, FALSE) BY DEF At
<1>2. p.list.length = to - from /\ next = from + d /\ d <= to - from BY <1>1 DEF Holds, Sums
<1>3. p.list.length >= d BY <1>2
<1>4. Holds(Advance(p.list, d), wire, next, to) BY <1>1, <1>2, AdvanceHolds
<1>5. Takes(p, d, g) = Parser(g, Advance(p.list, d), p.maskBytes, FALSE) BY <1>1, TakesIs
<1>6. PICK q : q = Takes(p, d, g) OBVIOUS
<1>7. q.frame = g /\ q.list = Advance(p.list, d) /\ q = Parser(q.frame, q.list, q.maskBytes, FALSE)
  BY <1>5, <1>6 DEF Parser
<1> QED BY <1>3, <1>4, <1>5, <1>6, <1>7 DEF At

\* A frame by its fields.
Fields(s, n, fin, rsv, opcode, mask, status, payload, short, bad) ==
  [state |-> s, fin |-> fin, rsv |-> rsv, opcode |-> opcode, mask |-> mask, length |-> n,
   status |-> status, payload |-> payload, shortClose |-> short, bad |-> bad]

LEMMA FieldsMove ==
  ASSUME NEW s, NEW n, NEW t, NEW m, NEW a, NEW b, NEW c, NEW d, NEW e, NEW g, NEW h, NEW i,
         NEW f, f = Fields(s, n, a, b, c, d, e, g, h, i)
  PROVE  /\ Moved(f, t) = Fields(t, n, a, b, c, d, e, g, h, i)
         /\ Long(f, m) = Fields(s, m, a, b, c, d, e, g, h, i)
<1>1. [f EXCEPT !.state = t] = Fields(t, n, a, b, c, d, e, g, h, i) BY Z3 DEF Fields
<1>2. [f EXCEPT !.length = m] = Fields(s, m, a, b, c, d, e, g, h, i) BY Z3 DEF Fields
<1> QED BY <1>1, <1>2 DEF Moved, Long

Headed(f, fin, rsv, opcode, mask, length) ==
  [f EXCEPT !.fin = fin, !.rsv = rsv, !.opcode = opcode, !.mask = mask, !.length = length]
LEMMA FieldsHead ==
  ASSUME NEW s, NEW n, NEW a, NEW b, NEW c, NEW d, NEW e, NEW g, NEW h, NEW i,
         NEW f, f = Fields(s, n, a, b, c, d, e, g, h, i),
         NEW a1, NEW b1, NEW c1, NEW d1, NEW n1
  PROVE  Headed(f, a1, b1, c1, d1, n1) = Fields(s, n1, a1, b1, c1, d1, e, g, h, i)
<1>1. PICK f1 : f1 = [f EXCEPT !.fin = a1] OBVIOUS
<1>2. PICK f2 : f2 = [f1 EXCEPT !.rsv = b1] OBVIOUS
<1>3. PICK f3 : f3 = [f2 EXCEPT !.opcode = c1] OBVIOUS
<1>4. PICK f4 : f4 = [f3 EXCEPT !.mask = d1] OBVIOUS
<1>5. f1 = Fields(s, n, a1, b, c, d, e, g, h, i) BY <1>1, Z3 DEF Fields
<1>6. f2 = Fields(s, n, a1, b1, c, d, e, g, h, i) BY ONLY <1>2, <1>5, Z3 DEF Fields
<1>7. f3 = Fields(s, n, a1, b1, c1, d, e, g, h, i) BY ONLY <1>3, <1>6, Z3 DEF Fields
<1>8. f4 = Fields(s, n, a1, b1, c1, d1, e, g, h, i) BY ONLY <1>4, <1>7, Z3 DEF Fields
<1>9. [f4 EXCEPT !.length = n1] = Fields(s, n1, a1, b1, c1, d1, e, g, h, i) BY ONLY <1>8, Z3 DEF Fields
<1>10. Headed(f, a1, b1, c1, d1, n1) = [f4 EXCEPT !.length = n1] BY ONLY <1>1, <1>2, <1>3, <1>4 DEF Headed
<1> QED BY <1>9, <1>10

LEMMA NextHeader ==
  ASSUME NEW bytes, NEW f, NEW s, NEW n, f = HeaderOf(bytes, s, n), NEW t, NEW m
  PROVE  Sized(f, m, t) = HeaderOf(bytes, t, m) /\ Moved(f, t) = HeaderOf(bytes, t, n)
<1>1. PICK fin, rsv, opcode, mask, status, payload, no :
        /\ fin = (bytes[1] >= 128) /\ rsv = ((bytes[1] \div 16) % 8 # 0) /\ opcode = bytes[1] % 16
        /\ mask = (bytes[2] >= MaskBit) /\ status = -1 /\ payload = <<>> /\ no = FALSE
  OBVIOUS
<1>2. \A u, l : HeaderOf(bytes, u, l) = Fields(u, l, fin, rsv, opcode, mask, status, payload, no, no)
  BY <1>1 DEF HeaderOf, Fields
<1>3. Moved(f, t) = HeaderOf(bytes, t, n) BY <1>2, FieldsMove
<1>4. PICK g : g = Long(f, m) OBVIOUS
<1>5. g = Fields(s, m, fin, rsv, opcode, mask, status, payload, no, no) BY <1>2, <1>4, FieldsMove
<1>6. Moved(g, t) = HeaderOf(bytes, t, m) BY <1>2, <1>5, FieldsMove
<1>7. Sized(f, m, t) = Moved(g, t) BY ONLY <1>4 DEF Sized, Moved, Long
<1> QED BY <1>3, <1>6, <1>7

\* decodeHeader(): on a piece whose two bytes are there.
LEMMA HeaderStep ==
  ASSUME NEW p, NEW bytes, NEW wire, NEW at, NEW to, Piece(bytes, wire, at),
         AtHeader(p, bytes, wire, at, to)
  PROVE  LET q == DecodeHeader(p)
         IN IF to < at + 2 THEN q = p
            ELSE \/ Rejects(q, bytes, at, to)
                 \/ AtLength16(q, bytes, wire, at, to)
                 \/ AtLength64(q, bytes, wire, at, to)
                 \/ AtMask(q, bytes, wire, at, to)
<1>1. /\ at \in Nat /\ Len(bytes) >= 2 /\ Len(bytes) \in Nat /\ bytes[1] \in Nat /\ bytes[2] \in Nat
      /\ Code(bytes) \in 0..(Short + 2) /\ Short \in Nat
  <2>1. at \in Nat /\ Len(bytes) >= 2 /\ bytes \in Seq(Nat) /\ Short \in Nat BY LengthsAssumption DEF Piece
  <2>2. bytes[1] \in Nat /\ bytes[2] \in Nat BY PieceNumbers
  <2>3. Code(bytes) \in 0..(Short + 2) BY PieceNumbers
  <2> QED BY <2>1, <2>2, <2>3
<1>2. /\ p.frame = NewFrame /\ p = Parser(p.frame, p.list, p.maskBytes, FALSE) /\ p.done = FALSE
      /\ Holds(p.list, wire, at, to) /\ to \in Nat /\ p.list.length = to - at
  BY DEF AtHeader, At, Parser, Holds
<1>3. p.frame.state = "header" BY <1>2 DEF NewFrame
<1>4. CASE to < at + 2
  <2>1. ~Has(p, "header", 2) BY <1>1, <1>2, <1>4 DEF Has
  <2> QED BY <1>4, <2>1 DEF DecodeHeader
<1>5. CASE ~(to < at + 2)
  <2>1. PICK c \in Nat, d \in Nat, next \in Nat : c = 0 /\ d = 2 /\ Sums(at, at, c) /\ Sums(next, at, d)
    BY <1>1 DEF Sums
  <2>2. At(p, NewFrame, wire, at, to) /\ next <= to /\ c + d <= Len(bytes) /\ next = at + 2
    BY <1>1, <1>2, <1>5, <2>1 DEF AtHeader, Sums
  <2>3. PICK two : two = Join(p.list, 2) OBVIOUS
  <2>4. /\ p.list.length >= 2 /\ Join(p.list, 2) = Slice(bytes, 0, 2)
        /\ \A g : /\ Takes(p, 2, g) = Parser(g, Advance(p.list, 2), p.maskBytes, FALSE)
                  /\ At(Takes(p, 2, g), g, wire, at + 2, to)
    <3>1. /\ {at, to, c, d, next} \subseteq Nat /\ Piece(bytes, wire, at) /\ At(p, NewFrame, wire, at, to)
          /\ Sums(at, at, c) /\ Sums(next, at, d) /\ next <= to /\ c + d <= Len(bytes) /\ d <= to - at
      BY <1>1, <1>2, <2>1, <2>2
    <3>2. p.list.length >= d BY ONLY <3>1, Taken
    <3>3. Join(p.list, d) = Slice(bytes, c, d) BY ONLY <3>1, Reads
    <3>4. \A g : Takes(p, d, g) = Parser(g, Advance(p.list, d), p.maskBytes, FALSE) BY <1>2, TakesIs
    <3>5. \A g : At(Takes(p, d, g), g, wire, next, to) BY ONLY <3>1, Taken
    <3> QED BY ONLY <2>1, <2>2, <3>2, <3>3, <3>4, <3>5
  <2>5. two[1] = bytes[1] /\ two[2] = bytes[2] BY <2>3, <2>4 DEF Slice
  <2>6. Has(p, "header", 2) BY <1>2, <1>3, <2>4 DEF Has
  <2> DEFINE f == [p.frame EXCEPT
                     !.fin = two[1] >= 128,
                     !.rsv = (two[1] \div 16) % 8 # 0,
                     !.opcode = two[1] % 16,
                     !.mask = two[2] >= MaskBit,
                     !.length = two[2] % MaskBit]
             illegal == IsControl(f) /\ (f.length > Short \/ ~f.fin)
             step == CASE f.length = Length16 -> "length16"
                       [] f.length = Length64 -> "length64"
                       [] OTHER -> "mask"
  <2>7. DecodeHeader(p) = IF illegal THEN [Takes(p, 2, [f EXCEPT !.bad = TRUE]) EXCEPT !.done = TRUE]
                          ELSE Takes(p, 2, [f EXCEPT !.state = step])
    BY <2>3, <2>6 DEF DecodeHeader
  <2>8. f = HeaderOf(bytes, "header", Code(bytes)) 
    <3>1. f = [NewFrame EXCEPT
                 !.fin = bytes[1] >= 128, !.rsv = (bytes[1] \div 16) % 8 # 0, !.opcode = bytes[1] % 16,
                 !.mask = bytes[2] >= MaskBit, !.length = bytes[2] % MaskBit]
      BY ONLY <1>2, <2>5
    <3> HIDE DEF f
    <3>2. PICK fin, rsv, opcode, mask, length :
            /\ fin = (bytes[1] >= 128) /\ rsv = ((bytes[1] \div 16) % 8 # 0) /\ opcode = bytes[1] % 16
            /\ mask = (bytes[2] >= MaskBit) /\ length = bytes[2] % MaskBit
      OBVIOUS
    <3>3. f = [NewFrame EXCEPT !.fin = fin, !.rsv = rsv, !.opcode = opcode, !.mask = mask, !.length = length]
      BY ONLY <3>1, <3>2
    <3>4. PICK new, zero, no, none, nothing :
            new = NewFrame /\ zero = 0 /\ no = FALSE /\ none = -1 /\ nothing = <<>>
      OBVIOUS
    <3>5. new = Fields("header", zero, no, no, zero, no, none, nothing, no, no)
      BY ONLY <3>4 DEF NewFrame, Fields
    <3>6. f = Headed(new, fin, rsv, opcode, mask, length) BY ONLY <3>3, <3>4 DEF Headed
    <3>7. f = Fields("header", length, fin, rsv, opcode, mask, none, nothing, no, no)
      BY ONLY <3>5, <3>6, FieldsHead
    <3>8. HeaderOf(bytes, "header", length) = Fields("header", length, fin, rsv, opcode, mask, none, nothing, no, no)
      BY ONLY <3>2, <3>4 DEF HeaderOf, Fields
    <3>9. length = Code(bytes) BY ONLY <3>2 DEF Code
    <3> QED BY ONLY <3>7, <3>8, <3>9
  <2> HIDE DEF f
  <2>9. illegal <=> BadControl(bytes)
    <3>1. f.opcode = bytes[1] % 16 /\ f.length = Code(bytes) BY <2>8 DEF HeaderOf
    <3>2. f.fin = (bytes[1] >= 128) BY <2>8 DEF HeaderOf
    <3>3. ~f.fin <=> bytes[1] < 128
      <4>1. f.fin <=> bytes[1] >= 128 BY <3>2
      <4> QED BY ONLY <1>1, <4>1
    <3> QED BY ONLY <3>1, <3>3 DEF IsControl, BadControl
  <2>10. CASE BadControl(bytes)
    <3>1. PICK g : g = [f EXCEPT !.bad = TRUE] OBVIOUS
    <3>2. g.bad = TRUE BY <2>8, <3>1 DEF HeaderOf
    <3>3. DecodeHeader(p) = [Parser(g, Advance(p.list, 2), p.maskBytes, FALSE) EXCEPT !.done = TRUE]
      BY <2>4, <2>7, <2>9, <2>10, <3>1
    <3>4. DecodeHeader(p).done = TRUE /\ DecodeHeader(p).frame = g BY <3>3 DEF Parser
    <3>5. IsIllegal(bytes) /\ Decided(bytes) = 2 BY <2>10 DEF IsIllegal, Decided
    <3> QED BY <1>1, <1>2, <1>5, <3>2, <3>4, <3>5 DEF Rejects
  <2>11. CASE ~BadControl(bytes)
    <3>1. PICK q, g : q = DecodeHeader(p) /\ g = [f EXCEPT !.state = step] /\ At(q, g, wire, at + 2, to)
      BY <2>4, <2>7, <2>9, <2>11
    <3>2. f.length = Code(bytes) BY <2>8 DEF HeaderOf
    <3>3. g = HeaderOf(bytes, step, Code(bytes))
      <4>1. Moved(f, step) = HeaderOf(bytes, step, Code(bytes)) BY ONLY <2>8, NextHeader
      <4>2. g = Moved(f, step) BY ONLY <3>1 DEF Moved
      <4> QED BY ONLY <4>1, <4>2
    <3>4. Length16 # Length64 BY <1>1 DEF Length16, Length64
    <3>5. CASE Code(bytes) = Length16
      <4>1. step = "length16" BY ONLY <3>2, <3>4, <3>5
      <4> QED BY <1>5, <2>11, <3>1, <3>3, <3>5, <4>1 DEF AtLength16
    <3>6. CASE Code(bytes) = Length64
      <4>1. step = "length64" BY <3>2, <3>4, <3>6
      <4> QED BY <1>5, <2>11, <3>1, <3>3, <3>6, <4>1 DEF AtLength64
    <3>7. CASE Code(bytes) # Length16 /\ Code(bytes) # Length64
      <4>1. step = "mask" BY <3>2, <3>7
      <4>2. Declared(bytes) = Code(bytes) /\ LengthSize(bytes) = 0 /\ ~TooLong(bytes)
        BY <3>7 DEF Declared, LengthSize, TooLong
      <4>3. AtMask(q, bytes, wire, at, to) BY <2>11, <3>1, <3>3, <4>1, <4>2 DEF AtMask
      <4> QED BY <1>5, <3>1, <4>3
    <3> QED BY <3>5, <3>6, <3>7
  <2> QED BY <2>10, <2>11
<1> QED BY <1>4, <1>5

\* A parser that is done, or at another step, is left as it is.
LEMMA Idle ==
  ASSUME NEW p
  PROVE  /\ p.done = TRUE \/ p.frame.state # "header" => DecodeHeader(p) = p
         /\ p.done = TRUE \/ p.frame.state \notin {"length16", "length64"} => DecodeLength(p) = p
         /\ p.done = TRUE \/ p.frame.state # "mask" => DecodeMask(p) = p
         /\ p.done = TRUE \/ p.frame.state # "payload" => DecodePayload(p) = p
<1>1. ASSUME NEW s, NEW n, p.done = TRUE \/ p.frame.state # s PROVE ~Has(p, s, n) BY <1>1 DEF Has
<1>2. p.done = TRUE \/ p.frame.state # "header" => DecodeHeader(p) = p
  <2> SUFFICES ASSUME p.done = TRUE \/ p.frame.state # "header" PROVE DecodeHeader(p) = p OBVIOUS
  <2>1. ~Has(p, "header", 2) BY <1>1
  <2> QED BY <2>1 DEF DecodeHeader
<1>3. p.done = TRUE \/ p.frame.state \notin {"length16", "length64"} => DecodeLength(p) = p
  <2> SUFFICES ASSUME p.done = TRUE \/ p.frame.state \notin {"length16", "length64"} PROVE DecodeLength(p) = p
    OBVIOUS
  <2>1. ~Has(p, "length16", 2) /\ ~Has(p, "length64", 8) BY <1>1
  <2> QED BY <2>1 DEF DecodeLength
<1>4. p.done = TRUE \/ p.frame.state # "mask" => DecodeMask(p) = p
  <2> SUFFICES ASSUME p.done = TRUE \/ p.frame.state # "mask" PROVE DecodeMask(p) = p OBVIOUS
  <2>1. ~Has(p, "mask", 0) /\ ~Has(p, "mask", 4) BY <1>1
  <2> QED BY <2>1 DEF DecodeMask
<1>5. p.done = TRUE \/ p.frame.state # "payload" => DecodePayload(p) = p
  <2> SUFFICES ASSUME p.done = TRUE \/ p.frame.state # "payload" PROVE DecodePayload(p) = p OBVIOUS
  <2>1. ~Has(p, "payload", 0) BY <1>1
  <2> QED BY <2>1 DEF DecodePayload
<1> QED BY <1>2, <1>3, <1>4, <1>5

\* decodeLength(): the longer length of 16 bits.
LEMMA Length16Step ==
  ASSUME NEW p, NEW bytes, NEW wire, NEW at, NEW to, Piece(bytes, wire, at),
         AtLength16(p, bytes, wire, at, to)
  PROVE  LET q == DecodeLength(p)
         IN IF to < at + 4 THEN q = p ELSE AtMask(q, bytes, wire, at, to)
<1>1. /\ ~BadControl(bytes) /\ Code(bytes) = Length16
      /\ At(p, HeaderOf(bytes, "length16", Length16), wire, at + 2, to)
  BY DEF AtLength16
<1>2. /\ p.frame = HeaderOf(bytes, "length16", Length16) /\ p.done = FALSE
      /\ p = Parser(p.frame, p.list, p.maskBytes, FALSE)
      /\ at \in Nat /\ to \in Nat /\ at + 2 <= to /\ p.list.length = to - (at + 2)
  BY <1>1 DEF At, Parser, Holds, Piece
<1>3. p.frame.state = "length16" BY <1>2 DEF HeaderOf
<1>4. CASE to < at + 4
  <2>1. ~Has(p, "length16", 2) /\ ~Has(p, "length64", 8) BY <1>2, <1>3, <1>4 DEF Has
  <2> QED BY <1>4, <2>1 DEF DecodeLength
<1>5. CASE ~(to < at + 4)
  <2>1. LengthSize(bytes) = 2 /\ Len(bytes) >= 4 /\ Len(bytes) \in Nat BY <1>1 DEF LengthSize, Piece
  <2>2. PICK from \in Nat, c \in Nat, d \in Nat, next \in Nat :
          /\ from = at + 2 /\ c = 2 /\ d = 2 /\ next = at + (2 + LengthSize(bytes))
          /\ Sums(from, at, c) /\ Sums(next, from, d) /\ next <= to /\ d <= to - from /\ c + d <= Len(bytes)
    BY <1>2, <1>5, <2>1 DEF Sums
  <2>3. /\ {at, from, to, c, d, next} \subseteq Nat /\ Piece(bytes, wire, at)
        /\ At(p, HeaderOf(bytes, "length16", Length16), wire, from, to)
        /\ Sums(from, at, c) /\ Sums(next, from, d) /\ next <= to /\ d <= to - from /\ c + d <= Len(bytes)
    BY <1>1, <1>2, <2>2
  <2>4. p.list.length >= d BY ONLY <2>3, Taken
  <2>5. Join(p.list, d) = Slice(bytes, c, d) BY ONLY <2>3, Reads
  <2>6. PICK g : g = HeaderOf(bytes, "mask", Declared(bytes)) OBVIOUS
  <2>7. At(Takes(p, d, g), g, wire, next, to) BY ONLY <2>3, Taken
  <2>8. Has(p, "length16", 2) BY <1>2, <1>3, <2>2, <2>4 DEF Has
  <2>9. ReadUInt16(Join(p.list, 2), 0) = Declared(bytes)
    <3>1. Join(p.list, 2)[1] = bytes[3] /\ Join(p.list, 2)[2] = bytes[4] BY <2>2, <2>5 DEF Slice
    <3> QED BY <1>1, <3>1 DEF ReadUInt16, Declared
  <2>10. [p.frame EXCEPT !.length = ReadUInt16(Join(p.list, 2), 0), !.state = "mask"] = g
    <3>1. Sized(p.frame, Declared(bytes), "mask") = g BY <1>2, <2>6, NextHeader
    <3> QED BY <2>9, <3>1 DEF Sized
  <2>11. DecodeLength(p) = Takes(p, 2, g) BY <2>8, <2>10 DEF DecodeLength
  <2>12. ~TooLong(bytes) BY <1>1, LengthsAssumption DEF TooLong, Length16, Length64
  <2> QED BY <1>1, <1>5, <2>2, <2>6, <2>7, <2>11, <2>12 DEF AtMask
<1> QED BY <1>4, <1>5

\* The longer length of 64 bits, of which the upper 32 must be 0.
LEMMA Length64Step ==
  ASSUME NEW p, NEW bytes, NEW wire, NEW at, NEW to, Piece(bytes, wire, at),
         AtLength64(p, bytes, wire, at, to)
  PROVE  LET q == DecodeLength(p)
         IN IF to < at + 10 THEN q = p
            ELSE Rejects(q, bytes, at, to) \/ AtMask(q, bytes, wire, at, to)
<1>1. /\ ~BadControl(bytes) /\ Code(bytes) = Length64 /\ Code(bytes) # Length16
      /\ At(p, HeaderOf(bytes, "length64", Length64), wire, at + 2, to)
  BY LengthsAssumption DEF AtLength64, Length16, Length64
<1>2. /\ p.frame = HeaderOf(bytes, "length64", Length64) /\ p.done = FALSE
      /\ p = Parser(p.frame, p.list, p.maskBytes, FALSE)
      /\ at \in Nat /\ to \in Nat /\ at + 2 <= to /\ p.list.length = to - (at + 2)
  BY <1>1 DEF At, Parser, Holds, Piece
<1>3. p.frame.state = "length64" BY <1>2 DEF HeaderOf
<1>4. ~Has(p, "length16", 2) BY <1>3 DEF Has
<1>5. CASE to < at + 10
  <2>1. ~Has(p, "length64", 8) BY <1>2, <1>3, <1>5 DEF Has
  <2> QED BY <1>4, <1>5, <2>1 DEF DecodeLength
<1>6. CASE ~(to < at + 10)
  <2>1. LengthSize(bytes) = 8 /\ Len(bytes) >= 10 /\ Len(bytes) \in Nat BY <1>1 DEF LengthSize, Piece
  <2>2. PICK from \in Nat, c \in Nat, d \in Nat, next \in Nat :
          /\ from = at + 2 /\ c = 2 /\ d = 8 /\ next = at + (2 + LengthSize(bytes))
          /\ Sums(from, at, c) /\ Sums(next, from, d) /\ next <= to /\ d <= to - from /\ c + d <= Len(bytes)
    BY <1>2, <1>6, <2>1 DEF Sums
  <2>3. /\ {at, from, to, c, d, next} \subseteq Nat /\ Piece(bytes, wire, at)
        /\ At(p, HeaderOf(bytes, "length64", Length64), wire, from, to)
        /\ Sums(from, at, c) /\ Sums(next, from, d) /\ next <= to /\ d <= to - from /\ c + d <= Len(bytes)
    BY <1>1, <1>2, <2>2
  <2>4. p.list.length >= d BY ONLY <2>3, Taken
  <2>5. Join(p.list, d) = Slice(bytes, c, d) BY ONLY <2>3, Reads
  <2>6. Has(p, "length64", 8) BY <1>2, <1>3, <2>2, <2>4 DEF Has
  <2>7. PICK eight : eight = Join(p.list, 8) OBVIOUS
  <2>8. /\ eight[1] = bytes[3] /\ eight[2] = bytes[4] /\ eight[3] = bytes[5] /\ eight[4] = bytes[6]
        /\ eight[5] = bytes[7] /\ eight[6] = bytes[8] /\ eight[7] = bytes[9] /\ eight[8] = bytes[10]
    <3>1. eight = [i \in 1..d |-> bytes[c + i]]
      <4>1. d = 8 BY <2>2
      <4> QED BY ONLY <2>5, <2>7, <4>1 DEF Slice
    <3>2. \A i \in 1..d : eight[i] = bytes[c + i] BY ONLY <3>1
    <3>3. c = 2 /\ d = 8 BY <2>2
    <3>4. \A i \in 1..8 : eight[i] = bytes[2 + i] BY ONLY <3>2, <3>3
    <3>5. eight[1] = bytes[3] /\ eight[2] = bytes[4] BY ONLY <3>4
    <3>6. eight[3] = bytes[5] /\ eight[4] = bytes[6] BY ONLY <3>4
    <3>7. eight[5] = bytes[7] /\ eight[6] = bytes[8] BY ONLY <3>4
    <3>8. eight[7] = bytes[9] /\ eight[8] = bytes[10] BY ONLY <3>4
    <3> QED BY ONLY <3>5, <3>6, <3>7, <3>8
  <2>9. ReadUInt32(eight, 0) = ReadUInt32(bytes, 2) /\ ReadUInt32(eight, 4) = Declared(bytes)
    BY <1>1, <2>8 DEF ReadUInt32, ReadUInt16, Declared
  <2>10. CASE TooLong(bytes)
    <3>1. PICK g : g = [p.frame EXCEPT !.bad = TRUE] OBVIOUS
    <3>2. g.bad = TRUE BY <1>2, <3>1 DEF HeaderOf
    <3>3. ReadUInt32(eight, 0) # 0 BY <2>9, <2>10 DEF TooLong
    <3>4. DecodeLength(p) = [Takes(p, 8, g) EXCEPT !.done = TRUE]
      BY <1>4, <2>6, <2>7, <3>1, <3>3 DEF DecodeLength
    <3>5. Takes(p, 8, g) = Parser(g, Advance(p.list, 8), p.maskBytes, FALSE) BY <1>2, TakesIs
    <3>6. DecodeLength(p).done = TRUE /\ DecodeLength(p).frame = g BY <3>4, <3>5 DEF Parser
    <3>7. IsIllegal(bytes) /\ Decided(bytes) = 10 BY <1>1, <2>10 DEF IsIllegal, Decided
    <3> QED BY <1>2, <1>6, <3>2, <3>6, <3>7 DEF Rejects
  <2>11. CASE ~TooLong(bytes)
    <3>1. PICK g : g = HeaderOf(bytes, "mask", Declared(bytes)) OBVIOUS
    <3>2. At(Takes(p, d, g), g, wire, next, to) BY ONLY <2>3, Taken
    <3>3. ReadUInt32(eight, 0) = 0 BY <1>1, <2>9, <2>11 DEF TooLong
    <3>4. Sized(p.frame, Declared(bytes), "mask") = g BY <1>2, <3>1, NextHeader
    <3>5. DecodeLength(p) = Takes(p, 8, g)
      BY <1>4, <2>6, <2>7, <2>9, <3>3, <3>4 DEF DecodeLength, Sized
    <3>6. AtMask(Takes(p, 8, g), bytes, wire, at, to) BY <1>1, <2>2, <2>11, <3>1, <3>2 DEF AtMask
    <3> QED BY <1>6, <3>5, <3>6
  <2> QED BY <2>10, <2>11
<1> QED BY <1>5, <1>6

\* decodeMask(): the four bytes of the key, where the header announces them.
LEMMA MaskStep ==
  ASSUME NEW p, NEW bytes, NEW wire, NEW at, NEW to, Piece(bytes, wire, at),
         AtMask(p, bytes, wire, at, to)
  PROVE  LET q == DecodeMask(p)
         IN IF to < at + BodyAt(bytes) THEN q = p ELSE AtPayload(q, bytes, wire, at, to)
<1>1. /\ ~BadControl(bytes) /\ ~TooLong(bytes)
      /\ At(p, HeaderOf(bytes, "mask", Declared(bytes)), wire, at + (2 + LengthSize(bytes)), to)
  BY DEF AtMask
<1>2. LengthSize(bytes) \in {0, 2, 8} BY PieceNumbers
<1>3. /\ BodyAt(bytes) \in Nat
      /\ BodyAt(bytes) = 2 + LengthSize(bytes) + (IF bytes[2] >= MaskBit THEN 4 ELSE 0)
  BY <1>1, PieceNumbers
<1>4. Declared(bytes) \in Nat BY <1>1, PieceNumbers
<1>5. PICK from \in Nat, c \in Nat, n \in Nat :
        /\ from = at + (2 + LengthSize(bytes)) /\ c = 2 + LengthSize(bytes) /\ Sums(from, at, c) /\ n = Declared(bytes)
  <2>1. PICK a \in Nat : a = at BY DEF Piece
  <2>2. PICK c \in Nat : c = 2 + LengthSize(bytes) BY ONLY <1>2
  <2>3. a + c \in Nat /\ a + c = at + (2 + LengthSize(bytes)) /\ Sums(a + c, at, c) BY <2>1, <2>2 DEF Sums
  <2> QED BY <1>4, <2>2, <2>3
<1>6. /\ p.frame = HeaderOf(bytes, "mask", n) /\ p.done = FALSE
      /\ p = Parser(p.frame, p.list, p.maskBytes, FALSE)
      /\ at \in Nat /\ to \in Nat /\ from <= to /\ p.list.length = to - from
  BY <1>1, <1>5 DEF At, Parser, Holds, Piece
<1>7. p.frame.state = "mask" /\ p.frame.mask = (bytes[2] >= MaskBit) BY <1>6 DEF HeaderOf
<1>8. PICK g : g = HeaderOf(bytes, "payload", n) OBVIOUS
<1>9. Moved(p.frame, "payload") = g BY <1>6, <1>8, NextHeader
<1>10. Has(p, "mask", 0) BY <1>6, <1>7 DEF Has
<1>11. Len(bytes) \in Nat /\ BodyAt(bytes) <= Len(bytes)
  <2>1. Decided(bytes) >= BodyAt(bytes) BY <1>1, <1>3, <1>4 DEF Decided
  <2>2. Len(bytes) \in Nat /\ Len(bytes) >= Decided(bytes) /\ Decided(bytes) \in Nat
    <3>1. bytes \in Seq(Nat) /\ Len(bytes) >= Decided(bytes) BY DEF Piece
    <3>2. Decided(bytes) \in Nat BY PieceNumbers
    <3> QED BY <3>1, <3>2
  <2> QED BY <1>3, <2>1, <2>2
<1>12. CASE ~(bytes[2] >= MaskBit)
  <2>1. BodyAt(bytes) = 2 + LengthSize(bytes) /\ at + BodyAt(bytes) = from BY <1>3, <1>5, <1>12
  <2>2. PICK d \in Nat : d = 0 /\ Sums(from, from, d) BY DEF Sums
  <2>3. At(p, HeaderOf(bytes, "mask", n), wire, from, to) BY <1>1, <1>5
  <2>4. At(Takes(p, d, g), g, wire, from, to) BY ONLY <1>6, <2>2, <2>3, from \in Nat, d \in Nat, Taken
  <2>5. DecodeMask(p) = Takes(p, 0, g) BY <1>7, <1>9, <1>10, <1>12 DEF DecodeMask, Moved
  <2>6. AtPayload(Takes(p, 0, g), bytes, wire, at, to)
    BY <1>1, <1>5, <1>8, <1>12, <2>1, <2>2, <2>4 DEF AtPayload
  <2> QED BY <1>6, <2>1, <2>5, <2>6
<1>13. CASE bytes[2] >= MaskBit
  <2>1. PICK d \in Nat, next \in Nat : d = 4 /\ next = at + BodyAt(bytes) /\ Sums(next, from, d) /\ c + d = BodyAt(bytes)
    BY <1>3, <1>5, <1>6, <1>13 DEF Sums
  <2>2. p.frame.mask = TRUE BY <1>7, <1>13
  <2>3. CASE to < next
    <3>1. ~(p.list.length >= 4) BY <1>6, <2>1, <2>3 DEF Sums
    <3>2. ~Has(p, "mask", 4) BY <3>1 DEF Has
    <3> QED BY <2>1, <2>2, <2>3, <3>2 DEF DecodeMask
  <2>4. CASE ~(to < next)
    <3>1. /\ {at, from, to, c, d, next} \subseteq Nat /\ Piece(bytes, wire, at)
          /\ At(p, HeaderOf(bytes, "mask", n), wire, from, to)
          /\ Sums(from, at, c) /\ Sums(next, from, d) /\ next <= to /\ d <= to - from /\ c + d <= Len(bytes)
      <4>1. d <= to - from BY <1>6, <2>1, <2>4 DEF Sums
      <4> QED BY <1>1, <1>5, <1>6, <1>11, <2>1, <2>4, <4>1
    <3>2. p.list.length >= d BY ONLY <3>1, Taken
    <3>3. Join(p.list, d) = Slice(bytes, c, d) BY ONLY <3>1, Reads
    <3>4. At(Takes(p, d, g), g, wire, next, to) BY ONLY <3>1, Taken
    <3>5. Takes(p, 4, g) = Parser(g, Advance(p.list, 4), p.maskBytes, FALSE) BY <1>6, TakesIs
    <3>6. Has(p, "mask", 4) BY <1>6, <1>7, <2>1, <3>2 DEF Has
    <3>7. PICK key : key = Join(p.list, 4) OBVIOUS
    <3>8. key = KeyOf(bytes) BY <1>5, <2>1, <3>3, <3>7 DEF KeyOf
    <3>9. DecodeMask(p) = [Takes(p, 4, g) EXCEPT !.maskBytes = key]
      BY <1>9, <2>2, <3>6, <3>7 DEF DecodeMask, Moved
    <3>10. DecodeMask(p) = Parser(g, Advance(p.list, 4), key, FALSE) 
      <4>1. Keyed(Takes(p, 4, g), key) = Parser(g, Advance(p.list, 4), key, FALSE)
        <5>1. PICK no, t, left, old : no = FALSE /\ t = Takes(p, 4, g) /\ left = Advance(p.list, 4) /\ old = p.maskBytes
          OBVIOUS
        <5>2. t = Parser(g, left, old, no) BY <3>5, <5>1
        <5>3. Keyed(t, key) = Parser(g, left, key, no) BY ONLY <5>2, ParserKeyed
        <5> QED BY ONLY <5>1, <5>3
      <4>2. DecodeMask(p) = Keyed(Takes(p, 4, g), key) BY ONLY <3>9 DEF Keyed
      <4> QED BY ONLY <4>1, <4>2
    <3>11. PICK q : q = DecodeMask(p) OBVIOUS
    <3>12. Holds(Advance(p.list, 4), wire, next, to) BY <2>1, <3>4, <3>5 DEF At, Parser
    <3>13. q.frame = g /\ q.list = Advance(p.list, 4) /\ q.maskBytes = key
           /\ q = Parser(q.frame, q.list, q.maskBytes, FALSE)
      BY <3>10, <3>11 DEF Parser
    <3>14. At(q, g, wire, next, to) BY <3>12, <3>13 DEF At
    <3>15. AtPayload(q, bytes, wire, at, to) BY <1>1, <1>5, <1>8, <2>1, <3>8, <3>13, <3>14 DEF AtPayload
    <3> QED BY <2>1, <2>4, <3>11, <3>15
  <2> QED BY <2>3, <2>4
<1> QED BY <1>12, <1>13

\* decodePayload(): a frame that is too long is rejected, one that is not whole
\* waits, and of one that is whole the data are unmasked.
LEMMA PayloadStep ==
  ASSUME NEW p, NEW bytes, NEW wire, NEW at, NEW to, Piece(bytes, wire, at),
         AtPayload(p, bytes, wire, at, to)
  PROVE  LET q == DecodePayload(p)
         IN IF to < at + Decided(bytes) THEN q = p
            ELSE Rejects(q, bytes, at, to) \/ Completes(q, bytes, wire, at, to)
<1>1. /\ ~BadControl(bytes) /\ ~TooLong(bytes)
      /\ At(p, HeaderOf(bytes, "payload", Declared(bytes)), wire, at + BodyAt(bytes), to)
      /\ bytes[2] >= MaskBit => p.maskBytes = KeyOf(bytes)
  BY DEF AtPayload
<1>2. Declared(bytes) \in Nat /\ BodyAt(bytes) \in Nat BY <1>1, PieceNumbers
<1>3. MaxFrame \in Nat BY LimitsAssumption
<1>4. PICK n \in Nat, c \in Nat : n = Declared(bytes) /\ c = BodyAt(bytes) BY <1>2
<1>5. PICK from \in Nat : from = at + c /\ Sums(from, at, c)
  <2>1. PICK a \in Nat : a = at BY DEF Piece
  <2>2. a + c \in Nat OBVIOUS
  <2> QED BY <2>1, <2>2 DEF Sums
<1>6. /\ p.frame = HeaderOf(bytes, "payload", n) /\ p.done = FALSE
      /\ p = Parser(p.frame, p.list, p.maskBytes, FALSE) /\ Holds(p.list, wire, from, to)
      /\ at \in Nat /\ to \in Nat /\ from <= to /\ p.list.length = to - from
  BY <1>1, <1>4, <1>5 DEF At, Parser, Holds, Piece
<1>7. /\ p.frame.state = "payload" /\ p.frame.length = n /\ p.frame.mask = (bytes[2] >= MaskBit)
  BY <1>6 DEF HeaderOf
<1>8. Has(p, "payload", 0) BY <1>6, <1>7 DEF Has
<1>9. Decided(bytes) = c + (IF n > MaxFrame THEN 0 ELSE n) BY <1>1, <1>4 DEF Decided
<1>10. CASE n > MaxFrame
  <2>1. Decided(bytes) = c /\ at + Decided(bytes) = from BY <1>5, <1>6, <1>9, <1>10
  <2>2. DecodePayload(p) = [p EXCEPT !.frame.bad = TRUE, !.done = TRUE] BY <1>7, <1>8, <1>10 DEF DecodePayload
  <2>3. PICK q : q = DecodePayload(p) OBVIOUS
  <2>4. q.done = TRUE /\ q.frame = [p.frame EXCEPT !.bad = TRUE] BY <1>6, <2>2, <2>3 DEF Parser
  <2>5. q.frame.bad = TRUE BY <1>6, <2>4 DEF HeaderOf
  <2>6. IsIllegal(bytes) BY <1>4, <1>10 DEF IsIllegal
  <2>7. Rejects(q, bytes, at, to) BY <1>6, <2>1, <2>4, <2>5, <2>6 DEF Rejects
  <2> QED BY <1>6, <2>1, <2>3, <2>7
<1>11. CASE n <= MaxFrame /\ n = 0
  <2>1. Decided(bytes) = c /\ at + Decided(bytes) = from /\ BodyAt(bytes) + Declared(bytes) = c
    BY <1>3, <1>4, <1>5, <1>6, <1>9, <1>11
  <2>2. DecodePayload(p) = [p EXCEPT !.frame.state = "complete", !.done = TRUE]
    BY <1>3, <1>7, <1>8, <1>11 DEF DecodePayload
  <2>3. PICK q : q = DecodePayload(p) OBVIOUS
  <2>4. q.done = TRUE /\ q.frame = [p.frame EXCEPT !.state = "complete"] /\ q.list = p.list
    BY <1>6, <2>2, <2>3 DEF Parser
  <2>5. q.frame = WholeOf(bytes)
    <3>1. WholeOf(bytes) = Moved(HeaderOf(bytes, "payload", n), "complete") BY <1>4, <1>11 DEF WholeOf
    <3> QED BY <1>6, <2>4, <3>1 DEF Moved
  <2>6. Completes(q, bytes, wire, at, to)
    BY <1>1, <1>4, <1>5, <1>6, <1>11, <2>1, <2>4, <2>5 DEF Completes
  <2> QED BY <1>6, <2>1, <2>3, <2>6
<1>12. CASE n <= MaxFrame /\ n # 0
  <2>1. Decided(bytes) = c + n /\ BodyAt(bytes) + Declared(bytes) = c + n BY <1>3, <1>4, <1>9, <1>12
  <2>2. PICK next \in Nat : next = at + (c + n) /\ Sums(next, from, n) BY <1>5, <1>6 DEF Sums
  <2>3. CASE to < next
    <3>1. p.list.length < n BY <1>6, <2>2, <2>3 DEF Sums
    <3>2. DecodePayload(p) = p BY <1>3, <1>7, <1>8, <1>12, <3>1 DEF DecodePayload
    <3> QED BY <2>1, <2>2, <2>3, <3>2
  <2>4. CASE ~(to < next)
    <3>1. /\ {at, from, to, c, n, next} \subseteq Nat /\ Piece(bytes, wire, at)
          /\ At(p, HeaderOf(bytes, "payload", n), wire, from, to)
          /\ Sums(from, at, c) /\ Sums(next, from, n) /\ next <= to /\ n <= to - from /\ c + n <= Len(bytes)
      <4>1. n <= to - from BY <1>6, <2>2, <2>4 DEF Sums
      <4>2. c + n <= Len(bytes) BY <2>1 DEF Piece
      <4> QED BY <1>1, <1>4, <1>5, <1>6, <2>2, <2>4, <4>1, <4>2
    <3>2. p.list.length >= n BY ONLY <3>1, Taken
    <3>3. Join(p.list, n) = Slice(bytes, c, n) BY ONLY <3>1, Reads
    <3>4. Join(p.list, n) = RawOf(bytes) BY <1>4, <3>3 DEF RawOf
    <3>5. PICK data : data = IF p.frame.mask THEN Unmask(Join(p.list, n), p.maskBytes) ELSE Join(p.list, n) OBVIOUS
    <3>6. data = BodyOf(bytes) BY <1>1, <1>7, <3>4, <3>5 DEF BodyOf
    <3>7. PICK body : body = IF ~IsClose(p.frame) THEN [p.frame EXCEPT !.payload = data]
                             ELSE IF n = 1 THEN [p.frame EXCEPT !.shortClose = TRUE]
                             ELSE [p.frame EXCEPT !.status = ReadUInt16(data, 0), !.payload = SubSeq(data, 3, n)]
      OBVIOUS
    <3>8. PICK g : g = Moved(body, "complete") OBVIOUS
    <3>9. WholeOf(bytes) = g
      <4>1. Declared(bytes) = n /\ n # 0 BY <1>4, <1>12
      <4> QED BY ONLY <1>6, <3>6, <3>7, <3>8, <4>1 DEF WholeOf
    <3>10. DecodePayload(p) = Ended(Takes(p, n, g), TRUE)
      <4>1. ~(n > MaxFrame) /\ n # 0 /\ ~(p.list.length < n)
        <5>1. p.list.length \in Int BY <1>6
        <5> QED BY <1>3, <1>12, <3>2, <5>1
      <4> QED BY ONLY <1>7, <1>8, <3>5, <3>7, <3>8, <4>1 DEF DecodePayload, Ended, Moved
    <3>11. PICK t, q : t = Takes(p, n, g) /\ q = Ended(t, TRUE) OBVIOUS
    <3>12. t = Parser(g, Advance(p.list, n), p.maskBytes, FALSE) BY <1>6, <3>11, TakesIs
    <3>13. q.frame = g /\ q.list = Advance(p.list, n) /\ q.done = TRUE
      <4>1. PICK no, yes, left, old : no = FALSE /\ yes = TRUE /\ left = Advance(p.list, n) /\ old = p.maskBytes
        OBVIOUS
      <4>2. t = Parser(g, left, old, no) BY <3>12, <4>1
      <4>3. Ended(t, yes) = Parser(g, left, old, yes) BY ONLY <4>2, ParserEnded
      <4>4. q = Parser(g, left, old, yes) BY <3>11, <4>1, <4>3
      <4> QED BY ONLY <4>1, <4>4 DEF Parser
    <3>14. At(t, g, wire, next, to)
      <4>1. At(Takes(p, n, g), g, wire, next, to) BY ONLY <3>1, Taken
      <4> QED BY <3>11, <4>1
    <3>15. Holds(q.list, wire, next, to) BY <3>12, <3>13, <3>14 DEF At, Parser
    <3>16. Completes(q, bytes, wire, at, to) BY <1>1, <1>4, <1>12, <2>1, <2>2, <3>9, <3>13, <3>15 DEF Completes
    <3> QED BY <2>1, <2>2, <2>4, <3>10, <3>11, <3>16
  <2> QED BY <2>3, <2>4
<1> QED BY <1>3, <1>10, <1>11, <1>12

-----------------------------------------------------------------------------
\* addData() as a whole: the parser waits for a byte that it needs, or has
\* rejected the piece, or has the frame in it.
AtStep(p, bytes, wire, at, to) ==
  \/ AtHeader(p, bytes, wire, at, to)
  \/ AtLength16(p, bytes, wire, at, to) \/ AtLength64(p, bytes, wire, at, to)
  \/ AtMask(p, bytes, wire, at, to) \/ AtPayload(p, bytes, wire, at, to)
Outcome(p, bytes, wire, at, to) ==
  \/ AtStep(p, bytes, wire, at, to) /\ to < at + Decided(bytes)
  \/ Rejects(p, bytes, at, to)
  \/ Completes(p, bytes, wire, at, to)

LEMMA StepStates ==
  ASSUME NEW p, NEW bytes, NEW wire, NEW at, NEW to
  PROVE  /\ AtHeader(p, bytes, wire, at, to) => p.frame.state = "header"
         /\ AtLength16(p, bytes, wire, at, to) => p.frame.state = "length16"
         /\ AtLength64(p, bytes, wire, at, to) => p.frame.state = "length64"
         /\ AtMask(p, bytes, wire, at, to) => p.frame.state = "mask"
         /\ AtPayload(p, bytes, wire, at, to) => p.frame.state = "payload"
<1>1. ASSUME NEW t, NEW n, NEW from, At(p, HeaderOf(bytes, t, n), wire, from, to) PROVE p.frame.state = t
  <2>1. p.frame = HeaderOf(bytes, t, n) BY <1>1 DEF At
  <2> QED BY <2>1 DEF HeaderOf
<1>2. AtHeader(p, bytes, wire, at, to) => p.frame.state = "header" BY DEF AtHeader, At, NewFrame
<1> QED BY <1>1, <1>2 DEF AtLength16, AtLength64, AtMask, AtPayload

\* How many bytes each step needs at least.
LEMMA StepNeeds ==
  ASSUME NEW bytes, NEW wire, NEW at, Piece(bytes, wire, at)
  PROVE  /\ Decided(bytes) >= 2
         /\ ~BadControl(bytes) /\ Code(bytes) = Length16 => Decided(bytes) >= 4
         /\ ~BadControl(bytes) /\ Code(bytes) = Length64 => Decided(bytes) >= 10
         /\ ~BadControl(bytes) /\ ~TooLong(bytes) => Decided(bytes) >= BodyAt(bytes)
<1>1. LengthSize(bytes) \in {0, 2, 8} BY PieceNumbers
<1>2. ~BadControl(bytes) => /\ Declared(bytes) \in Nat /\ BodyAt(bytes) \in Nat
                            /\ BodyAt(bytes) = 2 + LengthSize(bytes) + (IF bytes[2] >= MaskBit THEN 4 ELSE 0)
  BY PieceNumbers
<1>3. Length16 # Length64 /\ MaxFrame \in Nat BY LengthsAssumption, LimitsAssumption DEF Length16, Length64
<1>4. ~BadControl(bytes) /\ ~TooLong(bytes) => Decided(bytes) >= BodyAt(bytes) BY <1>2, <1>3 DEF Decided
<1>5. ~BadControl(bytes) => BodyAt(bytes) >= 2 + LengthSize(bytes) BY <1>1, <1>2
<1>6. CASE BadControl(bytes) BY <1>6 DEF Decided
<1>7. CASE ~BadControl(bytes) /\ TooLong(bytes)
  <2>1. Decided(bytes) = 10 /\ Code(bytes) = Length64 BY <1>7 DEF Decided, TooLong
  <2> QED BY <1>3, <1>7, <2>1
<1>8. CASE ~BadControl(bytes) /\ ~TooLong(bytes)
  <2>1. PICK b \in Nat : b = BodyAt(bytes) BY <1>2, <1>8
  <2>2. PICK s \in Nat : s = LengthSize(bytes) BY <1>1
  <2>3. Decided(bytes) \in Nat BY PieceNumbers
  <2>4. Decided(bytes) >= b /\ b >= 2 + s BY <1>4, <1>5, <1>8, <2>1, <2>2
  <2>5. (Code(bytes) = Length16 => s = 2) /\ (Code(bytes) = Length64 => s = 8)
    BY <1>3, <2>2 DEF LengthSize
  <2> QED BY <1>4, <1>8, <2>3, <2>4, <2>5
<1> QED BY <1>6, <1>7, <1>8

\* What is done stays as it is.
LEMMA OverIsOver ==
  ASSUME NEW p, p.done = TRUE
  PROVE  /\ DecodePayload(p) = p
         /\ DecodePayload(DecodeMask(p)) = p
         /\ DecodePayload(DecodeMask(DecodeLength(p))) = p
         /\ DecodePayload(DecodeMask(DecodeLength(DecodeHeader(p)))) = p
<1>1. DecodePayload(p) = p /\ DecodeMask(p) = p /\ DecodeLength(p) = p /\ DecodeHeader(p) = p BY Idle
<1> QED BY <1>1

LEMMA FromPayload ==
  ASSUME NEW p, NEW bytes, NEW wire, NEW at, NEW to, Piece(bytes, wire, at),
         AtPayload(p, bytes, wire, at, to)
  PROVE  Outcome(DecodePayload(p), bytes, wire, at, to)
<1>1. PICK q : q = DecodePayload(p) OBVIOUS
<1>2. IF to < at + Decided(bytes) THEN q = p
      ELSE Rejects(q, bytes, at, to) \/ Completes(q, bytes, wire, at, to)
  BY <1>1, PayloadStep
<1>3. Outcome(q, bytes, wire, at, to) BY <1>2 DEF Outcome, AtStep
<1> QED BY <1>1, <1>3

\* Bytes short of one the parser needs.
LEMMA Short1 ==
  ASSUME NEW a, NEW to, NEW b, NEW c, a \in Nat, to \in Nat, b \in Nat, c \in Nat, to < a + b, c >= b
  PROVE  to < a + c
OBVIOUS

LEMMA FromMask ==
  ASSUME NEW p, NEW bytes, NEW wire, NEW at, NEW to, Piece(bytes, wire, at), to \in Nat,
         AtMask(p, bytes, wire, at, to) \/ AtPayload(p, bytes, wire, at, to)
  PROVE  Outcome(DecodePayload(DecodeMask(p)), bytes, wire, at, to)
<1>1. CASE AtPayload(p, bytes, wire, at, to)
  <2>1. DecodeMask(p) = p
    <3>1. p.frame.state # "mask" BY <1>1, StepStates
    <3> QED BY <3>1, Idle
  <2> QED BY <1>1, <2>1, FromPayload
<1>2. CASE AtMask(p, bytes, wire, at, to)
  <2>1. PICK q : q = DecodeMask(p) OBVIOUS
  <2>2. IF to < at + BodyAt(bytes) THEN q = p ELSE AtPayload(q, bytes, wire, at, to) BY <1>2, <2>1, MaskStep
  <2>3. CASE to < at + BodyAt(bytes)
    <3>1. p.frame.state = "mask" BY <1>2, StepStates
    <3>2. DecodePayload(q) = p
      <4>1. DecodePayload(p) = p BY <3>1, Idle
      <4> QED BY <2>2, <2>3, <4>1
    <3>3. to < at + Decided(bytes)
      <4>1. ~BadControl(bytes) /\ ~TooLong(bytes) BY <1>2 DEF AtMask
      <4>2. Decided(bytes) >= BodyAt(bytes) BY <4>1, StepNeeds
      <4>3. BodyAt(bytes) \in Nat BY <4>1, PieceNumbers
      <4>4. Decided(bytes) \in Nat BY PieceNumbers
      <4>5. at \in Nat BY DEF Piece
      <4> QED BY ONLY <2>3, <4>2, <4>3, <4>4, <4>5, to \in Nat, Short1
    <3> QED BY <1>2, <2>1, <3>2, <3>3 DEF Outcome, AtStep
  <2>4. CASE ~(to < at + BodyAt(bytes)) BY <2>1, <2>2, <2>4, FromPayload
  <2> QED BY <2>3, <2>4
<1> QED BY <1>1, <1>2

LEMMA FromLength ==
  ASSUME NEW p, NEW bytes, NEW wire, NEW at, NEW to, Piece(bytes, wire, at), to \in Nat,
         \/ AtLength16(p, bytes, wire, at, to) \/ AtLength64(p, bytes, wire, at, to)
         \/ AtMask(p, bytes, wire, at, to) \/ AtPayload(p, bytes, wire, at, to)
  PROVE  Outcome(DecodePayload(DecodeMask(DecodeLength(p))), bytes, wire, at, to)
<1>1. at \in Nat BY DEF Piece
<1>2. Decided(bytes) \in Nat BY PieceNumbers
<1>3. CASE AtMask(p, bytes, wire, at, to) \/ AtPayload(p, bytes, wire, at, to)
  <2>1. DecodeLength(p) = p
    <3>1. p.frame.state \notin {"length16", "length64"}
      <4>1. p.frame.state = "mask" \/ p.frame.state = "payload" BY <1>3, StepStates
      <4> QED BY <4>1
    <3> QED BY <3>1, Idle
  <2> QED BY <1>3, <2>1, FromMask
<1>4. ASSUME p.frame.state = "length16" \/ p.frame.state = "length64"
      PROVE  DecodePayload(DecodeMask(p)) = p
  <2>1. DecodeMask(p) = p
    <3>1. p.frame.state # "mask" BY <1>4
    <3> QED BY <3>1, Idle
  <2>2. DecodePayload(p) = p
    <3>1. p.frame.state # "payload" BY <1>4
    <3> QED BY <3>1, Idle
  <2> QED BY <2>1, <2>2
<1>5. PICK q : q = DecodeLength(p) OBVIOUS
<1>6. CASE AtLength16(p, bytes, wire, at, to)
  <2>1. IF to < at + 4 THEN q = p ELSE AtMask(q, bytes, wire, at, to) BY <1>5, <1>6, Length16Step
  <2>2. CASE to < at + 4
    <3>1. DecodePayload(DecodeMask(q)) = p
      <4>1. p.frame.state = "length16" BY <1>6, StepStates
      <4> QED BY <1>4, <2>1, <2>2, <4>1
    <3>2. Decided(bytes) >= 4
      <4>1. ~BadControl(bytes) /\ Code(bytes) = Length16 BY <1>6 DEF AtLength16
      <4> QED BY <4>1, StepNeeds
    <3>3. to < at + Decided(bytes) BY ONLY <1>1, <1>2, <2>2, <3>2, to \in Nat
    <3> QED BY <1>5, <1>6, <3>1, <3>3 DEF Outcome, AtStep
  <2>3. CASE ~(to < at + 4) BY <1>5, <2>1, <2>3, FromMask
  <2> QED BY <2>2, <2>3
<1>7. CASE AtLength64(p, bytes, wire, at, to)
  <2>1. IF to < at + 10 THEN q = p
        ELSE Rejects(q, bytes, at, to) \/ AtMask(q, bytes, wire, at, to)
    BY <1>5, <1>7, Length64Step
  <2>2. CASE to < at + 10
    <3>1. DecodePayload(DecodeMask(q)) = p
      <4>1. p.frame.state = "length64" BY <1>7, StepStates
      <4> QED BY <1>4, <2>1, <2>2, <4>1
    <3>2. Decided(bytes) >= 10
      <4>1. ~BadControl(bytes) /\ Code(bytes) = Length64 BY <1>7 DEF AtLength64
      <4> QED BY <4>1, StepNeeds
    <3>3. to < at + Decided(bytes) BY ONLY <1>1, <1>2, <2>2, <3>2, to \in Nat
    <3> QED BY <1>5, <1>7, <3>1, <3>3 DEF Outcome, AtStep
  <2>3. CASE ~(to < at + 10) /\ Rejects(q, bytes, at, to)
    <3>1. q.done = TRUE BY <2>3 DEF Rejects
    <3>2. DecodePayload(DecodeMask(q)) = q BY <3>1, OverIsOver
    <3> QED BY <1>5, <2>3, <3>2 DEF Outcome
  <2>4. CASE ~(to < at + 10) /\ ~Rejects(q, bytes, at, to) BY <1>5, <2>1, <2>4, FromMask
  <2> QED BY <2>2, <2>3, <2>4
<1> QED BY <1>3, <1>6, <1>7

\* The four steps of addData().
Decode(p) == DecodePayload(DecodeMask(DecodeLength(DecodeHeader(p))))

THEOREM DecodeStep ==
  ASSUME NEW p, NEW bytes, NEW wire, NEW at, NEW to, Piece(bytes, wire, at), to \in Nat,
         AtStep(p, bytes, wire, at, to)
  PROVE  Outcome(Decode(p), bytes, wire, at, to)
<1>1. at \in Nat BY DEF Piece
<1>2. Decided(bytes) \in Nat BY PieceNumbers
<1>3. CASE ~AtHeader(p, bytes, wire, at, to)
  <2>1. \/ AtLength16(p, bytes, wire, at, to) \/ AtLength64(p, bytes, wire, at, to)
        \/ AtMask(p, bytes, wire, at, to) \/ AtPayload(p, bytes, wire, at, to)
    BY <1>3 DEF AtStep
  <2>2. DecodeHeader(p) = p
    <3>1. p.frame.state \in {"length16", "length64", "mask", "payload"} BY <2>1, StepStates
    <3>2. p.frame.state # "header" BY <3>1
    <3> QED BY <3>2, Idle
  <2> QED BY <2>1, <2>2, FromLength DEF Decode
<1>4. CASE AtHeader(p, bytes, wire, at, to)
  <2>1. PICK q : q = DecodeHeader(p) OBVIOUS
  <2>2. IF to < at + 2 THEN q = p
        ELSE \/ Rejects(q, bytes, at, to) \/ AtLength16(q, bytes, wire, at, to)
             \/ AtLength64(q, bytes, wire, at, to) \/ AtMask(q, bytes, wire, at, to)
    BY <1>4, <2>1, HeaderStep
  <2>3. CASE to < at + 2
    <3>1. p.frame.state = "header" BY <1>4, StepStates
    <3>2. /\ p.frame.state # "payload" /\ p.frame.state # "mask"
          /\ p.frame.state \notin {"length16", "length64"}
      BY <3>1
    <3>3. DecodePayload(p) = p /\ DecodeMask(p) = p /\ DecodeLength(p) = p BY <3>2, Idle
    <3>4. Decode(p) = p BY <2>1, <2>2, <2>3, <3>3 DEF Decode
    <3>5. Decided(bytes) >= 2 BY StepNeeds
    <3>6. to < at + Decided(bytes) BY ONLY <1>1, <1>2, <2>3, <3>5, to \in Nat
    <3> QED BY <1>4, <3>4, <3>6 DEF Outcome, AtStep
  <2>4. CASE ~(to < at + 2) /\ Rejects(q, bytes, at, to)
    <3>1. q.done = TRUE BY <2>4 DEF Rejects
    <3>2. DecodePayload(DecodeMask(DecodeLength(q))) = q BY <3>1, OverIsOver
    <3> QED BY <2>1, <2>4, <3>2 DEF Outcome, Decode
  <2>5. CASE ~(to < at + 2) /\ ~Rejects(q, bytes, at, to)
    <3>1. Outcome(DecodePayload(DecodeMask(DecodeLength(q))), bytes, wire, at, to)
      BY <2>2, <2>5, FromLength
    <3> QED BY <2>1, <3>1 DEF Decode
  <2> QED BY <2>3, <2>4, <2>5
<1> QED BY <1>3, <1>4

-----------------------------------------------------------------------------
\* Numbers in bytes: division gives one quotient and one rest.
LEMMA Division ==
  ASSUME NEW v \in Nat, NEW r \in Nat, r > 0
  PROVE  v \div r \in Nat /\ v % r \in 0..(r - 1) /\ v = (v \div r) * r + (v % r)
OBVIOUS

LEMMA ProductGrows ==
  ASSUME NEW a \in Nat, NEW b \in Nat, NEW c \in Nat, a <= b
  PROVE  a * c <= b * c
OBVIOUS

LEMMA OneQuotient ==
  ASSUME NEW a \in Nat, NEW b \in Nat, NEW r \in Nat, NEW m \in 0..(r - 1), NEW k \in 0..(r - 1),
         a * r + m = b * r + k
  PROVE  a = b /\ m = k
<1>1. ASSUME NEW x \in Nat, NEW y \in Nat, NEW u \in 0..(r - 1), NEW w \in 0..(r - 1), x * r + u = y * r + w, x < y
      PROVE  FALSE
  <2>1. x + 1 <= y BY <1>1
  <2>2. (x + 1) * r <= y * r BY <2>1, ProductGrows
  <2>3. (x + 1) * r = x * r + r OBVIOUS
  <2>4. PICK p \in Int, q \in Int : p = x * r /\ q = y * r OBVIOUS
  <2> QED BY <1>1, <2>2, <2>3, <2>4
<1>2. a = b BY <1>1
<1> QED BY <1>2

LEMMA QuotientBelow ==
  ASSUME NEW v \in Nat, NEW r \in Nat, NEW s \in Nat, r > 0, v < s * r
  PROVE  v \div r < s
<1>1. v = (v \div r) * r + (v % r) /\ v \div r \in Nat /\ v % r \in Nat BY Division
<1>2. ASSUME s <= v \div r PROVE FALSE
  <2>1. s * r <= (v \div r) * r BY <1>1, <1>2, ProductGrows
  <2> QED BY <1>1, <2>1
<1> QED BY <1>1, <1>2

\* Two digits hold what is less than the square of the radix.
LEMMA TwoDigits ==
  ASSUME NEW v \in Nat, NEW r \in Nat, r > 0
  PROVE  /\ v \div (r * r) = (v \div r) \div r
         /\ v % (r * r) = ((v \div r) % r) * r + (v % r)
<1>1. PICK q \in Nat, m \in 0..(r - 1) : q = v \div r /\ m = v % r /\ v = q * r + m BY Division
<1>2. PICK h \in Nat, k \in 0..(r - 1) : h = q \div r /\ k = q % r /\ q = h * r + k BY Division
<1>3. PICK s \in Nat : s = r * r /\ s > 0
  <2>1. r * r \in Nat /\ r * r > 0 OBVIOUS
  <2> QED BY <2>1
<1>4. k * r + m \in 0..(s - 1)
  <2>1. (k + 1) * r <= r * r BY ProductGrows
  <2>2. (k + 1) * r = k * r + r OBVIOUS
  <2>3. PICK y \in Nat : y = k * r OBVIOUS
  <2> QED BY <1>3, <2>1, <2>2, <2>3
<1>5. v = h * s + (k * r + m)
  <2>1. v = (h * r + k) * r + m BY <1>1, <1>2
  <2>2. (h * r + k) * r = h * (r * r) + k * r OBVIOUS
  <2>3. PICK y \in Nat, z \in Nat : y = k * r /\ z = h * (r * r) OBVIOUS
  <2> QED BY <1>3, <2>1, <2>2, <2>3
<1>6. v \div s \in Nat /\ v % s \in 0..(s - 1) /\ v = (v \div s) * s + (v % s) BY <1>3, Division
<1>7. v \div s = h /\ v % s = k * r + m
  <2>1. PICK x \in Nat, y \in 0..(s - 1), z \in 0..(s - 1) : x = v \div s /\ y = v % s /\ z = k * r + m
    BY <1>4, <1>6
  <2>2. x * s + y = h * s + z BY <1>5, <1>6, <2>1
  <2>3. x = h /\ y = z BY <2>2, OneQuotient
  <2> QED BY <2>1, <2>3
<1> QED BY <1>1, <1>2, <1>3, <1>7

LEMMA RadixFacts ==
  /\ Radix \in Nat /\ Radix > 1 /\ Radix * Radix \in Nat /\ Radix * Radix > Short + 1
  /\ Short \in Nat /\ Short >= 2 /\ Byte \subseteq Nat
<1>1. Radix \in Nat /\ Radix * Radix > Short + 1 /\ Short \in Nat /\ Short >= 2 BY LengthsAssumption
<1>2. Radix # 0 /\ Radix # 1
  <2>1. Radix = 0 => Radix * Radix = 0 OBVIOUS
  <2>2. Radix = 1 => Radix * Radix = 1 OBVIOUS
  <2> QED BY <1>1, <2>1, <2>2
<1>3. Radix * Radix \in Nat BY <1>1
<1> QED BY <1>1, <1>2, <1>3 DEF Byte

\* writeUInt16BE() writes what readUInt16BE() reads, without its upper bits.
LEMMA UInt16Reads ==
  ASSUME NEW v \in Nat
  PROVE  /\ UInt16(v) \in Seq(Byte) /\ Len(UInt16(v)) = 2
         /\ UInt16(v)[1] * Radix + UInt16(v)[2] = v % (Radix * Radix)
<1>1. Radix \in Nat /\ Radix > 0 BY RadixFacts
<1>2. v \div Radix \in Nat /\ v % Radix \in Byte BY <1>1, Division DEF Byte
<1>3. (v \div Radix) % Radix \in Byte BY <1>1, <1>2, Division DEF Byte
<1>4. UInt16(v)[1] = (v \div Radix) % Radix /\ UInt16(v)[2] = v % Radix BY DEF UInt16
<1>5. v % (Radix * Radix) = ((v \div Radix) % Radix) * Radix + (v % Radix) BY <1>1, TwoDigits
<1>6. UInt16(v) \in Seq(Byte) /\ Len(UInt16(v)) = 2
  <2>1. PICK a \in Byte, b \in Byte : a = (v \div Radix) % Radix /\ b = v % Radix BY <1>2, <1>3
  <2>2. UInt16(v) = <<a, b>> BY <2>1 DEF UInt16
  <2> QED BY ONLY <2>2, a \in Byte, b \in Byte
<1> QED BY <1>4, <1>5, <1>6

LEMMA SmallRest ==
  ASSUME NEW v \in Nat, NEW m \in Nat, v < m
  PROVE  v % m = v
OBVIOUS

LEMMA UInt32Reads ==
  ASSUME NEW v \in Nat, v < Radix * Radix * Radix * Radix
  PROVE  /\ UInt32(v) \in Seq(Byte) /\ Len(UInt32(v)) = 4
         /\ (UInt32(v)[1] * Radix + UInt32(v)[2]) * (Radix * Radix) + (UInt32(v)[3] * Radix + UInt32(v)[4]) = v
<1>1. PICK s \in Nat : s = Radix * Radix /\ s > 0 BY RadixFacts
<1>2. Radix * Radix * Radix * Radix = s * s
  <2>1. \A r \in Nat : r * r * r * r = (r * r) * (r * r) OBVIOUS
  <2> QED BY <1>1, <2>1, RadixFacts
<1>3. PICK h \in Nat, l \in Nat : h = v \div s /\ l = v % s /\ v = h * s + l BY <1>1, Division
<1>4. h < s BY <1>1, <1>2, <1>3, QuotientBelow
<1>5. h % s = h BY <1>1, <1>4, SmallRest
<1>6. PICK a, b : a = UInt16(h) /\ b = UInt16(v) OBVIOUS
<1>7. a \in Seq(Byte) /\ b \in Seq(Byte) /\ Len(a) = 2 /\ Len(b) = 2 BY <1>6, UInt16Reads
<1>8. a[1] * Radix + a[2] = h /\ b[1] * Radix + b[2] = l BY <1>1, <1>3, <1>5, <1>6, UInt16Reads
<1>9. PICK u : u = UInt32(v) OBVIOUS
<1>10. u = Cat(a, b) BY <1>1, <1>3, <1>6, <1>9 DEF UInt32, Cat
<1>11. u \in Seq(Byte) /\ Len(u) = 4 /\ u[1] = a[1] /\ u[2] = a[2] /\ u[3] = b[1] /\ u[4] = b[2]
  <2>1. a \in Seq(Byte) /\ b \in Seq(Byte) BY <1>7
  <2>2. Cat(a, b) \in Seq(Byte) /\ Len(Cat(a, b)) = Len(a) + Len(b) BY ONLY <2>1, CatIndex
  <2>3. \A i \in 1..Len(a) : Cat(a, b)[i] = a[i] BY ONLY <2>1, CatIndex
  <2>4. \A i \in 1..Len(b) : Cat(a, b)[Len(a) + i] = b[i] BY ONLY <2>1, CatIndex
  <2> QED BY ONLY <1>7, <1>10, <2>2, <2>3, <2>4
<1>12. (u[1] * Radix + u[2]) * s + (u[3] * Radix + u[4]) = v BY <1>3, <1>8, <1>11
<1> QED BY <1>1, <1>9, <1>11, <1>12

\* The code of a length, and the bytes behind it, of which readUInt16BE() and
\* readUInt32BE() make the length again.
LEMMA LengthReads ==
  ASSUME NEW n \in Nat, n <= MaxFrame
  PROVE  /\ LengthBytes(n) \in Seq(Byte) /\ LengthCode(n) \in 0..(Short + 2)
         /\ \/ LengthCode(n) = n /\ n <= Short /\ Len(LengthBytes(n)) = 0
            \/ /\ LengthCode(n) = Length16 /\ Len(LengthBytes(n)) = 2 /\ n > Short
               /\ ReadUInt16(LengthBytes(n), 0) = n
            \/ /\ LengthCode(n) = Length64 /\ Len(LengthBytes(n)) = 8 /\ n > Short
               /\ ReadUInt32(LengthBytes(n), 0) = 0 /\ ReadUInt32(LengthBytes(n), 4) = n
<1>1. Short \in Nat /\ Radix \in Nat /\ Radix * Radix \in Nat BY RadixFacts
<1>2. CASE n <= Short
  <2>1. LengthBytes(n) = <<>> /\ LengthCode(n) = n BY <1>2 DEF LengthBytes, LengthCode
  <2>2. <<>> \in Seq(Byte) /\ Len(<<>>) = 0 OBVIOUS
  <2> QED BY <1>1, <1>2, <2>1, <2>2
<1>3. CASE n > Short /\ n < Radix * Radix
  <2>1. LengthBytes(n) = UInt16(n) /\ LengthCode(n) = Length16 BY <1>1, <1>3 DEF LengthBytes, LengthCode
  <2>2. n % (Radix * Radix) = n BY <1>1, <1>3, SmallRest
  <2>3. UInt16(n) \in Seq(Byte) /\ Len(UInt16(n)) = 2 /\ UInt16(n)[1] * Radix + UInt16(n)[2] = n
    BY <2>2, UInt16Reads
  <2>4. ReadUInt16(LengthBytes(n), 0) = n BY <2>1, <2>3 DEF ReadUInt16
  <2> QED BY <1>1, <1>3, <2>1, <2>3, <2>4 DEF Length16
<1>4. CASE n > Short /\ ~(n < Radix * Radix)
  <2>1. PICK a, b : a = UInt32(0) /\ b = UInt32(n) OBVIOUS
  <2>2. PICK c : c = LengthBytes(n) OBVIOUS
  <2>3. c = Cat(a, b) /\ LengthCode(n) = Length64 BY <1>1, <1>4, <2>1, <2>2 DEF LengthBytes, LengthCode, Cat
  <2>4. n < Radix * Radix * Radix * Radix /\ 0 < Radix * Radix * Radix * Radix
    <3>1. PICK w : w = Radix * Radix * Radix * Radix OBVIOUS
    <3>2. w \in Nat BY <1>1, <3>1
    <3> QED BY <3>1, <3>2, LimitsAssumption
  <2>5. /\ a \in Seq(Byte) /\ Len(a) = 4
        /\ (a[1] * Radix + a[2]) * (Radix * Radix) + (a[3] * Radix + a[4]) = 0
    BY <2>1, <2>4, UInt32Reads
  <2>6. /\ b \in Seq(Byte) /\ Len(b) = 4
        /\ (b[1] * Radix + b[2]) * (Radix * Radix) + (b[3] * Radix + b[4]) = n
    BY <2>1, <2>4, UInt32Reads
  <2>7. a \in Seq(Byte) /\ b \in Seq(Byte) BY <2>5, <2>6
  <2>8. /\ c \in Seq(Byte) /\ Len(c) = 8 /\ c[1] = a[1] /\ c[2] = a[2] /\ c[3] = a[3] /\ c[4] = a[4]
        /\ c[5] = b[1] /\ c[6] = b[2] /\ c[7] = b[3] /\ c[8] = b[4]
    <3>1. Cat(a, b) \in Seq(Byte) /\ Len(Cat(a, b)) = Len(a) + Len(b) BY ONLY <2>7, CatIndex
    <3>2. \A i \in 1..Len(a) : Cat(a, b)[i] = a[i] BY ONLY <2>7, CatIndex
    <3>3. \A i \in 1..Len(b) : Cat(a, b)[Len(a) + i] = b[i] BY ONLY <2>7, CatIndex
    <3> QED BY ONLY <2>3, <2>5, <2>6, <3>1, <3>2, <3>3
  <2>9. ReadUInt32(c, 0) = 0 /\ ReadUInt32(c, 4) = n BY <2>5, <2>6, <2>8 DEF ReadUInt32, ReadUInt16
  <2> QED BY <1>1, <1>4, <2>2, <2>3, <2>8, <2>9 DEF Length64
<1> QED BY <1>1, <1>2, <1>3, <1>4

-----------------------------------------------------------------------------
\* The parts of a frame behind each other, and where they are.
Laid(w, head, lengths, key, body) == w = Cat(Cat(Cat(head, lengths), key), body)

LEMMA CatParts ==
  ASSUME NEW a \in Seq(Nat), NEW b \in Seq(Nat)
  PROVE  /\ Cat(a, b) \in Seq(Nat) /\ Len(Cat(a, b)) = Len(a) + Len(b)
         /\ \A i \in 1..Len(a) : Cat(a, b)[i] = a[i]
         /\ \A i \in 1..Len(b) : Cat(a, b)[Len(a) + i] = b[i]
<1>1. a \in Seq(Nat) /\ b \in Seq(Nat) OBVIOUS
<1>2. Cat(a, b) \in Seq(Nat) /\ Len(Cat(a, b)) = Len(a) + Len(b) BY ONLY <1>1, CatIndex
<1>3. \A i \in 1..Len(a) : Cat(a, b)[i] = a[i] BY ONLY <1>1, CatIndex
<1>4. \A i \in 1..Len(b) : Cat(a, b)[Len(a) + i] = b[i] BY ONLY <1>1, CatIndex
<1> QED BY <1>2, <1>3, <1>4

\* s lies in w behind the first c.
LiesIn(s, w, c) == s \in Seq(Nat) /\ \A i \in 1..Len(s) : w[c + i] = s[i]
LEMMA SliceIs ==
  ASSUME NEW w, NEW c, NEW s, LiesIn(s, w, c)
  PROVE  Slice(w, c, Len(s)) = s
<1>1. s \in Seq(Nat) /\ \A i \in 1..Len(s) : w[c + i] = s[i] BY DEF LiesIn
<1>2. s = [i \in 1..Len(s) |-> s[i]] BY ONLY <1>1
<1> QED BY ONLY <1>1, <1>2 DEF Slice

\* u is s, of x numbers, and then t, of y.
Joins(u, s, t, x, y) ==
  /\ u \in Seq(Nat) /\ Len(u) = x + y
  /\ \A i \in 1..x : u[i] = s[i]
  /\ \A i \in 1..y : u[x + i] = t[i]

LEMMA CatSized ==
  ASSUME NEW s \in Seq(Nat), NEW t \in Seq(Nat), NEW x \in Nat, NEW y \in Nat, x = Len(s), y = Len(t)
  PROVE  Joins(Cat(s, t), s, t, x, y)
<1>1. s \in Seq(Nat) /\ t \in Seq(Nat) OBVIOUS
<1>2. Cat(s, t) \in Seq(Nat) /\ Len(Cat(s, t)) = Len(s) + Len(t) BY ONLY <1>1, CatParts
<1>3. \A i \in 1..Len(s) : Cat(s, t)[i] = s[i] BY ONLY <1>1, CatParts
<1>4. \A i \in 1..Len(t) : Cat(s, t)[Len(s) + i] = t[i] BY ONLY <1>1, CatParts
<1>5. Cat(s, t) \in Seq(Nat) /\ Len(Cat(s, t)) = x + y BY ONLY <1>2, x = Len(s), y = Len(t)
<1>6. \A i \in 1..x : Cat(s, t)[i] = s[i] BY ONLY <1>3, x = Len(s), ZenonT(20)
<1>7. \A i \in 1..y : Cat(s, t)[x + i] = t[i] BY ONLY <1>4, x = Len(s), y = Len(t), ZenonT(20)
<1> QED BY ONLY <1>5, <1>6, <1>7 DEF Joins

Cuts(w, head, lengths, key, body) ==
  /\ w \in Seq(Nat) /\ Len(w) = 2 + Len(lengths) + Len(key) + Len(body)
  /\ w[1] = head[1] /\ w[2] = head[2]
  /\ Slice(w, 2, Len(lengths)) = lengths
  /\ Slice(w, 2 + Len(lengths), Len(key)) = key
  /\ Slice(w, 2 + Len(lengths) + Len(key), Len(body)) = body
LEMMA LaidOut ==
  ASSUME NEW head \in Seq(Nat), NEW lengths \in Seq(Nat), NEW key \in Seq(Nat), NEW body \in Seq(Nat),
         NEW w, Laid(w, head, lengths, key, body), Len(head) = 2
  PROVE  Cuts(w, head, lengths, key, body)
<1>1. PICK l \in Nat, k \in Nat, n \in Nat : l = Len(lengths) /\ k = Len(key) /\ n = Len(body) OBVIOUS
<1>2. PICK a : a = Cat(head, lengths) OBVIOUS
<1>3. Joins(a, head, lengths, 2, l)
  <2>1. head \in Seq(Nat) /\ lengths \in Seq(Nat) BY <1>1
  <2>2. 2 \in Nat /\ l \in Nat /\ 2 = Len(head) /\ l = Len(lengths) BY <1>1
  <2>3. Joins(Cat(head, lengths), head, lengths, 2, l) BY ONLY <2>1, <2>2, CatSized
  <2> QED BY ONLY <1>2, <2>3
<1>4. PICK m \in Nat : m = 2 + l OBVIOUS
<1>5. PICK b : b = Cat(a, key) OBVIOUS
<1>6. Joins(b, a, key, m, k)
  <2>1. a \in Seq(Nat) /\ key \in Seq(Nat) BY <1>3 DEF Joins
  <2>2. m = Len(a) BY ONLY <1>3, <1>4 DEF Joins
  <2>3. m \in Nat /\ k \in Nat /\ m = Len(a) /\ k = Len(key) BY <1>1, <2>2
  <2>4. Joins(Cat(a, key), a, key, m, k) BY ONLY <2>1, <2>3, CatSized
  <2> QED BY ONLY <1>5, <2>4
<1>7. PICK z \in Nat : z = m + k OBVIOUS
<1>8. Joins(w, b, body, z, n)
  <2>1. b \in Seq(Nat) /\ body \in Seq(Nat) BY <1>6 DEF Joins
  <2>2. z = Len(b) BY ONLY <1>6, <1>7 DEF Joins
  <2>3. z \in Nat /\ n \in Nat /\ z = Len(b) /\ n = Len(body) BY <1>1, <2>2
  <2>4. Joins(Cat(b, body), b, body, z, n) BY ONLY <2>1, <2>3, CatSized
  <2>5. w = Cat(b, body) BY <1>2, <1>5 DEF Laid
  <2> QED BY ONLY <2>4, <2>5
<1>9. \A i \in 1..m : w[i] = a[i]
  <2>1. \A i \in 1..m : i \in 1..z BY <1>7
  <2>2. \A i \in 1..m : b[i] = a[i] BY ONLY <1>6 DEF Joins
  <2>3. \A i \in 1..z : w[i] = b[i] BY ONLY <1>8 DEF Joins
  <2> QED BY ONLY <2>1, <2>2, <2>3
<1>10. w[1] = head[1] /\ w[2] = head[2]
  <2>1. 1 \in 1..m /\ 2 \in 1..m BY <1>4
  <2>2. \A i \in 1..2 : a[i] = head[i] BY ONLY <1>3 DEF Joins
  <2>3. a[1] = head[1] /\ a[2] = head[2] BY ONLY <2>2
  <2> QED BY ONLY <1>9, <2>1, <2>3
<1>11. \A i \in 1..l : w[2 + i] = lengths[i]
  <2>1. \A i \in 1..l : 2 + i \in 1..m BY <1>4
  <2>2. \A i \in 1..l : a[2 + i] = lengths[i] BY ONLY <1>3 DEF Joins
  <2> QED BY ONLY <1>9, <2>1, <2>2
<1>12. \A i \in 1..k : w[m + i] = key[i]
  <2>1. \A i \in 1..k : m + i \in 1..z BY <1>7
  <2>2. \A i \in 1..k : b[m + i] = key[i] BY ONLY <1>6 DEF Joins
  <2>3. \A i \in 1..z : w[i] = b[i] BY ONLY <1>8 DEF Joins
  <2> QED BY ONLY <2>1, <2>2, <2>3
<1>13. w \in Seq(Nat) /\ Len(w) = 2 + l + k + n /\ m = 2 + l /\ z = 2 + l + k
  <2>1. w \in Seq(Nat) /\ Len(w) = z + n BY ONLY <1>8 DEF Joins
  <2> QED BY <1>4, <1>7, <2>1
<1>14. \A i \in 1..n : w[z + i] = body[i] BY ONLY <1>8 DEF Joins
<1>15. Slice(w, 2, l) = lengths
  <2>1. LiesIn(lengths, w, 2) BY ONLY <1>1, <1>11, lengths \in Seq(Nat) DEF LiesIn
  <2> QED BY ONLY <1>1, <2>1, SliceIs
<1>16. Slice(w, m, k) = key
  <2>1. LiesIn(key, w, m) BY ONLY <1>1, <1>12, key \in Seq(Nat) DEF LiesIn
  <2> QED BY ONLY <1>1, <2>1, SliceIs
<1>17. Slice(w, z, n) = body
  <2>1. LiesIn(body, w, z) BY ONLY <1>1, <1>14, body \in Seq(Nat) DEF LiesIn
  <2> QED BY ONLY <1>1, <2>1, SliceIs
<1> QED BY <1>1, <1>10, <1>13, <1>15, <1>16, <1>17 DEF Cuts

\* mask() keeps the length of the data, and unmask() undoes it.
LEMMA Masked ==
  ASSUME NEW data \in Seq(Byte), NEW key \in Masks
  PROVE  /\ Mask(data, key) \in Seq(Byte) /\ Len(Mask(data, key)) = Len(data)
         /\ Unmask(Mask(data, key), key) = data
         /\ key \in Seq(Byte) /\ Len(key) = 4
<1>1. PICK n \in Nat : n = Len(data) /\ DOMAIN data = 1..n OBVIOUS
<1>2. \A i \in 1..n : data[i] \in Byte BY <1>1
<1>3. \A i \in 1..n : key[((i - 1) % 4) + 1] \in Byte
  <2>1. \A i \in 1..n : ((i - 1) % 4) + 1 \in 1..4 OBVIOUS
  <2>2. \A j \in 1..4 : key[j] \in Byte BY DEF Masks
  <2> QED BY <2>1, <2>2
<1>4. PICK m : m = Mask(data, key) OBVIOUS
<1>5. m = [i \in 1..n |-> Xor(data[i], key[((i - 1) % 4) + 1])] BY <1>1, <1>4 DEF Mask
<1>6. \A i \in 1..n : m[i] = Xor(data[i], key[((i - 1) % 4) + 1]) BY ONLY <1>5
<1>7. \A i \in 1..n : m[i] \in Byte BY <1>2, <1>3, <1>6, XorAssumption
<1>8. m \in [1..n -> Byte] BY ONLY <1>5, <1>6, <1>7
<1>9. m \in Seq(Byte) /\ Len(m) = n /\ DOMAIN m = 1..n BY ONLY <1>8, n \in Nat
<1>10. PICK u : u = Unmask(m, key) OBVIOUS
<1>11. u = [i \in 1..n |-> Xor(m[i], key[((i - 1) % 4) + 1])] BY <1>9, <1>10 DEF Unmask, Mask
<1>12. \A i \in 1..n : u[i] = Xor(m[i], key[((i - 1) % 4) + 1]) BY ONLY <1>11
<1>13. \A i \in 1..n : u[i] = data[i]
  <2> SUFFICES ASSUME NEW i \in 1..n PROVE u[i] = data[i] OBVIOUS
  <2>1. PICK a \in Byte, b \in Byte : a = data[i] /\ b = key[((i - 1) % 4) + 1] BY <1>2, <1>3
  <2>2. u[i] = Xor(Xor(a, b), b) BY <1>6, <1>12, <2>1
  <2> QED BY <2>1, <2>2, XorAssumption
<1>14. u \in [1..n -> Byte] BY ONLY <1>2, <1>11, <1>13
<1>15. u \in Seq(Byte) /\ Len(u) = n BY ONLY <1>14, n \in Nat
<1>16. u = data BY ONLY <1>1, <1>13, <1>15, data \in Seq(Byte), SameElements
<1>17. key \in Seq(Byte) /\ Len(key) = 4
  <2>1. PICK l \in Nat : l = 4 OBVIOUS
  <2>2. key \in [1..l -> Byte] BY <2>1 DEF Masks
  <2>3. key \in Seq(Byte) /\ Len(key) = l BY ONLY <2>2, l \in Nat
  <2> QED BY <2>1, <2>3
<1> QED BY <1>1, <1>4, <1>9, <1>10, <1>16, <1>17

\* The parser reads in the bytes of a frame what toBuffer() put into them.
IsFramed(bytes, fin, opcode, data, key) ==
  /\ bytes = Framed(fin, opcode, data, key)
  /\ fin \in BOOLEAN /\ opcode \in 0..15 /\ data \in Seq(Byte) /\ key \in Masks \cup {NoMask}
  /\ Len(data) <= MaxFrame
  /\ opcode >= 8 => fin /\ Len(data) <= Short

PartsOf(bytes, fin, opcode, n, key, data, lengths, mask, body) ==
  /\ n = Len(data) /\ lengths = LengthBytes(n)
  /\ mask = key /\ Len(mask) = (IF key = NoMask THEN 0 ELSE 4)
  /\ body = (IF key = NoMask THEN data ELSE Mask(data, key)) /\ Len(body) = n
  /\ bytes \in Seq(Nat) /\ Len(bytes) = 2 + Len(lengths) + Len(mask) + n
  /\ bytes[1] = (IF fin THEN opcode + 128 ELSE opcode)
  /\ bytes[2] = (IF key = NoMask THEN LengthCode(n) ELSE LengthCode(n) + MaskBit)
  /\ Slice(bytes, 2, Len(lengths)) = lengths
  /\ Slice(bytes, 2 + Len(lengths), Len(mask)) = mask
  /\ Slice(bytes, 2 + Len(lengths) + Len(mask), n) = body

LEMMA BytesAreNumbers ==
  ASSUME NEW s \in Seq(Byte)
  PROVE  s \in Seq(Nat)
<1>1. Byte \subseteq Nat BY RadixFacts
<1>2. PICK n \in Nat : n = Len(s) OBVIOUS
<1>3. s \in [1..n -> Byte] BY <1>2
<1>4. s \in [1..n -> Nat] BY ONLY <1>1, <1>3
<1> QED BY ONLY <1>4, n \in Nat

LEMMA FramedParts ==
  ASSUME NEW bytes, NEW fin, NEW opcode, NEW data, NEW key, IsFramed(bytes, fin, opcode, data, key)
  PROVE  \E n \in Nat, lengths \in Seq(Byte), mask \in Seq(Byte), body \in Seq(Byte) :
           PartsOf(bytes, fin, opcode, n, key, data, lengths, mask, body)
<1>1. /\ fin \in BOOLEAN /\ opcode \in 0..15 /\ data \in Seq(Byte) /\ key \in Masks \cup {NoMask}
      /\ Len(data) <= MaxFrame
  BY DEF IsFramed
<1>2. PICK n \in Nat : n = Len(data) BY <1>1
<1>3. n <= MaxFrame BY <1>1, <1>2
<1>4. PICK code \in Nat, lengths \in Seq(Byte) : code = LengthCode(n) /\ lengths = LengthBytes(n)
  <2>1. LengthCode(n) \in 0..(Short + 2) /\ LengthBytes(n) \in Seq(Byte) BY <1>3, LengthReads
  <2> QED BY <2>1
<1>5. PICK mask \in Seq(Byte) : mask = key /\ Len(mask) = IF key = NoMask THEN 0 ELSE 4
  <2>1. CASE key = NoMask
    <3>1. NoMask \in Seq(Byte) /\ Len(NoMask) = 0 BY DEF NoMask
    <3> QED BY <2>1, <3>1
  <2>2. CASE key # NoMask
    <3>1. key \in Masks /\ data \in Seq(Byte) BY <1>1, <2>2
    <3>2. key \in Seq(Byte) /\ Len(key) = 4 BY <3>1, Masked
    <3> QED BY <2>2, <3>2
  <2> QED BY <2>1, <2>2
<1>6. PICK body \in Seq(Byte) : body = (IF key = NoMask THEN data ELSE Mask(data, key)) /\ Len(body) = n
  <2>1. CASE key = NoMask BY <1>1, <1>2, <2>1
  <2>2. CASE key # NoMask
    <3>1. key \in Masks /\ data \in Seq(Byte) BY <1>1, <2>2
    <3>2. Mask(data, key) \in Seq(Byte) /\ Len(Mask(data, key)) = Len(data) BY <3>1, Masked
    <3> QED BY <1>2, <2>2, <3>2
  <2> QED BY <2>1, <2>2
<1>7. PICK a \in Nat : a = opcode + (IF fin THEN 128 ELSE 0) /\ a = (IF fin THEN opcode + 128 ELSE opcode)
  <2>1. CASE fin = TRUE BY <1>1, <2>1
  <2>2. CASE fin = FALSE BY <1>1, <2>2
  <2> QED BY <1>1, <2>1, <2>2
<1>8. PICK b \in Nat : /\ b = code + (IF key = NoMask THEN 0 ELSE MaskBit)
                       /\ b = (IF key = NoMask THEN code ELSE code + MaskBit)
  <2>1. MaskBit \in Nat BY RadixFacts DEF MaskBit
  <2>2. CASE key = NoMask BY <2>2
  <2>3. CASE key # NoMask BY <2>1, <2>3
  <2> QED BY <2>2, <2>3
<1>9. PICK head \in Seq(Nat) : head = <<a, b>> /\ Len(head) = 2 /\ head[1] = a /\ head[2] = b
  <2>1. /\ <<a, b>> \in Seq(Nat) /\ Len(<<a, b>>) = 2 /\ <<a, b>>[1] = a /\ <<a, b>>[2] = b OBVIOUS
  <2> QED BY <2>1
<1>10. Laid(bytes, head, lengths, mask, body)
  <2>1. bytes = Framed(fin, opcode, data, key) BY DEF IsFramed
  <2>2. bytes = head \o lengths \o mask \o body
    BY ONLY <1>2, <1>4, <1>5, <1>6, <1>7, <1>8, <1>9, <2>1, Zenon DEF Framed
  <2> QED BY <2>2 DEF Laid, Cat
<1>11. /\ head \in Seq(Nat) /\ lengths \in Seq(Nat) /\ mask \in Seq(Nat) /\ body \in Seq(Nat)
       /\ Laid(bytes, head, lengths, mask, body) /\ Len(head) = 2
  BY <1>9, <1>10, BytesAreNumbers
<1>12. Cuts(bytes, head, lengths, mask, body) BY ONLY <1>11, LaidOut
<1>13. /\ bytes \in Seq(Nat) /\ Len(bytes) = 2 + Len(lengths) + Len(mask) + Len(body)
       /\ bytes[1] = head[1] /\ bytes[2] = head[2]
       /\ Slice(bytes, 2, Len(lengths)) = lengths
       /\ Slice(bytes, 2 + Len(lengths), Len(mask)) = mask
       /\ Slice(bytes, 2 + Len(lengths) + Len(mask), Len(body)) = body
  BY ONLY <1>12 DEF Cuts
<1>14. PartsOf(bytes, fin, opcode, n, key, data, lengths, mask, body)
  BY <1>2, <1>4, <1>5, <1>6, <1>7, <1>8, <1>9, <1>13 DEF PartsOf
<1> QED BY <1>14

LEMMA AboveOrBelow ==
  ASSUME NEW m \in Nat, NEW c \in 0..(m - 1)
  PROVE  c % m = c /\ (c + m) % m = c /\ ~(c >= m) /\ c + m >= m
OBVIOUS

LEMMA FirstByte ==
  ASSUME NEW opcode \in 0..15, NEW first, first = opcode \/ first = opcode + 128
  PROVE  first % 16 = opcode /\ (first \div 16) % 8 = 0
<1>1. CASE first = opcode BY <1>1
<1>2. CASE first = opcode + 128 BY <1>2
<1> QED BY <1>1, <1>2

LEMMA FramedReads ==
  ASSUME NEW bytes, NEW fin, NEW opcode, NEW data, NEW key, IsFramed(bytes, fin, opcode, data, key)
  PROVE  /\ bytes \in Seq(Nat) /\ Len(bytes) >= 2 + LengthSize(bytes) /\ Len(bytes) >= 2
         /\ bytes[1] % 16 = opcode /\ (bytes[1] >= 128) = fin /\ ~((bytes[1] \div 16) % 8 # 0)
         /\ ~BadControl(bytes) /\ ~TooLong(bytes) /\ ~IsIllegal(bytes)
         /\ Declared(bytes) = Len(data) /\ Decided(bytes) = Len(bytes)
         /\ BodyOf(bytes) = data
<1>1. /\ fin \in BOOLEAN /\ opcode \in 0..15 /\ data \in Seq(Byte) /\ key \in Masks \cup {NoMask}
      /\ Len(data) <= MaxFrame /\ (opcode >= 8 => fin /\ Len(data) <= Short)
  BY DEF IsFramed
<1>2. PICK n \in Nat, lengths \in Seq(Byte), mask \in Seq(Byte), body \in Seq(Byte) :
        PartsOf(bytes, fin, opcode, n, key, data, lengths, mask, body)
  BY FramedParts
<1>3. /\ n = Len(data) /\ lengths = LengthBytes(n)
      /\ mask = key /\ Len(mask) = (IF key = NoMask THEN 0 ELSE 4)
      /\ body = (IF key = NoMask THEN data ELSE Mask(data, key)) /\ Len(body) = n
      /\ bytes \in Seq(Nat) /\ Len(bytes) = 2 + Len(lengths) + Len(mask) + n
      /\ bytes[1] = (IF fin THEN opcode + 128 ELSE opcode)
      /\ bytes[2] = (IF key = NoMask THEN LengthCode(n) ELSE LengthCode(n) + MaskBit)
      /\ Slice(bytes, 2, Len(lengths)) = lengths
      /\ Slice(bytes, 2 + Len(lengths), Len(mask)) = mask
      /\ Slice(bytes, 2 + Len(lengths) + Len(mask), n) = body
  BY <1>2 DEF PartsOf
<1>4. n <= MaxFrame /\ (opcode >= 8 => n <= Short)
  <2>1. n = Len(data) BY <1>3
  <2> QED BY ONLY <1>1, <2>1
<1>5. Short \in Nat /\ MaxFrame \in Nat BY RadixFacts, LimitsAssumption
<1>6. bytes[1] % 16 = opcode /\ (bytes[1] >= 128) = fin /\ ~((bytes[1] \div 16) % 8 # 0)
  <2>1. CASE fin = TRUE
    <3>1. bytes[1] = opcode + 128 BY <1>3, <2>1
    <3>2. (bytes[1] >= 128) = TRUE BY <1>1, <3>1
    <3>3. bytes[1] % 16 = opcode /\ (bytes[1] \div 16) % 8 = 0 BY <1>1, <3>1, FirstByte
    <3>4. ~((bytes[1] \div 16) % 8 # 0) BY ONLY <3>3
    <3> QED BY <2>1, <3>2, <3>3, <3>4, Zenon
  <2>2. CASE fin = FALSE
    <3>1. bytes[1] = opcode BY <1>3, <2>2
    <3>2. (bytes[1] >= 128) = FALSE BY <1>1, <3>1
    <3>3. bytes[1] % 16 = opcode /\ (bytes[1] \div 16) % 8 = 0 BY <1>1, <3>1, FirstByte
    <3>4. ~((bytes[1] \div 16) % 8 # 0) BY ONLY <3>3
    <3> QED BY <2>2, <3>2, <3>3, <3>4, Zenon
  <2>3. fin = TRUE \/ fin = FALSE BY <1>1
  <2> QED BY <2>1, <2>2, <2>3
<1>7. Code(bytes) = LengthCode(n) /\ ((bytes[2] >= MaskBit) <=> (key # NoMask)) /\ LengthCode(n) \in 0..(Short + 2)
  <2>1. PICK m \in Nat : m = MaskBit /\ m = Short + 3 BY <1>5 DEF MaskBit
  <2>2. LengthCode(n) \in 0..(Short + 2) BY <1>4, LengthReads
  <2>3. PICK c \in 0..(m - 1) : c = LengthCode(n) BY <1>5, <2>1, <2>2
  <2>4. c % m = c /\ (c + m) % m = c /\ ~(c >= m) /\ c + m >= m BY AboveOrBelow
  <2>5. bytes[2] = IF key = NoMask THEN c ELSE c + m BY <1>3, <2>1, <2>3
  <2> QED BY <2>1, <2>2, <2>3, <2>4, <2>5 DEF Code
<1>8. \/ LengthCode(n) = n /\ n <= Short /\ Len(lengths) = 0
      \/ /\ LengthCode(n) = Length16 /\ Len(lengths) = 2 /\ n > Short
         /\ ReadUInt16(lengths, 0) = n
      \/ /\ LengthCode(n) = Length64 /\ Len(lengths) = 8 /\ n > Short
         /\ ReadUInt32(lengths, 0) = 0 /\ ReadUInt32(lengths, 4) = n
  BY <1>3, <1>4, LengthReads
<1>9. Length16 = Short + 1 /\ Length64 = Short + 2 BY DEF Length16, Length64
<1>10. LengthSize(bytes) = Len(lengths) /\ Declared(bytes) = n /\ ~TooLong(bytes)
  <2>1. CASE LengthCode(n) = n /\ n <= Short /\ Len(lengths) = 0
    <3>1. Code(bytes) # Length16 /\ Code(bytes) # Length64 BY <1>5, <1>7, <1>9, <2>1
    <3> QED BY <1>7, <2>1, <3>1 DEF LengthSize, Declared, TooLong
  <2>2. CASE LengthCode(n) = Length16 /\ Len(lengths) = 2 /\ ReadUInt16(lengths, 0) = n
    <3>1. Code(bytes) = Length16 /\ Code(bytes) # Length64 BY <1>5, <1>7, <1>9, <2>2
    <3>2. bytes[3] = lengths[1] /\ bytes[4] = lengths[2]
      <4>1. Slice(bytes, 2, 2) = lengths BY <1>3, <2>2
      <4> QED BY ONLY <4>1 DEF Slice
    <3>3. ReadUInt16(bytes, 2) = n BY <2>2, <3>2 DEF ReadUInt16
    <3> QED BY <2>2, <3>1, <3>3 DEF LengthSize, Declared, TooLong
  <2>3. CASE /\ LengthCode(n) = Length64 /\ Len(lengths) = 8
             /\ ReadUInt32(lengths, 0) = 0 /\ ReadUInt32(lengths, 4) = n
    <3>1. Code(bytes) # Length16 /\ Code(bytes) = Length64 BY <1>5, <1>7, <1>9, <2>3
    <3>2. /\ bytes[3] = lengths[1] /\ bytes[4] = lengths[2] /\ bytes[5] = lengths[3] /\ bytes[6] = lengths[4]
          /\ bytes[7] = lengths[5] /\ bytes[8] = lengths[6] /\ bytes[9] = lengths[7] /\ bytes[10] = lengths[8]
      <4>1. Slice(bytes, 2, 8) = lengths BY <1>3, <2>3
      <4> QED BY ONLY <4>1 DEF Slice
    <3>3. ReadUInt32(bytes, 2) = 0 /\ ReadUInt32(bytes, 6) = n BY <2>3, <3>2 DEF ReadUInt32, ReadUInt16
    <3> QED BY <2>3, <3>1, <3>3 DEF LengthSize, Declared, TooLong
  <2> QED BY <1>8, <2>1, <2>2, <2>3
<1>11. ~BadControl(bytes)
  <2>1. opcode >= 8 => Code(bytes) <= Short
    <3> QED BY <1>5, <1>7, <1>8, <1>4
  <2>2. opcode >= 8 => ~(bytes[1] < 128)
    <3>1. bytes[1] \in Nat BY ONLY <1>1, <1>3
    <3>2. opcode >= 8 => bytes[1] >= 128 BY <1>1, <1>6
    <3> QED BY <3>1, <3>2
  <2>3. Code(bytes) \in Nat BY <1>5, <1>7
  <2> QED BY <1>5, <1>6, <2>1, <2>2, <2>3 DEF BadControl
<1>12. ~IsIllegal(bytes)
  <2>1. ~(Declared(bytes) > MaxFrame) BY <1>5, <1>10, <1>4
  <2> QED BY <1>6, <1>10, <1>11, <2>1 DEF IsIllegal
<1>13. PICK l \in Nat, k \in Nat : l = Len(lengths) /\ k = Len(mask) /\ k = (IF key = NoMask THEN 0 ELSE 4) BY <1>3
<1>14. BodyAt(bytes) = 2 + l + k BY <1>7, <1>10, <1>13 DEF BodyAt
<1>15. Len(bytes) = 2 + l + k + n BY <1>3, <1>13
<1>16. Decided(bytes) = Len(bytes)
  <2>1. ~(n > MaxFrame) BY <1>5, <1>4
  <2>2. Decided(bytes) = (2 + l + k) + n BY <1>10, <1>11, <1>14, <2>1 DEF Decided
  <2> QED BY <1>15, <2>2
<1>17. RawOf(bytes) = body
  <2>1. RawOf(bytes) = Slice(bytes, 2 + l + k, n) BY <1>10, <1>14 DEF RawOf
  <2> QED BY <1>3, <1>13, <2>1
<1>18. BodyOf(bytes) = data
  <2>1. CASE key = NoMask BY <1>3, <1>7, <1>17, <2>1 DEF BodyOf
  <2>2. CASE key # NoMask
    <3>1. KeyOf(bytes) = key
      <4>1. KeyOf(bytes) = Slice(bytes, 2 + l, 4) BY <1>10, <1>13 DEF KeyOf
      <4>2. k = 4 BY <1>13, <2>2
      <4> QED BY <1>3, <1>13, <4>1, <4>2
    <3>2. body = Mask(data, key) /\ key \in Masks BY <1>1, <1>3, <2>2
    <3>3. Unmask(Mask(data, key), key) = data BY <1>1, <3>2, Masked
    <3> QED BY <1>7, <1>17, <2>2, <3>1, <3>2, <3>3 DEF BodyOf
  <2> QED BY <2>1, <2>2
<1>19. Len(bytes) >= 2 + LengthSize(bytes) /\ Len(bytes) >= 2 BY <1>10, <1>13, <1>15
<1> QED BY <1>2, <1>3, <1>6, <1>10, <1>11, <1>12, <1>16, <1>18, <1>19

\* Of a frame that was taken, what the peer sent of it.
FrameOf(f) == [fin |-> f.fin, opcode |-> f.opcode, status |-> f.status, payload |-> f.payload]
Shows(w, e) ==
  /\ w.bad = FALSE /\ w.rsv = FALSE
  /\ w.fin = e.fin /\ w.opcode = e.opcode /\ w.status = e.status /\ w.payload = e.payload

\* The data of a frame without a status, of a close frame with one, and of one
\* that is too short for it.
IsData(data, e) ==
  \/ e.opcode # 8 /\ data = e.payload /\ e.status = -1
  \/ e.opcode = 8 /\ e.status \in 0..(Radix * Radix - 1) /\ data = UInt16(e.status) \o e.payload
  \/ e.opcode = 8 /\ Len(data) <= 1 /\ e.status = -1 /\ e.payload = <<>>

LEMMA WithStatus ==
  ASSUME NEW status \in 0..(Radix * Radix - 1), NEW payload \in Seq(Byte), NEW data,
         data = UInt16(status) \o payload
  PROVE  /\ data \in Seq(Byte) /\ Len(data) = 2 + Len(payload)
         /\ ReadUInt16(data, 0) = status /\ SubSeq(data, 3, Len(data)) = payload
<1>1. PICK a : a = UInt16(status) OBVIOUS
<1>2. status \in Nat /\ Radix * Radix \in Nat /\ status < Radix * Radix BY RadixFacts
<1>3. a \in Seq(Byte) /\ Len(a) = 2 /\ a[1] * Radix + a[2] = status
  <2>1. status % (Radix * Radix) = status BY <1>2, SmallRest
  <2> QED BY <1>1, <1>2, <2>1, UInt16Reads
<1>4. a \in Seq(Byte) /\ payload \in Seq(Byte) BY <1>3
<1>5. PICK m \in Nat : m = Len(payload) OBVIOUS
<1>6. PICK c : c = Cat(a, payload) OBVIOUS
<1>7. c \in Seq(Byte) /\ Len(c) = 2 + m
  <2>1. Cat(a, payload) \in Seq(Byte) /\ Len(Cat(a, payload)) = Len(a) + Len(payload) BY ONLY <1>4, CatIndex
  <2> QED BY ONLY <1>3, <1>5, <1>6, <2>1
<1>8. c[1] = a[1] /\ c[2] = a[2]
  <2>1. \A i \in 1..Len(a) : Cat(a, payload)[i] = a[i] BY ONLY <1>4, CatIndex
  <2> QED BY ONLY <1>3, <1>6, <2>1
<1>9. \A i \in 1..m : c[2 + i] = payload[i]
  <2>1. \A i \in 1..Len(payload) : Cat(a, payload)[Len(a) + i] = payload[i] BY ONLY <1>4, CatIndex
  <2> QED BY ONLY <1>3, <1>5, <1>6, <2>1
<1>10. data = c BY <1>1, <1>6 DEF Cat
<1>11. ReadUInt16(c, 0) = status BY <1>3, <1>8 DEF ReadUInt16
<1>12. SubSeq(c, 3, 2 + m) = payload
  <2>1. PICK u \in Seq(Byte) : u = SubSeq(c, 3, 2 + m) /\ Len(u) = m /\ \A i \in 1..m : u[i] = c[2 + i]
    <3>1. PICK two \in Nat, n \in Nat : two = 2 /\ n = 2 + m OBVIOUS
    <3>2. c \in Seq(Byte) /\ two \in Nat /\ n \in Nat /\ two <= n /\ n <= Len(c) BY <1>7, <3>1
    <3>3. SubSeq(c, two + 1, n) \in Seq(Byte) /\ Len(SubSeq(c, two + 1, n)) = n - two BY ONLY <3>2, CutInTwo
    <3>4. \A i \in 1..(n - two) : SubSeq(c, two + 1, n)[i] = c[two + i] BY ONLY <3>2, CutInTwo
    <3>5. n - two = m /\ two + 1 = 3 BY <3>1
    <3> QED BY <3>1, <3>3, <3>4, <3>5
  <2>2. \A i \in 1..m : u[i] = payload[i] BY <1>9, <2>1
  <2> QED BY <1>5, <2>1, <2>2, SameElements
<1> QED BY <1>5, <1>7, <1>10, <1>11, <1>12

\* The frame as the payload fills it.
Loaded(f, payload) == [f EXCEPT !.payload = payload]
Stated(f, status, payload) == [f EXCEPT !.status = status, !.payload = payload]
CutShort(f, short) == [f EXCEPT !.shortClose = short]

LEMMA FieldsLoad ==
  ASSUME NEW s, NEW n, NEW a, NEW b, NEW c, NEW d, NEW e, NEW g, NEW h, NEW i,
         NEW f, f = Fields(s, n, a, b, c, d, e, g, h, i), NEW v
  PROVE  Loaded(f, v) = Fields(s, n, a, b, c, d, e, v, h, i)
<1>1. [f EXCEPT !.payload = v] = Fields(s, n, a, b, c, d, e, v, h, i) BY Z3 DEF Fields
<1> QED BY <1>1 DEF Loaded

LEMMA FieldsState ==
  ASSUME NEW s, NEW n, NEW a, NEW b, NEW c, NEW d, NEW e, NEW g, NEW h, NEW i,
         NEW f, f = Fields(s, n, a, b, c, d, e, g, h, i), NEW u, NEW v
  PROVE  Stated(f, u, v) = Fields(s, n, a, b, c, d, u, v, h, i)
<1>1. PICK k : k = [f EXCEPT !.status = u] OBVIOUS
<1>2. k = Fields(s, n, a, b, c, d, u, g, h, i)
  <2>1. [f EXCEPT !.status = u] = Fields(s, n, a, b, c, d, u, g, h, i) BY Z3 DEF Fields
  <2> QED BY <1>1, <2>1
<1>3. Loaded(k, v) = Fields(s, n, a, b, c, d, u, v, h, i) BY ONLY <1>2, FieldsLoad
<1>4. Stated(f, u, v) = Loaded(k, v) BY ONLY <1>1 DEF Stated, Loaded
<1> QED BY <1>3, <1>4

LEMMA FieldsCut ==
  ASSUME NEW s, NEW n, NEW a, NEW b, NEW c, NEW d, NEW e, NEW g, NEW h, NEW i,
         NEW f, f = Fields(s, n, a, b, c, d, e, g, h, i), NEW y
  PROVE  CutShort(f, y) = Fields(s, n, a, b, c, d, e, g, y, i)
<1>1. [f EXCEPT !.shortClose = y] = Fields(s, n, a, b, c, d, e, g, y, i) BY Z3 DEF Fields
<1> QED BY <1>1 DEF CutShort

LEMMA FieldsAre ==
  ASSUME NEW s, NEW n, NEW a, NEW b, NEW c, NEW d, NEW e, NEW g, NEW h, NEW i,
         NEW f, f = Fields(s, n, a, b, c, d, e, g, h, i)
  PROVE  f.fin = a /\ f.rsv = b /\ f.opcode = c /\ f.status = e /\ f.payload = g /\ f.bad = i
BY DEF Fields

LEMMA WholeShows ==
  ASSUME NEW bytes, NEW data, NEW key, NEW e,
         e \in [fin : BOOLEAN, opcode : 0..15, status : Int, payload : Seq(Byte)],
         IsFramed(bytes, e.fin, e.opcode, data, key), IsData(data, e)
  PROVE  Shows(WholeOf(bytes), e)
<1>1. PICK n \in Nat : n = Declared(bytes)
  <2>1. Declared(bytes) = Len(data) BY FramedReads
  <2>2. Len(data) \in Nat BY DEF IsFramed
  <2> QED BY <2>1, <2>2
<1>2. PICK body, h : body = BodyOf(bytes) /\ h = HeaderOf(bytes, "payload", n) OBVIOUS
<1>3. body = data /\ n = Len(data) /\ data \in Seq(Byte)
  <2>1. Declared(bytes) = Len(data) /\ BodyOf(bytes) = data BY FramedReads
  <2>2. data \in Seq(Byte) BY DEF IsFramed
  <2> QED BY <1>1, <1>2, <2>1, <2>2
<1>4. PICK fin, opcode, mask, no, none : /\ fin = e.fin /\ opcode = e.opcode /\ no = FALSE /\ none = -1
                                         /\ h = Fields("payload", n, fin, no, opcode, mask, none, <<>>, no, no)
  <2>1. PICK fin, rsv, opcode, mask, no, none :
          /\ fin = (bytes[1] >= 128) /\ rsv = ((bytes[1] \div 16) % 8 # 0) /\ opcode = bytes[1] % 16
          /\ mask = (bytes[2] >= MaskBit) /\ none = -1 /\ no = FALSE
    OBVIOUS
  <2>2. h = Fields("payload", n, fin, rsv, opcode, mask, none, <<>>, no, no)
    BY <1>1, <1>2, <2>1 DEF HeaderOf, Fields
  <2>3. bytes[1] % 16 = e.opcode /\ (bytes[1] >= 128) = e.fin /\ ~((bytes[1] \div 16) % 8 # 0) BY FramedReads
  <2>4. rsv = no BY <2>1, <2>3
  <2>5. fin = e.fin BY <2>1, <2>3, Zenon
  <2>6. opcode = e.opcode BY <2>1, <2>3
  <2> QED BY <2>1, <2>2, <2>4, <2>5, <2>6, Zenon
<1>5. IsClose(h) <=> opcode = 8
  <2>1. h.opcode = opcode BY <1>4, FieldsAre
  <2> QED BY <2>1 DEF IsClose
<1>6. PICK w : w = WholeOf(bytes) OBVIOUS
<1>7. \/ n = 0 /\ w = Moved(h, "complete")
      \/ n # 0 /\ opcode # 8 /\ w = Moved(Loaded(h, body), "complete")
      \/ n = 1 /\ opcode = 8 /\ w = Moved(CutShort(h, TRUE), "complete")
      \/ n \notin {0, 1} /\ opcode = 8 /\ w = Moved(Stated(h, ReadUInt16(body, 0), SubSeq(body, 3, n)), "complete")
  BY <1>1, <1>2, <1>5, <1>6, Zenon DEF WholeOf, Loaded, CutShort, Stated
<1>8. ASSUME NEW s, NEW y, w = Fields("complete", n, fin, no, opcode, mask, e.status, e.payload, y, no)
      PROVE  Shows(w, e)
  <2>1. w.fin = fin /\ w.rsv = no /\ w.opcode = opcode /\ w.status = e.status /\ w.payload = e.payload /\ w.bad = no
    BY <1>8, FieldsAre
  <2> QED BY <1>4, <2>1, Zenon DEF Shows
<1>9. e.status \in Int /\ e.payload \in Seq(Byte) /\ e.opcode \in 0..15 OBVIOUS
<1>10. \/ opcode # 8 /\ data = e.payload /\ e.status = none
       \/ /\ opcode = 8 /\ n >= 2 /\ ReadUInt16(body, 0) = e.status /\ SubSeq(body, 3, n) = e.payload
       \/ opcode = 8 /\ n <= 1 /\ e.status = none /\ e.payload = <<>>
  <2>1. CASE e.opcode # 8 /\ data = e.payload /\ e.status = -1 BY <1>4, <2>1
  <2>2. CASE e.opcode = 8 /\ e.status \in 0..(Radix * Radix - 1) /\ data = UInt16(e.status) \o e.payload
    <3>1. PICK m \in Nat : m = Len(e.payload) BY <1>9
    <3>2. /\ Len(data) = 2 + m /\ ReadUInt16(data, 0) = e.status /\ SubSeq(data, 3, Len(data)) = e.payload
      <4>1. e.status \in 0..(Radix * Radix - 1) /\ e.payload \in Seq(Byte) /\ data = UInt16(e.status) \o e.payload
        BY <1>9, <2>2
      <4>2. Len(data) = 2 + Len(e.payload) BY ONLY <4>1, WithStatus
      <4>3. ReadUInt16(data, 0) = e.status BY ONLY <4>1, WithStatus
      <4>4. SubSeq(data, 3, Len(data)) = e.payload BY ONLY <4>1, WithStatus
      <4> QED BY ONLY <3>1, <4>2, <4>3, <4>4
    <3> QED BY <1>3, <1>4, <2>2, <3>1, <3>2
  <2>3. CASE e.opcode = 8 /\ Len(data) <= 1 /\ e.status = -1 /\ e.payload = <<>> BY <1>3, <1>4, <2>3
  <2> QED BY <2>1, <2>2, <2>3 DEF IsData
<1>11. CASE n = 0 /\ w = Moved(h, "complete")
  <2>1. w = Fields("complete", n, fin, no, opcode, mask, none, <<>>, no, no) BY <1>4, <1>11, FieldsMove
  <2>2. e.status = none /\ e.payload = <<>>
    <3>1. Len(data) = 0 BY <1>3, <1>11
    <3>2. data = <<>>
      <4>1. \A W : \A s \in Seq(W) : Len(s) = 0 => s = <<>> OBVIOUS
      <4> QED BY <1>3, <3>1, <4>1
    <3> QED BY <1>10, <1>11, <3>2
  <2> QED BY <1>6, <1>8, <2>1, <2>2
<1>12. CASE n # 0 /\ opcode # 8 /\ w = Moved(Loaded(h, body), "complete")
  <2>1. w = Fields("complete", n, fin, no, opcode, mask, none, body, no, no)
    <3>1. PICK g, empty : g = Loaded(h, body) /\ empty = <<>> OBVIOUS
    <3>2. h = Fields("payload", n, fin, no, opcode, mask, none, empty, no, no) BY <1>4, <3>1
    <3>3. Loaded(h, body) = Fields("payload", n, fin, no, opcode, mask, none, body, no, no) BY ONLY <3>2, FieldsLoad
    <3>4. Moved(g, "complete") = Fields("complete", n, fin, no, opcode, mask, none, body, no, no) BY ONLY <3>1, <3>3, FieldsMove
    <3> QED BY <1>12, <3>1, <3>4
  <2>2. e.status = none /\ e.payload = body BY <1>3, <1>10, <1>12
  <2> QED BY <1>6, <1>8, <2>1, <2>2
<1>13. CASE n = 1 /\ opcode = 8 /\ w = Moved(CutShort(h, TRUE), "complete")
  <2>1. PICK yes : yes = TRUE OBVIOUS
  <2>2. w = Moved(CutShort(h, yes), "complete") BY <1>13, <2>1
  <2>3. w = Fields("complete", n, fin, no, opcode, mask, none, <<>>, yes, no)
    <3>1. PICK g, empty : g = CutShort(h, yes) /\ empty = <<>> OBVIOUS
    <3>2. h = Fields("payload", n, fin, no, opcode, mask, none, empty, no, no) BY <1>4, <3>1
    <3>3. CutShort(h, yes) = Fields("payload", n, fin, no, opcode, mask, none, empty, yes, no) BY ONLY <3>2, FieldsCut
    <3>4. Moved(g, "complete") = Fields("complete", n, fin, no, opcode, mask, none, empty, yes, no) BY ONLY <3>1, <3>3, FieldsMove
    <3> QED BY <2>2, <3>1, <3>4
  <2>4. e.status = none /\ e.payload = <<>> BY <1>10, <1>13
  <2> QED BY <1>6, <1>8, <2>3, <2>4
<1>14. CASE n \notin {0, 1} /\ opcode = 8
           /\ w = Moved(Stated(h, ReadUInt16(body, 0), SubSeq(body, 3, n)), "complete")
  <2>1. PICK u, v : u = ReadUInt16(body, 0) /\ v = SubSeq(body, 3, n) OBVIOUS
  <2>2. w = Moved(Stated(h, u, v), "complete") BY <1>14, <2>1
  <2>3. w = Fields("complete", n, fin, no, opcode, mask, u, v, no, no)
    <3>1. PICK g, empty : g = Stated(h, u, v) /\ empty = <<>> OBVIOUS
    <3>2. h = Fields("payload", n, fin, no, opcode, mask, none, empty, no, no) BY <1>4, <3>1
    <3>3. Stated(h, u, v) = Fields("payload", n, fin, no, opcode, mask, u, v, no, no) BY ONLY <3>2, FieldsState
    <3>4. Moved(g, "complete") = Fields("complete", n, fin, no, opcode, mask, u, v, no, no) BY ONLY <3>1, <3>3, FieldsMove
    <3> QED BY <2>2, <3>1, <3>4
  <2>4. e.status = u /\ e.payload = v BY <1>10, <1>14, <2>1
  <2> QED BY <1>6, <1>8, <2>3, <2>4
<1> QED BY <1>6, <1>7, <1>11, <1>12, <1>13, <1>14

-----------------------------------------------------------------------------
\* A legal piece is framed, and the frame that is parsed from it is the one the
\* peer sent.
LEMMA LegalIsFramed ==
  ASSUME NEW piece, LegalPiece(piece)
  PROVE  /\ piece.frame \in [fin : BOOLEAN, opcode : 0..15, status : Int, payload : Seq(Byte)]
         /\ \E data, key : /\ IsFramed(piece.bytes, piece.frame.fin, piece.frame.opcode, data, key)
                           /\ IsData(data, piece.frame)
<1>1. PICK e, bytes : e = piece.frame /\ bytes = piece.bytes OBVIOUS
<1>2. PICK key \in Masks \cup {NoMask} :
        \/ MayBeSent(e) /\ bytes = ToBuffer(e, key)
        \/ /\ e = [fin |-> TRUE, opcode |-> 8, status |-> -1, payload |-> <<>>]
           /\ \E data \in {<<>>} \cup {<<byte>> : byte \in Byte} : bytes = Framed(TRUE, 8, data, key)
  BY <1>1 DEF LegalPiece
<1>3. MaxFrame \in Nat /\ MaxFrame > 0 /\ Short \in Nat /\ Short >= 2 BY LimitsAssumption, RadixFacts
<1>4. CASE MayBeSent(e) /\ bytes = ToBuffer(e, key)
  <2>1. /\ e \in [fin : BOOLEAN, opcode : 0..15, status : Int, payload : Seq(Byte)]
        /\ e.status \in IF IsClose(e) THEN 0..(Radix * Radix - 1) ELSE {-1}
        /\ IsControl(e) => e.fin /\ Len(DataOf(e)) <= Short
        /\ Len(DataOf(e)) <= MaxFrame
    BY <1>4 DEF MayBeSent
  <2>2. e.fin \in BOOLEAN /\ e.opcode \in 0..15 /\ e.payload \in Seq(Byte) BY <2>1
  <2>3. PICK data : data = DataOf(e) OBVIOUS
  <2>4. data \in Seq(Byte) /\ IsData(data, e)
    <3>1. CASE IsClose(e)
      <4>1. data = UInt16(e.status) \o e.payload /\ e.status \in 0..(Radix * Radix - 1) /\ e.opcode = 8
        BY <2>1, <2>3, <3>1 DEF DataOf, IsClose
      <4>2. data \in Seq(Byte) BY <2>2, <4>1, WithStatus
      <4> QED BY <4>1, <4>2 DEF IsData
    <3>2. CASE ~IsClose(e)
      <4>1. data = e.payload /\ e.status = -1 /\ e.opcode # 8 BY <2>1, <2>3, <3>2 DEF DataOf, IsClose
      <4> QED BY <2>2, <4>1 DEF IsData
    <3> QED BY <3>1, <3>2
  <2>5. bytes = Framed(e.fin, e.opcode, data, key) BY <1>4, <2>3 DEF ToBuffer
  <2>6. e.opcode >= 8 => e.fin /\ Len(data) <= Short BY <2>1, <2>3 DEF IsControl
  <2>7. Len(data) <= MaxFrame BY <2>1, <2>3
  <2>8. IsFramed(bytes, e.fin, e.opcode, data, key) BY <1>2, <2>2, <2>4, <2>5, <2>6, <2>7, Zenon DEF IsFramed
  <2> QED BY <1>1, <2>1, <2>4, <2>8
<1>5. ASSUME e = [fin |-> TRUE, opcode |-> 8, status |-> -1, payload |-> <<>>],
             \E data \in {<<>>} \cup {<<byte>> : byte \in Byte} : bytes = Framed(TRUE, 8, data, key)
      PROVE  /\ e \in [fin : BOOLEAN, opcode : 0..15, status : Int, payload : Seq(Byte)]
             /\ \E data : IsFramed(bytes, e.fin, e.opcode, data, key) /\ IsData(data, e)
  <2>1. PICK data \in {<<>>} \cup {<<byte>> : byte \in Byte} : bytes = Framed(TRUE, 8, data, key) BY <1>5
  <2>2. data \in Seq(Byte) /\ Len(data) <= 1
    <3>1. CASE data = <<>>
      <4>1. <<>> \in Seq(Byte) /\ Len(<<>>) = 0 OBVIOUS
      <4> QED BY <3>1, <4>1
    <3>2. ASSUME NEW byte \in Byte, data = <<byte>> PROVE data \in Seq(Byte) /\ Len(data) <= 1
      <4>1. <<byte>> \in Seq(Byte) /\ Len(<<byte>>) = 1 OBVIOUS
      <4> QED BY <3>2, <4>1
    <3> QED BY <2>1, <3>1, <3>2
  <2>3. e.fin = TRUE /\ e.opcode = 8 /\ e.status = -1 /\ e.payload = <<>> BY <1>5
  <2>4. e \in [fin : BOOLEAN, opcode : 0..15, status : Int, payload : Seq(Byte)]
    <3>1. <<>> \in Seq(Byte) OBVIOUS
    <3> QED BY <1>5, <3>1
  <2>5. Len(data) <= MaxFrame /\ Len(data) <= Short
    <3>1. PICK n \in Nat : n = Len(data) /\ n <= 1 BY <2>2
    <3> QED BY <1>3, <3>1
  <2>6. IsFramed(bytes, TRUE, 8, data, key) BY <1>2, <2>1, <2>2, <2>5 DEF IsFramed
  <2>7. IsFramed(bytes, e.fin, e.opcode, data, key) BY <2>3, <2>6
  <2> QED BY <2>2, <2>3, <2>4, <2>7 DEF IsData
<1> QED BY <1>1, <1>2, <1>4, <1>5

\* What the proofs need of a piece.
Fits(piece) ==
  /\ piece.bytes \in Seq(Nat) /\ Len(piece.bytes) >= 2 /\ Len(piece.bytes) >= Decided(piece.bytes)
  /\ BadControl(piece.bytes) \/ Len(piece.bytes) >= 2 + LengthSize(piece.bytes)
  /\ piece.legal = TRUE => /\ ~IsIllegal(piece.bytes) /\ Decided(piece.bytes) = Len(piece.bytes)
                           /\ Shows(WholeOf(piece.bytes), piece.frame)
                           /\ piece.frame \in [fin : BOOLEAN, opcode : 0..15, status : Int, payload : Seq(Byte)]
  /\ piece.legal # TRUE => IsIllegal(piece.bytes) /\ piece.decided = Decided(piece.bytes)

LEMMA LegalFits == ASSUME NEW piece, piece.legal = TRUE, LegalPiece(piece) PROVE Fits(piece)
<1>1. PICK data, key : /\ IsFramed(piece.bytes, piece.frame.fin, piece.frame.opcode, data, key)
                       /\ IsData(data, piece.frame)
  BY LegalIsFramed
<1>2. piece.frame \in [fin : BOOLEAN, opcode : 0..15, status : Int, payload : Seq(Byte)] BY LegalIsFramed
<1>3. Shows(WholeOf(piece.bytes), piece.frame) BY <1>1, <1>2, WholeShows
<1>4. /\ piece.bytes \in Seq(Nat) /\ Len(piece.bytes) >= 2 /\ Decided(piece.bytes) = Len(piece.bytes)
      /\ Len(piece.bytes) >= 2 + LengthSize(piece.bytes) /\ ~IsIllegal(piece.bytes)
  BY <1>1, FramedReads
<1>5. Len(piece.bytes) >= Decided(piece.bytes)
  <2>1. PICK n \in Nat : n = Len(piece.bytes) BY <1>4
  <2> QED BY <1>4, <2>1
<1> QED BY <1>2, <1>3, <1>4, <1>5 DEF Fits

LEMMA IllegalFits == ASSUME NEW piece, piece.legal # TRUE, IllegalPiece(piece) PROVE Fits(piece)
BY DEF Fits, IllegalPiece

-----------------------------------------------------------------------------
\* Where the pieces lie on the wire.
Pieces == stream.pieces
BytesOf(i) == stream.pieces[i].bytes

LEMMA PiecesFit ==
  ASSUME stream \in Streams
  PROVE  /\ Len(Pieces) \in Nat /\ DOMAIN Pieces = 1..Len(Pieces)
         /\ \A i \in 1..Len(Pieces) : Pieces[i].legal \in BOOLEAN /\ Fits(Pieces[i])
<1>1. WellFormed(stream) BY StreamsAssumption
<1>2. Pieces \in Seq(ToSet(Pieces)) BY <1>1 DEF WellFormed, Pieces
<1>3. Len(Pieces) \in Nat /\ DOMAIN Pieces = 1..Len(Pieces) BY <1>2
<1>4. ASSUME NEW i \in 1..Len(Pieces) PROVE Pieces[i].legal \in BOOLEAN /\ Fits(Pieces[i])
  <2>1. PICK piece : piece = Pieces[i] OBVIOUS
  <2>2. piece.legal \in BOOLEAN /\ (IF piece.legal THEN LegalPiece(piece) ELSE IllegalPiece(piece))
    BY <1>1, <1>3, <2>1 DEF WellFormed, Pieces
  <2>3. CASE piece.legal = TRUE BY <2>1, <2>2, <2>3, LegalFits
  <2>4. CASE piece.legal # TRUE
    <3>1. piece.legal = FALSE BY <2>2, <2>4
    <3>2. IllegalPiece(piece) BY <2>2, <3>1
    <3>3. Fits(piece) BY <2>4, <3>2, IllegalFits
    <3> QED BY <2>1, <2>2, <3>3
  <2> QED BY <2>3, <2>4
<1> QED BY <1>3, <1>4

LEMMA WireLayout ==
  ASSUME stream \in Streams
  PROVE  /\ Wire \in Seq(Nat) /\ Ends(0) = 0 /\ Ends(Len(Pieces)) = Len(Wire)
         /\ \A i \in 0..Len(Pieces) : Ends(i) \in Nat /\ Ends(i) <= Len(Wire)
         /\ \A i \in 1..Len(Pieces) : Ends(i) = Ends(i - 1) + Len(BytesOf(i))
         /\ \A i \in 1..Len(Pieces) : Piece(BytesOf(i), Wire, Ends(i - 1))
<1>1. PICK l \in Nat : l = Len(Pieces) /\ DOMAIN Pieces = 1..l BY PiecesFit
<1>2. \A i \in 1..l : BytesOf(i) \in Seq(Nat)
  <2>1. \A i \in 1..l : Fits(Pieces[i]) BY <1>1, PiecesFit
  <2> QED BY <2>1 DEF Fits, Pieces, BytesOf
<1>3. PICK ss : ss = [i \in 1..l |-> BytesOf(i)] OBVIOUS
<1>4. PICK W : W = Seq(Nat) OBVIOUS
<1>5. ss \in [1..l -> W] BY <1>2, <1>3, <1>4
<1>6. ss \in Seq(W) /\ Len(ss) = l /\ \A i \in 1..l : ss[i] = BytesOf(i)
  <2>1. ss \in Seq(W) /\ Len(ss) = l BY ONLY <1>5, l \in Nat
  <2> QED BY <1>3, <2>1
<1>7. ss \in Seq(Seq(Nat)) BY <1>4, <1>6
<1>8. Wire = FlattenSeq(ss) BY <1>1, <1>3 DEF Wire, Pieces, BytesOf
<1>9. \A i \in 0..l : Ends(i) = Upto(ss, i)
  <2> SUFFICES ASSUME NEW i \in 0..l PROVE Ends(i) = Upto(ss, i) OBVIOUS
  <2>1. SubSeq(ss, 1, i) = [j \in 1..i |-> BytesOf(j)] BY <1>6
  <2> QED BY <2>1 DEF Ends, Upto, BytesOf
<1>10. FlattenSeq(ss) \in Seq(Nat) BY ONLY <1>7, Layout
<1>11. Upto(ss, 0) = 0 /\ Upto(ss, Len(ss)) = Len(FlattenSeq(ss)) BY ONLY <1>7, Layout
<1>12. \A n \in 0..Len(ss) : Upto(ss, n) \in Nat /\ Upto(ss, n) <= Len(FlattenSeq(ss)) BY ONLY <1>7, Layout
<1>13. \A n \in 1..Len(ss) : Upto(ss, n) = Upto(ss, n - 1) + Len(ss[n]) BY ONLY <1>7, Layout
<1>14. \A n \in 1..Len(ss) : \A i \in 1..Len(ss[n]) : FlattenSeq(ss)[Upto(ss, n - 1) + i] = ss[n][i]
  BY ONLY <1>7, Layout
<1>15. Wire \in Seq(Nat) BY <1>8, <1>10
<1>16. Ends(0) = 0 /\ Ends(l) = Len(Wire) BY <1>6, <1>8, <1>9, <1>11
<1>17. \A i \in 0..l : Ends(i) \in Nat /\ Ends(i) <= Len(Wire) BY <1>6, <1>8, <1>9, <1>12
<1>18. \A i \in 1..l : Ends(i) = Ends(i - 1) + Len(BytesOf(i))
  <2>1. \A i \in 1..l : i \in 0..l /\ i - 1 \in 0..l OBVIOUS
  <2> QED BY <1>6, <1>9, <1>13, <2>1
<1>19. ASSUME NEW i \in 1..l PROVE Piece(BytesOf(i), Wire, Ends(i - 1))
  <2>1. i - 1 \in 0..l /\ i \in 0..l OBVIOUS
  <2>2. PICK at \in Nat : at = Ends(i - 1) /\ at = Upto(ss, i - 1) BY <1>9, <1>17, <2>1
  <2>3. \A j \in 1..Len(BytesOf(i)) : Wire[at + j] = BytesOf(i)[j] BY <1>6, <1>8, <1>14, <2>2
  <2>4. at + Len(BytesOf(i)) <= Len(Wire) BY <1>17, <1>18, <2>1, <2>2
  <2>5. Fits(Pieces[i]) BY <1>1, PiecesFit
  <2> QED BY <1>2, <1>15, <2>2, <2>3, <2>4, <2>5 DEF Piece, Fits, Pieces, BytesOf
<1> QED BY <1>1, <1>15, <1>16, <1>17, <1>18, <1>19

\* A piece ends where the ones before it do, or behind.
LEMMA EndsGrow ==
  ASSUME stream \in Streams, NEW j \in 0..Len(Pieces), NEW i \in 0..j
  PROVE  Ends(i) <= Ends(j)
<1>1. PICK l \in Nat : l = Len(Pieces) BY PiecesFit
<1>2. PICK n \in Nat : n = j - i OBVIOUS
<1> DEFINE T == {m \in 0..n : Ends(i) <= Ends(i + m)}
<1>3. \A m \in 0..n : Ends(i + m) \in Nat
  <2>1. \A m \in 0..n : i + m \in 0..l BY <1>1, <1>2
  <2> QED BY <1>1, <2>1, WireLayout
<1>4. 0 \in T
  <2>1. i + 0 = i /\ 0 \in 0..n OBVIOUS
  <2>2. Ends(i + 0) \in Nat BY <1>3, <2>1
  <2> QED BY <2>1, <2>2
<1>5. ASSUME NEW m \in 0..(n - 1), m \in T PROVE m + 1 \in T
  <2>1. PICK k \in 1..l : k = i + (m + 1) /\ k - 1 = i + m BY <1>1, <1>2
  <2>2. Ends(k) = Ends(k - 1) + Len(BytesOf(k)) BY <1>1, WireLayout
  <2>3. Len(BytesOf(k)) \in Nat
    <3>1. Fits(Pieces[k]) BY <1>1, PiecesFit
    <3>2. BytesOf(k) \in Seq(Nat) BY <3>1 DEF Fits, Pieces, BytesOf
    <3> QED BY <3>2
  <2>4. Ends(i) <= Ends(k - 1) BY <1>5, <2>1
  <2>5. Ends(k - 1) \in Nat /\ Ends(i) \in Nat
    <3>1. m \in 0..n /\ 0 \in 0..n /\ i + 0 = i BY <1>2
    <3> QED BY <1>3, <2>1, <3>1
  <2>6. Ends(i) <= Ends(k) BY <2>2, <2>3, <2>4, <2>5
  <2> QED BY <2>1, <2>6
<1> HIDE DEF T
<1>6. 0..n \subseteq T BY <1>4, <1>5, BoundedInduction
<1>7. n \in T /\ i + n = j BY <1>2, <1>6
<1> QED BY <1>7 DEF T

-----------------------------------------------------------------------------
\* What the parser keeps whatever the bytes are: its shape, and that a frame
\* which was found bad stays so.
States == {"header", "length16", "length64", "mask", "payload", "complete"}
IsFrame(f) ==
  /\ f = Fields(f.state, f.length, f.fin, f.rsv, f.opcode, f.mask, f.status, f.payload, f.shortClose, f.bad)
  /\ f.state \in States
IsParser(p) ==
  /\ p = Parser(p.frame, p.list, p.maskBytes, p.done) /\ p.done \in BOOLEAN
  /\ IsFrame(p.frame) /\ Len(p.maskBytes) = 4
Becomes(f, g) == IsFrame(g) /\ (f.bad = TRUE => g.bad = TRUE)
Goes(p, q) == IsParser(q) /\ (p.frame.bad = TRUE => q.frame.bad = TRUE)

Marked(f, bad) == [f EXCEPT !.bad = bad]

LEMMA FieldsFit ==
  ASSUME NEW s, NEW n, NEW a, NEW b, NEW c, NEW d, NEW e, NEW g, NEW h, NEW i,
         NEW f, f = Fields(s, n, a, b, c, d, e, g, h, i), s \in States
  PROVE  IsFrame(f) /\ f.bad = i
<1>1. /\ f.state = s /\ f.length = n /\ f.fin = a /\ f.rsv = b /\ f.opcode = c /\ f.mask = d
      /\ f.status = e /\ f.payload = g /\ f.shortClose = h /\ f.bad = i
  BY DEF Fields
<1> QED BY <1>1 DEF IsFrame

LEMMA FieldsMark ==
  ASSUME NEW s, NEW n, NEW a, NEW b, NEW c, NEW d, NEW e, NEW g, NEW h, NEW i,
         NEW f, f = Fields(s, n, a, b, c, d, e, g, h, i), NEW j
  PROVE  Marked(f, j) = Fields(s, n, a, b, c, d, e, g, h, j)
<1>1. [f EXCEPT !.bad = j] = Fields(s, n, a, b, c, d, e, g, h, j) BY Z3 DEF Fields
<1> QED BY <1>1 DEF Marked

LEMMA Updates ==
  ASSUME NEW f, IsFrame(f)
  PROVE  /\ \A a1, b1, c1, d1, n1 : Becomes(f, Headed(f, a1, b1, c1, d1, n1))
         /\ \A t \in States : Becomes(f, Moved(f, t)) /\ \A m : Becomes(f, Sized(f, m, t))
         /\ IsFrame(Marked(f, TRUE)) /\ Marked(f, TRUE).bad = TRUE
         /\ \A v : Becomes(f, Loaded(f, v)) /\ \A u : Becomes(f, Stated(f, u, v))
         /\ \A y : Becomes(f, CutShort(f, y))
<1>1. PICK s, n, a, b, c, d, e, g, h, i : f = Fields(s, n, a, b, c, d, e, g, h, i) /\ s \in States /\ f.bad = i
  BY DEF IsFrame
<1>2. PICK yes : yes = TRUE OBVIOUS
<1>3. ASSUME NEW a1, NEW b1, NEW c1, NEW d1, NEW n1 PROVE Becomes(f, Headed(f, a1, b1, c1, d1, n1))
  <2>1. PICK k : k = Headed(f, a1, b1, c1, d1, n1) OBVIOUS
  <2>2. k = Fields(s, n1, a1, b1, c1, d1, e, g, h, i) BY ONLY <1>1, <2>1, FieldsHead
  <2>3. IsFrame(k) /\ k.bad = i BY ONLY <1>1, <2>2, FieldsFit
  <2> QED BY ONLY <1>1, <2>1, <2>3 DEF Becomes
<1>4. ASSUME NEW t \in States PROVE Becomes(f, Moved(f, t)) /\ \A m : Becomes(f, Sized(f, m, t))
  <2>1. PICK k : k = Moved(f, t) OBVIOUS
  <2>2. k = Fields(t, n, a, b, c, d, e, g, h, i) BY ONLY <1>1, <2>1, FieldsMove
  <2>3. IsFrame(k) /\ k.bad = i BY ONLY <1>4, <2>2, FieldsFit
  <2>4. ASSUME NEW m PROVE Becomes(f, Sized(f, m, t))
    <3>1. PICK l, j : l = Long(f, m) /\ j = Moved(l, t) OBVIOUS
    <3>2. l = Fields(s, m, a, b, c, d, e, g, h, i) BY ONLY <1>1, <3>1, FieldsMove
    <3>3. Moved(l, t) = Fields(t, m, a, b, c, d, e, g, h, i) BY ONLY <3>2, FieldsMove
    <3>4. IsFrame(j) /\ j.bad = i BY ONLY <1>4, <3>1, <3>3, FieldsFit
    <3>5. Sized(f, m, t) = j BY ONLY <3>1 DEF Sized, Moved, Long
    <3> QED BY ONLY <1>1, <3>4, <3>5 DEF Becomes
  <2> QED BY <1>1, <2>1, <2>3, <2>4 DEF Becomes
<1>5. IsFrame(Marked(f, TRUE)) /\ Marked(f, TRUE).bad = TRUE
  <2>1. PICK k : k = Marked(f, yes) OBVIOUS
  <2>2. k = Fields(s, n, a, b, c, d, e, g, h, yes) BY ONLY <1>1, <2>1, FieldsMark
  <2>3. IsFrame(k) /\ k.bad = yes BY ONLY <1>1, <2>2, FieldsFit
  <2> QED BY <1>2, <2>1, <2>3
<1>6. ASSUME NEW v PROVE Becomes(f, Loaded(f, v)) /\ \A u : Becomes(f, Stated(f, u, v))
  <2>1. PICK k : k = Loaded(f, v) OBVIOUS
  <2>2. k = Fields(s, n, a, b, c, d, e, v, h, i) BY ONLY <1>1, <2>1, FieldsLoad
  <2>3. IsFrame(k) /\ k.bad = i BY ONLY <1>1, <2>2, FieldsFit
  <2>4. ASSUME NEW u PROVE Becomes(f, Stated(f, u, v))
    <3>1. PICK j : j = Stated(f, u, v) OBVIOUS
    <3>2. j = Fields(s, n, a, b, c, d, u, v, h, i) BY ONLY <1>1, <3>1, FieldsState
    <3>3. IsFrame(j) /\ j.bad = i BY ONLY <1>1, <3>2, FieldsFit
    <3> QED BY ONLY <1>1, <3>1, <3>3 DEF Becomes
  <2> QED BY <1>1, <2>1, <2>3, <2>4 DEF Becomes
<1>7. ASSUME NEW y PROVE Becomes(f, CutShort(f, y))
  <2>1. PICK k : k = CutShort(f, y) OBVIOUS
  <2>2. k = Fields(s, n, a, b, c, d, e, g, y, i) BY ONLY <1>1, <2>1, FieldsCut
  <2>3. IsFrame(k) /\ k.bad = i BY ONLY <1>1, <2>2, FieldsFit
  <2> QED BY ONLY <1>1, <2>1, <2>3 DEF Becomes
<1> QED BY <1>3, <1>4, <1>5, <1>6, <1>7

LEMMA BecomesOn ==
  ASSUME NEW f, NEW g, NEW h, Becomes(f, g), IsFrame(g) => Becomes(g, h) PROVE Becomes(f, h)
BY DEF Becomes

\* A parser that takes bytes, and ends or not.
LEMMA TakesGoes ==
  ASSUME NEW p, IsParser(p), p.done = FALSE, NEW d, NEW g, Becomes(p.frame, g)
  PROVE  Goes(p, Takes(p, d, g)) /\ Goes(p, Ended(Takes(p, d, g), TRUE))
<1>1. PICK old, frm : /\ old = p.maskBytes /\ frm = p.frame /\ Len(old) = 4
                      /\ p = Parser(p.frame, p.list, p.maskBytes, FALSE)
  BY DEF IsParser
<1>2. PICK no, yes, left, t, q : /\ no = FALSE /\ yes = TRUE /\ left = Advance(p.list, d)
                                 /\ t = Takes(p, d, g) /\ q = Ended(t, yes)
  OBVIOUS
<1>3. t = Parser(g, left, old, no) BY <1>1, <1>2, TakesIs
<1>4. Ended(t, yes) = Parser(g, left, old, yes) BY ONLY <1>3, ParserEnded
<1>5. \A b \in BOOLEAN : Goes(p, Parser(g, left, old, b))
  <2> SUFFICES ASSUME NEW b \in BOOLEAN PROVE Goes(p, Parser(g, left, old, b)) OBVIOUS
  <2>1. PICK r : r = Parser(g, left, old, b) OBVIOUS
  <2>2. r.frame = g /\ r.list = left /\ r.maskBytes = old /\ r.done = b BY <2>1 DEF Parser
  <2> QED BY <1>1, <2>1, <2>2 DEF Goes, IsParser, Becomes
<1> QED BY <1>2, <1>3, <1>4, <1>5

LEMMA HeaderKeeps == ASSUME NEW p, IsParser(p) PROVE Goes(p, DecodeHeader(p))
<1>1. CASE ~Has(p, "header", 2)
  <2>1. DecodeHeader(p) = p BY <1>1 DEF DecodeHeader
  <2> QED BY <2>1 DEF Goes
<1>2. CASE Has(p, "header", 2)
  <2>1. p.done = FALSE /\ IsFrame(p.frame) BY <1>2 DEF Has, IsParser
  <2>2. PICK two, a, b, c, d, n :
          /\ two = Join(p.list, 2)
          /\ a = (two[1] >= 128) /\ b = ((two[1] \div 16) % 8 # 0) /\ c = two[1] % 16
          /\ d = (two[2] >= MaskBit) /\ n = two[2] % MaskBit
    OBVIOUS
  <2>3. PICK f : f = Headed(p.frame, a, b, c, d, n) OBVIOUS
  <2>4. Becomes(p.frame, f) /\ IsFrame(f) BY ONLY <2>1, <2>3, Updates DEF Becomes
  <2> DEFINE next == CASE f.length = Length16 -> "length16"
                       [] f.length = Length64 -> "length64"
                       [] OTHER -> "mask"
  <2>5. next \in States BY DEF States
  <2>6. Becomes(p.frame, Moved(f, next))
    <3>1. \A t \in States : Becomes(f, Moved(f, t)) BY ONLY <2>4, Updates
    <3> HIDE DEF next
    <3>2. Becomes(f, Moved(f, next)) BY <2>5, <3>1
    <3> QED BY <2>4, <3>2, BecomesOn
  <2>7. Becomes(p.frame, Marked(f, TRUE)) BY ONLY <2>4, Updates DEF Becomes
  <2>8. DecodeHeader(p) = IF IsControl(f) /\ (f.length > Short \/ ~f.fin)
                          THEN Ended(Takes(p, 2, Marked(f, TRUE)), TRUE)
                          ELSE Takes(p, 2, Moved(f, next))
    BY ONLY <1>2, <2>2, <2>3 DEF DecodeHeader, Headed, Marked, Moved, Ended
  <2> HIDE DEF next
  <2>9. Goes(p, Ended(Takes(p, 2, Marked(f, TRUE)), TRUE)) BY <2>1, <2>7, TakesGoes
  <2>10. Goes(p, Takes(p, 2, Moved(f, next))) BY <2>1, <2>6, TakesGoes
  <2> QED BY <2>8, <2>9, <2>10
<1> QED BY <1>1, <1>2

LEMMA LengthKeeps == ASSUME NEW p, IsParser(p) PROVE Goes(p, DecodeLength(p))
<1>1. CASE Has(p, "length16", 2)
  <2>1. p.done = FALSE /\ IsFrame(p.frame) BY <1>1 DEF Has, IsParser
  <2>2. PICK m : m = ReadUInt16(Join(p.list, 2), 0) OBVIOUS
  <2>3. Becomes(p.frame, Sized(p.frame, m, "mask")) BY <2>1, Updates DEF States
  <2>4. DecodeLength(p) = Takes(p, 2, Sized(p.frame, m, "mask")) BY ONLY <1>1, <2>2 DEF DecodeLength, Sized
  <2> QED BY <2>1, <2>3, <2>4, TakesGoes
<1>2. CASE ~Has(p, "length16", 2) /\ ~Has(p, "length64", 8)
  <2>1. DecodeLength(p) = p BY <1>2 DEF DecodeLength
  <2> QED BY <2>1 DEF Goes
<1>3. CASE ~Has(p, "length16", 2) /\ Has(p, "length64", 8)
  <2>1. p.done = FALSE /\ IsFrame(p.frame) BY <1>3 DEF Has, IsParser
  <2>2. PICK m : m = ReadUInt32(Join(p.list, 8), 4) OBVIOUS
  <2>3. Becomes(p.frame, Sized(p.frame, m, "mask")) BY <2>1, Updates DEF States
  <2>4. Becomes(p.frame, Marked(p.frame, TRUE)) BY <2>1, Updates DEF Becomes
  <2>5. DecodeLength(p) = IF ReadUInt32(Join(p.list, 8), 0) # 0
                          THEN Ended(Takes(p, 8, Marked(p.frame, TRUE)), TRUE)
                          ELSE Takes(p, 8, Sized(p.frame, m, "mask"))
    BY ONLY <1>3, <2>2 DEF DecodeLength, Sized, Marked, Ended
  <2>6. Goes(p, Ended(Takes(p, 8, Marked(p.frame, TRUE)), TRUE)) BY <2>1, <2>4, TakesGoes
  <2>7. Goes(p, Takes(p, 8, Sized(p.frame, m, "mask"))) BY <2>1, <2>3, TakesGoes
  <2> QED BY <2>5, <2>6, <2>7
<1> QED BY <1>1, <1>2, <1>3

LEMMA MaskKeeps == ASSUME NEW p, IsParser(p) PROVE Goes(p, DecodeMask(p))
<1>1. CASE ~Has(p, "mask", 4) /\ ~(Has(p, "mask", 0) /\ ~p.frame.mask)
  <2>1. DecodeMask(p) = p BY <1>1 DEF DecodeMask
  <2> QED BY <2>1 DEF Goes
<1>2. PICK g : g = Moved(p.frame, "payload") OBVIOUS
<1>3. CASE Has(p, "mask", 0) /\ ~p.frame.mask
  <2>1. p.done = FALSE /\ IsFrame(p.frame) BY <1>3 DEF Has, IsParser
  <2>2. Becomes(p.frame, g) BY <1>2, <2>1, Updates DEF States
  <2>3. DecodeMask(p) = Takes(p, 0, g) BY ONLY <1>2, <1>3 DEF DecodeMask, Moved
  <2> QED BY <2>1, <2>2, <2>3, TakesGoes
<1>4. CASE Has(p, "mask", 4) /\ ~(Has(p, "mask", 0) /\ ~p.frame.mask)
  <2>1. p.done = FALSE /\ IsFrame(p.frame) /\ p = Parser(p.frame, p.list, p.maskBytes, FALSE)
    BY <1>4 DEF Has, IsParser
  <2>2. Becomes(p.frame, g) BY <1>2, <2>1, Updates DEF States
  <2>3. PICK key, no, left, old, t, q :
          /\ key = Join(p.list, 4) /\ no = FALSE /\ left = Advance(p.list, 4) /\ old = p.maskBytes
          /\ t = Takes(p, 4, g) /\ q = Keyed(t, key)
    OBVIOUS
  <2>4. t = Parser(g, left, old, no) BY <2>1, <2>3, TakesIs
  <2>5. Keyed(t, key) = Parser(g, left, key, no) BY ONLY <2>4, ParserKeyed
  <2>6. DecodeMask(p) = q BY ONLY <1>2, <1>4, <2>3 DEF DecodeMask, Moved, Keyed
  <2>7. Len(key) = 4
    <3>1. PICK four \in Nat : four = 4 OBVIOUS
    <3>2. DOMAIN key = 1..four BY ONLY <2>3, <3>1 DEF Join
    <3>3. \E J : J = key /\ J = [i \in 1..four |-> key[i]] BY ONLY <2>3, <3>1 DEF Join
    <3>4. PICK S : S = {key[i] : i \in 1..four} OBVIOUS
    <3>5. key \in [1..four -> S] BY ONLY <3>3, <3>4
    <3>6. Len(key) = four BY ONLY <3>5, four \in Nat
    <3> QED BY <3>1, <3>6
  <2>8. q.frame = g /\ q.list = left /\ q.maskBytes = key /\ q.done = FALSE
        /\ q = Parser(q.frame, q.list, q.maskBytes, q.done)
    BY <2>3, <2>5 DEF Parser
  <2>9. Goes(p, q) BY <2>2, <2>7, <2>8 DEF Goes, IsParser, Becomes
  <2> QED BY <2>6, <2>9
<1> QED BY <1>1, <1>3, <1>4

\* A parser that ends with another frame and leaves its list as it is.
Filled(p, f, done) == [p EXCEPT !.frame = f, !.done = done]

LEMMA ParserFilled ==
  ASSUME NEW f, NEW l, NEW k, NEW d, NEW p, p = Parser(f, l, k, d), NEW g, NEW e
  PROVE  Filled(p, g, e) = Parser(g, l, k, e)
<1>1. PICK q : q = [p EXCEPT !.frame = g] OBVIOUS
<1>2. q = Parser(g, l, k, d) BY <1>1, Z3 DEF Parser
<1>3. Ended(q, e) = Parser(g, l, k, e) BY ONLY <1>2, ParserEnded
<1>4. Filled(p, g, e) = Ended(q, e) BY ONLY <1>1 DEF Filled, Ended
<1> QED BY <1>3, <1>4

LEMMA PayloadKeeps == ASSUME NEW p, IsParser(p) PROVE Goes(p, DecodePayload(p))
<1>1. PICK n : n = p.frame.length OBVIOUS
<1>2. PICK data : data = IF p.frame.mask THEN Unmask(Join(p.list, n), p.maskBytes) ELSE Join(p.list, n) OBVIOUS
<1>3. PICK f : f = p.frame OBVIOUS
<1>4. PICK body : body = IF ~IsClose(f) THEN Loaded(f, data)
                         ELSE IF n = 1 THEN CutShort(f, TRUE)
                         ELSE Stated(f, ReadUInt16(data, 0), SubSeq(data, 3, n))
  OBVIOUS
<1>5. CASE ~Has(p, "payload", 0)
  <2>1. DecodePayload(p) = p BY <1>5 DEF DecodePayload
  <2> QED BY <2>1 DEF Goes
<1>6. CASE Has(p, "payload", 0)
  <2>1. p.done = FALSE /\ IsFrame(f) /\ p = Parser(f, p.list, p.maskBytes, FALSE) /\ Len(p.maskBytes) = 4
    BY <1>3, <1>6 DEF Has, IsParser
  <2>2. ASSUME NEW g, Becomes(f, g) PROVE Goes(p, Parser(g, p.list, p.maskBytes, TRUE))
    <3>1. PICK q : q = Parser(g, p.list, p.maskBytes, TRUE) OBVIOUS
    <3>2. q.frame = g /\ q.list = p.list /\ q.maskBytes = p.maskBytes /\ q.done = TRUE BY <3>1 DEF Parser
    <3> QED BY <1>3, <2>1, <2>2, <3>1, <3>2 DEF Goes, IsParser, Becomes
  <2>3. Becomes(f, Marked(f, TRUE)) /\ Becomes(f, Moved(f, "complete")) BY <2>1, Updates DEF Becomes, States
  <2>4. Becomes(f, body) BY <1>4, <2>1, Updates
  <2>5. Becomes(f, Moved(body, "complete"))
    <3>1. IsFrame(body) BY <2>4 DEF Becomes
    <3>2. Becomes(body, Moved(body, "complete")) BY <3>1, Updates DEF States
    <3> QED BY <2>4, <3>2, BecomesOn
  <2>6. [p EXCEPT !.frame.bad = TRUE, !.done = TRUE] = Parser(Marked(f, TRUE), p.list, p.maskBytes, TRUE)
    <3>1. PICK l, k, no : l = p.list /\ k = p.maskBytes /\ no = FALSE OBVIOUS
    <3>2. p = Parser(f, l, k, no) BY <2>1, <3>1
    <3>3. PICK g, yes : g = Marked(f, TRUE) /\ yes = TRUE OBVIOUS
    <3>4. p.frame = f BY ONLY <3>2 DEF Parser
    <3>5. [p EXCEPT !.frame.bad = TRUE, !.done = TRUE] = [p EXCEPT !.frame = g, !.done = yes]
      BY ONLY <3>3, <3>4 DEF Marked
    <3>6. [p EXCEPT !.frame = g, !.done = yes] = Filled(p, g, yes) BY ONLY DEF Filled
    <3>7. Filled(p, g, yes) = Parser(g, l, k, yes) BY ONLY <3>2, ParserFilled
    <3> QED BY <3>1, <3>3, <3>5, <3>6, <3>7
  <2>7. [p EXCEPT !.frame.state = "complete", !.done = TRUE]
          = Parser(Moved(f, "complete"), p.list, p.maskBytes, TRUE)
    <3>1. PICK l, k, no : l = p.list /\ k = p.maskBytes /\ no = FALSE OBVIOUS
    <3>2. p = Parser(f, l, k, no) BY <2>1, <3>1
    <3>3. PICK g, yes : g = Moved(f, "complete") /\ yes = TRUE OBVIOUS
    <3>4. p.frame = f BY ONLY <3>2 DEF Parser
    <3>5. [p EXCEPT !.frame.state = "complete", !.done = TRUE] = [p EXCEPT !.frame = g, !.done = yes]
      BY ONLY <3>3, <3>4 DEF Moved
    <3>6. [p EXCEPT !.frame = g, !.done = yes] = Filled(p, g, yes) BY ONLY DEF Filled
    <3>7. Filled(p, g, yes) = Parser(g, l, k, yes) BY ONLY <3>2, ParserFilled
    <3> QED BY <3>1, <3>3, <3>5, <3>6, <3>7
  <2>8. CASE n > MaxFrame
    <3>1. DecodePayload(p) = [p EXCEPT !.frame.bad = TRUE, !.done = TRUE]
      BY ONLY <1>1, <1>6, <2>8 DEF DecodePayload
    <3> QED BY <2>2, <2>3, <2>6, <3>1
  <2>9. CASE ~(n > MaxFrame) /\ n = 0
    <3>1. DecodePayload(p) = [p EXCEPT !.frame.state = "complete", !.done = TRUE]
      BY ONLY <1>1, <1>6, <2>9 DEF DecodePayload
    <3> QED BY <2>2, <2>3, <2>7, <3>1
  <2>10. CASE ~(n > MaxFrame) /\ n # 0
    <3>1. CASE p.list.length < n
      <4>1. DecodePayload(p) = p BY ONLY <1>1, <1>6, <2>10, <3>1 DEF DecodePayload
      <4> QED BY <4>1 DEF Goes
    <3>2. CASE ~(p.list.length < n)
      <4>1. DecodePayload(p) = Ended(Takes(p, n, Moved(body, "complete")), TRUE)
        BY ONLY <1>1, <1>2, <1>3, <1>4, <1>6, <2>10, <3>2
           DEF DecodePayload, Ended, Moved, Loaded, CutShort, Stated
      <4> QED BY <1>3, <2>1, <2>5, <4>1, TakesGoes
    <3> QED BY <3>1, <3>2
  <2> QED BY <2>8, <2>9, <2>10
<1> QED BY <1>5, <1>6

LEMMA DecodeKeeps ==
  ASSUME NEW p, IsParser(p)
  PROVE  Goes(p, Decode(p)) /\ (p.frame.state = "complete" => Decode(p) = p)
<1>1. PICK q : q = DecodeHeader(p) OBVIOUS
<1>2. PICK r : r = DecodeLength(q) OBVIOUS
<1>3. PICK s : s = DecodeMask(r) OBVIOUS
<1>4. Goes(p, q) /\ IsParser(q) BY <1>1, HeaderKeeps DEF Goes
<1>5. Goes(q, r) /\ IsParser(r) BY <1>2, <1>4, LengthKeeps DEF Goes
<1>6. Goes(r, s) /\ IsParser(s) BY <1>3, <1>5, MaskKeeps DEF Goes
<1>7. Goes(s, DecodePayload(s)) BY <1>6, PayloadKeeps
<1>8. Decode(p) = DecodePayload(s) BY <1>1, <1>2, <1>3 DEF Decode
<1>9. Goes(p, Decode(p)) BY ONLY <1>4, <1>5, <1>6, <1>7, <1>8 DEF Goes
<1>10. ASSUME p.frame.state = "complete" PROVE Decode(p) = p
  <2>1. /\ p.frame.state # "header" /\ p.frame.state \notin {"length16", "length64"}
        /\ p.frame.state # "mask" /\ p.frame.state # "payload"
    BY <1>10
  <2>2. DecodeHeader(p) = p /\ DecodeLength(p) = p /\ DecodeMask(p) = p /\ DecodePayload(p) = p BY <2>1, Idle
  <2> QED BY <2>2 DEF Decode
<1> QED BY <1>9, <1>10

-----------------------------------------------------------------------------
\* Types, with the shape of the frame.
TInv == TypeOK /\ IsFrame(frame)

LEMMA AddIsDecode == ASSUME NEW list PROVE AddData(list) = Decode(Parser(frame, list, maskBytes, FALSE))
BY DEF AddData, Decode, Parser

LEMMA NewIsFrame == IsFrame(NewFrame) /\ NewFrame.bad = FALSE /\ NewFrame.state = "header"
<1>1. PICK s, n, no, one, none : s = "header" /\ n = 0 /\ no = FALSE /\ one = -1 /\ none = <<>> OBVIOUS
<1>2. PICK f : f = NewFrame OBVIOUS
<1>3. f = Fields(s, n, no, no, n, no, one, none, no, no) BY <1>1, <1>2 DEF NewFrame, Fields
<1>4. s \in States BY <1>1 DEF States
<1>5. IsFrame(f) /\ f.bad = no BY ONLY <1>3, <1>4, FieldsFit
<1>6. f.state = s BY <1>3 DEF Fields
<1> QED BY <1>1, <1>2, <1>5, <1>6

\* The parser that a call starts with.
LEMMA StartIsParser ==
  ASSUME TInv, NEW list, NEW p, p = Parser(frame, list, maskBytes, FALSE)
  PROVE  IsParser(p) /\ p.frame = frame /\ p.list = list /\ p.maskBytes = maskBytes /\ p.done = FALSE
<1>1. p.frame = frame /\ p.list = list /\ p.maskBytes = maskBytes /\ p.done = FALSE BY DEF Parser
<1>2. IsFrame(frame) /\ Len(maskBytes) = 4 BY DEF TInv, TypeOK
<1> QED BY <1>1, <1>2 DEF IsParser

\* One call of processReceivedData().
LEMMA ProcessKeeps ==
  ASSUME TInv, NEW list, NEW queued \in Nat, ProcessReceivedData(list, queued)
  PROVE  /\ IsFrame(frame') /\ Len(maskBytes') = 4
         /\ calls' \in {queued, queued + 1} /\ rejected' \in BOOLEAN
<1>1. PICK p, q : p = Parser(frame, list, maskBytes, FALSE) /\ q = Decode(p) OBVIOUS
<1>2. IsParser(p) BY <1>1, StartIsParser
<1>3. IsParser(q) BY <1>1, <1>2, DecodeKeeps DEF Goes
<1>4. AddData(list) = q BY <1>1, AddIsDecode
<1>5. maskBytes' = q.maskBytes /\ frame' \in {q.frame, NewFrame}
  BY <1>4 DEF ProcessReceivedData
<1>6. IsFrame(frame') BY <1>3, <1>5, NewIsFrame DEF IsParser
<1>7. Len(maskBytes') = 4 BY <1>3, <1>5 DEF IsParser
<1>8. calls' \in {queued, queued + 1}
  <2>1. calls' = queued \/ calls' = queued + IF q.list.length > 0 THEN 1 ELSE 0 BY <1>4 DEF ProcessReceivedData
  <2>2. CASE q.list.length > 0 BY <2>1, <2>2
  <2>3. CASE ~(q.list.length > 0) BY <2>1, <2>3
  <2> QED BY <2>2, <2>3
<1>9. rejected' \in BOOLEAN
  <2>1. rejected' = TRUE \/ rejected' = rejected BY DEF ProcessReceivedData
  <2>2. rejected \in BOOLEAN BY DEF TInv, TypeOK
  <2> QED BY <2>1, <2>2
<1> QED BY <1>6, <1>7, <1>8, <1>9

LEMMA TypeInit == Init => TInv
<1> SUFFICES ASSUME Init PROVE TInv OBVIOUS
<1>1. stream \in Streams /\ arrived = 0 /\ chunks = 0 /\ frame = NewFrame /\ calls = 0 /\ rejected = FALSE
  BY DEF Init
<1>2. Len(Wire) \in Nat
  <2>1. Wire \in Seq(Nat) BY <1>1, WireLayout
  <2> QED BY <2>1
<1>3. Len(maskBytes) = 4
  <2>1. maskBytes = <<0, 0, 0, 0>> BY DEF Init
  <2> QED BY <2>1
<1>4. IsFrame(frame) BY <1>1, NewIsFrame
<1>5. frame.state \in States BY <1>4 DEF IsFrame
<1>6. MaxChunks \in Nat BY LimitsAssumption
<1>7. arrived \in 0..Len(Wire) /\ chunks \in 0..MaxChunks /\ calls \in 0..chunks BY ONLY <1>1, <1>2, <1>6
<1> QED BY <1>1, <1>3, <1>4, <1>5, <1>7 DEF TInv, TypeOK, States

LEMMA TypeNext == TInv /\ [Next]_vars => TInv'
<1> SUFFICES ASSUME TInv, [Next]_vars PROVE TInv' OBVIOUS
<1>1. /\ stream \in Streams /\ arrived \in 0..Len(Wire) /\ chunks \in 0..MaxChunks /\ Len(maskBytes) = 4
      /\ calls \in 0..chunks /\ rejected \in BOOLEAN /\ IsFrame(frame) /\ frame.state \in States
  BY DEF TInv, TypeOK, IsFrame
<1>2. MaxChunks \in Nat BY LimitsAssumption
<1>3. ASSUME stream' = stream, arrived' \in 0..Len(Wire), chunks' \in 0..MaxChunks, IsFrame(frame'),
             Len(maskBytes') = 4, calls' \in 0..chunks', rejected' \in BOOLEAN
      PROVE  TInv'
  <2>1. Wire' = Wire BY <1>3 DEF Wire
  <2>2. frame'.state \in States BY <1>3 DEF IsFrame
  <2>3. (IsFrame(frame))' BY <1>3 DEF IsFrame, Fields, States
  <2> QED BY <1>1, <1>3, <2>1, <2>2, <2>3 DEF TInv, TypeOK, States
<1>4. CASE Data
  <2>1. PICK n \in (arrived + 1)..Len(Wire) :
          /\ arrived' = n
          /\ ProcessReceivedData(Write(bufferList, SubSeq(Wire, arrived + 1, n)), calls)
    BY <1>4 DEF Data
  <2>2. chunks < MaxChunks /\ chunks' = chunks + 1 /\ stream' = stream BY <1>4 DEF Data
  <2>3. calls \in Nat BY <1>1
  <2>4. /\ IsFrame(frame') /\ Len(maskBytes') = 4 /\ calls' \in {calls, calls + 1} /\ rejected' \in BOOLEAN
    BY <2>1, <2>3, ProcessKeeps
  <2>5. chunks' \in 0..MaxChunks /\ calls' \in 0..chunks' BY <1>1, <1>2, <2>2, <2>4
  <2>6. arrived' \in 0..Len(Wire)
    <3>1. Len(Wire) \in Nat
      <4>1. Wire \in Seq(Nat) BY <1>1, WireLayout
      <4> QED BY <4>1
    <3> QED BY <1>1, <2>1, <3>1
  <2> QED BY <1>3, <2>2, <2>4, <2>5, <2>6
<1>5. CASE Immediate
  <2>1. calls > 0 /\ ProcessReceivedData(bufferList, calls - 1)
        /\ stream' = stream /\ arrived' = arrived /\ chunks' = chunks
    BY <1>5 DEF Immediate
  <2>2. PICK queued \in Nat : queued = calls - 1 /\ ProcessReceivedData(bufferList, queued) BY <1>1, <2>1
  <2>3. /\ IsFrame(frame') /\ Len(maskBytes') = 4 /\ calls' \in {queued, queued + 1} /\ rejected' \in BOOLEAN
    BY <2>2, ProcessKeeps
  <2>4. calls' \in 0..chunks' BY <1>1, <2>1, <2>2, <2>3
  <2> QED BY <1>1, <1>3, <2>1, <2>3, <2>4
<1>6. CASE Sends
  <2>1. PICK key \in Keys : maskBytes' = key BY <1>6 DEF Sends
  <2>2. /\ stream' = stream /\ arrived' = arrived /\ chunks' = chunks /\ frame' = frame
        /\ calls' = calls /\ rejected' = rejected
    BY <1>6 DEF Sends
  <2>3. Len(maskBytes') = 4
    <3>1. PICK four \in Nat : four = 4 OBVIOUS
    <3>2. key \in [1..four -> Byte] BY <2>1, <3>1, MasksAssumption DEF Masks
    <3>3. Len(key) = four BY ONLY <3>2, four \in Nat
    <3> QED BY <2>1, <3>1, <3>3
  <2> QED BY <1>1, <1>3, <2>2, <2>3
<1>7. CASE Finished \/ UNCHANGED vars
  <2>1. UNCHANGED vars BY <1>7 DEF Finished
  <2> QED BY <1>1, <1>3, <2>1 DEF vars
<1> QED BY <1>4, <1>5, <1>6, <1>7 DEF Next

\* Types, and that each chunk starts one chain of calls at most, whatever is
\* sent and however it is cut.
THEOREM Typed == Spec => []TypeOK
<1>1. Spec => []TInv BY TypeInit, TypeNext, PTL DEF Spec
<1>2. TInv => TypeOK BY DEF TInv
<1> QED BY <1>1, <1>2, PTL

-----------------------------------------------------------------------------
\* The frames of the first pieces: as they were sent, and as they are parsed.
Sent(k) == [i \in 1..k |-> Pieces[i].frame]
Whole(k) == [i \in 1..k |-> WholeOf(BytesOf(i))]

\* Sequences by index.
LEMMA ByIndex ==
  ASSUME NEW f, NEW l \in Nat, NEW k \in 0..l, NEW s, s = [i \in 1..k |-> f[i]]
  PROVE  s \in Seq({f[i] : i \in 1..l}) /\ Len(s) = k
<1>1. PICK S : S = {f[i] : i \in 1..l} OBVIOUS
<1>2. PICK n \in Nat : n = k OBVIOUS
<1>3. s \in [1..n -> S] BY <1>1, <1>2
<1>4. s \in Seq(S) /\ Len(s) = n BY ONLY <1>3, n \in Nat
<1> QED BY <1>1, <1>2, <1>4

LEMMA PrefixByIndex ==
  ASSUME NEW f, NEW l \in Nat, NEW j \in 0..l, NEW i \in 0..j
  PROVE  IsPrefix([n \in 1..i |-> f[n]], [n \in 1..j |-> f[n]])
<1>1. PICK s, u : s = [n \in 1..i |-> f[n]] /\ u = [n \in 1..j |-> f[n]] OBVIOUS
<1>2. PICK S : S = {f[n] : n \in 1..l} OBVIOUS
<1>3. i \in 0..l OBVIOUS
<1>4. s \in Seq(S) /\ Len(s) = i BY <1>1, <1>2, <1>3, ByIndex
<1>5. u \in Seq(S) /\ Len(u) = j BY <1>1, <1>2, ByIndex
<1>6. \A n \in 1..i : s[n] = u[n] BY <1>1
<1>7. PICK v : v = SubSeq(u, 1, i) OBVIOUS
<1>8. v \in Seq(S) /\ Len(v) = i /\ \A n \in 1..i : v[n] = u[n] BY <1>5, <1>7
<1>9. v = s
  <2>1. i \in Nat /\ \A n \in 1..i : v[n] = s[n] BY <1>6, <1>8
  <2> QED BY ONLY <1>4, <1>8, <2>1, SameElements
<1> QED BY <1>1, <1>4, <1>5, <1>6, <1>7, <1>9 DEF IsPrefix

LEMMA SentGrows ==
  ASSUME stream \in Streams, NEW j \in 0..Len(Pieces), NEW i \in 0..j
  PROVE  IsPrefix(Sent(i), Sent(j))
<1>1. PICK l \in Nat : l = Len(Pieces) BY PiecesFit
<1>2. PICK f : f = [n \in 1..l |-> Pieces[n].frame] OBVIOUS
<1>3. Sent(i) = [n \in 1..i |-> f[n]] /\ Sent(j) = [n \in 1..j |-> f[n]] BY <1>1, <1>2 DEF Sent
<1>4. j \in 0..l BY <1>1
<1> QED BY <1>3, <1>4, PrefixByIndex

\* The frames that are whole are the first ones, up to some piece.
LEMMA WholeOnes ==
  ASSUME stream \in Streams, NEW n \in Nat
  PROVE  \E m \in 0..Len(Pieces) :
           /\ FramesBy(n) = Sent(m)
           /\ \A i \in 1..Len(Pieces) : i <= m <=> Legal(i) /\ Ends(i) <= n
<1>1. PICK l \in Nat : l = Len(Pieces) /\ DOMAIN Pieces = 1..l BY PiecesFit
<1>2. PICK whole : whole = {i \in DOMAIN Pieces : Legal(i) /\ Ends(i) <= n} OBVIOUS
<1>3. ASSUME NEW i \in 1..l, i \in whole, NEW j \in 1..i PROVE j \in whole
  <2>1. Legal(i) /\ Ends(i) <= n BY <1>2, <1>3
  <2>2. Legal(j) BY <2>1 DEF Legal
  <2>3. Ends(j) <= n
    <3>1. i \in 0..l /\ j \in 0..i /\ j \in 0..l OBVIOUS
    <3>2. Ends(j) <= Ends(i) BY <1>1, <3>1, EndsGrow
    <3>3. Ends(i) \in Nat /\ Ends(j) \in Nat BY <1>1, <3>1, WireLayout
    <3> QED BY <2>1, <3>2, <3>3
  <2> QED BY <1>1, <1>2, <2>2, <2>3
<1>4. PICK m \in 0..l : 1..m \subseteq whole /\ (m < l => m + 1 \notin whole)
  <2> DEFINE T == {i \in 0..l : 1..i \subseteq whole}
  <2>1. 0 \in T OBVIOUS
  <2>2. CASE \A i \in 0..(l - 1) : i \in T => i + 1 \in T
    <3> HIDE DEF T
    <3>1. 0..l \subseteq T BY <2>1, <2>2, BoundedInduction
    <3>2. l \in T BY <3>1
    <3>3. 1..l \subseteq whole BY <3>2 DEF T
    <3> QED BY <3>3
  <2>3. ASSUME NEW i \in 0..(l - 1), i \in T, i + 1 \notin T
        PROVE  \E m \in 0..l : 1..m \subseteq whole /\ (m < l => m + 1 \notin whole)
    <3>1. i \in 0..l /\ 1..i \subseteq whole BY <2>3
    <3>2. i + 1 \notin whole
      <4> SUFFICES ASSUME i + 1 \in whole PROVE FALSE OBVIOUS
      <4>1. i + 1 \in 0..l /\ 1..(i + 1) = (1..i) \cup {i + 1} OBVIOUS
      <4> QED BY <2>3, <3>1, <4>1
    <3> QED BY <3>1, <3>2
  <2> QED BY <2>2, <2>3
<1>5. whole = 1..m
  <2>1. whole \subseteq 1..l BY <1>1, <1>2
  <2>2. ASSUME NEW i \in 1..l, i \in whole, i > m PROVE FALSE
    <3>1. m + 1 \in 1..i /\ m < l BY <2>2
    <3> QED BY <1>3, <1>4, <2>2, <3>1
  <2>3. whole \subseteq 1..m BY <2>1, <2>2
  <2>4. 1..m \subseteq whole BY <1>4
  <2> QED BY <2>3, <2>4
<1>6. Cardinality(whole) = m
  <2>1. PICK a \in Nat : a = m OBVIOUS
  <2>2. Cardinality(1..a) = a BY FS_Interval
  <2> QED BY <1>5, <2>1, <2>2
<1>7. FramesBy(n) = Sent(m) BY <1>2, <1>6 DEF FramesBy, Sent, Pieces
<1>8. \A i \in 1..l : i <= m <=> Legal(i) /\ Ends(i) <= n
  <2> SUFFICES ASSUME NEW i \in 1..l PROVE i <= m <=> i \in whole BY <1>1, <1>2
  <2> QED BY <1>5
<1> QED BY <1>1, <1>7, <1>8

-----------------------------------------------------------------------------
\* The rsv bits of a frame that is complete are those of its first byte.
LEMMA WholeFacts ==
  ASSUME NEW bytes
  PROVE  /\ WholeOf(bytes).state = "complete"
         /\ WholeOf(bytes).rsv = ((bytes[1] \div 16) % 8 # 0)
<1>1. PICK n, data, h : n = Declared(bytes) /\ data = BodyOf(bytes) /\ h = HeaderOf(bytes, "payload", n)
  OBVIOUS
<1>2. PICK s, c, fin, rsv, opcode, mask, no, yes, one, none :
        /\ s = "payload" /\ c = "complete" /\ no = FALSE /\ yes = TRUE /\ one = -1 /\ none = <<>>
        /\ fin = (bytes[1] >= 128) /\ rsv = ((bytes[1] \div 16) % 8 # 0) /\ opcode = bytes[1] % 16
        /\ mask = (bytes[2] >= MaskBit)
  OBVIOUS
<1>3. h = Fields(s, n, fin, rsv, opcode, mask, one, none, no, no) BY <1>1, <1>2 DEF HeaderOf, Fields
<1>4. ASSUME NEW g, NEW e, NEW v, NEW y, g = Fields(s, n, fin, rsv, opcode, mask, e, v, y, no)
      PROVE  Moved(g, c).state = c /\ Moved(g, c).rsv = rsv
  <2>1. PICK k : k = Moved(g, c) OBVIOUS
  <2>2. Moved(g, c) = Fields(c, n, fin, rsv, opcode, mask, e, v, y, no) BY ONLY <1>4, FieldsMove
  <2> QED BY ONLY <2>2 DEF Fields
<1>5. PICK u, v : u = ReadUInt16(data, 0) /\ v = SubSeq(data, 3, n) OBVIOUS
<1>6. Moved(h, c).state = c /\ Moved(h, c).rsv = rsv BY <1>3, <1>4
<1>7. Moved(Loaded(h, data), c).state = c /\ Moved(Loaded(h, data), c).rsv = rsv
  <2>1. PICK g : g = Loaded(h, data) OBVIOUS
  <2>2. Loaded(h, data) = Fields(s, n, fin, rsv, opcode, mask, one, data, no, no) BY ONLY <1>3, FieldsLoad
  <2> QED BY <1>4, <2>2
<1>8. Moved(CutShort(h, yes), c).state = c /\ Moved(CutShort(h, yes), c).rsv = rsv
  <2>1. CutShort(h, yes) = Fields(s, n, fin, rsv, opcode, mask, one, none, yes, no) BY ONLY <1>3, FieldsCut
  <2> QED BY <1>4, <2>1
<1>9. Moved(Stated(h, u, v), c).state = c /\ Moved(Stated(h, u, v), c).rsv = rsv
  <2>1. Stated(h, u, v) = Fields(s, n, fin, rsv, opcode, mask, u, v, no, no) BY ONLY <1>3, FieldsState
  <2> QED BY <1>4, <2>1
<1>10. WholeOf(bytes) \in {Moved(h, c), Moved(Loaded(h, data), c), Moved(CutShort(h, yes), c), Moved(Stated(h, u, v), c)}
  <2>1. WholeOf(bytes) = IF n = 0 THEN Moved(h, c)
                         ELSE IF ~IsClose(h) THEN Moved(Loaded(h, data), c)
                         ELSE IF n = 1 THEN Moved(CutShort(h, yes), c)
                         ELSE Moved(Stated(h, u, v), c)
    BY ONLY <1>1, <1>2, <1>5 DEF WholeOf, Loaded, CutShort, Stated
  <2> QED BY ONLY <2>1
<1>11. WholeOf(bytes).state = c /\ WholeOf(bytes).rsv = rsv BY ONLY <1>6, <1>7, <1>8, <1>9, <1>10
<1> QED BY <1>2, <1>11

\* More bytes on the wire leave the parser where it is.
LEMMA AtMore ==
  ASSUME NEW p, NEW f, NEW wire, NEW from, NEW to, At(p, f, wire, from, to),
         NEW n \in Nat, to < n, n <= Len(wire)
  PROVE  At(Parser(p.frame, Write(p.list, SubSeq(wire, to + 1, n)), p.maskBytes, FALSE), f, wire, from, n)
<1>1. PICK list, q : /\ list = Write(p.list, SubSeq(wire, to + 1, n))
                     /\ q = Parser(p.frame, list, p.maskBytes, FALSE)
  OBVIOUS
<1>2. Holds(p.list, wire, from, to) /\ p.frame = f BY DEF At
<1>3. Holds(list, wire, from, n) BY <1>1, <1>2, WriteHolds
<1>4. q.frame = p.frame /\ q.list = list /\ q.maskBytes = p.maskBytes /\ q.done = FALSE BY <1>1 DEF Parser
<1> QED BY <1>1, <1>2, <1>3, <1>4 DEF At

LEMMA StepMore ==
  ASSUME NEW p, NEW bytes, NEW wire, NEW at, NEW to, AtStep(p, bytes, wire, at, to),
         NEW n \in Nat, to < n, n <= Len(wire)
  PROVE  AtStep(Parser(p.frame, Write(p.list, SubSeq(wire, to + 1, n)), p.maskBytes, FALSE), bytes, wire, at, n)
<1>1. PICK q : q = Parser(p.frame, Write(p.list, SubSeq(wire, to + 1, n)), p.maskBytes, FALSE) OBVIOUS
<1>2. \A f, from : At(p, f, wire, from, to) => At(q, f, wire, from, n) BY <1>1, AtMore
<1>3. q.maskBytes = p.maskBytes BY <1>1 DEF Parser
<1>4. AtHeader(p, bytes, wire, at, to) => AtHeader(q, bytes, wire, at, n) BY <1>2 DEF AtHeader
<1>5. AtLength16(p, bytes, wire, at, to) => AtLength16(q, bytes, wire, at, n) BY <1>2 DEF AtLength16
<1>6. AtLength64(p, bytes, wire, at, to) => AtLength64(q, bytes, wire, at, n) BY <1>2 DEF AtLength64
<1>7. AtMask(p, bytes, wire, at, to) => AtMask(q, bytes, wire, at, n) BY <1>2 DEF AtMask
<1>8. AtPayload(p, bytes, wire, at, to) => AtPayload(q, bytes, wire, at, n) BY <1>2, <1>3 DEF AtPayload
<1>9. AtStep(q, bytes, wire, at, n) BY <1>4, <1>5, <1>6, <1>7, <1>8 DEF AtStep
<1> QED BY <1>1, <1>9

\* So does another key in the shared buffer, unless a masked payload is waited
\* for.
LEMMA StepKeyed ==
  ASSUME NEW f, NEW list, NEW old, NEW key, NEW bytes, NEW wire, NEW at, NEW to,
         AtStep(Parser(f, list, old, FALSE), bytes, wire, at, to),
         ~(f.state = "payload" /\ f.mask) \/ ~(bytes[2] >= MaskBit)
  PROVE  AtStep(Parser(f, list, key, FALSE), bytes, wire, at, to)
<1>1. PICK p, q : p = Parser(f, list, old, FALSE) /\ q = Parser(f, list, key, FALSE) OBVIOUS
<1>2. /\ p.frame = f /\ p.list = list
      /\ q.frame = f /\ q.list = list /\ q = Parser(q.frame, q.list, q.maskBytes, FALSE)
  BY <1>1 DEF Parser
<1>3. \A g, from : At(p, g, wire, from, to) => At(q, g, wire, from, to) BY <1>2 DEF At
<1>4. AtHeader(p, bytes, wire, at, to) => AtHeader(q, bytes, wire, at, to) BY <1>3 DEF AtHeader
<1>5. AtLength16(p, bytes, wire, at, to) => AtLength16(q, bytes, wire, at, to) BY <1>3 DEF AtLength16
<1>6. AtLength64(p, bytes, wire, at, to) => AtLength64(q, bytes, wire, at, to) BY <1>3 DEF AtLength64
<1>7. AtMask(p, bytes, wire, at, to) => AtMask(q, bytes, wire, at, to) BY <1>3 DEF AtMask
<1>8. AtPayload(p, bytes, wire, at, to) => AtPayload(q, bytes, wire, at, to)
  <2> SUFFICES ASSUME AtPayload(p, bytes, wire, at, to) PROVE AtPayload(q, bytes, wire, at, to) OBVIOUS
  <2>1. f = HeaderOf(bytes, "payload", Declared(bytes)) BY <1>2 DEF AtPayload, At
  <2>2. f.state = "payload" /\ f.mask = (bytes[2] >= MaskBit) BY <2>1 DEF HeaderOf
  <2>3. ~(bytes[2] >= MaskBit) BY <2>2
  <2> QED BY <1>3, <2>3 DEF AtPayload
<1>9. AtStep(q, bytes, wire, at, to) BY <1>1, <1>4, <1>5, <1>6, <1>7, <1>8 DEF AtStep
<1> QED BY <1>1, <1>9

-----------------------------------------------------------------------------
\* The invariant: the frames of the first k pieces were handed on and nothing
\* else, all of them legal and all there.  Of the next piece the parser has
\* read what arrived of it, or has rejected it.  A parser for which no call is
\* queued waits for a byte it needs.
Reading(p, k, to) ==
  /\ k < Len(Pieces) => AtStep(p, BytesOf(k + 1), Wire, Ends(k), to)
  /\ k = Len(Pieces) => At(p, NewFrame, Wire, Ends(k), to)
Waiting(k, to) == k < Len(Pieces) => to < Ends(k) + Decided(BytesOf(k + 1))
Refused(f, k, to) ==
  /\ k < Len(Pieces) /\ Pieces[k + 1].legal # TRUE
  /\ Ends(k) + Decided(BytesOf(k + 1)) <= to
  /\ f.bad = TRUE \/ f.state = "complete"
Reached(k, done, f, list, key, queued, out, to) ==
  /\ done = Whole(k) /\ Legal(k) /\ Ends(k) <= to
  /\ out = FALSE => /\ Reading(Parser(f, list, key, FALSE), k, to)
                    /\ queued = 0 => Waiting(k, to)
  /\ out = TRUE => Refused(f, k, to)
IsAt(k) == Reached(k, parsed, frame, bufferList, maskBytes, calls, rejected, arrived)
RInv == TInv /\ \E k \in 0..Len(Pieces) : IsAt(k)

\* With the frame of the next piece, the frames are those of one piece more.
LEMMA WholeAppend ==
  ASSUME NEW l \in Nat, NEW k \in 0..(l - 1)
  PROVE  Append(Whole(k), WholeOf(BytesOf(k + 1))) = Whole(k + 1)
<1>1. PICK n \in Nat : n = k + 1 /\ n \in 0..l OBVIOUS
<1>2. PICK f : f = [i \in 1..l |-> WholeOf(BytesOf(i))] OBVIOUS
<1>3. PICK S : S = {f[i] : i \in 1..l} OBVIOUS
<1>4. PICK s, u : s = Whole(k) /\ u = Whole(n) OBVIOUS
<1>5. k \in 0..l /\ n \in 1..l BY <1>1
<1>6. s = [i \in 1..k |-> f[i]] /\ u = [i \in 1..n |-> f[i]] BY <1>1, <1>2, <1>4 DEF Whole
<1>7. s \in Seq(S) /\ Len(s) = k BY <1>3, <1>5, <1>6, ByIndex
<1>8. u \in Seq(S) /\ Len(u) = n BY <1>1, <1>3, <1>6, ByIndex
<1>9. f[n] \in S /\ f[n] = WholeOf(BytesOf(n)) BY <1>2, <1>3, <1>5
<1>10. PICK e, t : e = f[n] /\ t = Add(s, e) OBVIOUS
<1>11. t \in Seq(S) /\ Len(t) = k + 1 /\ t[k + 1] = e /\ \A i \in 1..k : t[i] = s[i]
  <2>1. s \in Seq(S) /\ e \in S BY <1>7, <1>9, <1>10
  <2>2. /\ Add(s, e) \in Seq(S) /\ Len(Add(s, e)) = Len(s) + 1 /\ Add(s, e)[Len(s) + 1] = e
        /\ \A i \in 1..Len(s) : Add(s, e)[i] = s[i]
    BY ONLY <2>1, AddFacts
  <2> QED BY <1>7, <1>10, <2>2
<1>12. ASSUME NEW i \in 1..n PROVE t[i] = u[i]
  <2>1. CASE i = n BY <1>1, <1>6, <1>10, <1>11, <2>1
  <2>2. CASE i # n
    <3>1. i \in 1..k BY <1>1, <2>2
    <3> QED BY <1>6, <1>11, <3>1
  <2> QED BY <2>1, <2>2
<1>13. t = u
  <2>1. Len(t) = n BY <1>1, <1>11
  <2> QED BY ONLY <1>8, <1>11, <1>12, <2>1, n \in Nat, SameElements
<1> QED BY <1>1, <1>4, <1>9, <1>10, <1>13 DEF Add

\* What the parser rejects is the next piece, which is illegal.
LEMMA RejectsNext ==
  ASSUME stream \in Streams, NEW k \in Nat, k < Len(Pieces), NEW q, NEW to,
         Rejects(q, BytesOf(k + 1), Ends(k), to)
  PROVE  Refused(q.frame, k, to) /\ q.done = TRUE /\ q.frame.bad = TRUE
<1>1. Len(Pieces) \in Nat BY PiecesFit
<1>2. PICK i \in 1..Len(Pieces) : i = k + 1 BY <1>1
<1>3. Fits(Pieces[i]) BY PiecesFit
<1>4. IsIllegal(BytesOf(i)) /\ Ends(k) + Decided(BytesOf(i)) <= to /\ q.done = TRUE /\ q.frame.bad = TRUE
  BY <1>2 DEF Rejects
<1>5. Pieces[i].legal # TRUE BY <1>3, <1>4 DEF Fits, BytesOf, Pieces
<1> QED BY <1>2, <1>4, <1>5 DEF Refused

\* What is complete is the next frame if its piece is legal, and shows its rsv
\* bits if it is not.
LEMMA CompletesNext ==
  ASSUME stream \in Streams, NEW k \in Nat, k < Len(Pieces), NEW q, NEW to \in Nat, to <= Len(Wire),
         Completes(q, BytesOf(k + 1), Wire, Ends(k), to)
  PROVE  /\ q.done = TRUE /\ q.frame = WholeOf(BytesOf(k + 1))
         /\ \/ /\ q.frame.bad = FALSE /\ q.frame.rsv = FALSE /\ Pieces[k + 1].legal = TRUE
               /\ Holds(q.list, Wire, Ends(k + 1), to) /\ Ends(k + 1) <= to
            \/ q.frame.rsv = TRUE /\ Refused(q.frame, k, to)
<1>1. PICK l \in Nat : l = Len(Pieces) BY PiecesFit
<1>2. PICK i \in 1..l : i = k + 1 /\ i - 1 = k BY <1>1
<1>3. PICK at, bytes : at \in Nat /\ bytes = BytesOf(i) /\ at = Ends(k)
  <2>1. k \in 0..l BY <1>1
  <2>2. Ends(k) \in Nat BY <1>1, <2>1, WireLayout
  <2> QED BY <2>2
<1>4. Fits(Pieces[i]) BY <1>1, PiecesFit
<1>5. Piece(bytes, Wire, at) BY <1>1, <1>2, <1>3, WireLayout
<1>6. /\ q.done = TRUE /\ q.frame = WholeOf(bytes)
      /\ ~BadControl(bytes) /\ ~TooLong(bytes) /\ Declared(bytes) <= MaxFrame
      /\ Holds(q.list, Wire, at + (BodyAt(bytes) + Declared(bytes)), to)
  BY <1>2, <1>3 DEF Completes
<1>7. Declared(bytes) \in Nat /\ BodyAt(bytes) \in Nat /\ MaxFrame \in Nat
  BY <1>5, <1>6, PieceNumbers, LimitsAssumption
<1>8. Decided(bytes) = BodyAt(bytes) + Declared(bytes)
  <2>1. ~(Declared(bytes) > MaxFrame) BY <1>6, <1>7
  <2> QED BY <1>6, <2>1 DEF Decided
<1>9. Holds(q.list, Wire, at + Decided(bytes), to) BY <1>6, <1>8
<1>10. at + Decided(bytes) <= to BY <1>9 DEF Holds
<1>11. CASE Pieces[i].legal = TRUE
  <2>1. Decided(bytes) = Len(bytes) /\ Shows(WholeOf(bytes), Pieces[i].frame)
    BY <1>3, <1>4, <1>11 DEF Fits, BytesOf, Pieces
  <2>2. Ends(i) = at + Len(bytes) BY <1>1, <1>2, <1>3, WireLayout
  <2>3. q.frame.bad = FALSE /\ q.frame.rsv = FALSE BY <1>6, <2>1 DEF Shows
  <2> QED BY <1>2, <1>3, <1>6, <1>9, <1>10, <1>11, <2>1, <2>2, <2>3
<1>12. CASE Pieces[i].legal # TRUE
  <2>1. IsIllegal(bytes) BY <1>3, <1>4, <1>12 DEF Fits, BytesOf, Pieces
  <2>2. (bytes[1] \div 16) % 8 # 0
    <3>1. ~(Declared(bytes) > MaxFrame) BY <1>6, <1>7
    <3> QED BY <1>6, <2>1, <3>1 DEF IsIllegal
  <2>3. WholeOf(bytes).state = "complete" /\ WholeOf(bytes).rsv = TRUE BY <2>2, WholeFacts
  <2>4. Refused(q.frame, k, to) BY <1>1, <1>2, <1>3, <1>6, <1>10, <1>12, <2>3 DEF Refused
  <2> QED BY <1>2, <1>3, <1>6, <2>3, <2>4
<1> QED BY <1>11, <1>12

\* A call of processReceivedData() moves from one such state to another.
LEMMA ProcessReads ==
  ASSUME TInv, NEW k \in 0..Len(Pieces), parsed = Whole(k), Legal(k), rejected = FALSE,
         NEW to \in Nat, Ends(k) <= to, to <= Len(Wire), NEW list,
         Reading(Parser(frame, list, maskBytes, FALSE), k, to),
         NEW queued \in Nat, ProcessReceivedData(list, queued)
  PROVE  \E m \in 0..Len(Pieces) : Reached(m, parsed', frame', bufferList', maskBytes', calls', rejected', to)
<1>1. stream \in Streams BY DEF TInv, TypeOK
<1>2. PICK l \in Nat : l = Len(Pieces) BY <1>1, PiecesFit
<1>3. PICK p, q : p = Parser(frame, list, maskBytes, FALSE) /\ q = Decode(p) OBVIOUS
<1>4. IsParser(p) /\ p.frame = frame /\ p.list = list /\ p.maskBytes = maskBytes /\ p.done = FALSE
  BY <1>3, StartIsParser
<1>5. IsParser(q) /\ q.done \in BOOLEAN BY <1>3, <1>4, DecodeKeeps DEF Goes, IsParser
<1>6. AddData(list) = q BY <1>3, AddIsDecode
<1>7. /\ bufferList' = q.list /\ maskBytes' = q.maskBytes
      /\ \/ /\ ~q.done
            /\ frame' = q.frame /\ calls' = queued /\ parsed' = parsed /\ rejected' = rejected
         \/ /\ q.done /\ (q.frame.bad \/ q.frame.rsv)
            /\ frame' = q.frame /\ calls' = queued /\ rejected' = TRUE /\ parsed' = parsed
         \/ /\ q.done /\ ~(q.frame.bad \/ q.frame.rsv)
            /\ frame' = NewFrame /\ parsed' = Append(parsed, q.frame)
            /\ calls' = queued + (IF q.list.length > 0 THEN 1 ELSE 0)
            /\ rejected' = rejected
  BY <1>6 DEF ProcessReceivedData
<1>8. ASSUME q.done = FALSE, Reading(q, k, to), Waiting(k, to)
      PROVE  Reached(k, parsed', frame', bufferList', maskBytes', calls', rejected', to)
  <2>1. frame' = q.frame /\ parsed' = parsed /\ rejected' = FALSE BY <1>7, <1>8
  <2>2. q = Parser(frame', bufferList', maskBytes', FALSE) BY <1>5, <1>7, <1>8, <2>1 DEF IsParser
  <2> QED BY <1>8, <2>1, <2>2 DEF Reached
<1>9. CASE k = l
  <2>1. At(p, NewFrame, Wire, Ends(k), to) BY <1>2, <1>3, <1>9 DEF Reading
  <2>2. Ends(k) = Len(Wire) BY <1>1, <1>2, <1>9, WireLayout
  <2>3. Len(Wire) \in Nat
    <3>1. Wire \in Seq(Nat) BY <1>1, WireLayout
    <3> QED BY <3>1
  <2>4. to = Ends(k) /\ Ends(k) \in Nat BY <2>2, <2>3
  <2>5. p.list.length = 0 /\ p.frame = NewFrame
    <3>1. p.frame = NewFrame /\ Holds(p.list, Wire, Ends(k), to) BY <2>1 DEF At
    <3>2. p.list.length = to - Ends(k) BY <3>1 DEF Holds
    <3> QED BY <2>4, <3>1, <3>2
  <2>6. DecodeHeader(p) = p
    <3>1. ~Has(p, "header", 2) BY <2>5 DEF Has
    <3> QED BY <3>1 DEF DecodeHeader
  <2>7. q = p
    <3>1. p.frame.state = "header" BY <2>5, NewIsFrame
    <3>2. p.frame.state \notin {"length16", "length64"} /\ p.frame.state # "mask" /\ p.frame.state # "payload"
      BY <3>1
    <3>3. DecodeLength(p) = p /\ DecodeMask(p) = p /\ DecodePayload(p) = p BY <3>2, Idle
    <3> QED BY <1>3, <2>6, <3>3 DEF Decode
  <2>8. Reading(q, k, to) /\ Waiting(k, to)
    <3>1. ~(k < Len(Pieces)) BY ONLY <1>2, <1>9
    <3> QED BY <1>3, <2>1, <2>7, <3>1 DEF Reading, Waiting
  <2> QED BY <1>4, <1>8, <2>7, <2>8
<1>10. CASE k # l
  <2>1. k < l /\ k \in Nat /\ k + 1 \in 1..l /\ (k + 1) - 1 = k BY <1>2, <1>10
  <2>2. PICK n \in 1..l : n = k + 1 /\ n - 1 = k BY <2>1
  <2>3. PICK bytes, at : bytes = BytesOf(k + 1) /\ at = Ends(k) OBVIOUS
  <2>4. Piece(bytes, Wire, at) BY <1>1, <1>2, <2>2, <2>3, WireLayout
  <2>5. AtStep(p, bytes, Wire, at, to) BY <1>2, <1>3, <2>1, <2>3 DEF Reading
  <2>6. Outcome(q, bytes, Wire, at, to) BY <1>3, <2>4, <2>5, DecodeStep
  <2>7. CASE AtStep(q, bytes, Wire, at, to) /\ to < at + Decided(bytes)
    <3>1. q.done = FALSE
      <4>1. \A f, from : At(q, f, Wire, from, to) => q.done = FALSE BY DEF At, Parser
      <4> QED BY <2>7, <4>1 DEF AtStep, AtHeader, AtLength16, AtLength64, AtMask, AtPayload
    <3>2. Reading(q, k, to) /\ Waiting(k, to) BY <1>2, <2>1, <2>3, <2>7 DEF Reading, Waiting
    <3> QED BY <1>8, <3>1, <3>2
  <2>8. CASE Rejects(q, bytes, at, to)
    <3>1. Refused(q.frame, k, to) /\ q.done = TRUE /\ q.frame.bad = TRUE
      BY <1>1, <1>2, <2>1, <2>3, <2>8, RejectsNext
    <3>2. frame' = q.frame /\ rejected' = TRUE /\ parsed' = parsed BY <1>7, <3>1
    <3>3. Reached(k, parsed', frame', bufferList', maskBytes', calls', rejected', to)
      BY <3>1, <3>2 DEF Reached
    <3> QED BY <3>3
  <2>9. CASE Completes(q, bytes, Wire, at, to)
    <3>1. /\ q.done = TRUE /\ q.frame = WholeOf(BytesOf(k + 1))
          /\ \/ /\ q.frame.bad = FALSE /\ q.frame.rsv = FALSE /\ Pieces[k + 1].legal = TRUE
                /\ Holds(q.list, Wire, Ends(k + 1), to) /\ Ends(k + 1) <= to
             \/ q.frame.rsv = TRUE /\ Refused(q.frame, k, to)
      BY <1>1, <1>2, <2>1, <2>3, <2>9, CompletesNext
    <3>2. CASE q.frame.rsv = TRUE /\ Refused(q.frame, k, to)
      <4>1. frame' = q.frame /\ rejected' = TRUE /\ parsed' = parsed BY <1>7, <3>1, <3>2
      <4>2. Reached(k, parsed', frame', bufferList', maskBytes', calls', rejected', to)
        BY <3>2, <4>1 DEF Reached
      <4> QED BY <4>2
    <3>3. CASE /\ q.frame.bad = FALSE /\ q.frame.rsv = FALSE /\ Pieces[k + 1].legal = TRUE
               /\ Holds(q.list, Wire, Ends(k + 1), to) /\ Ends(k + 1) <= to
      <4>1. /\ frame' = NewFrame /\ parsed' = Append(parsed, q.frame) /\ rejected' = FALSE
            /\ calls' = queued + (IF q.list.length > 0 THEN 1 ELSE 0)
        BY <1>7, <3>1, <3>3
      <4>2. parsed' = Whole(k + 1)
        <5>1. k \in 0..(l - 1) BY <2>1
        <5> QED BY <3>1, <4>1, <5>1, WholeAppend
      <4>3. Legal(k + 1)
        <5>1. \A j \in 1..(k + 1) : j \in 1..k \/ j = k + 1 BY <2>1
        <5> QED BY <3>3, <5>1 DEF Legal, Pieces
      <4>4. PICK r : r = Parser(frame', bufferList', maskBytes', FALSE) OBVIOUS
      <4>5. At(r, NewFrame, Wire, Ends(k + 1), to)
        <5>1. r.frame = NewFrame /\ r.list = q.list /\ r = Parser(r.frame, r.list, r.maskBytes, FALSE)
          BY <1>7, <4>1, <4>4 DEF Parser
        <5> QED BY <3>3, <5>1 DEF At
      <4>6. Reading(r, k + 1, to) BY <4>5 DEF Reading, AtStep, AtHeader
      <4>7. calls' = 0 => Waiting(k + 1, to)
        <5> SUFFICES ASSUME calls' = 0, k + 1 < Len(Pieces)
                     PROVE  to < Ends(k + 1) + Decided(BytesOf((k + 1) + 1))
          BY DEF Waiting
        <5>1. q.list.length = to - Ends(k + 1) BY <3>3 DEF Holds
        <5>2. Ends(k + 1) \in Nat
          <6>1. k + 1 \in 0..l BY <2>1
          <6> QED BY <1>1, <1>2, <6>1, WireLayout
        <5>3. ~(q.list.length > 0) BY <4>1
        <5>4. to = Ends(k + 1) BY <3>3, <5>1, <5>2, <5>3
        <5>5. PICK i \in 1..l : i = (k + 1) + 1 BY <1>2, <2>1
        <5>6. Piece(BytesOf(i), Wire, Ends(i - 1)) BY <1>1, <1>2, WireLayout
        <5>7. Decided(BytesOf(i)) >= 2 /\ Decided(BytesOf(i)) \in Nat BY <5>6, StepNeeds, PieceNumbers
        <5> QED BY <5>2, <5>4, <5>5, <5>7
      <4>8. Reached(k + 1, parsed', frame', bufferList', maskBytes', calls', rejected', to)
        BY <3>3, <4>1, <4>2, <4>3, <4>4, <4>6, <4>7 DEF Reached
      <4> QED BY <1>2, <2>1, <4>8
    <3> QED BY <3>1, <3>2, <3>3
  <2> QED BY <2>6, <2>7, <2>8, <2>9 DEF Outcome
<1> QED BY <1>9, <1>10

\* After a rejection no frame is taken any more, whatever is decoded.
LEMMA ProcessRefuses ==
  ASSUME TInv, rejected = TRUE, frame.bad = TRUE \/ frame.state = "complete",
         NEW list, NEW queued \in Nat, ProcessReceivedData(list, queued)
  PROVE  /\ parsed' = parsed /\ rejected' = TRUE
         /\ frame'.bad = TRUE \/ frame'.state = "complete"
<1>1. PICK p, q : p = Parser(frame, list, maskBytes, FALSE) /\ q = Decode(p) OBVIOUS
<1>2. IsParser(p) /\ p.frame = frame /\ p.done = FALSE BY <1>1, StartIsParser
<1>3. AddData(list) = q BY <1>1, AddIsDecode
<1>4. CASE frame.state = "complete"
  <2>1. q = p BY <1>1, <1>2, <1>4, DecodeKeeps
  <2>2. frame' = q.frame /\ parsed' = parsed /\ rejected' = rejected
    BY <1>2, <1>3, <2>1 DEF ProcessReceivedData
  <2> QED BY <1>2, <1>4, <2>1, <2>2
<1>5. CASE frame.bad = TRUE
  <2>1. q.frame.bad = TRUE BY <1>1, <1>2, <1>5, DecodeKeeps DEF Goes
  <2>2. frame' = q.frame /\ parsed' = parsed /\ (rejected' = rejected \/ rejected' = TRUE)
    BY <1>3, <2>1 DEF ProcessReceivedData
  <2> QED BY <2>1, <2>2
<1> QED BY <1>4, <1>5

LEMMA ReadInit == Init => RInv
<1> SUFFICES ASSUME Init PROVE RInv OBVIOUS
<1>1. TInv BY TypeInit
<1>2. /\ stream \in Streams /\ arrived = 0 /\ bufferList = EmptyList /\ frame = NewFrame
      /\ parsed = <<>> /\ rejected = FALSE
  BY DEF Init
<1>3. PICK l \in Nat : l = Len(Pieces) BY <1>2, PiecesFit
<1>4. Wire \in Seq(Nat) /\ Ends(0) = 0 BY <1>2, WireLayout
<1>5. PICK p : p = Parser(frame, bufferList, maskBytes, FALSE) OBVIOUS
<1>6. At(p, NewFrame, Wire, Ends(0), arrived)
  <2>1. p.frame = NewFrame /\ p.list = EmptyList /\ p = Parser(p.frame, p.list, p.maskBytes, FALSE)
    BY <1>2, <1>5 DEF Parser
  <2>2. Holds(EmptyList, Wire, 0, 0) BY <1>4, EmptyHolds
  <2> QED BY <1>2, <1>4, <2>1, <2>2 DEF At
<1>7. Reading(p, 0, arrived) BY <1>6 DEF Reading, AtStep, AtHeader
<1>8. Waiting(0, arrived)
  <2> SUFFICES ASSUME 0 < Len(Pieces) PROVE arrived < Ends(0) + Decided(BytesOf(0 + 1)) BY DEF Waiting
  <2>1. PICK i \in 1..l : i = 1 BY <1>3
  <2>2. Piece(BytesOf(i), Wire, Ends(i - 1)) BY <1>2, <1>3, WireLayout
  <2>3. Decided(BytesOf(i)) >= 2 /\ Decided(BytesOf(i)) \in Nat BY <2>2, StepNeeds, PieceNumbers
  <2> QED BY <1>2, <1>4, <2>1, <2>3
<1>9. parsed = Whole(0)
  <2>1. 1..0 = {} OBVIOUS
  <2> QED BY <1>2, <2>1 DEF Whole
<1>10. Legal(0) BY DEF Legal
<1>11. IsAt(0)
  <2>1. Ends(0) <= arrived BY <1>2, <1>4
  <2>2. rejected # TRUE BY <1>2
  <2>3. Reading(Parser(frame, bufferList, maskBytes, FALSE), 0, arrived) BY <1>5, <1>7
  <2> QED BY <1>8, <1>9, <1>10, <2>1, <2>2, <2>3, Zenon DEF IsAt, Reached
<1> QED BY <1>1, <1>3, <1>11 DEF RInv

\* The state that is reached, of a stream that stays the same.
LEMMA ReachedNext ==
  ASSUME TInv', stream' = stream,
         \E m \in 0..Len(Pieces) : Reached(m, parsed', frame', bufferList', maskBytes', calls', rejected', arrived')
  PROVE  RInv'
<1>1. PICK m \in 0..Len(Pieces) :
        Reached(m, parsed', frame', bufferList', maskBytes', calls', rejected', arrived')
  OBVIOUS
<1>2. Len(Pieces)' = Len(Pieces) BY DEF Pieces
<1>3. IsAt(m)' BY <1>1 DEF IsAt, Reached, Whole, Legal, Ends, Reading, Waiting, Refused, Pieces, BytesOf, Wire
<1> QED BY <1>1, <1>2, <1>3 DEF RInv

\* Nothing of our own is written over the key of a payload that is waited for:
\* we do not send then, or the peer masks nothing, as servers do.
KeysApart ==
  ~MasksMeet \/ \A s \in Streams : \A i \in DOMAIN s.pieces : ~(s.pieces[i].bytes[2] >= MaskBit)

LEMMA ReadNext == ASSUME KeysApart PROVE RInv /\ [Next]_vars => RInv'
<1> SUFFICES ASSUME RInv, [Next]_vars PROVE RInv' OBVIOUS
<1>1. TInv /\ TInv' BY TypeNext DEF RInv
<1>2. PICK k \in 0..Len(Pieces) : IsAt(k) BY DEF RInv
<1>3. /\ parsed = Whole(k) /\ Legal(k) /\ Ends(k) <= arrived
      /\ rejected = FALSE => /\ Reading(Parser(frame, bufferList, maskBytes, FALSE), k, arrived)
                             /\ calls = 0 => Waiting(k, arrived)
      /\ rejected = TRUE => Refused(frame, k, arrived)
  BY <1>2 DEF IsAt, Reached
<1>4. /\ stream \in Streams /\ arrived \in Nat /\ arrived <= Len(Wire) /\ Len(Wire) \in Nat
      /\ calls \in Nat /\ rejected \in BOOLEAN
  <2>1. stream \in Streams /\ arrived \in 0..Len(Wire) /\ calls \in 0..chunks /\ rejected \in BOOLEAN
    BY <1>1 DEF TInv, TypeOK
  <2>2. Len(Wire) \in Nat
    <3>1. Wire \in Seq(Nat) BY <2>1, WireLayout
    <3> QED BY <3>1
  <2> QED BY <2>1, <2>2
<1>5. PICK l \in Nat : l = Len(Pieces) BY <1>4, PiecesFit
<1>6. Ends(k) \in Nat BY <1>4, WireLayout
<1>7. CASE Data
  <2>1. PICK n \in (arrived + 1)..Len(Wire) :
          /\ arrived' = n
          /\ ProcessReceivedData(Write(bufferList, SubSeq(Wire, arrived + 1, n)), calls)
    BY <1>7 DEF Data
  <2>2. rejected = FALSE /\ stream' = stream BY <1>4, <1>7 DEF Data
  <2>3. n \in Nat /\ arrived < n /\ n <= Len(Wire) /\ Ends(k) <= n BY <1>3, <1>4, <1>6, <2>1
  <2>4. PICK p, list : p = Parser(frame, bufferList, maskBytes, FALSE)
                       /\ list = Write(bufferList, SubSeq(Wire, arrived + 1, n))
    OBVIOUS
  <2>5. p.frame = frame /\ p.list = bufferList /\ p.maskBytes = maskBytes BY <2>4 DEF Parser
  <2>6. PICK q : q = Parser(p.frame, Write(p.list, SubSeq(Wire, arrived + 1, n)), p.maskBytes, FALSE) OBVIOUS
  <2>7. Reading(p, k, arrived) BY <1>3, <2>2, <2>4
  <2>8. k < Len(Pieces) => AtStep(q, BytesOf(k + 1), Wire, Ends(k), n) BY <2>3, <2>6, <2>7, StepMore DEF Reading
  <2>9. k = Len(Pieces) => At(q, NewFrame, Wire, Ends(k), n) BY <2>3, <2>6, <2>7, AtMore DEF Reading
  <2>10. Reading(q, k, n) BY <2>8, <2>9 DEF Reading
  <2>11. q = Parser(frame, list, maskBytes, FALSE) BY <2>4, <2>5, <2>6
  <2>12. \E m \in 0..Len(Pieces) : Reached(m, parsed', frame', bufferList', maskBytes', calls', rejected', n)
    BY <1>1, <1>3, <1>4, <2>1, <2>2, <2>3, <2>4, <2>10, <2>11, ProcessReads
  <2> QED BY <1>1, <2>1, <2>2, <2>12, ReachedNext
<1>8. CASE Immediate
  <2>1. calls > 0 /\ ProcessReceivedData(bufferList, calls - 1) /\ stream' = stream /\ arrived' = arrived
    BY <1>8 DEF Immediate
  <2>2. PICK queued \in Nat : queued = calls - 1 /\ ProcessReceivedData(bufferList, queued) BY <1>4, <2>1
  <2>3. CASE rejected = FALSE
    <3>1. Reading(Parser(frame, bufferList, maskBytes, FALSE), k, arrived) BY <1>3, <2>3
    <3>2. \E m \in 0..Len(Pieces) :
            Reached(m, parsed', frame', bufferList', maskBytes', calls', rejected', arrived)
      BY <1>1, <1>3, <1>4, <2>2, <2>3, <3>1, ProcessReads
    <3> QED BY <1>1, <2>1, <3>2, ReachedNext
  <2>4. CASE rejected = TRUE
    <3>1. Refused(frame, k, arrived) BY <1>3, <2>4
    <3>2. frame.bad = TRUE \/ frame.state = "complete" BY <3>1 DEF Refused
    <3>3. /\ parsed' = parsed /\ rejected' = TRUE
          /\ frame'.bad = TRUE \/ frame'.state = "complete"
      BY <1>1, <2>2, <2>4, <3>2, ProcessRefuses
    <3>4. Refused(frame', k, arrived) BY <3>1, <3>3 DEF Refused
    <3>5. Reached(k, parsed', frame', bufferList', maskBytes', calls', rejected', arrived)
      BY <1>3, <3>3, <3>4 DEF Reached
    <3> QED BY <1>1, <2>1, <3>5, ReachedNext
  <2> QED BY <1>4, <2>3, <2>4
<1>9. CASE Sends
  <2>1. PICK key \in Keys : maskBytes' = key BY <1>9 DEF Sends
  <2>2. /\ MasksMeet \/ ~(frame.state = "payload" /\ frame.mask)
        /\ stream' = stream /\ arrived' = arrived /\ bufferList' = bufferList /\ frame' = frame
        /\ calls' = calls /\ parsed' = parsed /\ rejected' = rejected
    BY <1>9 DEF Sends
  <2>3. ASSUME Reading(Parser(frame, bufferList, maskBytes, FALSE), k, arrived)
        PROVE  Reading(Parser(frame, bufferList, key, FALSE), k, arrived)
    <3>1. k < Len(Pieces) => AtStep(Parser(frame, bufferList, key, FALSE), BytesOf(k + 1), Wire, Ends(k), arrived)
      <4> SUFFICES ASSUME k < Len(Pieces)
                   PROVE  AtStep(Parser(frame, bufferList, key, FALSE), BytesOf(k + 1), Wire, Ends(k), arrived)
        OBVIOUS
      <4>1. AtStep(Parser(frame, bufferList, maskBytes, FALSE), BytesOf(k + 1), Wire, Ends(k), arrived)
        BY <2>3 DEF Reading
      <4>2. ~(frame.state = "payload" /\ frame.mask) \/ ~(BytesOf(k + 1)[2] >= MaskBit)
        <5>1. k + 1 \in DOMAIN Pieces BY <1>4, <1>5, PiecesFit
        <5> QED BY <1>4, <2>2, <5>1 DEF KeysApart, BytesOf, Pieces
      <4> QED BY <4>1, <4>2, StepKeyed
    <3>2. ASSUME k = Len(Pieces)
          PROVE  At(Parser(frame, bufferList, key, FALSE), NewFrame, Wire, Ends(k), arrived)
      <4>1. At(Parser(frame, bufferList, maskBytes, FALSE), NewFrame, Wire, Ends(k), arrived)
        BY <2>3, <3>2 DEF Reading
      <4> QED BY <4>1 DEF At, Parser
    <3> QED BY <3>1, <3>2 DEF Reading
  <2>4. Reached(k, parsed', frame', bufferList', maskBytes', calls', rejected', arrived)
    BY <1>3, <2>1, <2>2, <2>3 DEF Reached
  <2> QED BY <1>1, <2>2, <2>4, ReachedNext
<1>10. CASE Finished \/ UNCHANGED vars
  <2>1. UNCHANGED vars BY <1>10 DEF Finished
  <2>2. Reached(k, parsed', frame', bufferList', maskBytes', calls', rejected', arrived')
    BY <1>3, <2>1 DEF Reached, vars
  <2> QED BY <1>1, <2>1, <2>2, ReachedNext DEF vars
<1> QED BY <1>7, <1>8, <1>9, <1>10 DEF Next

\* What is shown of frames; of the frames taken it is what was sent.
Shown(fs) == [i \in DOMAIN fs |-> FrameOf(fs[i])]

LEMMA ShownIsSent ==
  ASSUME stream \in Streams, NEW k \in 0..Len(Pieces), Legal(k)
  PROVE  Shown(Whole(k)) = Sent(k)
<1>1. PICK l \in Nat : l = Len(Pieces) BY PiecesFit
<1>2. DOMAIN Whole(k) = 1..k /\ \A i \in 1..k : Whole(k)[i] = WholeOf(BytesOf(i)) BY DEF Whole
<1>3. ASSUME NEW i \in 1..k PROVE FrameOf(Whole(k)[i]) = Pieces[i].frame
  <2>1. i \in 1..l /\ Pieces[i].legal = TRUE
    <3>1. i \in 1..l BY <1>1
    <3>2. Pieces[i].legal BY DEF Legal, Pieces
    <3>3. Pieces[i].legal \in BOOLEAN BY <1>1, <3>1, PiecesFit
    <3> QED BY <3>1, <3>2, <3>3
  <2>2. Fits(Pieces[i]) BY <1>1, <2>1, PiecesFit
  <2>3. PICK w, e : w = Whole(k)[i] /\ e = Pieces[i].frame OBVIOUS
  <2>4. /\ w.fin = e.fin /\ w.opcode = e.opcode /\ w.status = e.status /\ w.payload = e.payload
        /\ e \in [fin : BOOLEAN, opcode : 0..15, status : Int, payload : Seq(Byte)]
    BY <1>2, <2>1, <2>2, <2>3 DEF Fits, Shows, Pieces, BytesOf
  <2>5. e = [fin |-> e.fin, opcode |-> e.opcode, status |-> e.status, payload |-> e.payload] BY ONLY <2>4
  <2>6. e = [fin |-> w.fin, opcode |-> w.opcode, status |-> w.status, payload |-> w.payload] BY ONLY <2>4, <2>5
  <2> QED BY <2>3, <2>6 DEF FrameOf
<1> QED BY <1>2, <1>3 DEF Shown, Sent

\* Of what has arrived no more was taken than is whole; and when no call is
\* queued and nothing was rejected, no less.
LEMMA TakenIsWhole ==
  ASSUME TInv, NEW k \in 0..Len(Pieces), IsAt(k), NEW m \in 0..Len(Pieces),
         \A i \in 1..Len(Pieces) : i <= m <=> Legal(i) /\ Ends(i) <= arrived
  PROVE  k <= m /\ (calls = 0 /\ rejected = FALSE => k = m)
<1>1. /\ Legal(k) /\ Ends(k) <= arrived
      /\ rejected = FALSE /\ calls = 0 => Waiting(k, arrived)
  BY DEF IsAt, Reached
<1>2. stream \in Streams /\ arrived \in Nat
  <2>1. stream \in Streams /\ arrived \in 0..Len(Wire) BY DEF TInv, TypeOK
  <2> QED BY <2>1
<1>3. PICK l \in Nat : l = Len(Pieces) BY <1>2, PiecesFit
<1>4. k <= m
  <2>1. CASE k = 0 BY <2>1
  <2>2. CASE k # 0
    <3>1. k \in 1..Len(Pieces) BY <1>3, <2>2
    <3> QED BY <1>1, <3>1
  <2> QED BY <2>1, <2>2
<1>5. ASSUME calls = 0, rejected = FALSE, k < m PROVE FALSE
  <2>1. PICK i \in 1..l : i = k + 1 /\ i - 1 = k /\ i <= m BY <1>3, <1>5
  <2>2. Legal(i) /\ Ends(i) <= arrived BY <1>3, <2>1
  <2>3. Pieces[i].legal = TRUE
    <3>1. Pieces[i].legal /\ Pieces[i].legal \in BOOLEAN BY <1>2, <1>3, <2>2, PiecesFit DEF Legal, Pieces
    <3> QED BY <3>1
  <2>4. Fits(Pieces[i]) BY <1>2, <1>3, PiecesFit
  <2>5. Decided(BytesOf(i)) = Len(BytesOf(i)) BY <2>3, <2>4 DEF Fits, BytesOf, Pieces
  <2>6. Ends(i) = Ends(k) + Len(BytesOf(i)) BY <1>2, <1>3, <2>1, WireLayout
  <2>7. arrived < Ends(k) + Decided(BytesOf(i)) BY <1>1, <1>3, <1>5, <2>1 DEF Waiting
  <2>8. Ends(i) \in Nat
    <3>1. i \in 0..l OBVIOUS
    <3> QED BY <1>2, <1>3, <3>1, WireLayout
  <2> QED BY <1>2, <2>2, <2>5, <2>6, <2>7, <2>8
<1>6. ASSUME calls = 0, rejected = FALSE PROVE k = m
  <2>1. ~(k < m) BY <1>5, <1>6
  <2> QED BY ONLY <1>3, <1>4, <2>1, k \in 0..Len(Pieces), m \in 0..Len(Pieces)
<1> QED BY <1>4, <1>6

\* An illegal piece shows itself when it was rejected, and only then if no call
\* is queued.
LEMMA RejectedIsIllegal ==
  ASSUME TInv, NEW k \in 0..Len(Pieces), IsAt(k)
  PROVE  /\ rejected = TRUE => IllegalBy(arrived)
         /\ calls = 0 /\ rejected = FALSE => ~IllegalBy(arrived)
<1>1. /\ Legal(k) /\ Ends(k) <= arrived
      /\ rejected = FALSE /\ calls = 0 => Waiting(k, arrived)
      /\ rejected = TRUE => Refused(frame, k, arrived)
  BY DEF IsAt, Reached
<1>2. stream \in Streams /\ arrived \in Nat
  <2>1. stream \in Streams /\ arrived \in 0..Len(Wire) BY DEF TInv, TypeOK
  <2> QED BY <2>1
<1>3. PICK l \in Nat : l = Len(Pieces) /\ DOMAIN Pieces = 1..l BY <1>2, PiecesFit
<1>4. \A i \in 1..l : Pieces[i].legal # TRUE =>
        ~Pieces[i].legal /\ stream.pieces[i].decided = Decided(BytesOf(i))
  <2> SUFFICES ASSUME NEW i \in 1..l, Pieces[i].legal # TRUE
               PROVE  ~Pieces[i].legal /\ stream.pieces[i].decided = Decided(BytesOf(i))
    OBVIOUS
  <2>1. Pieces[i].legal \in BOOLEAN /\ Fits(Pieces[i]) BY <1>2, <1>3, PiecesFit
  <2>2. ~Pieces[i].legal BY <2>1
  <2>3. stream.pieces[i].decided = Decided(BytesOf(i)) BY <2>1 DEF Fits, Pieces, BytesOf
  <2> QED BY <2>2, <2>3
<1>5. ASSUME rejected = TRUE PROVE IllegalBy(arrived)
  <2>1. Refused(frame, k, arrived) BY <1>1, <1>5
  <2>2. PICK i \in 1..l : i = k + 1 /\ i - 1 = k BY <1>3, <2>1 DEF Refused
  <2>3. Pieces[i].legal # TRUE /\ Ends(i - 1) + Decided(BytesOf(i)) <= arrived BY <2>1, <2>2 DEF Refused
  <2>4. /\ Legal(i - 1) /\ ~stream.pieces[i].legal
        /\ Ends(i - 1) + stream.pieces[i].decided <= arrived
    BY <1>1, <1>4, <2>2, <2>3 DEF Pieces
  <2> QED BY <1>3, <2>4 DEF IllegalBy, Pieces
<1>6. ASSUME calls = 0, rejected = FALSE, IllegalBy(arrived) PROVE FALSE
  <2>1. PICK i \in 1..l : /\ Legal(i - 1) /\ ~stream.pieces[i].legal
                          /\ Ends(i - 1) + stream.pieces[i].decided <= arrived
    BY <1>3, <1>6 DEF IllegalBy, Pieces
  <2>2. Pieces[i].legal # TRUE BY <2>1 DEF Pieces
  <2>3. Ends(i - 1) + Decided(BytesOf(i)) <= arrived BY <1>4, <2>1, <2>2
  <2>4. Piece(BytesOf(i), Wire, Ends(i - 1)) BY <1>2, <1>3, WireLayout
  <2>5. Decided(BytesOf(i)) \in Nat BY <2>4, PieceNumbers
  <2>6. i > k
    <3> SUFFICES ASSUME i \in 1..k PROVE FALSE OBVIOUS
    <3> QED BY <1>1, <2>1 DEF Legal
  <2>7. k < l BY <1>3, <2>6
  <2>8. PICK j \in 1..l : j = k + 1 /\ j - 1 = k BY <2>7
  <2>9. arrived < Ends(k) + Decided(BytesOf(j)) BY <1>1, <1>3, <1>6, <2>7, <2>8 DEF Waiting
  <2>10. CASE i = j
    <3>1. k \in 0..l BY <1>3
    <3>2. Ends(k) \in Nat BY <1>2, <1>3, WireLayout
    <3>3. Ends(k) + Decided(BytesOf(i)) <= arrived BY <2>3, <2>8, <2>10
    <3>4. arrived < Ends(k) + Decided(BytesOf(i)) BY <2>9, <2>10
    <3> QED BY ONLY <1>2, <2>5, <3>2, <3>3, <3>4
  <2>11. CASE i # j
    <3>1. j \in 1..(i - 1) /\ j \in 0..(i - 1) /\ i - 1 \in 0..l /\ j \in 0..l BY <2>6, <2>8, <2>11
    <3>2. Pieces[j].legal BY <2>1, <3>1 DEF Legal, Pieces
    <3>3. Pieces[j].legal \in BOOLEAN /\ Fits(Pieces[j]) BY <1>2, <1>3, PiecesFit
    <3>4. Pieces[j].legal = TRUE BY <3>2, <3>3
    <3>5. Decided(BytesOf(j)) = Len(BytesOf(j)) BY <3>3, <3>4 DEF Fits, BytesOf, Pieces
    <3>6. Ends(j) = Ends(k) + Len(BytesOf(j)) BY <1>2, <1>3, <2>8, WireLayout
    <3>7. Ends(j) <= Ends(i - 1) BY <1>2, <1>3, <3>1, EndsGrow
    <3>8. Ends(j) \in Nat /\ Ends(i - 1) \in Nat BY <1>2, <1>3, <3>1, WireLayout
    <3> QED BY <1>2, <2>3, <2>5, <2>9, <3>5, <3>6, <3>7, <3>8
  <2> QED BY <2>10, <2>11
<1> QED BY <1>5, <1>6

\* One step hands on one frame at most, and the wire goes on.
LEMMA StepTakes ==
  ASSUME [Next]_vars, arrived \in Nat
  PROVE  /\ stream' = stream /\ arrived' \in Nat /\ arrived <= arrived'
         /\ arrived' # arrived => arrived < Len(Wire)
         /\ parsed' = parsed \/ \E f : parsed' = Append(parsed, f)
<1>1. ASSUME NEW list, NEW queued, ProcessReceivedData(list, queued)
      PROVE  parsed' = parsed \/ \E f : parsed' = Append(parsed, f)
  BY <1>1 DEF ProcessReceivedData
<1>2. CASE Data
  <2>1. PICK n \in (arrived + 1)..Len(Wire) :
          /\ arrived' = n
          /\ ProcessReceivedData(Write(bufferList, SubSeq(Wire, arrived + 1, n)), calls)
    BY <1>2 DEF Data
  <2>2. stream' = stream BY <1>2 DEF Data
  <2>3. arrived' \in Nat /\ arrived <= arrived' BY <2>1
  <2>4. arrived < Len(Wire)
    <3>1. arrived + 1 <= n /\ n <= Len(Wire) BY <2>1
    <3> QED BY <2>1, <3>1
  <2> QED BY <1>1, <2>1, <2>2, <2>3, <2>4
<1>3. CASE Immediate
  <2>1. ProcessReceivedData(bufferList, calls - 1) /\ stream' = stream /\ arrived' = arrived
    BY <1>3 DEF Immediate
  <2> QED BY <1>1, <2>1
<1>4. CASE Sends \/ Finished \/ UNCHANGED vars BY <1>4 DEF Sends, Finished, vars
<1> QED BY <1>2, <1>3, <1>4 DEF Next

LEMMA WholeLen ==
  ASSUME NEW l \in Nat, NEW k \in 0..l PROVE \E S : Whole(k) \in Seq(S) /\ Len(Whole(k)) = k
<1>1. PICK f, s : f = [i \in 1..l |-> WholeOf(BytesOf(i))] /\ s = Whole(k) OBVIOUS
<1>2. s = [i \in 1..k |-> f[i]] BY <1>1 DEF Whole
<1>3. s \in Seq({f[i] : i \in 1..l}) /\ Len(s) = k BY <1>2, ByIndex
<1> QED BY <1>1, <1>3

\* What was handed on stays.
LEMMA TakenGrows ==
  ASSUME NEW l \in Nat, NEW k \in 0..l, NEW m \in 0..l,
         Whole(m) = Whole(k) \/ \E f : Whole(m) = Append(Whole(k), f)
  PROVE  k <= m
<1>1. PICK S : Whole(k) \in Seq(S) /\ Len(Whole(k)) = k BY WholeLen
<1>2. Len(Whole(m)) = m BY WholeLen
<1>3. CASE Whole(m) = Whole(k) BY <1>1, <1>2, <1>3
<1>4. ASSUME NEW f, Whole(m) = Append(Whole(k), f) PROVE k <= m
  <2>1. PICK s, T : s = Whole(k) /\ T = S \cup {f} OBVIOUS
  <2>2. s \in Seq(T) /\ f \in T
    <3>1. \A A, B : A \subseteq B => \A u \in Seq(A) : u \in Seq(B) OBVIOUS
    <3> QED BY <1>1, <2>1, <3>1
  <2>3. Len(Append(s, f)) = Len(s) + 1 BY ONLY <2>2
  <2> QED BY <1>1, <1>2, <1>4, <2>1, <2>3
<1> QED BY <1>3, <1>4

\* The state that the pipe sees.
PipeNow == IsPrefix(Received, FramesBy(arrived))
PipeStep == [Frames!Flow \/ Frames!Close]_<<FramesBy(arrived), Received, arrived = Len(Wire), FALSE>>

LEMMA SamePrefix == \A s, t : Frames!IsPrefix(s, t) <=> IsPrefix(s, t)
BY DEF Frames!IsPrefix, IsPrefix

LEMMA ReceivedIsPrefix == RInv => PipeNow
<1> SUFFICES ASSUME RInv PROVE PipeNow OBVIOUS
<1>1. TInv BY DEF RInv
<1>2. PICK k \in 0..Len(Pieces) : IsAt(k) BY DEF RInv
<1>3. stream \in Streams /\ arrived \in Nat
  <2>1. stream \in Streams /\ arrived \in 0..Len(Wire) BY <1>1 DEF TInv, TypeOK
  <2> QED BY <2>1
<1>4. PICK m \in 0..Len(Pieces) :
        FramesBy(arrived) = Sent(m) /\ \A i \in 1..Len(Pieces) : i <= m <=> Legal(i) /\ Ends(i) <= arrived
  BY <1>3, WholeOnes
<1>5. Received = Sent(k)
  <2>1. Received = Shown(parsed) BY DEF Received, Shown, FrameOf
  <2>2. parsed = Whole(k) /\ Legal(k) BY <1>2 DEF IsAt, Reached
  <2> QED BY <1>3, <2>1, <2>2, ShownIsSent
<1>6. k <= m BY <1>1, <1>2, <1>4, TakenIsWhole
<1>7. k \in 0..m BY <1>6
<1>8. IsPrefix(Sent(k), Sent(m)) BY <1>3, <1>7, SentGrows
<1> QED BY <1>4, <1>5, <1>8 DEF PipeNow

LEMMA StepFlows == ASSUME RInv, RInv', PipeNow', [Next]_vars PROVE PipeStep
<1>1. TInv /\ TInv' BY DEF RInv
<1>2. stream \in Streams /\ arrived \in Nat /\ Len(Wire) \in Nat /\ arrived <= Len(Wire)
  <2>1. stream \in Streams /\ arrived \in 0..Len(Wire) BY <1>1 DEF TInv, TypeOK
  <2>2. Wire \in Seq(Nat) BY <2>1, WireLayout
  <2>3. Len(Wire) \in Nat BY <2>2
  <2> QED BY <2>1, <2>3
<1>3. /\ stream' = stream /\ arrived' \in Nat /\ arrived <= arrived'
      /\ arrived' # arrived => arrived < Len(Wire)
      /\ parsed' = parsed \/ \E f : parsed' = Append(parsed, f)
  BY <1>2, StepTakes
<1>4. Wire' = Wire /\ Len(Pieces)' = Len(Pieces) BY <1>3 DEF Wire, Pieces
<1>5. PICK l \in Nat : l = Len(Pieces) BY <1>2, PiecesFit
<1>6. PICK k \in 0..l : IsAt(k) BY <1>5 DEF RInv
<1>7. PICK n \in 0..l : IsAt(n)' BY <1>4, <1>5 DEF RInv
<1>8. parsed = Whole(k) /\ Legal(k) BY <1>6 DEF IsAt, Reached
<1>9. parsed' = Whole(n) /\ Legal(n)
  <2>1. parsed' = Whole(n)' /\ Legal(n)' BY <1>7 DEF IsAt, Reached
  <2> QED BY <1>3, <2>1 DEF Whole, BytesOf, Legal
<1>10. k <= n BY <1>3, <1>8, <1>9, TakenGrows
<1>11. Received = Sent(k)
  <2>1. Received = Shown(parsed) BY DEF Received, Shown, FrameOf
  <2> QED BY <1>2, <1>5, <1>8, <2>1, ShownIsSent
<1>12. Received' = Sent(n)
  <2>1. Received' = Shown(parsed') BY DEF Received, Shown, FrameOf
  <2> QED BY <1>2, <1>5, <1>9, <2>1, ShownIsSent
<1>13. PICK m \in 0..l :
         FramesBy(arrived) = Sent(m) /\ \A i \in 1..l : i <= m <=> Legal(i) /\ Ends(i) <= arrived
  BY <1>2, <1>5, WholeOnes
<1>14. PICK o \in 0..l :
         FramesBy(arrived') = Sent(o) /\ \A i \in 1..l : i <= o <=> Legal(i) /\ Ends(i) <= arrived'
  BY <1>2, <1>3, <1>5, WholeOnes
<1>15. FramesBy(arrived)' = FramesBy(arrived') BY <1>3 DEF FramesBy, Legal, Ends
<1>16. m <= o
  <2>1. CASE m = 0 BY <2>1
  <2>2. CASE m # 0
    <3>1. m \in 1..l BY <2>2
    <3>2. Legal(m) /\ Ends(m) <= arrived BY <1>13, <3>1
    <3>3. Ends(m) \in Nat BY <1>2, <1>5, WireLayout
    <3>4. Ends(m) <= arrived' BY <1>2, <1>3, <3>2, <3>3
    <3> QED BY <1>14, <3>1, <3>2, <3>4
  <2> QED BY <2>1, <2>2
<1>17. IsPrefix(FramesBy(arrived), FramesBy(arrived)')
  <2>1. m \in 0..o BY <1>16
  <2> QED BY <1>2, <1>5, <1>13, <1>14, <1>15, <2>1, SentGrows
<1>18. IsPrefix(Received, Received')
  <2>1. k \in 0..n BY <1>10
  <2> QED BY <1>2, <1>5, <1>11, <1>12, <2>1, SentGrows
<1>19. IsPrefix(Received', FramesBy(arrived)') BY DEF PipeNow
<1>20. arrived = Len(Wire) => (arrived = Len(Wire))' /\ FramesBy(arrived)' = FramesBy(arrived)
  <2> SUFFICES ASSUME arrived = Len(Wire)
               PROVE  (arrived = Len(Wire))' /\ FramesBy(arrived)' = FramesBy(arrived)
    OBVIOUS
  <2>1. arrived' = arrived BY <1>2, <1>3
  <2> QED BY <1>4, <1>15, <2>1
<1>21. Frames!Flow BY <1>17, <1>18, <1>19, <1>20, SamePrefix DEF Frames!Flow
<1> QED BY <1>21 DEF PipeStep

LEMMA Invariance == ASSUME KeysApart PROVE Spec => []RInv
<1>1. RInv /\ [Next]_vars => RInv' BY ReadNext
<1> QED BY ReadInit, <1>1, PTL DEF Spec

\* The parser never waits for a byte that it does not need, and an illegal
\* frame is rejected as soon as it shows: whatever the lengths, and wherever
\* the chunks are cut.
THEOREM NothingIsHeldBack ==
  ASSUME KeysApart
  PROVE  Spec => []NothingWaits
<1>1. RInv => NothingWaits
  <2> SUFFICES ASSUME RInv, calls = 0
               PROVE  (Received = FramesBy(arrived) \/ rejected) /\ rejected = IllegalBy(arrived)
    BY DEF NothingWaits
  <2>1. TInv BY DEF RInv
  <2>2. PICK k \in 0..Len(Pieces) : IsAt(k) BY DEF RInv
  <2>3. stream \in Streams /\ arrived \in Nat /\ rejected \in BOOLEAN
    <3>1. stream \in Streams /\ arrived \in 0..Len(Wire) /\ rejected \in BOOLEAN BY <2>1 DEF TInv, TypeOK
    <3> QED BY <3>1
  <2>4. rejected = IllegalBy(arrived)
    <3>1. IllegalBy(arrived) \in BOOLEAN BY DEF IllegalBy
    <3>2. rejected = TRUE => IllegalBy(arrived) BY <2>1, <2>2, RejectedIsIllegal
    <3>3. rejected = FALSE => ~IllegalBy(arrived) BY <2>1, <2>2, RejectedIsIllegal
    <3> QED BY <2>3, <3>1, <3>2, <3>3
  <2>5. CASE rejected = TRUE BY <2>4, <2>5
  <2>6. CASE rejected = FALSE
    <3>1. PICK m \in 0..Len(Pieces) :
            /\ FramesBy(arrived) = Sent(m)
            /\ \A i \in 1..Len(Pieces) : i <= m <=> Legal(i) /\ Ends(i) <= arrived
      BY <2>3, WholeOnes
    <3>2. k = m BY <2>1, <2>2, <2>6, <3>1, TakenIsWhole
    <3>3. Received = Sent(k)
      <4>1. Received = Shown(parsed) BY DEF Received, Shown, FrameOf
      <4>2. parsed = Whole(k) /\ Legal(k) BY <2>2 DEF IsAt, Reached
      <4> QED BY <2>3, <4>1, <4>2, ShownIsSent
    <3> QED BY <2>4, <3>1, <3>2, <3>3
  <2> QED BY <2>3, <2>5, <2>6
<1> QED BY <1>1, Invariance, PTL

\* The parser is a pipe: the frames that come out are those the peer sent,
\* whole, in order and once, and none at or behind an illegal one.
THEOREM ParserIsPipe ==
  ASSUME KeysApart
  PROVE  Spec => PipeSpec
<1>1. Init => Frames!Init
  <2> SUFFICES ASSUME Init PROVE Frames!Init OBVIOUS
  <2>1. PipeNow BY ReadInit, ReceivedIsPrefix
  <2> QED BY <2>1, SamePrefix DEF Frames!Init, PipeNow
<1>2. RInv => PipeNow BY ReceivedIsPrefix
<1>3. RInv /\ RInv' /\ PipeNow' /\ [Next]_vars
        => [Frames!Flow \/ Frames!Close]_<<FramesBy(arrived), Received, arrived = Len(Wire), FALSE>>
  BY StepFlows DEF PipeStep
<1> QED BY <1>1, <1>2, <1>3, Invariance, PTL DEF Spec, PipeSpec, Frames!Spec, Frames!vars

-----------------------------------------------------------------------------
\* What lies between growing bounds makes the whole up to the last bound.
Between(w, from, to) == SubSeq(w, from + 1, to)
IsCut(ss, w, b, n, S) ==
  /\ n \in Nat /\ w \in Seq(S) /\ ss \in Seq(Seq(S)) /\ Len(ss) = n
  /\ b \in [0..n -> 0..Len(w)] /\ b[0] = 0 /\ \A i \in 1..n : b[i - 1] <= b[i]
  /\ \A i \in 1..n : ss[i] = Between(w, b[i - 1], b[i])
LEMMA CutsJoin ==
  ASSUME NEW ss, NEW w, NEW b, NEW n, NEW S, IsCut(ss, w, b, n, S)
  PROVE  \A k \in 0..n : FlattenSeq(SubSeq(ss, 1, k)) = SubSeq(w, 1, b[k])
<1>0. /\ n \in Nat /\ w \in Seq(S) /\ ss \in Seq(Seq(S)) /\ Len(ss) = n
      /\ b \in [0..n -> 0..Len(w)] /\ b[0] = 0 /\ \A i \in 1..n : b[i - 1] <= b[i]
      /\ \A i \in 1..n : ss[i] = SubSeq(w, b[i - 1] + 1, b[i])
  BY DEF IsCut, Between
<1> USE <1>0
<1>1. PICK W : W = Seq(S) /\ ss \in Seq(W) OBVIOUS
<1>2. PICK z \in Nat : z = Len(w) OBVIOUS
<1>3. \A k \in 0..n : b[k] \in 0..z BY <1>2
<1> DEFINE T == {k \in 0..n : FlattenSeq(SubSeq(ss, 1, k)) = SubSeq(w, 1, b[k])}
<1>4. 0 \in T
  <2>1. SubSeq(ss, 1, 0) = <<>> BY <1>1
  <2>2. SubSeq(w, 1, 0) = <<>> OBVIOUS
  <2>3. FlattenSeq(SubSeq(ss, 1, 0)) = SubSeq(w, 1, b[0])
    <3>1. SubSeq(w, 1, b[0]) = SubSeq(w, 1, 0) OBVIOUS
    <3> QED BY <2>1, <2>2, <3>1, FlattenNone
  <2>4. 0 \in 0..n OBVIOUS
  <2> QED BY <2>3, <2>4
<1>5. ASSUME NEW k \in 0..(n - 1), k \in T PROVE k + 1 \in T
  <2>1. PICK m \in 1..n : m = k + 1 /\ m - 1 = k OBVIOUS
  <2>2. PICK g \in Nat, h \in Nat : g = b[k] /\ h = b[m] /\ g <= h /\ h <= z
    <3>1. b[m - 1] <= b[m] OBVIOUS
    <3>2. k \in 0..n /\ m \in 0..n OBVIOUS
    <3>3. b[k] \in 0..z /\ b[m] \in 0..z BY <1>3, <3>2
    <3> QED BY <2>1, <3>1, <3>3
  <2>3. PICK front \in Seq(Seq(S)) : front = SubSeq(ss, 1, k)
    <3>1. SubSeq(ss, 1, k) \in Seq(W) BY <1>1
    <3> QED BY <1>1, <3>1
  <2>4. PICK part \in Seq(S) : part = SubSeq(w, g + 1, h) /\ part = ss[m]
    <3>1. ss[m] \in Seq(S) BY <2>1
    <3>2. ss[m] = SubSeq(w, g + 1, h) BY <2>1, <2>2
    <3> QED BY <3>1, <3>2
  <2>5. SubSeq(ss, 1, m) = Add(front, part)
    <3>1. k \in Nat /\ k + 1 <= Len(ss) /\ ss \in Seq(W) BY <1>1
    <3>2. SubSeq(ss, 1, k + 1) = Add(SubSeq(ss, 1, k), ss[k + 1]) BY ONLY <3>1, OneMore
    <3> QED BY <2>1, <2>3, <2>4, <3>2
  <2>6. FlattenSeq(Add(front, part)) = Cat(FlattenSeq(front), part)
    BY ONLY front \in Seq(Seq(S)), part \in Seq(S), FlattenAdd
  <2>7. FlattenSeq(front) = SubSeq(w, 1, g) BY <1>5, <2>2, <2>3
  <2>8. SubSeq(w, 1, h) = Cat(SubSeq(w, 1, g), SubSeq(w, g + 1, h))
    <3>1. w \in Seq(S) /\ g \in Nat /\ h \in Nat /\ g <= h /\ h <= Len(w) BY <1>2, <2>2
    <3> QED BY ONLY <3>1, CutInTwo
  <2>9. FlattenSeq(SubSeq(ss, 1, m)) = SubSeq(w, 1, b[m]) BY <2>2, <2>4, <2>5, <2>6, <2>7, <2>8
  <2> QED BY <2>1, <2>9
<1> HIDE DEF T
<1>6. 0..n \subseteq T BY <1>4, <1>5, BoundedInduction
<1> QED BY <1>6 DEF T

\* Into how many fragments a message is cut, and where the i-th one ends.
Number(l) == IF l <= Threshold THEN 1 ELSE (l + Threshold - 1) \div Threshold
Bound(l, i) == IF i = Number(l) THEN l ELSE Threshold * i

LEMMA BoundsGrow ==
  ASSUME NEW l \in Nat
  PROVE  /\ Number(l) \in Nat /\ Number(l) >= 1 /\ (l <= Threshold => Number(l) = 1)
         /\ \A i \in 0..Number(l) : Bound(l, i) \in 0..l
         /\ Bound(l, 0) = 0 /\ Bound(l, Number(l)) = l
         /\ \A i \in 1..Number(l) : Bound(l, i - 1) <= Bound(l, i) /\ Bound(l, i - 1) = Threshold * (i - 1)
<1>1. PICK t \in Nat : t = Threshold /\ t > 0 BY LimitsAssumption
<1>2. PICK n : n = Number(l) OBVIOUS
<1>3. n \in Nat /\ n >= 1 /\ (l <= t => n = 1) /\ (n > 1 => (n - 1) * t < l)
  <2>1. CASE l <= t BY <1>1, <1>2, <2>1 DEF Number
  <2>2. CASE ~(l <= t)
    <3>1. PICK v \in Nat : v = l + t - 1 BY <1>1
    <3>2. n = v \div t BY <1>1, <1>2, <2>2, <3>1 DEF Number
    <3>3. PICK r \in 0..(t - 1) : n \in Nat /\ v = n * t + r BY <1>1, <3>2, Division
    <3>4. n # 0
      <4>1. ASSUME n = 0 PROVE FALSE
        <5>1. v = r BY <3>3, <4>1
        <5> QED BY <2>2, <3>1, <3>3, <5>1
      <4> QED BY <4>1
    <3>5. (n - 1) * t < l
      <4>1. (n - 1) * t = n * t - t BY <3>3
      <4>2. PICK p \in Int : p = n * t BY <3>3
      <4> QED BY <3>1, <3>3, <4>1, <4>2
    <3> QED BY <2>2, <3>3, <3>4, <3>5
  <2> QED BY <2>1, <2>2
<1>4. ASSUME NEW i \in 0..n PROVE Bound(l, i) \in 0..l /\ (i < n => Bound(l, i) = t * i /\ t * i < l + 1)
  <2>1. CASE i = n BY <1>2, <2>1 DEF Bound
  <2>2. CASE i # n
    <3>1. i \in Nat /\ n - 1 \in Nat /\ i <= n - 1 BY <1>3, <2>2
    <3>2. i * t <= (n - 1) * t BY <3>1, ProductGrows
    <3>3. Bound(l, i) = t * i /\ t * i = i * t /\ i * t \in Nat BY <1>1, <1>2, <2>2, <3>1 DEF Bound
    <3>4. i * t <= l
      <4>1. CASE n > 1
        <5>1. PICK p \in Int, q \in Int : p = i * t /\ q = (n - 1) * t BY <3>1
        <5> QED BY <1>3, <3>2, <4>1, <5>1
      <4>2. CASE ~(n > 1)
        <5>1. i = 0 BY <1>3, <3>1, <4>2
        <5> QED BY <5>1
      <4> QED BY <4>1, <4>2
    <3>5. PICK p \in Nat : p = i * t BY <3>3
    <3> QED BY <3>3, <3>4, <3>5
  <2> QED BY <2>1, <2>2
<1>5. Bound(l, 0) = 0 /\ Bound(l, n) = l
  <2>1. n # 0 /\ t * 0 = 0 BY <1>3
  <2> QED BY <1>1, <1>2, <2>1 DEF Bound
<1>6. ASSUME NEW i \in 1..n PROVE Bound(l, i - 1) <= Bound(l, i) /\ Bound(l, i - 1) = t * (i - 1)
  <2>1. PICK j \in 0..n : j = i - 1 /\ j < n /\ i = j + 1 BY <1>3
  <2>2. Bound(l, j) = t * j /\ Bound(l, j) \in 0..l BY <1>4, <2>1
  <2>3. CASE i = n BY <1>5, <2>1, <2>2, <2>3
  <2>4. CASE i # n
    <3>1. i \in 0..n /\ i < n BY <1>3, <2>4
    <3>2. Bound(l, i) = t * i BY <1>4, <3>1
    <3>3. t * i = t * j + t BY <2>1
    <3> QED BY <1>1, <2>1, <2>2, <3>2, <3>3
  <2> QED BY <2>3, <2>4
<1> QED BY <1>1, <1>2, <1>3, <1>4, <1>5, <1>6

\* The fragments of a message.
SentFrames == [fin : BOOLEAN, opcode : 0..15, status : Int, payload : Seq(Byte)]
LEMMA FragmentsAre ==
  ASSUME NEW opcode \in {1, 2}, NEW payload \in Seq(Byte), NEW l \in Nat, l = Len(payload),
         NEW ss, ss = Fragments(opcode, payload), NEW n \in Nat, n = Number(l)
  PROVE  /\ ss \in Seq(SentFrames) /\ Len(ss) = n
         /\ \A i \in 1..n : (ss[i].fin <=> i = n)
         /\ \A i \in 1..n : /\ ss[i].opcode = (IF i = 1 THEN opcode ELSE 0)
                            /\ ss[i].payload = Between(payload, Bound(l, i - 1), Bound(l, i))
                            /\ ss[i].payload \in Seq(Byte)
<1>1. ss = [i \in 1..n |-> [fin |-> i = n, opcode |-> IF i = 1 THEN opcode ELSE 0, status |-> -1,
                            payload |-> SubSeq(payload, Threshold * (i - 1) + 1,
                                               IF i = n THEN l ELSE Threshold * i)]]
  BY DEF Fragments, Number
<1>2. ASSUME NEW i \in 1..n
      PROVE  /\ ss[i] \in SentFrames
             /\ (ss[i].fin <=> i = n) /\ ss[i].opcode = (IF i = 1 THEN opcode ELSE 0)
             /\ ss[i].payload = Between(payload, Bound(l, i - 1), Bound(l, i))
             /\ ss[i].payload \in Seq(Byte)
  <2>1. Bound(l, i - 1) = Threshold * (i - 1) BY BoundsGrow
  <2>2. PICK g \in 0..l, h \in 0..l : g = Bound(l, i - 1) /\ h = Bound(l, i)
    <3>1. i - 1 \in 0..n /\ i \in 0..n OBVIOUS
    <3> QED BY <3>1, BoundsGrow
  <2>3. PICK part : part = SubSeq(payload, g + 1, h) OBVIOUS
  <2>4. part \in Seq(Byte) BY <2>2, <2>3
  <2>5. PICK code \in 0..15 : code = IF i = 1 THEN opcode ELSE 0 OBVIOUS
  <2>6. PICK fin \in BOOLEAN : fin = (i = n) OBVIOUS
  <2>7. h = IF i = n THEN l ELSE Threshold * i BY <2>2 DEF Bound
  <2>8. ss[i] = [fin |-> fin, opcode |-> code, status |-> -1, payload |-> part]
    <3>1. PICK from, to : from = Threshold * (i - 1) + 1 /\ to = IF i = n THEN l ELSE Threshold * i OBVIOUS
    <3>2. ss[i] = [fin |-> i = n, opcode |-> IF i = 1 THEN opcode ELSE 0, status |-> -1,
                   payload |-> SubSeq(payload, from, to)]
      BY ONLY <1>1, <3>1, i \in 1..n, Zenon
    <3>3. from = g + 1 /\ to = h BY <2>1, <2>2, <2>7, <3>1
    <3>4. SubSeq(payload, from, to) = part BY ONLY <2>3, <3>3, Zenon
    <3> QED BY ONLY <2>5, <2>6, <3>2, <3>4, Zenon
  <2>9. -1 \in Int OBVIOUS
  <2>10. ss[i] \in SentFrames BY <2>4, <2>8, <2>9 DEF SentFrames
  <2>11. ss[i].fin = fin /\ ss[i].opcode = code /\ ss[i].payload = part BY ONLY <2>8
  <2>12. part = Between(payload, g, h) BY <2>3 DEF Between
  <2> QED BY ONLY <2>2, <2>4, <2>5, <2>6, <2>10, <2>11, <2>12
<1>3. ss \in [1..n -> SentFrames]
  <2>1. DOMAIN ss = 1..n /\ ss = [i \in 1..n |-> ss[i]] BY <1>1
  <2> QED BY <1>2, <2>1
<1>4. ss \in Seq(SentFrames) /\ Len(ss) = n BY ONLY <1>3, n \in Nat
<1> QED BY <1>2, <1>4

\* The fragments of a message up to some fragment join to its payload up to
\* where that one ends; all of them, to the message.
THEOREM FragmentsJoin ==
  ASSUME NEW opcode \in {1, 2}, NEW payload \in Seq(Byte), NEW l \in Nat, l = Len(payload),
         NEW k \in 1..Len(Fragments(opcode, payload))
  PROVE  Joined(SubSeq(Fragments(opcode, payload), 1, k))
           = [opcode |-> opcode, payload |-> SubSeq(payload, 1, Bound(l, k))]
<1>1. PICK ss : ss = Fragments(opcode, payload) OBVIOUS
<1>2. PICK n \in Nat : n = Number(l) BY BoundsGrow
<1>3. /\ ss \in Seq(SentFrames) /\ Len(ss) = n
      /\ \A i \in 1..n : /\ ss[i].opcode = (IF i = 1 THEN opcode ELSE 0)
                         /\ ss[i].payload = Between(payload, Bound(l, i - 1), Bound(l, i))
                         /\ ss[i].payload \in Seq(Byte)
  <2>1. opcode \in {1, 2} /\ payload \in Seq(Byte) /\ l \in Nat /\ l = Len(payload) OBVIOUS
  <2>2. ss \in Seq(SentFrames) /\ Len(ss) = n BY ONLY <1>1, <1>2, <2>1, FragmentsAre
  <2>3. \A i \in 1..n : ss[i].opcode = (IF i = 1 THEN opcode ELSE 0) BY ONLY <1>1, <1>2, <2>1, FragmentsAre
  <2>4. \A i \in 1..n : ss[i].payload = Between(payload, Bound(l, i - 1), Bound(l, i)) /\ ss[i].payload \in Seq(Byte)
    BY ONLY <1>1, <1>2, <2>1, FragmentsAre
  <2> QED BY <2>2, <2>3, <2>4
<1>4. k \in 1..n BY <1>1, <1>3
<1>5. PICK queue : /\ queue = SubSeq(ss, 1, k) /\ DOMAIN queue = 1..k
                   /\ \A i \in 1..k : queue[i] = ss[i]
  <2>1. PICK q : q = SubSeq(ss, 1, k) OBVIOUS
  <2>2. ss \in Seq(SentFrames) /\ k \in Nat /\ k <= Len(ss) BY <1>3, <1>4
  <2>3. q \in Seq(SentFrames) /\ Len(q) = k BY ONLY <2>1, <2>2
  <2>4. \A i \in 1..k : q[i] = ss[i] BY ONLY <2>1, <2>2
  <2> QED BY <2>1, <2>3, <2>4
<1>6. PICK W : W = Seq(Byte) OBVIOUS
<1>7. PICK parts : parts = [i \in 1..n |-> ss[i].payload] OBVIOUS
<1>8. parts \in Seq(W) /\ Len(parts) = n /\ \A i \in 1..n : parts[i] = ss[i].payload
  <2>1. parts \in [1..n -> W] BY <1>3, <1>6, <1>7
  <2>2. parts \in Seq(W) /\ Len(parts) = n BY ONLY <2>1, n \in Nat
  <2> QED BY <1>7, <2>2
<1>9. [i \in DOMAIN queue |-> queue[i].payload] = SubSeq(parts, 1, k)
  <2>1. PICK p : p = [i \in 1..k |-> ss[i].payload] OBVIOUS
  <2>2. PICK q : q = SubSeq(parts, 1, k) OBVIOUS
  <2>3. p \in Seq(W) /\ Len(p) = k
    <3>1. p \in [1..k -> W] /\ k \in Nat BY <1>3, <1>4, <1>6, <2>1
    <3> QED BY ONLY <3>1
  <2>4. q \in Seq(W) /\ Len(q) = k /\ \A i \in 1..k : q[i] = parts[i] BY <1>4, <1>8, <2>2
  <2>5. \A i \in 1..k : p[i] = q[i] BY <1>4, <1>8, <2>1, <2>4
  <2>6. k \in Nat BY <1>4
  <2>7. p = q BY ONLY <2>3, <2>4, <2>5, <2>6, SameElements
  <2>8. [i \in DOMAIN queue |-> queue[i].payload] = p BY <1>5, <2>1
  <2> QED BY <2>2, <2>7, <2>8
<1>10. FlattenSeq(SubSeq(parts, 1, k)) = SubSeq(payload, 1, Bound(l, k))
  <2>1. PICK b : b = [i \in 0..n |-> Bound(l, i)] OBVIOUS
  <2>2. b \in [0..n -> 0..Len(payload)] BY <1>2, <2>1, BoundsGrow
  <2>3. b[0] = 0 BY <1>2, <2>1, BoundsGrow
  <2>4. \A i \in 1..n : i \in 0..n /\ i - 1 \in 0..n OBVIOUS
  <2>5. \A i \in 1..n : b[i - 1] <= b[i] BY <1>2, <2>1, <2>4, BoundsGrow
  <2>6. ASSUME NEW i \in 1..n PROVE parts[i] = Between(payload, b[i - 1], b[i])
    <3>1. b[i - 1] = Bound(l, i - 1) /\ b[i] = Bound(l, i) BY <2>1, <2>4
    <3>2. parts[i] = Between(payload, Bound(l, i - 1), Bound(l, i)) BY <1>3, <1>8
    <3> QED BY ONLY <3>1, <3>2
  <2>7. parts \in Seq(Seq(Byte)) /\ Len(parts) = n BY <1>6, <1>8
  <2>8. \A i \in 0..n : FlattenSeq(SubSeq(parts, 1, i)) = SubSeq(payload, 1, b[i])
    <3>1. IsCut(parts, payload, b, n, Byte) BY <2>2, <2>3, <2>5, <2>6, <2>7 DEF IsCut
    <3> QED BY ONLY <3>1, CutsJoin
  <2>9. k \in 0..n BY <1>4
  <2> QED BY <2>1, <2>8, <2>9
<1>11. queue[1].opcode = opcode BY <1>3, <1>4, <1>5
<1>12. Joined(queue) = [opcode |-> opcode, payload |-> SubSeq(payload, 1, Bound(l, k))]
  BY <1>9, <1>10, <1>11 DEF Joined
<1> QED BY <1>1, <1>5, <1>12

\* A fragment of a message is never out of turn behind those before it, and
\* with the last one the message is there.
Leading(ss, j) == IF j = 0 THEN <<>> ELSE SubSeq(ss, 1, j)
Follows(ss, n, j, f) ==
  /\ n \in Nat /\ n >= 1
  /\ ~OutOfTurn(Leading(ss, j), f) /\ f.opcode \notin {8, 9, 10}
  /\ Add(Leading(ss, j), f) = Leading(ss, j + 1)
  /\ f.fin <=> j + 1 = n
LEMMA NextFragment ==
  ASSUME NEW opcode \in {1, 2}, NEW payload \in Seq(Byte), NEW ss, ss = Fragments(opcode, payload),
         Len(payload) > Threshold => Len(payload) <= MaxMessage,
         NEW n, n = Len(ss), NEW j \in 0..(n - 1), NEW f, f = ss[j + 1]
  PROVE  /\ Follows(ss, n, j, f)
         /\ Joined(Leading(ss, n)) = [opcode |-> opcode, payload |-> payload]
<1>1. PICK l \in Nat : l = Len(payload) OBVIOUS
<1>2. /\ Number(l) \in Nat /\ Number(l) >= 1 /\ (l <= Threshold => Number(l) = 1)
      /\ Bound(l, Number(l)) = l /\ \A i \in 0..Number(l) : Bound(l, i) \in 0..l
  BY ONLY l \in Nat, BoundsGrow
<1>3. /\ ss \in Seq(SentFrames) /\ Len(ss) = Number(l)
      /\ \A i \in 1..Number(l) : (ss[i].fin <=> i = Number(l))
      /\ \A i \in 1..Number(l) : ss[i].opcode = IF i = 1 THEN opcode ELSE 0
  <2>1. opcode \in {1, 2} /\ payload \in Seq(Byte) /\ l = Len(payload) /\ ss = Fragments(opcode, payload) BY <1>1
  <2>2. ss \in Seq(SentFrames) /\ Len(ss) = Number(l) BY ONLY <1>2, <2>1, l \in Nat, FragmentsAre
  <2>3. \A i \in 1..Number(l) : (ss[i].fin <=> i = Number(l))
    <3>1. PICK k : k = Number(l) OBVIOUS
    <3>2. k \in Nat /\ l \in Nat BY <1>2, <3>1
    <3>3. \A i \in 1..k : ss[i].fin <=> i = k BY ONLY <2>1, <3>1, <3>2, FragmentsAre
    <3> QED BY ONLY <3>1, <3>3
  <2>4. \A i \in 1..Number(l) : ss[i].opcode = IF i = 1 THEN opcode ELSE 0
    BY ONLY <1>2, <2>1, l \in Nat, FragmentsAre
  <2> QED BY <2>2, <2>3, <2>4
<1>4. n = Number(l) /\ n \in Nat /\ n >= 1 BY <1>2, <1>3
<1>5. PICK i \in 1..n : i = j + 1 /\ f = ss[i] /\ i \in Nat /\ i - 1 = j BY <1>4
<1>6. (f.fin <=> i = n) /\ f.opcode = IF i = 1 THEN opcode ELSE 0 BY <1>3, <1>4, <1>5
<1>7. \A k \in 1..n : Joined(SubSeq(ss, 1, k)) = [opcode |-> opcode, payload |-> SubSeq(payload, 1, Bound(l, k))]
  BY <1>1, FragmentsJoin
<1>8. \A k \in 1..n : Leading(ss, k) = SubSeq(ss, 1, k) BY <1>4 DEF Leading
<1>9. Add(Leading(ss, j), f) = Leading(ss, i)
  <2>1. CASE j = 0
    <3>1. 0 \in Nat /\ 0 + 1 <= Len(ss) BY <1>3, <1>4
    <3>2. SubSeq(ss, 1, 0 + 1) = Add(SubSeq(ss, 1, 0), ss[0 + 1]) BY ONLY <1>3, <3>1, OneMore
    <3>3. SubSeq(ss, 1, 0) = <<>> BY <1>3
    <3>4. Leading(ss, j) = <<>> BY <2>1 DEF Leading
    <3>5. i = 0 + 1 BY <1>5, <2>1
    <3>6. Leading(ss, i) = SubSeq(ss, 1, i) BY <1>8
    <3> QED BY ONLY <1>5, <3>2, <3>3, <3>4, <3>5, <3>6
  <2>2. CASE j # 0
    <3>1. j \in 1..n /\ j \in Nat /\ j + 1 <= Len(ss) BY <1>4, <2>2
    <3>2. SubSeq(ss, 1, j + 1) = Add(SubSeq(ss, 1, j), ss[j + 1]) BY ONLY <1>3, <3>1, OneMore
    <3>3. Leading(ss, j) = SubSeq(ss, 1, j) BY <1>8, <3>1
    <3>4. Leading(ss, i) = SubSeq(ss, 1, i) BY <1>8
    <3> QED BY ONLY <1>5, <3>2, <3>3, <3>4
  <2> QED BY <2>1, <2>2
<1>10. ~OutOfTurn(Leading(ss, j), f)
  <2>1. f.opcode \in {0, 1, 2} BY <1>6
  <2>2. ASSUME f.opcode # 0 PROVE Leading(ss, j) = <<>>
    <3>1. j = 0 BY <1>5, <1>6, <2>2
    <3> QED BY <3>1 DEF Leading
  <2>3. ASSUME f.opcode = 0 PROVE Leading(ss, j) # <<>>
    <3>1. j # 0 BY <1>5, <1>6, <2>3
    <3>2. j \in 1..n BY <1>4, <3>1
    <3>3. Leading(ss, j) = SubSeq(ss, 1, j) BY <1>8, <3>2
    <3>4. Len(SubSeq(ss, 1, j)) = j BY <1>3, <1>4, <3>2
    <3>5. Len(<<>>) = 0 OBVIOUS
    <3> QED BY ONLY <3>1, <3>3, <3>4, <3>5
  <2>4. ASSUME f.opcode = 0 PROVE ~(Len(Joined(Append(Leading(ss, j), f)).payload) > MaxMessage)
    <3>1. i > 1 BY <1>5, <1>6, <2>4
    <3>2. l <= MaxMessage
      <4>1. ~(l <= Threshold) BY <1>2, <1>4, <1>5, <3>1
      <4>2. Threshold \in Nat BY LimitsAssumption
      <4> QED BY <1>1, <4>1, <4>2
    <3>3. Joined(Leading(ss, i)) = [opcode |-> opcode, payload |-> SubSeq(payload, 1, Bound(l, i))] BY <1>7, <1>8
    <3>4. Bound(l, i) \in 0..l BY <1>2, <1>4
    <3>5. Len(SubSeq(payload, 1, Bound(l, i))) = Bound(l, i)
      <4>1. PICK b \in 0..l : b = Bound(l, i) BY <3>4
      <4>2. Len(SubSeq(payload, 1, b)) = b BY <1>1
      <4> QED BY ONLY <4>1, <4>2
    <3>6. Joined(Append(Leading(ss, j), f)).payload = SubSeq(payload, 1, Bound(l, i))
      <4>1. PICK part : part = SubSeq(payload, 1, Bound(l, i)) OBVIOUS
      <4>2. Joined(Add(Leading(ss, j), f)) = [opcode |-> opcode, payload |-> part] BY ONLY <1>9, <3>3, <4>1
      <4>3. Joined(Add(Leading(ss, j), f)).payload = part BY ONLY <4>2
      <4> QED BY ONLY <4>1, <4>3 DEF Add
    <3>7. PICK c : c = Joined(Append(Leading(ss, j), f)).payload OBVIOUS
    <3>8. Len(c) = Bound(l, i) BY ONLY <3>5, <3>6, <3>7
    <3>9. MaxMessage \in Nat BY LimitsAssumption
    <3>10. ~(Len(c) > MaxMessage) BY ONLY <3>2, <3>4, <3>8, <3>9, l \in Nat
    <3> QED BY ONLY <3>7, <3>10
  <2> QED BY ONLY <2>1, <2>2, <2>3, <2>4, Zenon DEF OutOfTurn
<1>11. Joined(Leading(ss, n)) = [opcode |-> opcode, payload |-> payload]
  <2>1. n \in 1..n BY <1>4
  <2>2. Joined(Leading(ss, n)) = [opcode |-> opcode, payload |-> SubSeq(payload, 1, l)] BY <1>2, <1>4, <1>7, <1>8, <2>1
  <2>3. SubSeq(payload, 1, l) = payload BY <1>1
  <2> QED BY ONLY <2>2, <2>3
<1>12. f.opcode \notin {8, 9, 10} BY <1>6
<1> QED BY ONLY <1>4, <1>5, <1>6, <1>9, <1>10, <1>11, <1>12 DEF Follows

\* The fragments of each message, and what processFrame() has made of the
\* first m messages and j fragments of the next one.
CutsOf(messages) == [m \in DOMAIN messages |-> Fragments(messages[m].opcode, messages[m].payload)]
Message == [opcode : {1, 2}, payload : Seq(Byte)]
AreSmall(messages) ==
  /\ messages \in Seq(Message)
  /\ \A m \in DOMAIN messages :
       Len(messages[m].payload) > Threshold => Len(messages[m].payload) <= MaxMessage
Assembly(queue, messages) == [queue |-> queue, messages |-> messages, dropped |-> FALSE]
Halfway(messages, m, j) == Assembly(Leading(CutsOf(messages)[m + 1], j), SubSeq(messages, 1, m))

LEMMA AssemblySet ==
  ASSUME NEW queue, NEW messages, NEW a, a = Assembly(queue, messages), NEW q
  PROVE  /\ [a EXCEPT !.queue = q] = Assembly(q, messages)
         /\ [a EXCEPT !.messages = q] = Assembly(queue, q)
<1>1. PICK no : no = FALSE OBVIOUS
<1>2. a = [queue |-> queue, messages |-> messages, dropped |-> no] BY <1>1 DEF Assembly
<1>3. [a EXCEPT !.queue = q] = [queue |-> q, messages |-> messages, dropped |-> no] BY ONLY <1>2, Z3
<1>4. [a EXCEPT !.messages = q] = [queue |-> queue, messages |-> q, dropped |-> no] BY ONLY <1>2, Z3
<1> QED BY <1>1, <1>3, <1>4 DEF Assembly

LEMMA AssemblyMoves ==
  ASSUME NEW queue, NEW messages, NEW a, a = Assembly(queue, messages), NEW f, f.opcode \notin {8, 9, 10},
         ~OutOfTurn(queue, f)
  PROVE  /\ ~f.fin => ProcessFrame(a, f) = Assembly(Add(queue, f), messages)
         /\ f.fin => ProcessFrame(a, f) = Assembly(<<>>, Add(messages, Joined(Add(queue, f))))
<1>1. a.queue = queue /\ a.messages = messages /\ a.dropped = FALSE BY DEF Assembly
<1>2. PICK q, e, ms, none : q = Add(queue, f) /\ e = Joined(q) /\ ms = Add(messages, e) /\ none = <<>> OBVIOUS
<1>3. [a EXCEPT !.queue = q] = Assembly(q, messages) BY AssemblySet
<1>4. PICK b : b = [a EXCEPT !.queue = none] OBVIOUS
<1>5. b = Assembly(none, messages) BY <1>4, AssemblySet
<1>6. [b EXCEPT !.messages = ms] = Assembly(none, ms) BY ONLY <1>5, AssemblySet
<1>7. [a EXCEPT !.queue = none, !.messages = ms] = Assembly(none, ms) BY ONLY <1>4, <1>6
<1>8. ProcessFrame(a, f) = IF ~f.fin THEN [a EXCEPT !.queue = q] ELSE [a EXCEPT !.queue = none, !.messages = ms]
  BY ONLY <1>1, <1>2, f.opcode \notin {8, 9, 10}, ~OutOfTurn(queue, f), Zenon DEF ProcessFrame, Add
<1> QED BY ONLY <1>2, <1>3, <1>7, <1>8

LEMMA CutsFit ==
  ASSUME NEW messages, AreSmall(messages), NEW cuts, cuts = CutsOf(messages)
  PROVE  /\ Len(messages) \in Nat
         /\ cuts \in Seq(Seq(SentFrames)) /\ Len(cuts) = Len(messages) /\ Cut(messages) = FlattenSeq(cuts)
         /\ \A m \in 1..Len(messages) : /\ messages[m] \in Message
                                        /\ cuts[m] = Fragments(messages[m].opcode, messages[m].payload)
                                        /\ Len(messages[m].payload) > Threshold
                                             => Len(messages[m].payload) <= MaxMessage
                                        /\ cuts[m] \in Seq(SentFrames) /\ Len(cuts[m]) \in Nat /\ Len(cuts[m]) >= 1
<1>1. PICK l \in Nat : l = Len(messages) /\ DOMAIN messages = 1..l /\ messages \in Seq(Message) BY DEF AreSmall
<1>2. cuts = [m \in 1..l |-> Fragments(messages[m].opcode, messages[m].payload)] BY <1>1 DEF CutsOf
<1>3. ASSUME NEW m \in 1..l
      PROVE  /\ messages[m] \in Message
             /\ cuts[m] = Fragments(messages[m].opcode, messages[m].payload)
             /\ Len(messages[m].payload) > Threshold => Len(messages[m].payload) <= MaxMessage
             /\ cuts[m] \in Seq(SentFrames) /\ Len(cuts[m]) \in Nat /\ Len(cuts[m]) >= 1
  <2>1. PICK e \in Message : e = messages[m] BY <1>1
  <2>2. PICK opcode \in {1, 2}, payload \in Seq(Byte) : opcode = e.opcode /\ payload = e.payload BY DEF Message
  <2>3. PICK n \in Nat : n = Len(payload) OBVIOUS
  <2>4. PICK c \in Nat : c = Number(n) /\ c >= 1 BY BoundsGrow
  <2>5. PICK ss : ss = Fragments(opcode, payload) OBVIOUS
  <2>6. ss \in Seq(SentFrames) /\ Len(ss) = c BY ONLY <2>2, <2>3, <2>4, <2>5, FragmentsAre
  <2>7. cuts[m] = ss BY <1>2, <2>1, <2>2, <2>5
  <2>8. Len(messages[m].payload) > Threshold => Len(messages[m].payload) <= MaxMessage BY <1>1 DEF AreSmall
  <2> QED BY <2>1, <2>2, <2>4, <2>5, <2>6, <2>7, <2>8
<1>4. cuts \in Seq(Seq(SentFrames)) /\ Len(cuts) = l
  <2>1. PICK W : W = Seq(SentFrames) OBVIOUS
  <2>2. cuts \in [1..l -> W] BY <1>2, <1>3, <2>1
  <2>3. cuts \in Seq(W) /\ Len(cuts) = l BY ONLY <2>2, l \in Nat
  <2> QED BY <2>1, <2>3
<1>5. Cut(messages) = FlattenSeq(cuts) BY DEF Cut, CutsOf
<1> QED BY <1>1, <1>3, <1>4, <1>5

\* One fragment more.
OneFragment(messages, m, j, n, f) ==
  ProcessFrame(Halfway(messages, m - 1, j), f)
    = IF j + 1 = n THEN Halfway(messages, m, 0) ELSE Halfway(messages, m - 1, j + 1)
LEMMA NextData ==
  ASSUME NEW messages, AreSmall(messages), NEW cuts, cuts = CutsOf(messages),
         NEW m \in 1..Len(messages), NEW n, n = Len(cuts[m]), NEW j \in 0..(n - 1), NEW f, f = cuts[m][j + 1]
  PROVE  OneFragment(messages, m, j, n, f)
<1>0. PICK ss : ss = cuts[m] OBVIOUS
<1>1. PICK e \in Message :
        /\ e = messages[m] /\ ss = Fragments(e.opcode, e.payload)
        /\ Len(e.payload) > Threshold => Len(e.payload) <= MaxMessage
  BY <1>0, CutsFit
<1>2. PICK opcode \in {1, 2}, payload \in Seq(Byte) : opcode = e.opcode /\ payload = e.payload BY DEF Message
<1>3. e = [opcode |-> opcode, payload |-> payload] BY <1>2 DEF Message
<1>4. /\ n \in Nat /\ n >= 1
      /\ ~OutOfTurn(Leading(ss, j), f) /\ f.opcode \notin {8, 9, 10}
      /\ Add(Leading(ss, j), f) = Leading(ss, j + 1)
      /\ (f.fin <=> j + 1 = n)
      /\ Joined(Leading(ss, n)) = e
  <2>1. ss = Fragments(opcode, payload) /\ (Len(payload) > Threshold => Len(payload) <= MaxMessage) BY <1>0, <1>1, <1>2
  <2>2. n = Len(ss) /\ f = ss[j + 1] BY <1>0, <1>1
  <2>3. opcode \in {1, 2} /\ payload \in Seq(Byte) /\ j \in 0..(n - 1) OBVIOUS
  <2>4. Follows(ss, n, j, f) BY ONLY <2>1, <2>2, <2>3, NextFragment
  <2>5. Joined(Leading(ss, n)) = [opcode |-> opcode, payload |-> payload]
    BY ONLY <2>1, <2>2, <2>3, NextFragment
  <2> QED BY ONLY <1>3, <2>4, <2>5 DEF Follows
<1>5. PICK front, queue, a : /\ front = SubSeq(messages, 1, m - 1) /\ queue = Leading(ss, j)
                             /\ a = Assembly(queue, front)
  OBVIOUS
<1>6. Halfway(messages, m - 1, j) = a
  <2>1. m \in Nat /\ (m - 1) + 1 = m BY CutsFit
  <2> QED BY <1>0, <1>1, <1>5, <2>1 DEF Halfway
<1>7. /\ ~f.fin => ProcessFrame(a, f) = Assembly(Add(queue, f), front)
      /\ f.fin => ProcessFrame(a, f) = Assembly(<<>>, Add(front, Joined(Add(queue, f))))
  BY <1>4, <1>5, AssemblyMoves
<1>8. CASE j + 1 = n
  <2>1. ProcessFrame(a, f) = Assembly(<<>>, Add(front, e)) BY <1>4, <1>5, <1>7, <1>8
  <2>2. Add(front, e) = SubSeq(messages, 1, m)
    <3>1. messages \in Seq(Message) BY DEF AreSmall
    <3>2. PICK k \in Nat : k = m - 1 /\ k + 1 = m /\ k + 1 <= Len(messages) BY CutsFit
    <3>3. SubSeq(messages, 1, k + 1) = Add(SubSeq(messages, 1, k), messages[k + 1]) BY ONLY <3>1, <3>2, OneMore
    <3> QED BY ONLY <1>0, <1>1, <1>5, <3>2, <3>3
  <2>3. Leading(cuts[m + 1], 0) = <<>> BY DEF Leading
  <2> QED BY <1>6, <1>8, <2>1, <2>2, <2>3 DEF Halfway, OneFragment
<1>9. CASE j + 1 # n
  <2>1. ProcessFrame(a, f) = Assembly(Leading(ss, j + 1), front) BY <1>4, <1>5, <1>7, <1>9
  <2>2. m \in Nat /\ (m - 1) + 1 = m BY CutsFit
  <2>3. Halfway(messages, m - 1, j + 1) = Assembly(Leading(ss, j + 1), front) BY <1>0, <1>1, <1>5, <2>2 DEF Halfway
  <2> QED BY <1>6, <1>9, <2>1, <2>3 DEF OneFragment
<1> QED BY <1>8, <1>9

-----------------------------------------------------------------------------
\* After d fragments of all: those of m messages, and j of the next one.
Place(cuts, d, m, j) ==
  /\ m \in 0..Len(cuts) /\ j \in Nat /\ d = Upto(cuts, m) + j
  /\ m < Len(cuts) => j < Len(cuts[m + 1])
  /\ m = Len(cuts) => j = 0

NextPlace(cuts, d, m, j) ==
  /\ m + 1 \in 1..Len(cuts) /\ j \in 0..(Len(cuts[m + 1]) - 1) /\ FlattenSeq(cuts)[d + 1] = cuts[m + 1][j + 1]
  /\ IF j + 1 = Len(cuts[m + 1]) THEN Place(cuts, d + 1, m + 1, 0) ELSE Place(cuts, d + 1, m, j + 1)
LEMMA PlaceNext ==
  ASSUME NEW S, NEW cuts \in Seq(Seq(S)), \A i \in 1..Len(cuts) : Len(cuts[i]) >= 1,
         NEW d \in Nat, NEW m, NEW j, Place(cuts, d, m, j), d + 1 <= Len(FlattenSeq(cuts))
  PROVE  NextPlace(cuts, d, m, j)
<1>0. PICK z : z = FlattenSeq(cuts) OBVIOUS
<1>1. PICK l \in Nat : l = Len(cuts) OBVIOUS
<1>2. z \in Seq(S) /\ Upto(cuts, l) = Len(z) BY ONLY <1>0, <1>1, cuts \in Seq(Seq(S)), Layout
<1>3. \A i \in 0..l : Upto(cuts, i) \in Nat BY ONLY <1>0, <1>1, cuts \in Seq(Seq(S)), Layout
<1>4. \A i \in 1..l : Upto(cuts, i) = Upto(cuts, i - 1) + Len(cuts[i]) BY ONLY <1>0, <1>1, cuts \in Seq(Seq(S)), Layout
<1>5. \A i \in 1..l : \A n \in 1..Len(cuts[i]) : z[Upto(cuts, i - 1) + n] = cuts[i][n]
  <2>1. \A i \in 1..Len(cuts) : \A n \in 1..Len(cuts[i]) : FlattenSeq(cuts)[Upto(cuts, i - 1) + n] = cuts[i][n]
    BY ONLY cuts \in Seq(Seq(S)), Layout
  <2> QED BY ONLY <1>0, <1>1, <2>1
<1>6. /\ m \in 0..l /\ j \in Nat /\ d = Upto(cuts, m) + j
      /\ m < l => j < Len(cuts[m + 1])
      /\ m = l => j = 0
  BY <1>0, <1>1 DEF Place
<1>7. PICK len \in Nat : len = Len(z) BY <1>2
<1>8. m # l
  <2>1. ASSUME m = l PROVE FALSE
    <3>1. d = len BY <1>2, <1>3, <1>6, <1>7, <2>1
    <3> QED BY <1>0, <1>1, <1>7, <3>1
  <2> QED BY <2>1
<1>9. PICK i \in 1..l : i = m + 1 /\ i - 1 = m BY <1>6, <1>8
<1>10. PICK n \in Nat : n = Len(cuts[i]) /\ n >= 1 /\ j < n
  <2>1. cuts[i] \in Seq(S) BY <1>0, <1>1
  <2>2. Len(cuts[i]) \in Nat BY <2>1
  <2> QED BY <1>0, <1>1, <1>6, <1>9, <2>2
<1>11. z[d + 1] = cuts[i][j + 1]
  <2>1. j + 1 \in 1..n BY <1>6, <1>10
  <2>2. z[Upto(cuts, m) + (j + 1)] = cuts[i][j + 1] BY <1>5, <1>9, <1>10, <2>1
  <2>3. PICK u \in Nat : u = Upto(cuts, m) BY <1>3, <1>6
  <2>4. d + 1 = u + (j + 1) BY <1>6, <2>3
  <2> QED BY <2>2, <2>3, <2>4
<1>12. CASE j + 1 = n
  <2>1. Upto(cuts, i) = Upto(cuts, m) + n BY <1>4, <1>9, <1>10
  <2>2. PICK u \in Nat : u = Upto(cuts, m) BY <1>3, <1>6
  <2>3. d + 1 = Upto(cuts, i) + 0
    <3>1. d = u + j /\ j \in Nat BY <1>6, <2>2
    <3>2. PICK v \in Nat : v = Upto(cuts, i) /\ v = u + n
      <4>1. i \in 0..l OBVIOUS
      <4> QED BY <1>3, <2>1, <2>2, <4>1
    <3>3. d + 1 = v + 0 BY ONLY <1>12, <3>1, <3>2, n \in Nat, u \in Nat, v \in Nat
    <3> QED BY <3>2, <3>3
  <2>4. ASSUME i < l PROVE 0 < Len(cuts[i + 1])
    <3>1. i + 1 \in 1..l BY <2>4
    <3>2. cuts[i + 1] \in Seq(S) /\ Len(cuts[i + 1]) >= 1 BY <1>0, <1>1, <3>1
    <3>3. PICK k \in Nat : k = Len(cuts[i + 1]) BY <3>2
    <3> QED BY <3>2, <3>3
  <2>5. Place(cuts, d + 1, i, 0)
    <3>1. i \in 0..l /\ 0 \in Nat OBVIOUS
    <3> QED BY <1>0, <1>1, <2>3, <2>4, <3>1 DEF Place
  <2> QED BY <1>0, <1>1, <1>6, <1>9, <1>10, <1>11, <1>12, <2>5 DEF NextPlace
<1>13. CASE j + 1 # n
  <2>1. PICK u \in Nat : u = Upto(cuts, m) BY <1>3, <1>6
  <2>2. d + 1 = u + (j + 1) /\ j + 1 < n /\ j + 1 \in Nat
    <3>1. d = u + j /\ j \in Nat BY <1>6, <2>1
    <3> QED BY ONLY <1>10, <1>13, <3>1, n \in Nat, u \in Nat
  <2>3. Place(cuts, d + 1, m, j + 1) BY <1>0, <1>1, <1>6, <1>8, <1>9, <1>10, <2>1, <2>2 DEF Place
  <2> QED BY <1>0, <1>1, <1>6, <1>9, <1>10, <1>11, <1>13, <2>3 DEF NextPlace
<1> QED BY <1>12, <1>13

\* At the end they are all there.
LEMMA PlaceLast ==
  ASSUME NEW S, NEW cuts \in Seq(Seq(S)), NEW m, NEW j, Place(cuts, Len(FlattenSeq(cuts)), m, j)
  PROVE  m = Len(cuts) /\ j = 0
<1>0. PICK z : z = Len(FlattenSeq(cuts)) OBVIOUS
<1>1. PICK l \in Nat : l = Len(cuts) OBVIOUS
<1>2. \A i \in 0..l : Upto(cuts, i) \in Nat /\ Upto(cuts, i) <= z BY ONLY <1>0, <1>1, cuts \in Seq(Seq(S)), Layout
<1>3. \A i \in 1..l : Upto(cuts, i) = Upto(cuts, i - 1) + Len(cuts[i]) BY ONLY <1>0, <1>1, cuts \in Seq(Seq(S)), Layout
<1>4. /\ m \in 0..l /\ j \in Nat /\ z = Upto(cuts, m) + j
      /\ m < l => j < Len(cuts[m + 1])
      /\ m = l => j = 0
  BY <1>0, <1>1 DEF Place
<1>5. ASSUME m < l PROVE FALSE
  <2>1. PICK i \in 1..l : i = m + 1 /\ i - 1 = m BY <1>4, <1>5
  <2>2. cuts[i] \in Seq(S) BY <1>0, <1>1
  <2>3. PICK n \in Nat : n = Len(cuts[i]) BY <2>2
  <2>4. PICK u \in Nat : u = Upto(cuts, m) BY <1>2, <1>4
  <2>5. i \in 0..l OBVIOUS
  <2>6. Upto(cuts, i) = u + n /\ u + n <= z BY <1>2, <1>3, <2>1, <2>3, <2>4, <2>5
  <2> QED BY <1>4, <1>5, <2>1, <2>3, <2>4, <2>6
<1> QED BY <1>0, <1>1, <1>4, <1>5

\* How many of the first pieces are no control frames.
LEMMA DataCount ==
  ASSUME stream \in Streams, NEW l \in Nat, l = Len(Pieces)
  PROVE  /\ DataBy(stream, 0) = 0
         /\ \A n \in 0..l : DataBy(stream, n) \in Nat /\ DataBy(stream, n) <= DataBy(stream, l)
         /\ \A n \in 0..(l - 1) : DataBy(stream, n + 1) = DataBy(stream, n) + IF IsControl(Pieces[n + 1].frame) THEN 0 ELSE 1
<1>1. PICK data : data = [n \in 0..l |-> {i \in 1..n : ~IsControl(Pieces[i].frame)}] OBVIOUS
<1>2. \A n \in 0..l : DataBy(stream, n) = Cardinality(data[n]) BY <1>1 DEF DataBy, Pieces
<1>3. ASSUME NEW n \in 0..l PROVE IsFiniteSet(data[n]) /\ Cardinality(data[n]) \in Nat
  <2>1. IsFiniteSet(1..n) BY FS_Interval
  <2>2. data[n] \subseteq 1..n BY <1>1
  <2> QED BY <2>1, <2>2, FS_Subset, FS_CardinalityType
<1>4. data[0] = {} BY <1>1
<1>5. ASSUME NEW n \in 0..l PROVE Cardinality(data[n]) <= Cardinality(data[l])
  <2>1. data[n] \subseteq data[l] BY <1>1
  <2>2. IsFiniteSet(data[l]) BY <1>3
  <2> QED BY <2>1, <2>2, FS_Subset
<1>6. ASSUME NEW n \in 0..(l - 1)
      PROVE  Cardinality(data[n + 1]) = Cardinality(data[n]) + IF IsControl(Pieces[n + 1].frame) THEN 0 ELSE 1
  <2>1. n \in 0..l /\ n + 1 \in 0..l /\ 1..(n + 1) = (1..n) \cup {n + 1} OBVIOUS
  <2>2. CASE IsControl(Pieces[n + 1].frame)
    <3>1. data[n + 1] = data[n] BY <1>1, <2>1, <2>2
    <3>2. Cardinality(data[n]) \in Nat BY <1>3, <2>1
    <3> QED BY <2>2, <3>1, <3>2
  <2>3. CASE ~IsControl(Pieces[n + 1].frame)
    <3>1. data[n + 1] = data[n] \cup {n + 1} BY <1>1, <2>1, <2>3
    <3>2. n + 1 \notin data[n] BY <1>1, <2>1
    <3>3. IsFiniteSet(data[n]) BY <1>3, <2>1
    <3>4. Cardinality(data[n] \cup {n + 1}) = Cardinality(data[n]) + 1 BY <3>2, <3>3, FS_AddElement
    <3> QED BY <2>3, <3>1, <3>4
  <2> QED BY <2>2, <2>3
<1>7. \A n \in 0..(l - 1) : n \in 0..l /\ n + 1 \in 0..l OBVIOUS
<1>8. Cardinality(data[0]) = 0 BY <1>4, FS_EmptySet
<1> QED BY <1>2, <1>3, <1>5, <1>6, <1>7, <1>8

\* The recursion of Assembled over the frames of the first k pieces.
Assembles(g, k) ==
  g = [n \in 0..k |-> IF n = 0 THEN NoFragments ELSE ProcessFrame(g[n - 1], Pieces[n].frame)]

LEMMA AssembledIs ==
  ASSUME NEW l \in Nat, NEW k \in 0..l, NEW g, Assembles(g, k)
  PROVE  Assembled(Sent(k)) = g[k]
<1>1. PICK frames : frames = Sent(k) OBVIOUS
<1>2. Len(frames) = k
  <2>1. PICK f : f = [n \in 1..l |-> Pieces[n].frame] OBVIOUS
  <2>2. frames = [n \in 1..k |-> f[n]] BY <1>1, <2>1 DEF Sent
  <2> QED BY <2>2, ByIndex
<1>3. \A n \in 1..k : frames[n] = Pieces[n].frame BY <1>1 DEF Sent
<1> DEFINE Is(h) == h = [n \in 0..Len(frames) |-> IF n = 0 THEN NoFragments ELSE ProcessFrame(h[n - 1], frames[n])]
<1>4. Is(g)
  <2>1. PICK h : h = [n \in 0..k |-> IF n = 0 THEN NoFragments ELSE ProcessFrame(g[n - 1], frames[n])] OBVIOUS
  <2>2. g = h
    <3>1. \A n \in 0..k : (IF n = 0 THEN NoFragments ELSE ProcessFrame(g[n - 1], Pieces[n].frame))
                          = (IF n = 0 THEN NoFragments ELSE ProcessFrame(g[n - 1], frames[n]))
      BY <1>3
    <3> QED BY <2>1, <3>1 DEF Assembles
  <2> QED BY <1>2, <2>1, <2>2
<1>5. PICK h : h = CHOOSE x : Is(x) OBVIOUS
<1>6. Is(h) BY <1>4, <1>5
<1>7. Assembled(frames) = h[k] BY <1>2, <1>5 DEF Assembled
<1>8. h[0] = g[0]
  <2>1. 0 \in 0..k OBVIOUS
  <2>2. h[0] = NoFragments BY <1>2, <1>6, <2>1
  <2>3. g[0] = NoFragments BY <1>2, <1>4, <2>1
  <2> QED BY <2>2, <2>3
<1>9. ASSUME NEW n \in 1..k, h[n - 1] = g[n - 1] PROVE h[n] = g[n]
  <2>1. n \in 0..k /\ n # 0 OBVIOUS
  <2>2. h[n] = ProcessFrame(h[n - 1], frames[n]) BY <1>2, <1>6, <2>1
  <2>3. g[n] = ProcessFrame(g[n - 1], frames[n]) BY <1>2, <1>4, <2>1
  <2> QED BY <1>9, <2>2, <2>3
<1> HIDE DEF Is
<1>10. \A n \in 0..k : h[n] = g[n]
  <2>1. k \in Nat OBVIOUS
  <2> QED BY ONLY <1>8, <1>9, <2>1, RecursionAgrees
<1> QED BY <1>1, <1>7, <1>10

\* What a stream of messages carries.
LEMMA CarriedMessages ==
  ASSUME stream \in Streams, stream.messages # <<>>, NEW l \in Nat, l = Len(Pieces), NEW cuts, cuts = CutsOf(stream.messages)
  PROVE  /\ AreSmall(stream.messages) /\ DataBy(stream, l) = Len(FlattenSeq(cuts))
         /\ \A i \in 1..l : IF IsControl(Pieces[i].frame) THEN Pieces[i].frame.opcode \in {9, 10}
                            ELSE Pieces[i].frame = FlattenSeq(cuts)[DataBy(stream, i)]
<1>1. Carries(stream) BY StreamsAssumption DEF WellFormed
<1>2. DOMAIN Pieces = 1..l BY PiecesFit
<1>3. AreSmall(stream.messages) BY <1>1 DEF Carries, AreSmall, Message
<1>4. Cut(stream.messages) = FlattenSeq(cuts) BY <1>3, CutsFit
<1>5. DataBy(stream, l) = Len(FlattenSeq(cuts)) BY <1>1, <1>4 DEF Carries, Pieces
<1>6. ASSUME NEW i \in 1..l
      PROVE  IF IsControl(Pieces[i].frame) THEN Pieces[i].frame.opcode \in {9, 10}
             ELSE Pieces[i].frame = FlattenSeq(cuts)[DataBy(stream, i)]
  BY <1>1, <1>2, <1>4 DEF Carries, Pieces
<1> QED BY <1>3, <1>5, <1>6

\* After any number of pieces, what is assembled is some messages whole and the
\* first fragments of the next.
LEMMA Assembling ==
  ASSUME stream \in Streams, stream.messages # <<>>, NEW l \in Nat, l = Len(Pieces), NEW cuts, cuts = CutsOf(stream.messages)
  PROVE  \A k \in 0..l : \E m, j : /\ Place(cuts, DataBy(stream, k), m, j)
                                   /\ Assembled(Sent(k)) = Halfway(stream.messages, m, j)
<1>1. PICK messages, all : messages = stream.messages /\ all = FlattenSeq(cuts) OBVIOUS
<1>2. /\ AreSmall(messages) /\ DataBy(stream, l) = Len(all)
      /\ \A i \in 1..l : IF IsControl(Pieces[i].frame) THEN Pieces[i].frame.opcode \in {9, 10}
                         ELSE Pieces[i].frame = all[DataBy(stream, i)]
  BY <1>1, CarriedMessages
<1>3. /\ cuts \in Seq(Seq(SentFrames)) /\ Len(cuts) = Len(messages) /\ Len(messages) \in Nat
      /\ \A i \in 1..Len(cuts) : Len(cuts[i]) \in Nat /\ Len(cuts[i]) >= 1
  BY <1>1, <1>2, CutsFit
<1>4. /\ DataBy(stream, 0) = 0
      /\ \A n \in 0..l : DataBy(stream, n) \in Nat /\ DataBy(stream, n) <= DataBy(stream, l)
      /\ \A n \in 0..(l - 1) : DataBy(stream, n + 1) = DataBy(stream, n) + IF IsControl(Pieces[n + 1].frame) THEN 0 ELSE 1
  BY DataCount
<1> DEFINE Stands(g, n) == /\ Assembles(g, n)
                           /\ \E m, j : Place(cuts, DataBy(stream, n), m, j) /\ g[n] = Halfway(messages, m, j)
           T == {n \in 0..l : \E g : Stands(g, n)}
<1>5. 0 \in T
  <2>1. PICK g : g = [n \in 0..0 |-> NoFragments] OBVIOUS
  <2>2. Assembles(g, 0)
    <3>1. \A n \in 0..0 : NoFragments = IF n = 0 THEN NoFragments ELSE ProcessFrame(g[n - 1], Pieces[n].frame) OBVIOUS
    <3> QED BY <2>1, <3>1 DEF Assembles
  <2>3. g[0] = Halfway(messages, 0, 0)
    <3>1. SubSeq(messages, 1, 0) = <<>>
      <4>1. messages \in Seq(Message) BY <1>2 DEF AreSmall
      <4> QED BY <4>1
    <3>2. Leading(cuts[1], 0) = <<>> BY DEF Leading
    <3>3. Halfway(messages, 0, 0) = Assembly(<<>>, <<>>)
      BY <1>1, <3>1, <3>2 DEF Halfway, Leading
    <3>4. g[0] = NoFragments BY <2>1
    <3> QED BY <3>3, <3>4 DEF NoFragments, Assembly
  <2>4. Place(cuts, 0, 0, 0)
    <3>1. Upto(cuts, 0) = 0 BY ONLY <1>3, Layout
    <3>2. ASSUME 0 < Len(cuts) PROVE 0 < Len(cuts[0 + 1])
      <4>1. 1 \in 1..Len(cuts) /\ 0 + 1 = 1 BY <1>3, <3>2
      <4> QED BY <1>3, <4>1
    <3>3. 0 \in 0..Len(cuts) BY <1>3
    <3> QED BY <3>1, <3>2, <3>3 DEF Place
  <2> QED BY <1>4, <2>2, <2>3, <2>4
<1>6. ASSUME NEW n \in 0..(l - 1), n \in T PROVE n + 1 \in T
  <2>1. PICK g : Stands(g, n) BY <1>6
  <2>2. PICK m, j : Place(cuts, DataBy(stream, n), m, j) /\ g[n] = Halfway(messages, m, j) BY <2>1
  <2>3. PICK i \in 1..l : i = n + 1 /\ i - 1 = n OBVIOUS
  <2>4. PICK f, a, b : f = Pieces[i].frame /\ a = Halfway(messages, m, j) /\ b = ProcessFrame(a, f) OBVIOUS
  <2>5. PICK h : h = [o \in 0..i |-> IF o <= n THEN g[o] ELSE b] OBVIOUS
  <2>6. Assembles(h, i)
    <3>1. PICK r : r = [o \in 0..i |-> IF o = 0 THEN NoFragments ELSE ProcessFrame(h[o - 1], Pieces[o].frame)] OBVIOUS
    <3>2. ASSUME NEW o \in 0..i PROVE h[o] = r[o]
      <4>1. CASE o = i
        <5>1. h[o] = b /\ h[o - 1] = g[n] BY <2>3, <2>5, <4>1
        <5>2. r[o] = ProcessFrame(h[o - 1], Pieces[o].frame) BY <3>1, <4>1
        <5> QED BY <2>2, <2>4, <4>1, <5>1, <5>2
      <4>2. CASE o # i
        <5>1. o \in 0..n /\ h[o] = g[o] BY <2>3, <2>5, <4>2
        <5>2. g[o] = IF o = 0 THEN NoFragments ELSE ProcessFrame(g[o - 1], Pieces[o].frame) BY <2>1, <5>1 DEF Assembles
        <5>3. o # 0 => h[o - 1] = g[o - 1] BY <2>3, <2>5, <5>1
        <5> QED BY <3>1, <5>1, <5>2, <5>3
      <4> QED BY <4>1, <4>2
    <3>3. h = r BY <2>5, <3>1, <3>2
    <3> QED BY <3>1, <3>3 DEF Assembles
  <2>7. h[i] = b BY <2>3, <2>5
  <2>8. PICK d \in Nat : d = DataBy(stream, n)
    <3>1. n \in 0..l OBVIOUS
    <3> QED BY <1>4, <3>1
  <2>9. \E p, q : Place(cuts, DataBy(stream, i), p, q) /\ b = Halfway(messages, p, q)
    <3>1. CASE IsControl(f)
      <4>1. DataBy(stream, i) = d BY <1>4, <2>3, <2>4, <2>8, <3>1
      <4>2. f.opcode \in {9, 10} BY <1>2, <2>4, <3>1
      <4>3. b = a BY <2>4, <4>2 DEF ProcessFrame
      <4> QED BY <2>2, <2>4, <2>8, <4>1, <4>3
    <3>2. CASE ~IsControl(f)
      <4>1. DataBy(stream, i) = d + 1 /\ f = all[d + 1] BY <1>2, <1>4, <2>3, <2>4, <2>8, <3>2
      <4>2. d + 1 <= Len(all)
        <5>1. i \in 0..l OBVIOUS
        <5> QED BY <1>2, <1>4, <4>1, <5>1
      <4>3. PICK c : c = Len(cuts[m + 1]) OBVIOUS
      <4>4. \A o \in 1..Len(cuts) : Len(cuts[o]) >= 1 BY <1>3
      <4>5. Place(cuts, d, m, j) /\ d + 1 <= Len(FlattenSeq(cuts)) BY <1>1, <2>2, <2>8, <4>2
      <4>6. /\ m + 1 \in 1..Len(cuts) /\ j \in 0..(c - 1) /\ all[d + 1] = cuts[m + 1][j + 1]
            /\ IF j + 1 = c THEN Place(cuts, d + 1, m + 1, 0) ELSE Place(cuts, d + 1, m, j + 1)
        <5>1. PICK S : S = SentFrames OBVIOUS
        <5>2. cuts \in Seq(Seq(S)) /\ d \in Nat BY <1>3, <5>1
        <5>3. NextPlace(cuts, d, m, j) BY ONLY <4>4, <4>5, <5>2, PlaceNext
        <5> QED BY ONLY <1>1, <4>3, <5>3 DEF NextPlace
      <4>7. PICK o \in 1..Len(messages) : o = m + 1 /\ o - 1 = m
        <5>1. m \in Int BY <2>2, <1>3 DEF Place
        <5> QED BY <1>3, <4>6, <5>1
      <4>8. ProcessFrame(Halfway(messages, o - 1, j), f)
              = IF j + 1 = c THEN Halfway(messages, o, 0) ELSE Halfway(messages, o - 1, j + 1)
        <5>1. AreSmall(messages) /\ cuts = CutsOf(messages) /\ c = Len(cuts[o]) /\ f = cuts[o][j + 1]
          BY <1>1, <1>2, <4>1, <4>3, <4>6, <4>7
        <5>2. o \in 1..Len(messages) /\ j \in 0..(c - 1) BY <4>6
        <5>3. OneFragment(messages, o, j, c, f) BY ONLY <5>1, <5>2, NextData
        <5> QED BY ONLY <5>3 DEF OneFragment
      <4>9. b = IF j + 1 = c THEN Halfway(messages, m + 1, 0) ELSE Halfway(messages, m, j + 1)
        BY <2>4, <4>7, <4>8
      <4>10. CASE j + 1 = c BY <4>1, <4>6, <4>9, <4>10
      <4>11. CASE j + 1 # c BY <4>1, <4>6, <4>9, <4>11
      <4> QED BY <4>10, <4>11
    <3> QED BY <3>1, <3>2
  <2>10. Stands(h, i) BY <2>6, <2>7, <2>9
  <2> QED BY <2>3, <2>10
<1>7. 0..l \subseteq T
  <2> HIDE DEF T
  <2> QED BY <1>5, <1>6, BoundedInduction
<1>8. ASSUME NEW k \in 0..l
      PROVE  \E m, j : Place(cuts, DataBy(stream, k), m, j) /\ Assembled(Sent(k)) = Halfway(messages, m, j)
  <2>1. PICK g : Stands(g, k) BY <1>7
  <2>2. Assembled(Sent(k)) = g[k] BY <2>1, AssembledIs
  <2> QED BY <2>1, <2>2
<1> QED BY <1>1, <1>8

\* The messages that fragmentAndSend() cuts into frames are those that
\* processFrame() makes of the frames that come out of the parser, in order and
\* once; and with the last frame they are all there.
THEOREM MessagesAreWhole ==
  ASSUME KeysApart
  PROVE  Spec => []MessagesJoin
<1>1. RInv => MessagesJoin
  <2> SUFFICES ASSUME RInv, stream.messages # <<>>, NEW a, a = Assembled(Received)
               PROVE  /\ ~a.dropped /\ IsPrefix(a.messages, stream.messages)
                      /\ Len(parsed) = Len(stream.pieces) => a.messages = stream.messages /\ a.queue = <<>>
    BY DEF MessagesJoin
  <2>1. stream \in Streams BY DEF RInv, TInv, TypeOK
  <2>2. PICK l \in Nat : l = Len(Pieces) /\ l = Len(stream.pieces) BY <2>1, PiecesFit DEF Pieces
  <2>3. PICK k \in 0..l : IsAt(k) BY <2>2 DEF RInv
  <2>4. parsed = Whole(k) /\ Legal(k) BY <2>3 DEF IsAt, Reached
  <2>5. Received = Sent(k)
    <3>1. Received = Shown(parsed) BY DEF Received, Shown, FrameOf
    <3> QED BY <2>1, <2>2, <2>4, <3>1, ShownIsSent
  <2>6. Len(parsed) = k BY <2>4, WholeLen
  <2>7. PICK messages, cuts : messages = stream.messages /\ cuts = CutsOf(messages) OBVIOUS
  <2>8. PICK m, j : Place(cuts, DataBy(stream, k), m, j) /\ a = Halfway(messages, m, j)
    BY <2>1, <2>2, <2>5, <2>7, Assembling
  <2>9. AreSmall(messages) /\ DataBy(stream, l) = Len(FlattenSeq(cuts)) BY <2>1, <2>2, <2>7, CarriedMessages
  <2>10. messages \in Seq(Message) BY <2>9 DEF AreSmall
  <2>11. cuts \in Seq(Seq(SentFrames)) /\ Len(cuts) = Len(messages) BY <2>7, <2>9, CutsFit
  <2>12. PICK c \in Nat : c = Len(messages) BY <2>10
  <2>13. m \in 0..c BY <2>8, <2>11, <2>12 DEF Place
  <2>14. PICK front : front = SubSeq(messages, 1, m) OBVIOUS
  <2>15. a.dropped = FALSE /\ a.messages = front /\ a.queue = Leading(cuts[m + 1], j)
    <3>1. PICK queue : queue = Leading(cuts[m + 1], j) OBVIOUS
    <3>2. a = Assembly(queue, front) BY ONLY <2>7, <2>8, <2>14, <3>1 DEF Halfway
    <3>3. a.dropped = FALSE /\ a.messages = front /\ a.queue = queue BY ONLY <3>2 DEF Assembly
    <3> QED BY <3>1, <3>3
  <2>16. IsPrefix(front, messages)
    <3>1. Len(front) = m /\ front \in Seq(Message) BY <2>10, <2>12, <2>13, <2>14
    <3> QED BY <2>10, <2>12, <2>13, <2>14, <3>1 DEF IsPrefix
  <2>17. ASSUME k = l PROVE front = messages /\ a.queue = <<>>
    <3>1. Place(cuts, Len(FlattenSeq(cuts)), m, j) BY <2>8, <2>9, <2>17
    <3>2. m = Len(cuts) /\ j = 0 BY <2>11, <3>1, PlaceLast
    <3>3. front = messages BY <2>10, <2>11, <2>12, <2>14, <3>2
    <3> QED BY <2>15, <3>2, <3>3 DEF Leading
  <2> QED BY <2>2, <2>6, <2>7, <2>15, <2>16, <2>17
<1> QED BY <1>1, Invariance, PTL
=============================================================================
