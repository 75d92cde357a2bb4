----------------------------- MODULE DataLemmas ------------------------------
(***************************************************************************)
(* Induction over the natural numbers, stated with a set where the library  *)
(* states it with an operator, and lemmas about sets of numbers, about      *)
(* sequences and about the parts of a text (Text.tla).                      *)
(***************************************************************************)
EXTENDS Text, Integers, FiniteSetsExt, FiniteSetTheorems, SequenceTheorems, TLAPS

\* A set that has 0 and with every number the next has all numbers: below one
\* that is missing all are, and taking 1 from each would be a bijection of these
\* that leaves out the largest.
LEMMA Inductive ==
    ASSUME NEW S, 0 \in S, \A n \in Nat : n \in S => n + 1 \in S
    PROVE  Nat \subseteq S
  <1> SUFFICES ASSUME NEW n \in Nat, n \notin S PROVE FALSE
    OBVIOUS
  <1> DEFINE missing == (0 .. n) \ S
             before == [k \in missing |-> k - 1]
  <1>1. IsFiniteSet(missing)
    <2>1. IsFiniteSet(0 .. n)
      BY FS_Interval
    <2> QED BY <2>1, FS_Subset
  <1>2. before \in [missing -> missing]
    OBVIOUS
  <1>3. before \in Injection(missing, missing)
    BY <1>2 DEF Injection, IsInjective
  <1>4. before \in Surjection(missing, missing)
    <2> HIDE DEF missing, before
    <2> QED BY <1>1, <1>3, FS_Injection
  <1>5. \A t \in missing : \E k \in missing : before[k] = t
    <2> HIDE DEF missing, before
    <2> QED BY <1>4 DEF Surjection
  <1>6. PICK k \in missing : before[k] = n
    BY <1>5
  <1> QED BY <1>6

\* The least and the largest of a set, once they are known.
LEMMA MinIs ==
    ASSUME NEW S \in SUBSET Int, NEW m \in S, \A x \in S : m <= x
    PROVE  Min(S) = m
  <1>1. \A y \in S : (\A x \in S : y <= x) => y = m
    OBVIOUS
  <1> QED BY <1>1 DEF Min
\* Likewise the largest.
LEMMA MaxIs ==
    ASSUME NEW S \in SUBSET Int, NEW m \in S, \A x \in S : x <= m
    PROVE  Max(S) = m
  <1>1. \A y \in S : (\A x \in S : y >= x) => y = m
    OBVIOUS
  <1> QED BY <1>1 DEF Max

\* The elements of two sequences put together.
LEMMA ConcatIs ==
    ASSUME NEW S, NEW s \in Seq(S), NEW t \in Seq(S)
    PROVE  /\ s \o t \in Seq(S) /\ Len(s \o t) = Len(s) + Len(t)
           /\ \A i \in 1 .. Len(s) : (s \o t)[i] = s[i]
           /\ \A i \in 1 .. Len(t) : (s \o t)[Len(s) + i] = t[i]
  <1>1. s \o t \in Seq(S) /\ Len(s \o t) = Len(s) + Len(t)
    OBVIOUS
  <1>2. \A i \in 1 .. Len(s) : (s \o t)[i] = s[i]
    OBVIOUS
  <1>3. \A i \in 1 .. Len(t) : (s \o t)[Len(s) + i] = t[i]
    OBVIOUS
  <1> QED BY <1>1, <1>2, <1>3

\* The elements of three that are put together, of which the last is one.
LEMMA ThreeParts ==
    ASSUME NEW S, NEW head \in Seq(S), NEW n \in Nat, n = Len(head),
           NEW body \in Seq(S), NEW k \in Nat, k = Len(body), NEW last \in S,
           NEW text, text = head \o body \o <<last>>
    PROVE  /\ text \in Seq(S)
           /\ Len(text) = n + k + 1
           /\ \A i \in 1 .. n : text[i] = head[i]
           /\ \A i \in 1 .. k : text[n + i] = body[i]
           /\ text[n + k + 1] = last
  <1>1. PICK both \in Seq(S) : both = head \o body
    BY ConcatIs
  <1>2. Len(both) = n + k
    BY <1>1, ConcatIs
  <1>3. \A i \in 1 .. n : both[i] = head[i]
    BY <1>1, ConcatIs
  <1>4. \A i \in 1 .. k : both[n + i] = body[i]
    BY <1>1, ConcatIs
  <1>5. PICK tail \in Seq(S) : tail = <<last>> /\ Len(tail) = 1 /\ tail[1] = last
    <2>1. <<last>> \in Seq(S)
      OBVIOUS
    <2>2. Len(<<last>>) = 1
      OBVIOUS
    <2>3. <<last>>[1] = last
      OBVIOUS
    <2> QED BY <2>1, <2>2, <2>3
  <1>6. text = both \o tail
    BY <1>1, <1>5
  <1>7. text \in Seq(S) /\ Len(text) = Len(both) + Len(tail)
    BY <1>6, ConcatIs
  <1>8. \A i \in 1 .. Len(both) : text[i] = both[i]
    BY <1>6, ConcatIs
  <1>9. \A i \in 1 .. Len(tail) : text[Len(both) + i] = tail[i]
    BY <1>6, ConcatIs
  <1>10. Len(text) = n + k + 1
    BY <1>2, <1>5, <1>7
  <1>11. \A i \in 1 .. n + k : text[i] = both[i]
    BY <1>2, <1>8
  <1>12. text[n + k + 1] = last
    <2>1. 1 \in 1 .. Len(tail)
      BY <1>5
    <2>2. text[Len(both) + 1] = tail[1]
      BY <2>1, <1>9
    <2> QED BY <1>2, <1>5, <2>2
  <1>13. \A i \in 1 .. n : text[i] = head[i]
    BY <1>3, <1>11
  <1>14. \A i \in 1 .. k : text[n + i] = body[i]
    <2> SUFFICES ASSUME NEW i \in 1 .. k PROVE text[n + i] = body[i]
      OBVIOUS
    <2>1. n + i \in 1 .. n + k
      OBVIOUS
    <2> QED BY <2>1, <1>4, <1>11
  <1> QED BY <1>7, <1>10, <1>12, <1>13, <1>14

\* A sequence of one element.
LEMMA OneIs ==
    ASSUME NEW S, NEW s \in Seq(S), Len(s) = 1
    PROVE  s = <<s[1]>>
  <1>1. PICK x \in S : x = s[1]
    OBVIOUS
  <1>2. <<x>> \in Seq(S)
    OBVIOUS
  <1>3. Len(<<x>>) = 1
    OBVIOUS
  <1>4. <<x>>[1] = x
    OBVIOUS
  <1> DEFINE t == <<x>>
  <1>5. t \in Seq(S) /\ Len(t) = Len(s) /\ \A i \in 1 .. Len(s) : s[i] = t[i]
    BY <1>1, <1>2, <1>3, <1>4
  <1> HIDE DEF t
  <1>6. s = t
    BY <1>5, SeqEqual
  <1> QED BY <1>1, <1>6 DEF t
\* And of eight.
LEMMA EightIs ==
    ASSUME NEW S, NEW a \in S, NEW b \in S, NEW c \in S, NEW d \in S,
           NEW e \in S, NEW f \in S, NEW g \in S, NEW h \in S
    PROVE  /\ <<a, b, c, d, e, f, g, h>> \in Seq(S)
           /\ Len(<<a, b, c, d, e, f, g, h>>) = 8
           /\ <<a, b, c, d, e, f, g, h>>[1] = a
           /\ <<a, b, c, d, e, f, g, h>>[2] = b
           /\ <<a, b, c, d, e, f, g, h>>[3] = c
           /\ <<a, b, c, d, e, f, g, h>>[4] = d
           /\ <<a, b, c, d, e, f, g, h>>[5] = e
           /\ <<a, b, c, d, e, f, g, h>>[6] = f
           /\ <<a, b, c, d, e, f, g, h>>[7] = g
           /\ <<a, b, c, d, e, f, g, h>>[8] = h
  <1>1. <<a, b, c, d, e, f, g, h>> \in Seq(S)
    OBVIOUS
  <1>2. Len(<<a, b, c, d, e, f, g, h>>) = 8
    OBVIOUS
  <1>3. /\ <<a, b, c, d, e, f, g, h>>[1] = a
        /\ <<a, b, c, d, e, f, g, h>>[2] = b
        /\ <<a, b, c, d, e, f, g, h>>[3] = c
        /\ <<a, b, c, d, e, f, g, h>>[4] = d
        /\ <<a, b, c, d, e, f, g, h>>[5] = e
        /\ <<a, b, c, d, e, f, g, h>>[6] = f
        /\ <<a, b, c, d, e, f, g, h>>[7] = g
        /\ <<a, b, c, d, e, f, g, h>>[8] = h
    OBVIOUS
  <1> QED BY <1>1, <1>2, <1>3

\* What there is in a file after a text is written over another one, or over
\* nothing.
LEMMA WrittenOver ==
    ASSUME NEW S, NEW s \in Seq(S), NEW t \in Seq(S)
    PROVE  s \o SubSeq(t, Len(s) + 1, Len(t)) \in Seq(S)
  <1>1. CASE Len(s) <= Len(t)
    BY <1>1
  <1>2. CASE Len(s) > Len(t)
    <2>1. SubSeq(t, Len(s) + 1, Len(t)) = <<>>
      BY <1>2
    <2> QED BY <2>1
  <1> QED BY <1>1, <1>2
\* Over nothing, it is the text.
LEMMA WrittenOverNothing ==
    ASSUME NEW S, NEW s \in Seq(S)
    PROVE  s \o SubSeq(<<>>, Len(s) + 1, Len(<<>>)) = s
  <1>1. SubSeq(<<>>, Len(s) + 1, Len(<<>>)) = <<>>
    OBVIOUS
  <1> QED BY <1>1

-----------------------------------------------------------------------------
\* The parts of a text can be counted.
LEMMA PartsAreSeq ==
    ASSUME NEW S, NEW text \in Seq(S), NEW c
    PROVE  /\ Len(Parts(text, c)) \in Nat
           /\ DOMAIN Parts(text, c) = 1 .. Len(Parts(text, c))
  <1> DEFINE starts == Starts(text, c)
  <1>1. starts \subseteq 1 .. Len(text) + 1
    BY DEF Starts
  <1>2. IsFiniteSet(starts)
    <2>1. IsFiniteSet(1 .. Len(text) + 1)
      BY FS_Interval
    <2> HIDE DEF starts
    <2> QED BY <1>1, <2>1, FS_Subset
  <1>3. Cardinality(starts) \in Nat
    <2> HIDE DEF starts
    <2> QED BY <1>2, FS_CardinalityType
  <1>4. DOMAIN Parts(text, c) = 1 .. Cardinality(starts)
    BY DEF Parts
  <1>5. Len(Parts(text, c)) = Cardinality(starts)
    <2> DEFINE lines == Parts(text, c)
    <2>1. lines = [n \in DOMAIN lines |-> lines[n]]
      BY DEF Parts
    <2>2. DOMAIN lines = 1 .. Cardinality(starts)
      BY <1>4
    <2> HIDE DEF starts, lines
    <2>3. Len(lines) = Cardinality(starts)
      BY <2>1, <2>2, <1>3
    <2> QED BY <2>3 DEF lines
  <1> QED BY <1>3, <1>4, <1>5

\* A part ends where the next separator is.
LEMMA PartIs ==
    ASSUME NEW S, NEW s \in Seq(S), NEW c, NEW a \in 1 .. Len(s), NEW b \in a .. Len(s), s[b] = c,
           \A i \in a .. b - 1 : s[i] # c
    PROVE  PartAt(s, a, c) = SubSeq(s, a, b - 1)
  <1> DEFINE found == {i \in a .. Len(s) : s[i] = c}
  <1>1. found \in SUBSET Int /\ b \in found /\ \A i \in found : b <= i
    OBVIOUS
  <1>2. Min(found) = b
    <2> HIDE DEF found
    <2> QED BY <1>1, MinIs
  <1>3. b # 0
    OBVIOUS
  <1> QED BY <1>1, <1>2, <1>3 DEF PartAt, SelectInSubSeq

\* How many of three starts are before another.
LEMMA ThreeStarts ==
    ASSUME NEW b \in Nat, NEW d \in Nat, 1 < b, b < d
    PROVE  /\ Cardinality({1, b, d}) = 3
           /\ Cardinality({1, b, d} \cap (1 .. 1)) = 1
           /\ Cardinality({1, b, d} \cap (1 .. b)) = 2
           /\ Cardinality({1, b, d} \cap (1 .. d)) = 3
  <1>1. {1, b, d} \cap (1 .. 1) = {1} /\ {1, b, d} \cap (1 .. b) = {1} \cup {b}
    OBVIOUS
  <1>2. {1, b, d} \cap (1 .. d) = {1, b, d} /\ {1, b, d} = ({1} \cup {b}) \cup {d}
    OBVIOUS
  <1>3. IsFiniteSet({1}) /\ Cardinality({1}) = 1
    BY FS_Singleton
  <1>4. IsFiniteSet({1} \cup {b})
    BY <1>3, FS_AddElement
  <1>5. b \notin {1}
    OBVIOUS
  <1>6. Cardinality({1} \cup {b}) = 2
    <2>1. Cardinality({1} \cup {b}) = Cardinality({1}) + 1
      BY <1>3, <1>5, FS_AddElement
    <2> QED BY <1>3, <2>1
  <1>7. d \notin {1} \cup {b}
    OBVIOUS
  <1>8. Cardinality(({1} \cup {b}) \cup {d}) = 3
    <2>1. Cardinality(({1} \cup {b}) \cup {d}) = Cardinality({1} \cup {b}) + 1
      BY <1>4, <1>7, FS_AddElement
    <2> QED BY <1>6, <2>1
  <1> QED BY <1>1, <1>2, <1>3, <1>6, <1>8

\* A text of two lines: c is at two places, of which one is the end.
TwoLined(text, c, a, end) ==
    /\ end = Len(text) /\ a \in 1 .. end - 1 /\ text[a] = c /\ text[end] = c
    /\ \A i \in 1 .. end : text[i] = c => i = a \/ i = end
\* Its parts are these lines, and an empty one.
LEMMA TwoLines ==
    ASSUME NEW S, NEW text \in Seq(S), NEW end \in Nat, NEW c, NEW a \in Nat,
           TwoLined(text, c, a, end),
           NEW b \in Nat, b = a + 1, NEW d \in Nat, d = end + 1
    PROVE  /\ Parts(text, c) = <<PartAt(text, 1, c), PartAt(text, b, c), PartAt(text, d, c)>>
           /\ PartAt(text, d, c) = <<>>
  <1> USE DEF TwoLined
  <1> DEFINE starts == Starts(text, c)
  <1>1. a \in Nat /\ 1 < a + 1 /\ a + 1 < end + 1 /\ a + 1 \in Nat /\ end + 1 \in Nat
    OBVIOUS
  <1>2. starts = {1, a + 1, end + 1}
    <2>1. {i \in DOMAIN text : text[i] = c} = {a, end}
      OBVIOUS
    <2> QED BY <2>1, <1>1 DEF Starts
  <1> HIDE DEF starts
  <1>3. /\ Cardinality(starts) = 3
        /\ Cardinality(starts \cap (1 .. 1)) = 1
        /\ Cardinality(starts \cap (1 .. a + 1)) = 2
        /\ Cardinality(starts \cap (1 .. end + 1)) = 3
    <2>1. PICK x \in Nat, y \in Nat : x = a + 1 /\ y = end + 1
      BY <1>1
    <2>2. 1 < x /\ x < y /\ starts = {1, x, y}
      BY <1>1, <1>2, <2>1
    <2>3. /\ Cardinality({1, x, y}) = 3
          /\ Cardinality({1, x, y} \cap (1 .. 1)) = 1
          /\ Cardinality({1, x, y} \cap (1 .. x)) = 2
          /\ Cardinality({1, x, y} \cap (1 .. y)) = 3
      BY <2>2, ThreeStarts
    <2> QED BY <2>1, <2>2, <2>3
  <1> DEFINE Nth(n) == CHOOSE start \in starts : Cardinality(starts \cap (1 .. start)) = n
  <1>4. Nth(1) = 1 /\ Nth(2) = a + 1 /\ Nth(3) = end + 1
    <2>1. \A start \in starts : start = 1 \/ start = a + 1 \/ start = end + 1
      BY <1>2
    <2>2. 1 \in starts /\ a + 1 \in starts /\ end + 1 \in starts
      BY <1>2
    <2>3. Nth(1) = 1
      BY <1>3, <2>1, <2>2
    <2>4. Nth(2) = a + 1
      BY <1>3, <2>1, <2>2
    <2>5. Nth(3) = end + 1
      BY <1>3, <2>1, <2>2
    <2> QED BY <2>3, <2>4, <2>5
  <1>5. Parts(text, c) = [n \in 1 .. 3 |-> PartAt(text, Nth(n), c)]
    BY <1>3 DEF Parts, starts
  <1> HIDE DEF Nth
  <1>8. PartAt(text, end + 1, c) = <<>>
    <2>1. SelectInSubSeq(text, end + 1, Len(text), LAMBDA x : x = c) = 0
      BY DEF SelectInSubSeq
    <2>2. PartAt(text, end + 1, c) = SubSeq(text, end + 1, end)
      BY <2>1 DEF PartAt
    <2> QED BY <2>2
  <1>9. Parts(text, c) = <<PartAt(text, 1, c), PartAt(text, a + 1, c), PartAt(text, end + 1, c)>>
    <2> DEFINE p1 == PartAt(text, 1, c)
               p2 == PartAt(text, a + 1, c)
               p3 == PartAt(text, end + 1, c)
               lines == [n \in 1 .. 3 |-> PartAt(text, Nth(n), c)]
    <2>1. lines[1] = p1 /\ lines[2] = p2 /\ lines[3] = p3
      BY <1>4
    <2>2. lines = [n \in 1 .. 3 |-> lines[n]]
      OBVIOUS
    <2>3. Parts(text, c) = lines
      BY <1>5
    <2> HIDE DEF lines, p1, p2, p3
    <2>4. lines = <<p1, p2, p3>>
      BY <2>1, <2>2
    <2> QED BY <2>3, <2>4 DEF p1, p2, p3
  <1> QED BY <1>8, <1>9

\* The same, for a first line of four characters.
LEMMA LinesAre ==
    ASSUME NEW S, NEW text \in Seq(S), NEW end \in Nat, NEW c, TwoLined(text, c, 5, end),
           NEW last \in Nat, last = end - 1
    PROVE  Parts(text, c) = <<SubSeq(text, 1, 4), SubSeq(text, 6, last), <<>>>>
  <1>0. /\ end = Len(text) /\ 5 \in 1 .. end - 1 /\ text[5] = c /\ text[end] = c
        /\ \A i \in 1 .. end : text[i] = c => i = 5 \/ i = end
    BY DEF TwoLined
  <1>1. PICK five \in Nat : five = 5 /\ five \in 1 .. end - 1
    BY <1>0
  <1>2. \A i \in 1 .. end : text[i] = c => i = five \/ i = end
    BY <1>0, <1>1
  <1>3. PICK six \in Nat, after \in Nat : six = five + 1 /\ after = end + 1
    BY <1>0, <1>1
  <1>4. end = Len(text) /\ text[five] = c /\ text[end] = c
    BY <1>0, <1>1
  <1>5. /\ Parts(text, c) = <<PartAt(text, 1, c), PartAt(text, six, c), PartAt(text, after, c)>>
        /\ PartAt(text, after, c) = <<>>
    <2>1. TwoLined(text, c, five, end)
      BY <1>1
    <2> QED BY <1>3, <2>1, TwoLines
  <1>6. PartAt(text, 1, c) = SubSeq(text, 1, 4)
    <2>1. 1 \in 1 .. Len(text) /\ five \in 1 .. Len(text)
      BY <1>0, <1>1
    <2>2. \A i \in 1 .. five - 1 : text[i] # c
      BY <1>0, <1>1, <1>2
    <2>3. PartAt(text, 1, c) = SubSeq(text, 1, five - 1)
      BY <1>4, <2>1, <2>2, PartIs
    <2> QED BY <1>0, <1>1, <2>3
  <1>7. PartAt(text, six, c) = SubSeq(text, 6, last)
    <2>1. six \in 1 .. Len(text) /\ end \in six .. Len(text)
      BY <1>0, <1>1, <1>3
    <2>2. \A i \in six .. end - 1 : text[i] # c
      BY <1>0, <1>1, <1>2, <1>3
    <2>3. PartAt(text, six, c) = SubSeq(text, six, end - 1)
      BY <1>4, <2>1, <2>2, PartIs
    <2> QED BY <1>0, <1>1, <1>3, <2>3
  <1> QED BY <1>5, <1>6, <1>7

-----------------------------------------------------------------------------
\* What is put together from several sequences is put together one by one.
LEMMA FlattenIs ==
    ASSUME NEW seqs, NEW N \in Nat
    PROVE  \E f : f = [i \in 1 .. N |-> IF i = 1 THEN seqs[i] ELSE f[i - 1] \o seqs[i]]
  <1> DEFINE Flattens(f, k) == \A i \in 1 .. k :
                 f[i] = IF i = 1 THEN seqs[i] ELSE f[i - 1] \o seqs[i]
             flattened == {k \in Nat : \E f : f = [i \in 1 .. k |-> f[i]] /\ Flattens(f, k)}
  <1>1. 0 \in flattened
    <2> DEFINE f == [i \in 1 .. 0 |-> seqs[i]]
    <2>1. Flattens(f, 0) /\ f = [i \in 1 .. 0 |-> f[i]]
      OBVIOUS
    <2> QED BY <2>1
  <1>2. \A k \in Nat : k \in flattened => k + 1 \in flattened
    <2> SUFFICES ASSUME NEW k \in Nat, k \in flattened PROVE k + 1 \in flattened
      OBVIOUS
    <2>1. PICK f : f = [i \in 1 .. k |-> f[i]] /\ Flattens(f, k)
      OBVIOUS
    <2> DEFINE last == IF k = 0 THEN seqs[1] ELSE f[k] \o seqs[k + 1]
               g == [i \in 1 .. k + 1 |-> IF i = k + 1 THEN last ELSE f[i]]
    <2>2. \A i \in 1 .. k + 1 : g[i] = IF i = k + 1 THEN last ELSE f[i]
      OBVIOUS
    <2>3. g = [i \in 1 .. k + 1 |-> g[i]]
      OBVIOUS
    <2> HIDE DEF g
    <2>4. Flattens(g, k + 1)
      <3> SUFFICES ASSUME NEW i \in 1 .. k + 1
                   PROVE g[i] = IF i = 1 THEN seqs[i] ELSE g[i - 1] \o seqs[i]
        OBVIOUS
      <3>1. CASE i = k + 1
        <4>1. g[i] = last /\ (i # 1 => g[i - 1] = f[k])
          BY <2>2, <3>1
        <4> QED BY <3>1, <4>1
      <3>2. CASE i \in 1 .. k
        <4>1. g[i] = f[i]
          BY <2>2, <3>2
        <4>2. i # 1 => g[i - 1] = f[i - 1]
          <5> SUFFICES ASSUME i # 1 PROVE g[i - 1] = f[i - 1]
            OBVIOUS
          <5>1. i - 1 \in 1 .. k + 1 /\ i - 1 # k + 1
            BY <3>2
          <5> QED BY <2>2, <5>1
        <4> QED BY <2>1, <3>2, <4>1, <4>2
      <3> QED BY <3>1, <3>2
    <2> HIDE DEF Flattens
    <2>5. \E h : h = [i \in 1 .. k + 1 |-> h[i]] /\ Flattens(h, k + 1)
      BY <2>3, <2>4
    <2> QED BY <2>5
  <1>3. N \in flattened
    <2> HIDE DEF flattened
    <2> QED BY <1>1, <1>2, Inductive
  <1>4. PICK f : f = [i \in 1 .. N |-> f[i]] /\ Flattens(f, N)
    BY <1>3
  <1>5. [i \in 1 .. N |-> f[i]] =
            [i \in 1 .. N |-> IF i = 1 THEN seqs[i] ELSE f[i - 1] \o seqs[i]]
    BY <1>4
  <1>6. f = [i \in 1 .. N |-> IF i = 1 THEN seqs[i] ELSE f[i - 1] \o seqs[i]]
    BY <1>4, <1>5
  <1> QED BY <1>6

\* The n-th of what is put together one by one is all of it.
OneByOne(S, n, seqs, f) ==
    /\ \A i \in 1 .. n : f[i] \in Seq(S)
    /\ f[1] = seqs[1]
    /\ \A i \in 1 .. n - 1 : f[i + 1] = f[i] \o seqs[i + 1]
    /\ FlattenSeq(seqs) = f[n]
LEMMA FlattenSteps ==
    ASSUME NEW S, NEW n \in Nat, n # 0, NEW seqs, n = Len(seqs),
           \A i \in 1 .. n : seqs[i] \in Seq(S)
    PROVE  \E f : OneByOne(S, n, seqs, f)
  <1> DEFINE f == CHOOSE f : f = [i \in 1 .. Len(seqs) |->
                      IF i = 1 THEN seqs[i] ELSE f[i - 1] \o seqs[i]]
  <1>1. f = [i \in 1 .. Len(seqs) |-> IF i = 1 THEN seqs[i] ELSE f[i - 1] \o seqs[i]]
    BY FlattenIs
  <1>2. FlattenSeq(seqs) = f[n]
    BY DEF FlattenSeq
  <1> HIDE DEF f
  <1>3. \A i \in 1 .. n : f[i] = IF i = 1 THEN seqs[i] ELSE f[i - 1] \o seqs[i]
    BY <1>1
  <1>4. f[1] = seqs[1]
    BY <1>3
  <1>5. \A i \in 1 .. n - 1 : f[i + 1] = f[i] \o seqs[i + 1]
    <2> SUFFICES ASSUME NEW i \in 1 .. n - 1 PROVE f[i + 1] = f[i] \o seqs[i + 1]
      OBVIOUS
    <2>1. PICK j \in 1 .. n : j = i + 1 /\ j # 1 /\ j - 1 = i
      OBVIOUS
    <2>2. f[j] = f[j - 1] \o seqs[j]
      BY <1>3, <2>1
    <2> QED BY <2>1, <2>2
  <1> DEFINE typed == {k \in Nat : k < n => f[k + 1] \in Seq(S)}
  <1>6. 0 \in typed
    BY <1>4
  <1>7. \A k \in Nat : k \in typed => k + 1 \in typed
    <2> SUFFICES ASSUME NEW k \in Nat, k \in typed, k + 1 < n PROVE f[k + 1 + 1] \in Seq(S)
      OBVIOUS
    <2>1. PICK i \in 1 .. n - 1 : i = k + 1
      OBVIOUS
    <2>2. PICK x \in Seq(S) : x = f[i]
      BY <2>1
    <2>3. PICK y \in Seq(S) : y = seqs[i + 1]
      OBVIOUS
    <2>4. f[i + 1] = x \o y
      BY <1>5, <2>2, <2>3
    <2>5. x \o y \in Seq(S)
      BY ConcatIs
    <2> QED BY <2>1, <2>4, <2>5
  <1>8. Nat \subseteq typed
    <2> HIDE DEF typed
    <2> QED BY <1>6, <1>7, Inductive
  <1>9. \A i \in 1 .. n : f[i] \in Seq(S)
    <2> SUFFICES ASSUME NEW i \in 1 .. n PROVE f[i] \in Seq(S)
      OBVIOUS
    <2>1. PICK k \in Nat : k + 1 = i /\ k < n
      <3>1. i - 1 \in Nat /\ i - 1 + 1 = i /\ i - 1 < n
        OBVIOUS
      <3> QED BY <3>1
    <2>2. f[k + 1] \in Seq(S)
      BY <1>8, <2>1
    <2> QED BY <2>1, <2>2
  <1> QED BY <1>2, <1>4, <1>5, <1>9 DEF OneByOne

\* Where each of the sequences begins.
FlatAt(S, n, seqs, at) ==
    /\ at \in [0 .. n -> Nat] /\ at[0] = 0
    /\ \A i \in 1 .. n : at[i] = at[i - 1] + Len(seqs[i])
    /\ FlattenSeq(seqs) \in Seq(S) /\ Len(FlattenSeq(seqs)) = at[n]
    /\ \A i \in 1 .. n : \A k \in 1 .. Len(seqs[i]) :
           FlattenSeq(seqs)[at[i - 1] + k] = seqs[i][k]
LEMMA FlattenAt ==
    ASSUME NEW S, NEW n \in Nat, NEW seqs, n = Len(seqs), n = 0 => seqs = <<>>,
           \A i \in 1 .. n : seqs[i] \in Seq(S)
    PROVE  \E at : FlatAt(S, n, seqs, at)
  <1>1. CASE n = 0
    <2> DEFINE at == [i \in 0 .. n |-> 0]
    <2>1. FlattenSeq(seqs) = seqs
      BY <1>1 DEF FlattenSeq
    <2>2. <<>> \in Seq(S) /\ Len(<<>>) = 0
      OBVIOUS
    <2>3. at \in [0 .. n -> Nat] /\ at[0] = 0 /\ at[n] = 0
      BY <1>1
    <2> HIDE DEF at
    <2>4. FlattenSeq(seqs) \in Seq(S) /\ Len(FlattenSeq(seqs)) = at[n]
      BY <1>1, <2>1, <2>2, <2>3
    <2>5. 1 .. n = {}
      BY <1>1
    <2> QED BY <2>3, <2>4, <2>5 DEF FlatAt
  <1>2. CASE n # 0
    <2>0. n \in Nat \ {0}
      BY <1>2
    <2>f. PICK f : OneByOne(S, n, seqs, f)
      BY <1>2, FlattenSteps
    <2>1. /\ \A i \in 1 .. n : f[i] \in Seq(S)
          /\ f[1] = seqs[1]
          /\ \A i \in 1 .. n - 1 : f[i + 1] = f[i] \o seqs[i + 1]
          /\ FlattenSeq(seqs) = f[n]
      BY <2>f DEF OneByOne
    <2> DEFINE at == [i \in 0 .. n |-> IF i = 0 THEN 0 ELSE Len(f[i])]
    <2>2. at = [i \in 0 .. n |-> at[i]] /\ at[0] = 0
      OBVIOUS
    <2>3. \A i \in 1 .. n : at[i] = Len(f[i])
      OBVIOUS
    <2> HIDE DEF at
    <2>4. \A i \in 0 .. n : at[i] \in Nat
      <3> SUFFICES ASSUME NEW i \in 0 .. n PROVE at[i] \in Nat
        OBVIOUS
      <3>1. CASE i = 0
        BY <2>2, <3>1
      <3>2. CASE i \in 1 .. n
        <4>1. PICK x \in Seq(S) : x = f[i]
          BY <2>1, <3>2
        <4>2. Len(x) \in Nat
          OBVIOUS
        <4> QED BY <2>3, <3>2, <4>1, <4>2
      <3> QED BY <3>1, <3>2
    \* the next sequence comes behind what there is
    <2>5. ASSUME NEW j \in 1 .. n - 1
          PROVE  /\ at[j + 1] = at[j] + Len(seqs[j + 1])
                 /\ at[j + 1] >= at[j]
                 /\ \A p \in 1 .. at[j] : f[j + 1][p] = f[j][p]
                 /\ \A k \in 1 .. Len(seqs[j + 1]) : f[j + 1][at[j] + k] = seqs[j + 1][k]
      <3>0. j \in 1 .. n /\ j + 1 \in 1 .. n
        OBVIOUS
      <3>1. PICK x \in Seq(S) : x = f[j]
        BY <2>1, <3>0
      <3>2. PICK y \in Seq(S) : y = seqs[j + 1]
        BY <3>0
      <3>3. PICK z : z = f[j + 1]
        OBVIOUS
      <3>4. z = x \o y
        BY <2>1, <3>1, <3>2, <3>3
      <3>5. at[j] = Len(x) /\ at[j + 1] = Len(z)
        BY <2>3, <3>0, <3>1, <3>3
      <3>6. Len(z) = Len(x) + Len(y)
        BY <3>4, ConcatIs
      <3>7. \A p \in 1 .. Len(x) : z[p] = x[p]
        BY <3>4, ConcatIs
      <3>8. \A k \in 1 .. Len(y) : z[Len(x) + k] = y[k]
        BY <3>4, ConcatIs
      <3>9. Len(x) \in Nat /\ Len(y) \in Nat
        OBVIOUS
      <3>10. at[j + 1] = at[j] + Len(seqs[j + 1])
        BY <3>2, <3>5, <3>6
      <3>11. at[j + 1] >= at[j]
        BY <3>5, <3>6, <3>9
      <3>12. \A p \in 1 .. at[j] : f[j + 1][p] = f[j][p]
        BY <3>1, <3>3, <3>5, <3>7
      <3>13. \A k \in 1 .. Len(seqs[j + 1]) : f[j + 1][at[j] + k] = seqs[j + 1][k]
        BY <3>2, <3>3, <3>5, <3>8
      <3> QED BY <3>10, <3>11, <3>12, <3>13
    <2>6. \A i \in 1 .. n : at[i] = at[i - 1] + Len(seqs[i])
      <3> SUFFICES ASSUME NEW i \in 1 .. n PROVE at[i] = at[i - 1] + Len(seqs[i])
        OBVIOUS
      <3>1. CASE i = 1
        <4>1. at[1] = Len(seqs[1]) /\ at[1] \in Nat
          BY <2>0, <2>1, <2>3, <2>4
        <4>2. i - 1 = 0
          BY <3>1
        <4> QED BY <2>2, <3>1, <4>1, <4>2
      <3>2. CASE i # 1
        <4>1. PICK j \in 1 .. n - 1 : i = j + 1 /\ i - 1 = j
          <5>1. i - 1 \in 1 .. n - 1 /\ i = i - 1 + 1
            BY <3>2
          <5> QED BY <5>1
        <4> QED BY <2>5, <4>1
      <3> QED BY <3>1, <3>2
    <2> DEFINE Placed(m) == \A i \in 1 .. m : \A k \in 1 .. Len(seqs[i]) :
                               at[i - 1] + k \in 1 .. at[m] /\ f[m][at[i - 1] + k] = seqs[i][k]
               placed == {m \in Nat : m < n => Placed(m + 1)}
    <2>7. 0 \in placed
      <3> SUFFICES Placed(1)
        OBVIOUS
      <3> SUFFICES ASSUME NEW i \in 1 .. 1, NEW k \in 1 .. Len(seqs[i])
                   PROVE  at[i - 1] + k \in 1 .. at[1] /\ f[1][at[i - 1] + k] = seqs[i][k]
        OBVIOUS
      <3>1. i = 1 /\ at[i - 1] = 0
        BY <2>2
      <3>2. at[1] = Len(seqs[1]) /\ at[1] \in Nat
        BY <2>0, <2>1, <2>3, <2>4
      <3>3. at[i - 1] + k = k
        BY <3>1, <3>2
      <3> QED BY <2>1, <3>1, <3>2, <3>3
    <2>8. \A m \in Nat : m \in placed => m + 1 \in placed
      <3> SUFFICES ASSUME NEW m \in Nat, m \in placed, m + 1 < n PROVE Placed(m + 1 + 1)
        OBVIOUS
      <3>1. PICK j \in 1 .. n - 1 : j = m + 1
        OBVIOUS
      <3>2. Placed(j)
        BY <3>1
      <3>3. Placed(j + 1)
        <4> SUFFICES ASSUME NEW i \in 1 .. j + 1, NEW k \in 1 .. Len(seqs[i])
                     PROVE  /\ at[i - 1] + k \in 1 .. at[j + 1]
                            /\ f[j + 1][at[i - 1] + k] = seqs[i][k]
          OBVIOUS
        <4>1. CASE i = j + 1
          <5>1. i - 1 = j
            BY <4>1
          <5>2. k \in 1 .. Len(seqs[j + 1]) /\ at[j] \in Nat /\ at[j + 1] \in Nat
            BY <2>4, <4>1
          <5>3. f[j + 1][at[j] + k] = seqs[j + 1][k]
            BY <2>5, <5>2
          <5>4. at[j + 1] = at[j] + Len(seqs[j + 1])
            BY <2>5
          <5>5. PICK y \in Seq(S) : y = seqs[j + 1]
            OBVIOUS
          <5>6. at[j] + k \in 1 .. at[j + 1]
            <6>1. PICK l \in Nat : l = Len(y)
              OBVIOUS
            <6>2. k \in 1 .. l /\ at[j + 1] = at[j] + l
              BY <5>2, <5>4, <5>5, <6>1
            <6>3. PICK b \in Nat : b = at[j]
              BY <5>2
            <6>4. b + k \in 1 .. b + l
              BY <6>2
            <6> QED BY <6>2, <6>3, <6>4
          <5> QED BY <4>1, <5>1, <5>3, <5>6
        <4>2. CASE i \in 1 .. j
          <5>1. at[i - 1] + k \in 1 .. at[j] /\ f[j][at[i - 1] + k] = seqs[i][k]
            BY <3>2, <4>2
          <5>2. PICK p \in 1 .. at[j] : p = at[i - 1] + k
            BY <5>1
          <5>3. f[j + 1][p] = f[j][p]
            BY <2>5
          <5>4. at[j] \in Nat /\ at[j + 1] \in Nat /\ at[j] <= at[j + 1]
            BY <2>4, <2>5
          <5> QED BY <5>1, <5>2, <5>3, <5>4
        <4> QED BY <4>1, <4>2
      <3> HIDE DEF Placed
      <3> QED BY <3>1, <3>3
    <2>9. Placed(n)
      <3>1. PICK m \in Nat : m + 1 = n /\ m < n
        <4>1. n - 1 \in Nat /\ n - 1 + 1 = n /\ n - 1 < n
          BY <2>0
        <4> QED BY <4>1
      <3>2. m \in placed
        <4> HIDE DEF placed
        <4> QED BY <2>7, <2>8, Inductive
      <3> HIDE DEF Placed
      <3> QED BY <3>1, <3>2
    <2>10. FlattenSeq(seqs) \in Seq(S) /\ Len(FlattenSeq(seqs)) = at[n]
      BY <2>0, <2>1, <2>3
    <2>11. at \in [0 .. n -> Nat]
      BY <2>2, <2>4
    <2>12. \A i \in 1 .. n : \A k \in 1 .. Len(seqs[i]) :
              FlattenSeq(seqs)[at[i - 1] + k] = seqs[i][k]
      BY <2>1, <2>9
    <2>13. FlatAt(S, n, seqs, at)
      BY <2>2, <2>6, <2>10, <2>11, <2>12 DEF FlatAt
    <2> QED BY <2>13
  <1> QED BY <1>1, <1>2

\* They follow one another.
LEMMA FlatGrows ==
    ASSUME NEW S, NEW n \in Nat, NEW seqs, NEW at, FlatAt(S, n, seqs, at),
           \A i \in 1 .. n : Len(seqs[i]) \in Nat, NEW i \in 0 .. n
    PROVE  at[i] <= at[n]
  <1>1. /\ at \in [0 .. n -> Nat]
        /\ \A j \in 1 .. n : at[j] = at[j - 1] + Len(seqs[j])
    BY DEF FlatAt
  <1> DEFINE grown == {k \in Nat : i + k <= n => at[i] <= at[i + k]}
  <1>2. 0 \in grown
    BY <1>1
  <1>3. \A k \in Nat : k \in grown => k + 1 \in grown
    <2> SUFFICES ASSUME NEW k \in Nat, k \in grown, i + (k + 1) <= n PROVE at[i] <= at[i + (k + 1)]
      OBVIOUS
    <2>1. PICK j \in 1 .. n, b \in 0 .. n : j = i + (k + 1) /\ b = i + k /\ b = j - 1
      <3>1. i + (k + 1) \in 1 .. n /\ i + k \in 0 .. n /\ i + k = i + (k + 1) - 1
        OBVIOUS
      <3> QED BY <3>1
    <2>2. at[j] = at[b] + Len(seqs[j]) /\ Len(seqs[j]) \in Nat
      BY <1>1, <2>1
    <2>3. at[i] <= at[b]
      BY <2>1
    <2> QED BY <1>1, <2>1, <2>2, <2>3
  <1>4. n - i \in grown
    <2>1. n - i \in Nat
      OBVIOUS
    <2> HIDE DEF grown
    <2> QED BY <1>2, <1>3, <2>1, Inductive
  <1>5. i + (n - i) <= n /\ i + (n - i) = n
    OBVIOUS
  <1> QED BY <1>4, <1>5

\* A sequence from its i-th element on.
LEMMA HeadAndRest ==
    ASSUME NEW S, NEW s \in Seq(S), NEW n \in Nat, n = Len(s), NEW i \in 1 .. n
    PROVE  <<s[i]>> \o SubSeq(s, i + 1, n) = SubSeq(s, i, n)
  OBVIOUS

-----------------------------------------------------------------------------
\* A set of numbers has a least one.
LEMMA LeastOf ==
    ASSUME NEW S \in SUBSET Nat, NEW x \in S
    PROVE  \E m \in S : \A i \in S : m <= i
  <1> SUFFICES ASSUME \A m \in S : \E i \in S : ~ m <= i PROVE FALSE
    OBVIOUS
  <1> DEFINE without == {n \in Nat : \A i \in 0 .. n : i \notin S}
  <1>1. 0 \in without
    OBVIOUS
  <1>2. \A n \in Nat : n \in without => n + 1 \in without
    OBVIOUS
  <1>3. x \in without
    <2> HIDE DEF without
    <2> QED BY <1>1, <1>2, Inductive
  <1> QED BY <1>3

\* A part reaches from where it starts to the next separator or the end.
PartEnd(s, a, c, b) ==
    /\ b \in a .. Len(s) + 1
    /\ b = Len(s) + 1 \/ s[b] = c
    /\ \A i \in a .. b - 1 : s[i] # c
LEMMA PartUntil ==
    ASSUME NEW S, NEW s \in Seq(S), NEW c, NEW a \in Nat \ {0}, NEW b \in Nat, PartEnd(s, a, c, b)
    PROVE  PartAt(s, a, c) = SubSeq(s, a, b - 1)
  <1>0. PICK l \in Nat : l = Len(s)
    OBVIOUS
  <1> USE <1>0 DEF PartEnd
  <1> DEFINE found == {i \in a .. Len(s) : s[i] = c}
  <1>1. CASE b = l + 1
    <2>1. found = {}
      BY <1>1
    <2>2. PartAt(s, a, c) = SubSeq(s, a, Len(s))
      BY <2>1 DEF PartAt, SelectInSubSeq
    <2> QED BY <1>1, <2>2
  <1>2. CASE b # l + 1
    <2>0. b \in a .. l /\ s[b] = c
      BY <1>2
    <2>1. found \in SUBSET Int /\ b \in found
      BY <2>0
    <2>2. \A i \in found : b <= i
      BY <2>0
    <2>3. Min(found) = b
      <3> HIDE DEF found
      <3> QED BY <2>1, <2>2, MinIs
    <2>4. found # {} /\ b # 0
      BY <2>0, <2>1
    <2> QED BY <2>3, <2>4 DEF PartAt, SelectInSubSeq
  <1> QED BY <1>1, <1>2

\* It does end.
LEMMA PartEnds ==
    ASSUME NEW S, NEW s \in Seq(S), NEW c, NEW a \in Nat \ {0}, a <= Len(s) + 1
    PROVE  \E b \in Nat : PartEnd(s, a, c, b)
  <1>0. PICK l \in Nat : l = Len(s)
    OBVIOUS
  <1> DEFINE ends == {i \in a .. l + 1 : i = l + 1 \/ s[i] = c}
  <1>1. ends \in SUBSET Nat /\ ends # {}
    <2>1. l + 1 \in ends
      BY <1>0
    <2> QED BY <2>1
  <1>2. PICK b \in ends : \A i \in ends : b <= i
    <2> HIDE DEF ends
    <2> QED BY <1>1, LeastOf
  <1>3. \A i \in a .. b - 1 : s[i] # c
    BY <1>2
  <1> QED BY <1>0, <1>2, <1>3 DEF PartEnd

\* A sequence that is found in another one from its place b on.
LEMMA SubSeqIs ==
    ASSUME NEW S, NEW s \in Seq(S), NEW t \in Seq(S), NEW b \in Nat, b + Len(t) <= Len(s),
           \A i \in 1 .. Len(t) : s[b + i] = t[i], NEW a, a = b + 1, NEW n, n = b + Len(t)
    PROVE  SubSeq(s, a, n) = t
  <1>0. PICK l \in Nat : l = Len(t)
    OBVIOUS
  <1>1. CASE l = 0
    <2>1. SubSeq(s, a, n) = <<>>
      BY <1>0, <1>1
    <2>2. t = <<>>
      BY <1>0, <1>1, EmptySeq
    <2> QED BY <2>1, <2>2
  <1>2. CASE l > 0
    <2>1. /\ SubSeq(s, a, n) \in Seq(S) /\ Len(SubSeq(s, a, n)) = n - a + 1
          /\ \A i \in 1 .. n - a + 1 : SubSeq(s, a, n)[i] = s[a + i - 1]
      BY <1>0, <1>2
    <2>2. PICK x \in Seq(S) : x = SubSeq(s, a, n)
      BY <2>1
    <2>3. Len(x) = Len(t)
      BY <1>0, <2>1, <2>2
    <2>4. ASSUME NEW i \in 1 .. Len(t) PROVE x[i] = t[i]
      <3>1. x[i] = s[a + i - 1]
        BY <1>0, <2>1, <2>2
      <3>2. a + i - 1 = b + i
        OBVIOUS
      <3> QED BY <3>1, <3>2
    <2>5. x = t
      BY <2>3, <2>4, SeqEqual
    <2> QED BY <2>2, <2>5
  <1> QED BY <1>0, <1>1, <1>2

\* What is left of a sequence from its place b on.
LeftFrom(S, s, b, k, left) ==
    left \in Seq(S) /\ Len(left) = k /\ \A i \in 1 .. k : left[i] = s[b + i]
LEMMA SubSeqFrom ==
    ASSUME NEW S, NEW s \in Seq(S), NEW b \in Nat, NEW k \in Nat, b + k = Len(s),
           NEW a \in Nat, a = b + 1
    PROVE  LeftFrom(S, s, b, k, SubSeq(s, a, Len(s)))
  <1>1. /\ SubSeq(s, a, Len(s)) \in Seq(S)
        /\ Len(SubSeq(s, a, Len(s))) = k
    OBVIOUS
  <1>2. ASSUME NEW i \in 1 .. k PROVE SubSeq(s, a, Len(s))[i] = s[b + i]
    <2>1. SubSeq(s, a, Len(s))[i] = s[a + i - 1]
      OBVIOUS
    <2>2. a + i - 1 = b + i
      OBVIOUS
    <2> QED BY <2>1, <2>2
  <1> QED BY <1>1, <1>2 DEF LeftFrom

\* What is in two sequences is put together the same if they agree there.
LEMMA SameSubSeq ==
    ASSUME NEW S, NEW s \in Seq(S), NEW t \in Seq(S), NEW a \in Nat \ {0}, NEW n \in Nat,
           n <= Len(s), n <= Len(t), \A i \in a .. n : s[i] = t[i]
    PROVE  SubSeq(s, a, n) = SubSeq(t, a, n)
  <1>1. CASE n < a
    <2>1. SubSeq(s, a, n) = <<>>
      BY <1>1
    <2>2. SubSeq(t, a, n) = <<>>
      BY <1>1
    <2> QED BY <2>1, <2>2
  <1>2. CASE a <= n
    <2>1. /\ SubSeq(s, a, n) \in Seq(S) /\ Len(SubSeq(s, a, n)) = n - a + 1
          /\ \A i \in 1 .. n - a + 1 : SubSeq(s, a, n)[i] = s[a + i - 1]
      BY <1>2
    <2>2. /\ SubSeq(t, a, n) \in Seq(S) /\ Len(SubSeq(t, a, n)) = n - a + 1
          /\ \A i \in 1 .. n - a + 1 : SubSeq(t, a, n)[i] = t[a + i - 1]
      BY <1>2
    <2>3. PICK x \in Seq(S), y \in Seq(S) : x = SubSeq(s, a, n) /\ y = SubSeq(t, a, n)
      BY <2>1, <2>2
    <2>4. Len(x) = Len(y) /\ \A i \in 1 .. Len(x) : x[i] = y[i]
      <3>1. Len(x) = n - a + 1 /\ Len(y) = n - a + 1
        BY <2>1, <2>2, <2>3
      <3> SUFFICES ASSUME NEW i \in 1 .. n - a + 1 PROVE x[i] = y[i]
        BY <3>1
      <3>2. PICK p \in a .. n : p = a + i - 1
        <4>1. a + i - 1 \in a .. n
          BY <1>2
        <4> QED BY <4>1
      <3> QED BY <2>1, <2>2, <2>3, <3>2
    <2>5. x = y
      BY <2>4, SeqEqual
    <2> QED BY <2>3, <2>5
  <1> QED BY <1>1, <1>2

\* Two texts with a separator between them, of which the second has none.
Joined(text, head, c, tail) ==
    /\ Len(text) = Len(head) + 1 + Len(tail)
    /\ \A i \in 1 .. Len(head) : text[i] = head[i]
    /\ text[Len(head) + 1] = c
    /\ \A i \in 1 .. Len(tail) : text[Len(head) + 1 + i] = tail[i] /\ tail[i] # c
\* The parts are those of the first, and the second.
LEMMA JoinedParts ==
    ASSUME NEW S, NEW text \in Seq(S), NEW head \in Seq(S), NEW tail \in Seq(S), NEW c,
           Joined(text, head, c, tail)
    PROVE  /\ Starts(text, c) = Starts(head, c) \cup {Len(head) + 2}
           /\ \A start \in Starts(head, c) : PartAt(text, start, c) = PartAt(head, start, c)
           /\ PartAt(text, Len(head) + 2, c) = tail
  <1>0. PICK h \in Nat, t \in Nat : h = Len(head) /\ t = Len(tail)
    OBVIOUS
  <1>1. /\ Len(text) = h + 1 + t
        /\ \A i \in 1 .. h : text[i] = head[i]
        /\ text[h + 1] = c
        /\ \A i \in 1 .. t : text[h + 1 + i] = tail[i] /\ tail[i] # c
    BY <1>0 DEF Joined
  <1>2. \A i \in h + 2 .. h + 1 + t : text[i] # c
    <2> SUFFICES ASSUME NEW i \in h + 2 .. h + 1 + t PROVE text[i] # c
      OBVIOUS
    <2>1. PICK k \in 1 .. t : i = h + 1 + k
      <3>1. i - (h + 1) \in 1 .. t /\ i = h + 1 + (i - (h + 1))
        OBVIOUS
      <3> QED BY <3>1
    <2> QED BY <1>1, <2>1
  <1>3. Starts(text, c) = Starts(head, c) \cup {h + 2}
    <2>1. {j \in DOMAIN text : text[j] = c} = {j \in DOMAIN head : head[j] = c} \cup {h + 1}
      <3>1. DOMAIN text = 1 .. h + 1 + t /\ DOMAIN head = 1 .. h
        BY <1>0, <1>1
      <3>2. ASSUME NEW j \in 1 .. h + 1 + t
            PROVE  text[j] = c <=> (j \in 1 .. h /\ head[j] = c) \/ j = h + 1
        <4>1. CASE j \in 1 .. h
          BY <1>1, <4>1
        <4>2. CASE j = h + 1
          BY <1>1, <4>2
        <4>3. CASE j \in h + 2 .. h + 1 + t
          BY <1>2, <4>3
        <4> QED BY <4>1, <4>2, <4>3
      <3> QED BY <3>1, <3>2
    <2>2. \A j \in {h + 1} : j + 1 = h + 2
      OBVIOUS
    <2> DEFINE in == {j \in DOMAIN head : head[j] = c}
    <2>3. Starts(text, c) = {1} \cup {i + 1 : i \in in \cup {h + 1}}
      BY <2>1 DEF Starts
    <2>4. Starts(head, c) = {1} \cup {i + 1 : i \in in}
      BY DEF Starts
    <2> HIDE DEF in
    <2>5. {i + 1 : i \in in \cup {h + 1}} = {i + 1 : i \in in} \cup {h + 2}
      BY <2>2
    <2> QED BY <2>3, <2>4, <2>5
  <1>4. ASSUME NEW start \in Starts(head, c) PROVE PartAt(text, start, c) = PartAt(head, start, c)
    <2>1. start \in Nat \ {0} /\ start <= h + 1
      BY <1>0 DEF Starts
    <2>2. PICK b \in Nat : PartEnd(head, start, c, b)
      BY <1>0, <2>1, PartEnds
    <2>3. /\ b \in start .. h + 1
          /\ b = h + 1 \/ head[b] = c
          /\ \A i \in start .. b - 1 : head[i] # c
      BY <1>0, <2>2 DEF PartEnd
    <2>4. PartEnd(text, start, c, b)
      <3>1. b \in start .. Len(text) + 1
        BY <1>1, <2>1, <2>3
      <3>2. text[b] = c
        <4>1. CASE b = h + 1
          BY <1>1, <4>1
        <4>2. CASE b # h + 1
          <5>1. b \in 1 .. h /\ head[b] = c
            BY <2>1, <2>3, <4>2
          <5> QED BY <1>1, <5>1
        <4> QED BY <4>1, <4>2
      <3>3. \A i \in start .. b - 1 : text[i] # c
        BY <1>1, <2>1, <2>3
      <3> QED BY <3>1, <3>2, <3>3 DEF PartEnd
    <2>5. PartAt(text, start, c) = SubSeq(text, start, b - 1)
      BY <2>1, <2>4, PartUntil
    <2>6. PartAt(head, start, c) = SubSeq(head, start, b - 1)
      BY <2>1, <2>2, PartUntil
    <2>7. PICK n \in Nat : n = b - 1
      BY <2>1, <2>3
    <2>8. n <= Len(text) /\ n <= Len(head) /\ \A i \in start .. n : text[i] = head[i]
      BY <1>0, <1>1, <2>1, <2>3, <2>7
    <2>9. SubSeq(text, start, n) = SubSeq(head, start, n)
      BY <2>1, <2>8, SameSubSeq
    <2> QED BY <2>5, <2>6, <2>7, <2>9
  <1>5. PartAt(text, h + 2, c) = tail
    <2>1. PICK a \in Nat \ {0}, b \in Nat : a = h + 2 /\ b = h + t + 2
      <3>1. h + 2 \in Nat \ {0} /\ h + t + 2 \in Nat
        OBVIOUS
      <3> QED BY <3>1
    <2>2. PartEnd(text, a, c, b)
      BY <1>1, <1>2, <2>1 DEF PartEnd
    <2>3. PartAt(text, a, c) = SubSeq(text, a, b - 1)
      BY <2>2, PartUntil
    <2>4. PICK n \in Nat : n = b - 1 /\ n = Len(text)
      BY <1>1, <2>1
    <2>5. PICK k \in Nat : k = h + 1
      OBVIOUS
    <2>6. a = k + 1 /\ n = k + Len(tail) /\ k + Len(tail) <= Len(text)
      BY <1>0, <1>1, <2>1, <2>4, <2>5
    <2>7. \A i \in 1 .. Len(tail) : text[k + i] = tail[i]
      BY <1>0, <1>1, <2>5
    <2>8. SubSeq(text, a, n) = tail
      BY <2>6, <2>7, SubSeqIs
    <2> QED BY <2>1, <2>3, <2>4, <2>8
  <1> QED BY <1>0, <1>3, <1>4, <1>5

\* The only part of a text without a separator.
LEMMA OnePart ==
    ASSUME NEW S, NEW s \in Seq(S), NEW c, \A i \in 1 .. Len(s) : s[i] # c
    PROVE  Starts(s, c) = {1} /\ PartAt(s, 1, c) = s
  <1>1. Starts(s, c) = {1}
    BY DEF Starts
  <1>2. PICK a \in Nat \ {0}, b \in Nat, e \in Nat : a = 1 /\ b = Len(s) + 1 /\ e = Len(s)
    <2>1. 1 \in Nat \ {0} /\ Len(s) + 1 \in Nat /\ Len(s) \in Nat
      OBVIOUS
    <2> QED BY <2>1
  <1>3. PartEnd(s, a, c, b)
    BY <1>2 DEF PartEnd
  <1>4. PartAt(s, a, c) = SubSeq(s, a, b - 1)
    BY <1>3, PartUntil
  <1>5. b - 1 = e
    BY <1>2
  <1>6. SubSeq(s, a, e) = s
    BY <1>2
  <1> QED BY <1>1, <1>2, <1>4, <1>5, <1>6

\* The elements of four sequences put together, of which the third is one.
FourParts(S, text, p, s, x, t) ==
    /\ text \in Seq(S)
    /\ Len(text) = Len(p) + Len(s) + 1 + Len(t)
    /\ \A i \in 1 .. Len(p) : text[i] = p[i]
    /\ \A i \in 1 .. Len(s) : text[Len(p) + i] = s[i]
    /\ text[Len(p) + Len(s) + 1] = x
    /\ \A i \in 1 .. Len(t) : text[Len(p) + Len(s) + 1 + i] = t[i]
LEMMA FourPartsAre ==
    ASSUME NEW S, NEW p \in Seq(S), NEW s \in Seq(S), NEW x \in S, NEW t \in Seq(S),
           NEW text, text = p \o s \o <<x>> \o t
    PROVE  FourParts(S, text, p, s, x, t)
  <1>0. PICK n \in Nat, k \in Nat, l \in Nat : n = Len(p) /\ k = Len(s) /\ l = Len(t)
    OBVIOUS
  <1>1. PICK three \in Seq(S) : three = p \o s \o <<x>>
    <2>1. p \o s \o <<x>> \in Seq(S)
      BY <1>0, ThreeParts
    <2> QED BY <2>1
  <1>2. /\ three \in Seq(S)
        /\ Len(three) = n + k + 1
        /\ \A i \in 1 .. n : three[i] = p[i]
        /\ \A i \in 1 .. k : three[n + i] = s[i]
        /\ three[n + k + 1] = x
    BY <1>0, <1>1, ThreeParts
  <1>3. text = three \o t
    BY <1>1
  <1>b. text \in Seq(S) /\ Len(text) = Len(three) + l
    BY <1>0, <1>3, ConcatIs
  <1>4. text \in Seq(S) /\ Len(text) = n + k + 1 + l
    BY <1>2, <1>b
  <1>a. \A i \in 1 .. Len(three) : text[i] = three[i]
    BY <1>3, ConcatIs
  <1>5. \A i \in 1 .. n + k + 1 : text[i] = three[i]
    BY <1>2, <1>a
  <1>6. \A i \in 1 .. l : text[Len(three) + i] = t[i]
    BY <1>0, <1>3, ConcatIs
  <1>7. ASSUME NEW i \in 1 .. n PROVE text[i] = p[i]
    <2>1. i \in 1 .. n + k + 1
      OBVIOUS
    <2> QED BY <1>2, <1>5, <2>1
  <1>8. ASSUME NEW i \in 1 .. k PROVE text[n + i] = s[i]
    <2>1. n + i \in 1 .. n + k + 1
      OBVIOUS
    <2> QED BY <1>2, <1>5, <2>1
  <1>9. text[n + k + 1] = x
    <2>1. n + k + 1 \in 1 .. n + k + 1
      OBVIOUS
    <2> QED BY <1>2, <1>5, <2>1
  <1>10. \A i \in 1 .. l : text[n + k + 1 + i] = t[i]
    BY <1>2, <1>6
  <1> QED BY <1>0, <1>4, <1>7, <1>8, <1>9, <1>10 DEF FourParts

\* A sequence of elements of a set is one of a larger set's.
LEMMA SeqWider ==
    ASSUME NEW S, NEW T, S \subseteq T, NEW s \in Seq(S)
    PROVE  s \in Seq(T)
  OBVIOUS
=============================================================================
