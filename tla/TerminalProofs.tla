---------------------------- MODULE TerminalProofs ----------------------------
(***************************************************************************)
(* Proofs about Terminal.tla, for any streams of whole characters, any      *)
(* markers of which the first begins like no other part of it, and any      *)
(* limits.                                                                  *)
(***************************************************************************)
EXTENDS Terminal, DataLemmas

\* The characters of texts (that a string is in STRING is more than the provers know).
Chars == STRING \cup {"wide", "lead"}
Texts == Seq(Chars)

\* Three sequences put together.
LEMMA Associative ==
    ASSUME NEW S, NEW s \in Seq(S), NEW t \in Seq(S), NEW u \in Seq(S)
    PROVE  s \o (t \o u) = (s \o t) \o u
  BY ConcatAssociative

\* What is known of the markers.
LEMMA Markers ==
    /\ FileBegin \in Texts /\ FileBegin \in Seq(Chars) /\ Len(FileBegin) \in Nat /\ Len(FileBegin) > 1
    /\ FileEnd \in Texts /\ FileEnd \in Seq(Chars) /\ Len(FileEnd) \in Nat /\ Len(FileEnd) > 0
    /\ \A i \in 2 .. Len(FileBegin) : FileBegin[i] # FileBegin[1]
  <1>1. FileBegin \in Texts /\ FileEnd \in Texts
    BY MarkerAssumption DEF Texts, Chars
  <1>2. Len(FileBegin) \in Nat /\ Len(FileEnd) \in Nat
    BY <1>1 DEF Texts
  <1> QED BY <1>1, <1>2, MarkerAssumption DEF Texts

\* A marker is in a text, character by character.
Matches(marker, text, i) ==
    /\ i + Len(marker) - 1 <= Len(text)
    /\ \A q \in 1 .. Len(marker) : text[i + q - 1] = marker[q]

\* What IsPrefix says of what is left of the text.
LEMMA OccursIs ==
    ASSUME NEW marker \in Texts, Len(marker) > 0, NEW text \in Texts, NEW i \in Nat \ {0},
           i <= Len(text) + 1
    PROVE  Occurs(marker, text, i) <=> Matches(marker, text, i)
  <1>0. PICK m \in Nat, l \in Nat, k \in Nat : m = Len(marker) /\ l = Len(text) /\ i + k = l + 1
    <2>1. Len(text) + 1 - i \in Nat /\ i + (Len(text) + 1 - i) = Len(text) + 1
      BY DEF Texts
    <2> QED BY <2>1 DEF Texts
  <1>1. PICK left \in Texts : left = SubSeq(text, i, Len(text))
    <2>1. SubSeq(text, i, Len(text)) \in Seq(Chars)
      BY <1>0 DEF Texts
    <2> QED BY <2>1 DEF Texts
  <1>2. Len(left) = k /\ \A q \in 1 .. k : left[q] = text[i + q - 1]
    <2>1. PICK b \in Nat : b + 1 = i
      <3>1. i - 1 \in Nat /\ i - 1 + 1 = i
        OBVIOUS
      <3> QED BY <3>1
    <2>2. LeftFrom(Chars, text, b, k, left)
      BY <1>0, <1>1, <2>1, SubSeqFrom DEF Texts
    <2>3. \A q \in 1 .. k : b + q = i + q - 1
      BY <2>1
    <2> QED BY <2>2, <2>3 DEF LeftFrom
  <1>3. IsPrefix(marker, left) <=> m <= k /\ SubSeq(marker, 1, m) = SubSeq(left, 1, m)
    BY <1>0, <1>2 DEF IsPrefix
  <1>4. m <= k <=> i + m - 1 <= l
    BY <1>0
  <1>5. ASSUME m <= k
        PROVE  SubSeq(marker, 1, m) = SubSeq(left, 1, m)
                   <=> \A q \in 1 .. m : text[i + q - 1] = marker[q]
    <2>1. SubSeq(marker, 1, m) = marker
      BY <1>0 DEF Texts
    <2>2. PICK start \in Texts : start = SubSeq(left, 1, m)
      <3>1. SubSeq(left, 1, m) \in Seq(Chars)
        BY <1>0, <1>2, <1>5 DEF Texts
      <3> QED BY <3>1 DEF Texts
    <2>3. Len(start) = m /\ \A q \in 1 .. m : start[q] = left[q]
      BY <1>0, <1>2, <1>5, <2>2 DEF Texts
    <2>4. \A q \in 1 .. m : start[q] = text[i + q - 1]
      BY <1>2, <1>5, <2>3
    <2>5. (\A q \in 1 .. m : start[q] = marker[q]) => start = marker
      BY <1>0, <2>3, SeqEqual DEF Texts
    <2> QED BY <2>1, <2>2, <2>4, <2>5
  <1> QED BY <1>0, <1>1, <1>3, <1>4, <1>5 DEF Occurs, Matches

\* IsSuffix looks at both from behind.
LEMMA SuffixIs ==
    ASSUME NEW s \in Texts, NEW t \in Texts
    PROVE  IsSuffix(s, t) <=> /\ Len(s) <= Len(t)
                              /\ \A q \in 1 .. Len(s) : t[Len(t) - Len(s) + q] = s[q]
  <1>0. PICK m \in Nat, l \in Nat : m = Len(s) /\ l = Len(t)
    BY DEF Texts
  <1>1. PICK rs \in Texts : rs = Reverse(s)
    <2>1. Reverse(s) \in Seq(Chars)
      BY <1>0 DEF Texts, Reverse
    <2> QED BY <2>1 DEF Texts
  <1>2. Len(rs) = m /\ \A q \in 1 .. m : rs[q] = s[m - q + 1]
    BY <1>0, <1>1 DEF Texts, Reverse
  <1>3. PICK rt \in Texts : rt = Reverse(t)
    <2>1. Reverse(t) \in Seq(Chars)
      BY <1>0 DEF Texts, Reverse
    <2> QED BY <2>1 DEF Texts
  <1>4. Len(rt) = l /\ \A q \in 1 .. l : rt[q] = t[l - q + 1]
    BY <1>0, <1>3 DEF Texts, Reverse
  <1>5. IsSuffix(s, t) <=> m <= l /\ SubSeq(rs, 1, m) = SubSeq(rt, 1, m)
    BY <1>1, <1>2, <1>3, <1>4 DEF IsSuffix, IsPrefix
  <1>6. ASSUME m <= l
        PROVE  SubSeq(rs, 1, m) = SubSeq(rt, 1, m) <=> \A q \in 1 .. m : rt[q] = rs[q]
    <2>1. SubSeq(rs, 1, m) = rs
      BY <1>2 DEF Texts
    <2>2. PICK start \in Texts : start = SubSeq(rt, 1, m)
      <3>1. SubSeq(rt, 1, m) \in Seq(Chars)
        BY <1>4, <1>6 DEF Texts
      <3> QED BY <3>1 DEF Texts
    <2>3. Len(start) = m /\ \A q \in 1 .. m : start[q] = rt[q]
      BY <1>4, <1>6, <2>2 DEF Texts
    <2>4. (\A q \in 1 .. m : start[q] = rs[q]) => start = rs
      BY <1>2, <2>3, SeqEqual DEF Texts
    <2> QED BY <2>1, <2>2, <2>3, <2>4
  <1>7. ASSUME m <= l, \A q \in 1 .. m : rt[q] = rs[q], NEW q \in 1 .. m PROVE t[l - m + q] = s[q]
    <2>1. PICK p \in 1 .. m : p = m - q + 1
      OBVIOUS
    <2>2. rt[p] = t[l - p + 1] /\ rs[p] = s[m - p + 1]
      BY <1>2, <1>4, <1>7, <2>1
    <2>3. l - p + 1 = l - m + q /\ m - p + 1 = q
      BY <2>1
    <2> QED BY <1>7, <2>2, <2>3
  <1>8. ASSUME m <= l, \A q \in 1 .. m : t[l - m + q] = s[q], NEW q \in 1 .. m PROVE rt[q] = rs[q]
    <2>1. PICK p \in 1 .. m : p = m - q + 1
      OBVIOUS
    <2>2. rt[q] = t[l - q + 1] /\ rs[q] = s[m - q + 1]
      BY <1>2, <1>4, <1>8, <2>1
    <2>3. l - q + 1 = l - m + p /\ m - q + 1 = p
      BY <2>1
    <2> QED BY <1>8, <2>1, <2>2, <2>3
  <1> QED BY <1>0, <1>5, <1>6, <1>7, <1>8

-----------------------------------------------------------------------------
\* The first place of a marker from a place on, and that there is none.
First(marker, text, i, b) ==
    /\ b \in i .. Len(text) /\ Matches(marker, text, b)
    /\ \A j \in i .. b - 1 : ~Matches(marker, text, j)
Missing(marker, text, i) == \A j \in i .. Len(text) : ~Matches(marker, text, j)

\* What At and Min find is that.
LEMMA AtIs ==
    ASSUME NEW marker \in Texts, Len(marker) > 0, NEW text \in Texts, NEW i \in Nat \ {0}
    PROVE  /\ Missing(marker, text, i) => At(marker, text, i) = {}
           /\ At(marker, text, i) = {} => Missing(marker, text, i)
           /\ \A b : First(marker, text, i, b) =>
                  At(marker, text, i) # {} /\ Min(At(marker, text, i)) = b
           /\ Missing(marker, text, i) \/ \E b \in Nat : First(marker, text, i, b)
  <1>0. PICK l \in Nat : l = Len(text)
    BY DEF Texts
  <1> DEFINE S == At(marker, text, i)
  <1>1. ASSUME NEW j \in i .. l PROVE j \in S <=> Matches(marker, text, j)
    <2>1. j \in Nat \ {0} /\ j <= l + 1
      OBVIOUS
    <2>2. Occurs(marker, text, j) <=> Matches(marker, text, j)
      BY <1>0, <2>1, OccursIs
    <2> QED BY <1>0, <2>2 DEF At
  <1>2. S \subseteq i .. l
    BY <1>0 DEF At
  <1>3. S \in SUBSET Nat /\ S \in SUBSET Int
    BY <1>2
  <1> HIDE DEF S
  <1>4. Missing(marker, text, i) <=> S = {}
    <2>1. Missing(marker, text, i) <=> \A j \in i .. l : ~Matches(marker, text, j)
      BY <1>0 DEF Missing
    <2>2. (\A j \in i .. l : ~Matches(marker, text, j)) <=> \A j \in i .. l : j \notin S
      BY <1>1
    <2> QED BY <1>2, <2>1, <2>2
  <1>5. ASSUME NEW b, First(marker, text, i, b) PROVE S # {} /\ Min(S) = b
    <2>1. b \in i .. l /\ Matches(marker, text, b) /\ \A j \in i .. b - 1 : ~Matches(marker, text, j)
      BY <1>0, <1>5 DEF First
    <2>2. b \in S
      BY <1>1, <2>1
    <2>3. ASSUME NEW x \in S PROVE b <= x
      <3>1. x \in i .. l /\ Matches(marker, text, x)
        BY <1>1, <1>2
      <3> QED BY <2>1, <3>1
    <2>4. Min(S) = b
      BY <1>3, <2>2, <2>3, MinIs
    <2> QED BY <2>2, <2>4
  <1>6. ASSUME S # {} PROVE \E b \in Nat : First(marker, text, i, b)
    <2>1. PICK x : x \in S
      BY <1>6
    <2>2. PICK b \in S : \A j \in S : b <= j
      BY <1>3, <2>1, LeastOf
    <2>3. b \in Nat /\ b \in i .. l /\ Matches(marker, text, b)
      BY <1>1, <1>2
    <2>4. ASSUME NEW j \in i .. b - 1 PROVE ~Matches(marker, text, j)
      <3>1. j \in i .. l /\ j < b
        BY <2>3
      <3>2. j \notin S
        BY <2>2, <2>3, <3>1
      <3> QED BY <1>1, <3>1, <3>2
    <2> QED BY <1>0, <2>3, <2>4 DEF First
  <1> QED BY <1>4, <1>5, <1>6 DEF S

\* Every bounded set of numbers that is not empty has a largest.
LEMMA LargestOf ==
    ASSUME NEW n \in Nat, NEW S \in SUBSET (0 .. n), NEW x \in S
    PROVE  \E m \in S : Max(S) = m /\ \A i \in S : i <= m
  <1> DEFINE T == {k \in 0 .. n : n - k \in S}
  <1>1. T \in SUBSET Nat
    OBVIOUS
  <1>2. n - x \in T
    <2>1. n - x \in 0 .. n /\ n - (n - x) = x
      OBVIOUS
    <2> QED BY <2>1
  <1>3. PICK k \in T : \A i \in T : k <= i
    <2> HIDE DEF T
    <2> QED BY <1>1, <1>2, LeastOf
  <1>4. n - k \in S
    OBVIOUS
  <1>5. ASSUME NEW i \in S PROVE i <= n - k
    <2>1. n - i \in 0 .. n /\ n - (n - i) = i
      OBVIOUS
    <2>2. n - i \in T
      BY <2>1
    <2>3. k <= n - i /\ k \in 0 .. n
      BY <1>3, <2>2
    <2> QED BY <2>1, <2>3
  <1>6. S \in SUBSET Int
    OBVIOUS
  <1>7. Max(S) = n - k
    <2> HIDE DEF T
    <2> QED BY <1>4, <1>5, <1>6, MaxIs
  <1> QED BY <1>4, <1>5, <1>7

\* The end of a text that may become a begin marker, character by character.
Ends(text, n) == n <= Len(text) /\ \A q \in 1 .. n : text[Len(text) - n + q] = FileBegin[q]

\* Held is the longest end of a text that may become a begin marker.
LEMMA HeldIs ==
    ASSUME NEW text \in Texts
    PROVE  /\ Held(text) \in 0 .. Len(FileBegin) - 1 /\ Ends(text, Held(text))
           /\ \A n \in 0 .. Len(FileBegin) - 1 : Ends(text, n) => n <= Held(text)
  <1>0. PICK l \in Nat, m \in Nat : l = Len(text) /\ m + 1 = Len(FileBegin) /\ m = Len(FileBegin) - 1
    <2>1. Len(FileBegin) - 1 \in Nat /\ Len(FileBegin) - 1 + 1 = Len(FileBegin) /\ Len(text) \in Nat
      BY Markers DEF Texts
    <2> QED BY <2>1
  <1> DEFINE S == {n \in 0 .. Len(FileBegin) - 1 :
                       n <= Len(text) /\ IsSuffix(SubSeq(FileBegin, 1, n), text)}
  <1>1. ASSUME NEW n \in 0 .. m PROVE n \in S <=> Ends(text, n)
    <2>1. PICK s \in Texts : s = SubSeq(FileBegin, 1, n)
      <3>1. SubSeq(FileBegin, 1, n) \in Seq(Chars)
        BY <1>0, Markers
      <3> QED BY <3>1 DEF Texts
    <2>2. Len(s) = n /\ \A q \in 1 .. n : s[q] = FileBegin[q]
      BY <1>0, <2>1, Markers
    <2>3. IsSuffix(s, text) <=> n <= l /\ \A q \in 1 .. n : text[l - n + q] = s[q]
      BY <1>0, <2>2, SuffixIs
    <2> QED BY <1>0, <2>1, <2>2, <2>3 DEF Ends
  <1>2. S \in SUBSET (0 .. m)
    BY <1>0
  <1>3. 0 \in S
    BY <1>0, <1>1 DEF Ends
  <1>4. Held(text) = Max(S)
    BY DEF Held
  <1> HIDE DEF S
  <1>5. PICK h \in S : Max(S) = h /\ \A i \in S : i <= h
    BY <1>2, <1>3, LargestOf
  <1>6. h \in 0 .. m /\ Ends(text, h)
    BY <1>1, <1>2
  <1>7. ASSUME NEW n \in 0 .. m, Ends(text, n) PROVE n <= h
    <2>1. n \in S
      BY <1>1, <1>7
    <2> QED BY <1>5, <2>1
  <1> QED BY <1>0, <1>4, <1>5, <1>6, <1>7

-----------------------------------------------------------------------------
\* What SplitAt is, in each of its cases.
Nothing(rest) == [out |-> SubSeq(rest, 1, Len(rest) - Held(rest)), files |-> <<>>]

\* A text with no file in it from a place on is all written, but for what is held.
LEMMA NoBegin ==
    ASSUME NEW text \in Texts, NEW i \in Nat \ {0}, NEW f, Missing(FileBegin, text, i)
    PROVE  SplitAt(text, f, i) = Nothing(SubSeq(text, i, Len(text)))
  <1>1. FileBegin \in Texts /\ Len(FileBegin) > 0
    BY Markers DEF Texts
  <1>2. At(FileBegin, text, i) = {}
    BY <1>1, AtIs
  <1> QED BY <1>2 DEF SplitAt, Nothing

\* A file that does not end.
LEMMA NoEnd ==
    ASSUME NEW text \in Texts, NEW i \in Nat \ {0}, NEW f,
           NEW b \in Nat, First(FileBegin, text, i, b),
           NEW content \in Nat, content = b + Len(FileBegin), Missing(FileEnd, text, content)
    PROVE  SplitAt(text, f, i) = [out |-> SubSeq(text, i, b - 1), files |-> <<>>]
  <1>0. /\ FileBegin \in Texts /\ Len(FileBegin) > 0 /\ content \in Nat \ {0}
        /\ FileEnd \in Texts /\ Len(FileEnd) > 0
    BY Markers DEF Texts
  <1>1. At(FileBegin, text, i) # {} /\ Min(At(FileBegin, text, i)) = b
    BY <1>0, AtIs
  <1>2. At(FileEnd, text, content) = {}
    BY <1>0, AtIs
  <1> QED BY <1>1, <1>2 DEF SplitAt

\* And one that does.
Then(before, content, rest) ==
    [out |-> before \o rest.out, files |-> <<content>> \o rest.files]
\* A text with a whole file in it is what comes before it, it, and the rest.
LEMMA FileAndRest ==
    ASSUME NEW text \in Texts, NEW i \in Nat \ {0}, NEW f,
           NEW b \in Nat, First(FileBegin, text, i, b),
           NEW content \in Nat, content = b + Len(FileBegin),
           NEW e \in Nat, First(FileEnd, text, content, e),
           NEW next, next = e + Len(FileEnd)
    PROVE  SplitAt(text, f, i) = Then(SubSeq(text, i, b - 1), SubSeq(text, content, e - 1), f[next])
  <1>0. /\ FileBegin \in Texts /\ Len(FileBegin) > 0 /\ content \in Nat \ {0}
        /\ FileEnd \in Texts /\ Len(FileEnd) > 0
    BY Markers DEF Texts
  <1>1. At(FileBegin, text, i) # {} /\ Min(At(FileBegin, text, i)) = b
    BY <1>0, AtIs
  <1>2. At(FileEnd, text, content) # {} /\ Min(At(FileEnd, text, content)) = e
    BY <1>0, AtIs
  <1> QED BY <1>1, <1>2 DEF SplitAt, Then

\* One of the cases it is, and what is behind a file is further on.
WholeFile(text, i, b, content, e) ==
    /\ content = b + Len(FileBegin)
    /\ First(FileBegin, text, i, b) /\ First(FileEnd, text, content, e)
\* From a place on a text has no file, one that does not end, or a whole one.
LEMMA OneCase ==
    ASSUME NEW text \in Texts, NEW i \in Nat \ {0}
    PROVE  \/ Missing(FileBegin, text, i)
           \/ \E b \in Nat, content \in Nat :
                  /\ content = b + Len(FileBegin)
                  /\ First(FileBegin, text, i, b) /\ Missing(FileEnd, text, content)
           \/ \E b \in Nat, content \in Nat, e \in Nat : WholeFile(text, i, b, content, e)
  <1>0. /\ FileBegin \in Texts /\ Len(FileBegin) > 0 /\ Len(FileBegin) \in Nat
        /\ FileEnd \in Texts /\ Len(FileEnd) > 0
    BY Markers DEF Texts
  <1>1. Missing(FileBegin, text, i) \/ \E b \in Nat : First(FileBegin, text, i, b)
    BY <1>0, AtIs
  <1>2. ASSUME NEW b \in Nat, First(FileBegin, text, i, b)
        PROVE  \E content \in Nat :
                  /\ content = b + Len(FileBegin)
                  /\ \/ Missing(FileEnd, text, content)
                     \/ \E e \in Nat : First(FileEnd, text, content, e)
    <2>1. PICK content \in Nat \ {0} : content = b + Len(FileBegin)
      <3>1. b + Len(FileBegin) \in Nat \ {0}
        BY <1>0
      <3> QED BY <3>1
    <2> QED BY <1>0, <2>1, AtIs
  <1> QED BY <1>1, <1>2 DEF WholeFile

\* What is behind a file is further on.
LEMMA FileLengths ==
    ASSUME NEW text \in Texts, NEW i \in Nat \ {0}, NEW b \in Nat, NEW content \in Nat,
           NEW e \in Nat, WholeFile(text, i, b, content, e)
    PROVE  /\ e + Len(FileEnd) \in i + 1 .. Len(text) + 1
           /\ SubSeq(text, content, e - 1) \in Texts
  <1>0. Len(FileBegin) \in Nat /\ Len(FileEnd) > 0 /\ Len(FileEnd) \in Nat /\ Len(text) \in Nat
    BY Markers DEF Texts
  <1>1. b >= i /\ e >= content /\ content = b + Len(FileBegin) /\ e + Len(FileEnd) - 1 <= Len(text)
    BY DEF WholeFile, First, Matches
  <1>2. SubSeq(text, content, e - 1) \in Texts
    BY <1>0, <1>1 DEF Texts
  <1> QED BY <1>0, <1>1, <1>2

\* It is a text and files, and looks at what is further on only.
Pieces == [out : Texts, files : Seq(Texts)]
\* What comes before a file is a text.
LEMMA BeforeIs ==
    ASSUME NEW text \in Texts, NEW i \in Nat \ {0}, NEW b \in Nat, First(FileBegin, text, i, b)
    PROVE  SubSeq(text, i, b - 1) \in Texts
  <1>1. b \in i .. Len(text) /\ Len(text) \in Nat
    BY DEF First, Texts
  <1> QED BY <1>1 DEF Texts

\* What SplitAt makes of a text from a place on depends on what it makes of later places.
LEMMA SplitLooks ==
    ASSUME NEW text \in Texts, NEW i \in Nat \ {0}, NEW f, NEW g,
           \A j \in i + 1 .. Len(text) + 1 : f[j] = g[j] /\ f[j] \in Pieces
    PROVE  SplitAt(text, f, i) = SplitAt(text, g, i) /\ SplitAt(text, f, i) \in Pieces
  <1>0. Len(text) \in Nat /\ i \in Int
    BY DEF Texts
  <1>a. <<>> \in Seq(Texts)
    OBVIOUS
  <1>1. CASE Missing(FileBegin, text, i)
    <2>1. PICK rest \in Texts : rest = SubSeq(text, i, Len(text))
      <3>1. SubSeq(text, i, Len(text)) \in Seq(Chars)
        BY <1>0 DEF Texts
      <3> QED BY <3>1 DEF Texts
    <2>2. Held(rest) \in Nat /\ Held(rest) <= Len(rest)
      BY HeldIs, Markers DEF Ends
    <2>3. SubSeq(rest, 1, Len(rest) - Held(rest)) \in Texts
      BY <2>2 DEF Texts
    <2>4. Nothing(rest) \in Pieces
      BY <1>a, <2>3 DEF Nothing, Pieces
    <2>5. SplitAt(text, f, i) = Nothing(rest)
      BY <1>1, <2>1, NoBegin
    <2>6. SplitAt(text, g, i) = Nothing(rest)
      BY <1>1, <2>1, NoBegin
    <2> QED BY <2>4, <2>5, <2>6
  <1>2. ASSUME NEW b \in Nat, NEW content \in Nat, content = b + Len(FileBegin),
               First(FileBegin, text, i, b), Missing(FileEnd, text, content)
        PROVE  SplitAt(text, f, i) = SplitAt(text, g, i) /\ SplitAt(text, f, i) \in Pieces
    <2>1. PICK before \in Texts : before = SubSeq(text, i, b - 1)
      BY <1>2, BeforeIs
    <2>2. [out |-> before, files |-> <<>>] \in Pieces
      BY <1>a DEF Pieces
    <2>3. SplitAt(text, f, i) = [out |-> before, files |-> <<>>]
      BY <1>2, <2>1, NoEnd
    <2>4. SplitAt(text, g, i) = [out |-> before, files |-> <<>>]
      BY <1>2, <2>1, NoEnd
    <2> QED BY <2>2, <2>3, <2>4
  <1>3. ASSUME NEW b \in Nat, NEW content \in Nat, NEW e \in Nat,
               WholeFile(text, i, b, content, e)
        PROVE  SplitAt(text, f, i) = SplitAt(text, g, i) /\ SplitAt(text, f, i) \in Pieces
    <2>0. /\ content = b + Len(FileBegin)
          /\ First(FileBegin, text, i, b) /\ First(FileEnd, text, content, e)
      BY <1>3 DEF WholeFile
    <2>1. PICK before \in Texts : before = SubSeq(text, i, b - 1)
      BY <2>0, BeforeIs
    <2>2. PICK next \in i + 1 .. Len(text) + 1 : next = e + Len(FileEnd)
      BY <1>3, FileLengths
    <2>3. PICK x \in Texts, y \in Seq(Texts) :
              x = f[next].out /\ y = f[next].files /\ x = g[next].out /\ y = g[next].files
      <3>1. f[next] = g[next] /\ f[next] \in Pieces
        OBVIOUS
      <3> QED BY <3>1 DEF Pieces
    <2>4. PICK inside \in Texts : inside = SubSeq(text, content, e - 1)
      BY <1>3, FileLengths
    <2>5. before \o x \in Texts /\ <<inside>> \in Seq(Texts)
      BY DEF Texts
    <2>6. <<inside>> \o y \in Seq(Texts)
      BY <2>5
    <2>7. [out |-> before \o x, files |-> <<inside>> \o y] \in Pieces
      BY <2>5, <2>6 DEF Pieces
    <2>8. SplitAt(text, f, i) = Then(before, inside, f[next])
      BY <2>0, <2>1, <2>2, <2>4, FileAndRest
    <2>9. SplitAt(text, g, i) = Then(before, inside, g[next])
      BY <2>0, <2>1, <2>2, <2>4, FileAndRest
    <2> QED BY <2>3, <2>7, <2>8, <2>9 DEF Then
  <1> QED BY <1>1, <1>2, <1>3, OneCase

\* What Split is: there is a function as it defines one.
Splits(text, f) ==
    \A i \in 1 .. Len(text) + 1 : f[i] = SplitAt(text, f, i) /\ f[i] \in Pieces
\* From the end of the text backwards, there is such a function.
LEMMA SplitsFrom ==
    ASSUME NEW text \in Texts, NEW N \in Nat, N = Len(text)
    PROVE  \E f : f = [i \in 1 .. N + 1 |-> SplitAt(text, f, i)] /\ Splits(text, f)
  <1> DEFINE From(f, k) == \A j \in k + 1 .. N + 1 : f[j] = SplitAt(text, f, j) /\ f[j] \in Pieces
             from == {n \in Nat : n <= N + 1 => \E f : From(f, N + 1 - n)}
  <1>1. 0 \in from
    <2>1. From(<<>>, N + 1)
      OBVIOUS
    <2>2. N + 1 - 0 = N + 1
      OBVIOUS
    <2> HIDE DEF From
    <2> QED BY <2>1, <2>2
  <1>2. \A n \in Nat : n \in from => n + 1 \in from
    <2> HIDE DEF From
    <2> SUFFICES ASSUME NEW n \in Nat, n \in from, n + 1 <= N + 1
                 PROVE \E f : From(f, N + 1 - (n + 1))
      OBVIOUS
    <2>1. PICK k \in Nat : k + 1 = N + 1 - n /\ k = N + 1 - (n + 1) /\ k + 1 \in Nat \ {0} /\ k <= N
      <3>1. /\ N + 1 - (n + 1) \in Nat /\ N + 1 - (n + 1) + 1 = N + 1 - n
            /\ N + 1 - (n + 1) <= N
        OBVIOUS
      <3> QED BY <3>1
    <2>2. PICK f : From(f, k + 1)
      <3>1. n <= N + 1
        OBVIOUS
      <3> QED BY <2>1, <3>1
    <2> USE DEF From
    <2> DEFINE g == [j \in k + 1 .. N + 1 |-> IF j = k + 1 THEN SplitAt(text, f, j) ELSE f[j]]
    <2>3. \A j \in k + 1 .. N + 1 : g[j] = IF j = k + 1 THEN SplitAt(text, f, j) ELSE f[j]
      OBVIOUS
    <2> HIDE DEF g
    <2>4. \A i \in k + 1 + 1 .. N + 1 : f[i] = g[i] /\ f[i] \in Pieces
      <3> SUFFICES ASSUME NEW i \in k + 1 + 1 .. N + 1 PROVE f[i] = g[i] /\ f[i] \in Pieces
        OBVIOUS
      <3>1. i \in k + 1 .. N + 1 /\ i # k + 1
        BY <2>1
      <3> QED BY <2>2, <2>3, <3>1
    <2>5. From(g, k)
      <3> SUFFICES ASSUME NEW j \in k + 1 .. N + 1
                   PROVE g[j] = SplitAt(text, g, j) /\ g[j] \in Pieces
        OBVIOUS
      <3>1. SplitAt(text, f, j) = SplitAt(text, g, j) /\ SplitAt(text, f, j) \in Pieces
        <4>1. \A i \in j + 1 .. N + 1 : f[i] = g[i] /\ f[i] \in Pieces
          <5> SUFFICES ASSUME NEW i \in j + 1 .. N + 1 PROVE f[i] = g[i] /\ f[i] \in Pieces
            OBVIOUS
          <5>1. i \in k + 1 + 1 .. N + 1
            BY <2>1
          <5> QED BY <2>4, <5>1
        <4>2. j \in Nat \ {0}
          BY <2>1
        <4> QED BY <4>1, <4>2, SplitLooks
      <3>2. CASE j = k + 1
        BY <2>3, <3>1, <3>2
      <3>3. CASE j # k + 1
        <4>1. j \in k + 1 + 1 .. N + 1
          BY <2>1, <3>3
        <4>2. f[j] = SplitAt(text, f, j)
          BY <2>2, <4>1
        <4> QED BY <2>3, <3>1, <3>3, <4>2
      <3> QED BY <3>2, <3>3
    <2> HIDE DEF From
    <2> QED BY <2>1, <2>5
  <1>3. N + 1 \in from
    <2> HIDE DEF from
    <2> QED BY <1>1, <1>2, Inductive
  <1>4. PICK f : From(f, 0)
    <2>1. N + 1 <= N + 1 /\ N + 1 - (N + 1) = 0
      OBVIOUS
    <2> HIDE DEF From
    <2> QED BY <1>3, <2>1
  <1> DEFINE g == [j \in 1 .. N + 1 |-> f[j]]
  <1>5. \A j \in 1 .. N + 1 : g[j] = f[j]
    OBVIOUS
  <1>6. g = [j \in 1 .. N + 1 |-> g[j]]
    OBVIOUS
  <1> HIDE DEF g
  <1>7. \A j \in 1 .. N + 1 : g[j] = SplitAt(text, g, j) /\ g[j] \in Pieces
    <2> SUFFICES ASSUME NEW j \in 1 .. N + 1
                 PROVE g[j] = SplitAt(text, g, j) /\ g[j] \in Pieces
      OBVIOUS
    <2>1. g[j] = SplitAt(text, f, j)
      BY <1>4, <1>5
    <2>2. SplitAt(text, f, j) = SplitAt(text, g, j) /\ SplitAt(text, f, j) \in Pieces
      <3>1. j \in Nat \ {0} /\ \A i \in j + 1 .. N + 1 : f[i] = g[i] /\ f[i] \in Pieces
        BY <1>4, <1>5
      <3> QED BY <3>1, SplitLooks
    <2> QED BY <2>1, <2>2
  <1>8. [j \in 1 .. N + 1 |-> g[j]] = [j \in 1 .. N + 1 |-> SplitAt(text, g, j)]
    BY <1>7
  <1> QED BY <1>6, <1>7, <1>8 DEF Splits

\* Whichever it is.
LEMMA SplitsTyped ==
    ASSUME NEW text \in Texts, NEW N \in Nat, N = Len(text), NEW f,
           \A i \in 1 .. N + 1 : f[i] = SplitAt(text, f, i)
    PROVE  Splits(text, f)
  <1> DEFINE typed == {n \in Nat : \A j \in 1 .. N + 1 : j + n > N + 1 => f[j] \in Pieces}
  <1>1. 0 \in typed
    OBVIOUS
  <1>2. \A n \in Nat : n \in typed => n + 1 \in typed
    <2> SUFFICES ASSUME NEW n \in Nat, n \in typed PROVE n + 1 \in typed
      OBVIOUS
    <2>1. ASSUME NEW j \in 1 .. N + 1, j + (n + 1) > N + 1 PROVE f[j] \in Pieces
      <3>1. \A i \in j + 1 .. N + 1 : f[i] = f[i] /\ f[i] \in Pieces
        BY <2>1
      <3>2. j \in Nat \ {0}
        OBVIOUS
      <3> QED BY <3>1, <3>2, SplitLooks
    <2>2. n + 1 \in Nat
      OBVIOUS
    <2> QED BY <2>1, <2>2
  <1>3. N + 1 \in typed
    <2> HIDE DEF typed
    <2> QED BY <1>1, <1>2, Inductive
  <1> QED BY <1>3 DEF Splits

\* So Split is the value at 1 of such a function.
LEMMA SplitIs ==
    ASSUME NEW text \in Texts
    PROVE  \E f : Splits(text, f) /\ Split(text) = f[1]
  <1>1. PICK N \in Nat : N = Len(text)
    BY DEF Texts
  <1> DEFINE f == CHOOSE f : f = [i \in 1 .. Len(text) + 1 |-> SplitAt(text, f, i)]
  <1>2. f = [i \in 1 .. Len(text) + 1 |-> SplitAt(text, f, i)]
    BY <1>1, SplitsFrom
  <1>3. Split(text) = f[1]
    BY DEF Split
  <1> HIDE DEF f
  <1>4. \A i \in 1 .. N + 1 : f[i] = SplitAt(text, f, i)
    BY <1>1, <1>2
  <1> QED BY <1>1, <1>3, <1>4, SplitsTyped

-----------------------------------------------------------------------------
(***************************************************************************)
(* What the downloader has made of a text, one character after the other.   *)
(* Everything before the place k was split, whatever follows; from there on *)
(* no marker begins that could still be one, but for what is in partialFile-*)
(* Begin; or a file has begun that has not ended.                           *)
(***************************************************************************)
Extends(t, text) == Len(text) <= Len(t) /\ \A i \in 1 .. Len(text) : t[i] = text[i]
Reached(text, k, out, done) ==
    \A t \in Texts : \A f : Extends(t, text) /\ Splits(t, f) =>
        f[1].out = out \o f[k].out /\ f[1].files = done \o f[k].files
Differs(text, p) ==
    \E q \in 1 .. Len(FileBegin) : p + q - 1 <= Len(text) /\ text[p + q - 1] # FileBegin[q]
Passed(text, k, e) == \A p \in k .. e : Differs(text, p)
Scanning(text, k, out, h, d) ==
    /\ h \in 0 .. Len(FileBegin) - 1 /\ k + h <= Len(text) + 1
    /\ Ends(text, h) /\ Passed(text, k, Len(text) - h)
    /\ d.file = <<>> /\ d.partial = SubSeq(FileBegin, 1, h)
    /\ d.out = out \o SubSeq(text, k, Len(text) - h)
InFile(text, k, out, b, d) ==
    /\ b \in k .. Len(text) /\ Matches(FileBegin, text, b) /\ Passed(text, k, b - 1)
    /\ Missing(FileEnd, text, b + Len(FileBegin))
    /\ d.partial = <<>> /\ d.file = SubSeq(text, b, Len(text))
    /\ d.out = out \o SubSeq(text, k, b - 1)
ParsedFrom(text, d, k, out) ==
    /\ k <= Len(text) + 1 /\ Reached(text, k, out, d.files)
    /\ \/ \E h \in Nat : Scanning(text, k, out, h, d)
       \/ \E b \in Nat : InFile(text, k, out, b, d)
Parsed(text, d) ==
    d.files \in Seq(Texts) /\ \E k \in Nat \ {0}, out \in Texts : ParsedFrom(text, d, k, out)

\* A marker that is there after places where there is none is the first.
LEMMA FirstFrom ==
    ASSUME NEW text \in Texts, NEW t \in Texts, Extends(t, text), NEW k \in Nat \ {0},
           NEW b \in Nat, b >= k, Matches(FileBegin, t, b), Passed(text, k, b - 1)
    PROVE  First(FileBegin, t, k, b)
  <1>0. Len(FileBegin) \in Nat /\ Len(FileBegin) > 0 /\ Len(text) \in Nat /\ Len(t) \in Nat
    BY Markers DEF Texts
  <1>1. ASSUME NEW j \in k .. b - 1 PROVE ~Matches(FileBegin, t, j)
    <2>1. PICK q \in 1 .. Len(FileBegin) :
              j + q - 1 <= Len(text) /\ text[j + q - 1] # FileBegin[q]
      BY DEF Passed, Differs
    <2>2. j + q - 1 \in 1 .. Len(text)
      BY <1>0, <2>1
    <2>3. t[j + q - 1] # FileBegin[q]
      BY <2>1, <2>2 DEF Extends
    <2> QED BY <2>3 DEF Matches
  <1>2. b \in k .. Len(t)
    BY <1>0 DEF Matches
  <1> QED BY <1>1, <1>2 DEF First

\* What is left of a text from a place on.
LEMMA RestIs ==
    ASSUME NEW text \in Texts, NEW k \in Nat \ {0}, k <= Len(text) + 1
    PROVE  \E n \in Nat, rest \in Texts :
               /\ rest = SubSeq(text, k, Len(text)) /\ Len(rest) = n /\ k + n = Len(text) + 1
               /\ \A q \in 1 .. n : rest[q] = text[k + q - 1]
  <1>1. PICK n \in Nat : k + n = Len(text) + 1
    <2>1. Len(text) + 1 - k \in Nat /\ k + (Len(text) + 1 - k) = Len(text) + 1
      BY DEF Texts
    <2> QED BY <2>1
  <1>2. PICK b \in Nat : b + 1 = k
    <2>1. k - 1 \in Nat /\ k - 1 + 1 = k
      OBVIOUS
    <2> QED BY <2>1
  <1>3. b + n = Len(text)
    BY <1>1, <1>2 DEF Texts
  <1>4. LeftFrom(Chars, text, b, n, SubSeq(text, k, Len(text)))
    BY <1>2, <1>3, SubSeqFrom DEF Texts
  <1>5. \A q \in 1 .. n : b + q = k + q - 1
    BY <1>2
  <1>6. PICK rest \in Texts : rest = SubSeq(text, k, Len(text))
    BY <1>4 DEF LeftFrom, Texts
  <1>7. Len(rest) = n /\ \A q \in 1 .. n : rest[q] = text[k + q - 1]
    BY <1>4, <1>5, <1>6 DEF LeftFrom
  <1> QED BY <1>1, <1>6, <1>7

\* What the downloader wrote out of a text and the files it completed are those
\* that the text is split into.
LEMMA ParsedIsSplit ==
    ASSUME NEW text \in Texts, NEW d, Parsed(text, d)
    PROVE  d.out = Split(text).out /\ d.files = Split(text).files
  <1>0. /\ FileBegin \in Texts /\ Len(FileBegin) \in Nat /\ Len(FileBegin) > 1
        /\ Len(text) \in Nat
    BY Markers DEF Texts
  <1>1. PICK k \in Nat \ {0}, out \in Texts : ParsedFrom(text, d, k, out)
    BY DEF Parsed
  <1>2. PICK f : Splits(text, f) /\ Split(text) = f[1]
    BY SplitIs
  <1>3. Extends(text, text)
    BY <1>0 DEF Extends
  <1>4. f[1].out = out \o f[k].out /\ f[1].files = d.files \o f[k].files
    BY <1>1, <1>2, <1>3 DEF ParsedFrom, Reached
  <1>5. k \in 1 .. Len(text) + 1
    BY <1>0, <1>1 DEF ParsedFrom
  <1>6. f[k] = SplitAt(text, f, k)
    BY <1>2, <1>5 DEF Splits
  <1>7. d.files \o <<>> = d.files
    BY DEF Parsed
  <1>8. ASSUME NEW h \in Nat, Scanning(text, k, out, h, d)
        PROVE  d.out = out \o f[k].out /\ f[k].files = <<>>
    <2>1. PICK n \in Nat, rest \in Texts :
              /\ rest = SubSeq(text, k, Len(text)) /\ Len(rest) = n /\ k + n = Len(text) + 1
              /\ \A q \in 1 .. n : rest[q] = text[k + q - 1]
      <3>1. k <= Len(text) + 1
        BY <1>1 DEF ParsedFrom
      <3> QED BY <3>1, RestIs
    <2>2. /\ h < Len(FileBegin) /\ k + h <= Len(text) + 1 /\ Ends(text, h)
          /\ Passed(text, k, Len(text) - h)
          /\ d.out = out \o SubSeq(text, k, Len(text) - h)
      BY <1>0, <1>8 DEF Scanning
    <2>3. Missing(FileBegin, text, k)
      <3> SUFFICES ASSUME NEW j \in k .. Len(text) PROVE ~Matches(FileBegin, text, j)
        BY DEF Missing
      <3>1. CASE j <= Len(text) - h
        <4>1. Differs(text, j)
          BY <1>0, <2>2, <3>1 DEF Passed
        <4> QED BY <4>1 DEF Differs, Matches
      <3>2. CASE j > Len(text) - h
        BY <1>0, <2>2, <3>2 DEF Matches
      <3> QED BY <1>0, <3>1, <3>2
    <2>4. f[k] = Nothing(rest)
      BY <1>6, <2>1, <2>3, NoBegin
    <2>5. h <= n
      BY <1>0, <2>1, <2>2
    <2>6. Held(rest) = h
      <3>1. Ends(rest, h)
        <4>1. ASSUME NEW q \in 1 .. h PROVE rest[n - h + q] = FileBegin[q]
          <5>1. PICK p \in 1 .. n : p = n - h + q
            BY <2>5
          <5>2. rest[p] = text[k + p - 1]
            BY <2>1
          <5>3. k + p - 1 = Len(text) - h + q
            BY <1>0, <2>1, <5>1
          <5>4. text[Len(text) - h + q] = FileBegin[q]
            BY <2>2 DEF Ends
          <5> QED BY <5>1, <5>2, <5>3, <5>4
        <4> QED BY <2>1, <2>5, <4>1 DEF Ends
      <3>2. PICK m \in 0 .. Len(FileBegin) - 1 : m = Held(rest) /\ Ends(rest, m)
        BY HeldIs
      <3>3. h <= m
        <4>1. h \in 0 .. Len(FileBegin) - 1
          BY <1>0, <2>2
        <4> QED BY <3>1, <3>2, <4>1, HeldIs
      <3>4. ASSUME h < m PROVE FALSE
        <4>1. PICK p \in Nat : p + m = Len(text) + 1 /\ p >= k
          <5>1. m <= n
            BY <2>1, <3>2 DEF Ends
          <5>2. Len(text) + 1 - m \in Nat /\ Len(text) + 1 - m + m = Len(text) + 1
            BY <1>0, <2>1, <5>1
          <5>3. Len(text) + 1 - m >= k
            BY <1>0, <2>1, <5>1
          <5> QED BY <5>2, <5>3
        <4>2. Differs(text, p)
          <5>1. p \in k .. Len(text) - h
            BY <1>0, <3>4, <4>1
          <5> QED BY <2>2, <5>1 DEF Passed
        <4>3. PICK q \in 1 .. Len(FileBegin) :
                  p + q - 1 <= Len(text) /\ text[p + q - 1] # FileBegin[q]
          BY <4>2 DEF Differs
        <4>4. q \in 1 .. m
          BY <1>0, <4>1, <4>3
        <4>5. rest[n - m + q] = FileBegin[q]
          BY <2>1, <3>2, <4>4 DEF Ends
        <4>6. PICK r \in 1 .. n : r = n - m + q
          <5>1. m <= n
            BY <2>1, <3>2 DEF Ends
          <5> QED BY <4>4, <5>1
        <4>7. k + r - 1 = p + q - 1
          BY <1>0, <2>1, <4>1, <4>6
        <4> QED BY <2>1, <4>3, <4>5, <4>6, <4>7
      <3> QED BY <3>2, <3>3, <3>4
    <2>7. SubSeq(rest, 1, n - h) = SubSeq(text, k, Len(text) - h)
      <3>1. PICK s \in Texts : s = SubSeq(text, k, Len(text) - h)
        <4>1. SubSeq(text, k, Len(text) - h) \in Seq(Chars)
          BY <1>0, <2>2 DEF Texts
        <4> QED BY <4>1 DEF Texts
      <3>2. PICK m \in Nat : m = n - h /\ m <= n
        <4>1. n - h \in Nat /\ n - h <= n
          BY <2>5
        <4> QED BY <4>1
      <3>3. Len(s) = m /\ \A q \in 1 .. m : s[q] = text[k + q - 1]
        <4>1. Len(text) - h - k + 1 = m /\ Len(text) - h <= Len(text)
          BY <1>0, <2>1, <3>2
        <4>2. Len(s) = m
          BY <1>0, <2>1, <2>2, <3>1, <3>2, <4>1 DEF Texts
        <4>3. \A q \in 1 .. m : s[q] = text[k + q - 1]
          BY <1>0, <2>1, <2>2, <3>1, <3>2, <4>1 DEF Texts
        <4> QED BY <4>2, <4>3
      <3>4. SubSeq(rest, 0 + 1, m) = s
        BY <2>1, <3>2, <3>3, SubSeqIs DEF Texts
      <3> QED BY <3>1, <3>2, <3>4
    <2>8. f[k] = [out |-> SubSeq(rest, 1, n - h), files |-> <<>>]
      BY <2>1, <2>4, <2>6 DEF Nothing
    <2>9. f[k].out = SubSeq(rest, 1, n - h) /\ f[k].files = <<>>
      BY <2>8
    <2>10. d.out = out \o SubSeq(text, k, Len(text) - h)
      BY <2>2
    <2> QED BY <2>7, <2>9, <2>10
  <1>9. ASSUME NEW b \in Nat, InFile(text, k, out, b, d)
        PROVE  d.out = out \o f[k].out /\ f[k].files = <<>>
    <2>1. First(FileBegin, text, k, b)
      BY <1>0, <1>3, <1>9, FirstFrom DEF InFile
    <2>2. PICK content \in Nat : content = b + Len(FileBegin)
      BY <1>0
    <2>3. f[k] = [out |-> SubSeq(text, k, b - 1), files |-> <<>>]
      BY <1>6, <1>9, <2>1, <2>2, NoEnd DEF InFile
    <2>4. f[k].out = SubSeq(text, k, b - 1) /\ f[k].files = <<>>
      BY <2>3
    <2>5. d.out = out \o SubSeq(text, k, b - 1)
      BY <1>9 DEF InFile
    <2> QED BY <2>4, <2>5
  <1> QED BY <1>1, <1>2, <1>4, <1>7, <1>8, <1>9 DEF ParsedFrom

\* A piece of a text, and the only text that is that.
LEMMA SliceIs ==
    ASSUME NEW text \in Texts, NEW a \in Nat \ {0}, NEW m \in Nat, a + m <= Len(text) + 1,
           NEW n \in Int, n = a + m - 1
    PROVE  /\ SubSeq(text, a, n) \in Texts /\ Len(SubSeq(text, a, n)) = m
           /\ \A q \in 1 .. m : SubSeq(text, a, n)[q] = text[a + q - 1]
  <1>0. Len(text) \in Nat
    BY DEF Texts
  <1>1. SubSeq(text, a, n) \in Seq(Chars)
    BY <1>0 DEF Texts
  <1>2. Len(SubSeq(text, a, n)) = m
    BY <1>0 DEF Texts
  <1>3. ASSUME NEW q \in 1 .. m PROVE SubSeq(text, a, n)[q] = text[a + q - 1]
    BY <1>0 DEF Texts
  <1> QED BY <1>1, <1>2, <1>3 DEF Texts
IsSlice(text, a, m, w) ==
    a + m <= Len(text) + 1 /\ Len(w) = m /\ \A q \in 1 .. m : w[q] = text[a + q - 1]
\* A text that has its length and its characters is that part of the other.
LEMMA SliceOnly ==
    ASSUME NEW text \in Texts, NEW a \in Nat \ {0}, NEW m \in Nat, NEW n \in Int, n = a + m - 1,
           NEW w \in Texts, IsSlice(text, a, m, w)
    PROVE  SubSeq(text, a, n) = w
  <1> USE DEF IsSlice
  <1>1. PICK s \in Texts : s = SubSeq(text, a, n)
    BY SliceIs
  <1>2. Len(s) = m /\ \A q \in 1 .. m : s[q] = text[a + q - 1]
    BY <1>1, SliceIs
  <1>3. s = w
    BY <1>2, SeqEqual DEF Texts
  <1> QED BY <1>1, <1>3

\* A text and one more character.
OneMore(t, text, c) ==
    /\ Len(t) = Len(text) + 1 /\ t[Len(text) + 1] = c
    /\ \A i \in 1 .. Len(text) : t[i] = text[i]
\* Append gives one.
LEMMA AppendIs ==
    ASSUME NEW text \in Texts, NEW c \in Chars
    PROVE  Append(text, c) \in Texts /\ OneMore(Append(text, c), text, c)
  <1>1. text \in Seq(Chars) /\ c \in Chars /\ Len(text) \in Nat
    BY DEF Texts
  <1>2. /\ Append(text, c) \in Seq(Chars) /\ Len(Append(text, c)) = Len(text) + 1
        /\ \A i \in 1 .. Len(text) : Append(text, c)[i] = text[i]
        /\ Append(text, c)[Len(text) + 1] = c
    BY <1>1, AppendProperties
  <1> QED BY <1>2 DEF Texts, OneMore

\* A downloader that was given nothing has made what is right of no text.
LEMMA ParsedNothing ==
    ASSUME NEW d, d.partial = <<>>, d.file = <<>>, d.out = <<>>, d.files = <<>>
    PROVE  Parsed(<<>>, d)
  <1>0. /\ <<>> \in Texts /\ Len(<<>>) = 0 /\ FileBegin \in Texts /\ Len(FileBegin) \in Nat
        /\ Len(FileBegin) > 1 /\ <<>> \in Seq(Texts)
    BY Markers DEF Texts
  <1>1. Reached(<<>>, 1, <<>>, <<>>)
    <2> SUFFICES ASSUME NEW t \in Texts, NEW f, Splits(t, f)
                 PROVE f[1].out = <<>> \o f[1].out /\ f[1].files = <<>> \o f[1].files
      BY DEF Reached
    <2>1. 1 \in 1 .. Len(t) + 1
      BY DEF Texts
    <2>2. PICK x \in Texts, y \in Seq(Texts) : x = f[1].out /\ y = f[1].files
      BY <2>1 DEF Splits, Pieces
    <2>3. x = <<>> \o x /\ y = <<>> \o y
      BY DEF Texts
    <2> QED BY <2>2, <2>3
  <1>2. Scanning(<<>>, 1, <<>>, 0, d)
    <2>1. Ends(<<>>, 0) /\ Passed(<<>>, 1, Len(<<>>) - 0)
      BY <1>0 DEF Ends, Passed
    <2>2. SubSeq(FileBegin, 1, 0) = <<>>
      BY <1>0 DEF Texts
    <2>3. <<>> \o SubSeq(<<>>, 1, Len(<<>>) - 0) = <<>>
      BY <1>0
    <2>4. 0 \in 0 .. Len(FileBegin) - 1 /\ 1 + 0 <= Len(<<>>) + 1
      BY <1>0
    <2> QED BY <2>1, <2>2, <2>3, <2>4 DEF Scanning
  <1>3. ParsedFrom(<<>>, d, 1, <<>>)
    BY <1>0, <1>1, <1>2 DEF ParsedFrom
  <1> QED BY <1>0, <1>3 DEF Parsed

\* A part of the text stays the same, however it goes on.
LEMMA SamePart ==
    ASSUME NEW text \in Texts, NEW t \in Texts, Extends(t, text), NEW a \in Nat \ {0},
           NEW z \in Nat, z <= Len(text)
    PROVE  SubSeq(t, a, z) = SubSeq(text, a, z)
  <1>1. z <= Len(t) /\ Len(t) \in Nat /\ Len(text) \in Nat
    BY DEF Extends, Texts
  <1>2. \A i \in a .. z : t[i] = text[i]
    BY <1>1 DEF Extends
  <1>3. t \in Seq(Chars) /\ text \in Seq(Chars)
    BY DEF Texts
  <1> QED BY <1>1, <1>2, <1>3, SameSubSeq

\* What was reached and passed stays so, however the text goes on.
LEMMA MoreText ==
    ASSUME NEW text \in Texts, NEW t \in Texts, Extends(t, text), NEW k \in Nat \ {0}
    PROVE  /\ \A out, done : Reached(text, k, out, done) => Reached(t, k, out, done)
           /\ \A p \in Nat \ {0} : Differs(text, p) => Differs(t, p)
           /\ \A e \in Int : Passed(text, k, e) => Passed(t, k, e)
           /\ \A marker \in Texts : \A i \in Nat \ {0} : i + Len(marker) - 1 <= Len(text) =>
                  (Matches(marker, t, i) <=> Matches(marker, text, i))
  <1>0. Len(text) \in Nat /\ Len(t) \in Nat /\ Len(text) <= Len(t)
    BY DEF Texts, Extends
  <1>1. ASSUME NEW out, NEW done, Reached(text, k, out, done) PROVE Reached(t, k, out, done)
    <2>1. ASSUME NEW u \in Texts, Extends(u, t) PROVE Extends(u, text)
      BY <1>0, <2>1 DEF Extends
    <2> QED BY <1>1, <2>1 DEF Reached
  <1>2. ASSUME NEW p \in Nat \ {0}, Differs(text, p) PROVE Differs(t, p)
    <2>1. PICK q \in 1 .. Len(FileBegin) :
              p + q - 1 <= Len(text) /\ text[p + q - 1] # FileBegin[q]
      BY <1>2 DEF Differs
    <2>2. p + q - 1 \in 1 .. Len(text)
      BY <1>0, <2>1, Markers
    <2> QED BY <1>0, <2>1, <2>2 DEF Differs, Extends
  <1>3. ASSUME NEW e \in Int, Passed(text, k, e) PROVE Passed(t, k, e)
    <2> SUFFICES ASSUME NEW p \in k .. e PROVE Differs(t, p)
      BY DEF Passed
    <2>1. Differs(text, p) /\ p \in Nat \ {0}
      BY <1>3 DEF Passed
    <2> QED BY <1>2, <2>1
  <1>4. ASSUME NEW marker \in Texts, NEW i \in Nat \ {0}, i + Len(marker) - 1 <= Len(text)
        PROVE  Matches(marker, t, i) <=> Matches(marker, text, i)
    <2>1. Len(marker) \in Nat
      BY DEF Texts
    <2>2. ASSUME NEW q \in 1 .. Len(marker) PROVE t[i + q - 1] = text[i + q - 1]
      <3>1. i + q - 1 \in 1 .. Len(text)
        BY <1>0, <1>4, <2>1
      <3> QED BY <3>1 DEF Extends
    <2> QED BY <1>0, <1>4, <2>1, <2>2 DEF Matches
  <1> QED BY <1>1, <1>2, <1>3, <1>4

\* One character more in a file: the text ends with an end marker if the buffer does.
LEMMA EndsIs ==
    ASSUME NEW t \in Texts, NEW b \in Nat \ {0}, b <= Len(t), NEW e \in Int,
           e = Len(t) + 1 - Len(FileEnd)
    PROVE  EndsFile(SubSeq(t, b, Len(t))) <=> b + Len(FileBegin) <= e /\ Matches(FileEnd, t, e)
  <1>0. Len(t) \in Nat
    BY DEF Texts
  <1>1. PICK n \in Nat, buffer \in Texts :
            /\ buffer = SubSeq(t, b, Len(t)) /\ Len(buffer) = n /\ b + n = Len(t) + 1
            /\ \A q \in 1 .. n : buffer[q] = t[b + q - 1]
    <2>1. b <= Len(t) + 1
      BY <1>0
    <2> QED BY <2>1, RestIs
  <1>2. n >= Len(FileBegin) + Len(FileEnd) <=> b + Len(FileBegin) <= e
    BY <1>0, <1>1, Markers
  <1>3. ASSUME n >= Len(FileBegin) + Len(FileEnd)
        PROVE  IsSuffix(FileEnd, buffer) <=> Matches(FileEnd, t, e)
    <2>0. PICK l \in Nat : l = Len(FileEnd)
      BY Markers
    <2>1. l <= n
      BY <1>3, <2>0, Markers
    <2>2. IsSuffix(FileEnd, buffer) <=> \A q \in 1 .. l : buffer[n - l + q] = FileEnd[q]
      BY <1>1, <2>0, <2>1, SuffixIs, Markers
    <2>3. ASSUME NEW q \in 1 .. l PROVE buffer[n - l + q] = t[e + q - 1]
      <3>1. PICK p \in 1 .. n : p = n - l + q
        BY <2>1
      <3>2. buffer[p] = t[b + p - 1]
        BY <1>1
      <3>3. b + p - 1 = e + q - 1
        <4>1. b + n = Len(t) + 1
          BY <1>1
        <4>2. e = Len(t) + 1 - l
          BY <2>0
        <4> QED BY <1>0, <3>1, <4>1, <4>2
      <3> QED BY <3>1, <3>2, <3>3
    <2>4. e + l - 1 <= Len(t)
      BY <1>0, <2>0
    <2> QED BY <2>0, <2>2, <2>3, <2>4 DEF Matches
  <1>4. EndsFile(buffer) <=> n >= Len(FileBegin) + Len(FileEnd) /\ IsSuffix(FileEnd, buffer)
    BY <1>1 DEF EndsFile
  <1> QED BY <1>1, <1>2, <1>3, <1>4

\* What comes before it, it, and the rest, put together.
ComposesOut(out, before, inside, rest) ==
    out \o Then(before, inside, rest).out = (out \o before) \o rest.out
ComposesFiles(done, before, inside, rest) ==
    done \o Then(before, inside, rest).files = Append(done, inside) \o rest.files
\* The output is put together in either order.
LEMMA ComposedOut ==
    ASSUME NEW out \in Texts, NEW before \in Texts, NEW inside, NEW rest \in Pieces
    PROVE  ComposesOut(out, before, inside, rest)
  <1>1. PICK x \in Texts : x = rest.out
    BY DEF Pieces
  <1>2. Then(before, inside, rest).out = before \o x
    BY <1>1 DEF Then
  <1>3. out \in Seq(Chars) /\ before \in Seq(Chars) /\ x \in Seq(Chars)
    BY DEF Texts
  <1>4. out \o (before \o x) = (out \o before) \o x
    BY <1>3, Associative
  <1> QED BY <1>1, <1>2, <1>4 DEF ComposesOut
\* So are the files.
LEMMA ComposedFiles ==
    ASSUME NEW done \in Seq(Texts), NEW before, NEW inside \in Texts, NEW rest \in Pieces
    PROVE  ComposesFiles(done, before, inside, rest)
  <1>1. PICK y \in Seq(Texts) : y = rest.files
    BY DEF Pieces
  <1>2. Then(before, inside, rest).files = <<inside>> \o y
    BY <1>1 DEF Then
  <1>3. <<inside>> \in Seq(Texts)
    OBVIOUS
  <1>4. done \o (<<inside>> \o y) = (done \o <<inside>>) \o y
    BY <1>3, Associative
  <1>5. Append(done, inside) = done \o <<inside>>
    BY AppendIsConcat
  <1> QED BY <1>1, <1>2, <1>4, <1>5 DEF ComposesFiles

\* A file that has ended is one of those the text is split into, whatever follows.
LEMMA FileReached ==
    ASSUME NEW t \in Texts, NEW k \in Nat \ {0}, k <= Len(t), NEW out \in Texts,
           NEW done \in Seq(Texts), Reached(t, k, out, done),
           NEW b \in Nat, NEW content \in Nat, NEW e \in Nat, WholeFile(t, k, b, content, e),
           NEW next \in Nat, next = e + Len(FileEnd)
    PROVE  Reached(t, next, out \o SubSeq(t, k, b - 1), Append(done, SubSeq(t, content, e - 1)))
  <1>1. PICK before \in Texts : before = SubSeq(t, k, b - 1)
    BY BeforeIs DEF WholeFile
  <1>2. PICK inside \in Texts : inside = SubSeq(t, content, e - 1)
    BY FileLengths
  <1>3. /\ next \in k + 1 .. Len(t) + 1 /\ Len(t) \in Nat /\ content = b + Len(FileBegin)
        /\ First(FileBegin, t, k, b) /\ First(FileEnd, t, content, e)
    BY FileLengths DEF WholeFile, Texts
  <1>4. b >= k /\ b <= content /\ content <= e /\ e <= Len(t)
    BY <1>3, Markers DEF First
  <1> SUFFICES ASSUME NEW u \in Texts, NEW f, Extends(u, t), Splits(u, f)
               PROVE  /\ f[1].out = (out \o before) \o f[next].out
                      /\ f[1].files = Append(done, inside) \o f[next].files
    BY <1>1, <1>2 DEF Reached
  <1>5. f[1].out = out \o f[k].out /\ f[1].files = done \o f[k].files
    BY DEF Reached
  <1>6. Len(u) \in Nat /\ Len(t) <= Len(u) /\ \A i \in 1 .. Len(t) : u[i] = t[i]
    BY DEF Extends, Texts
  <1>7. First(FileBegin, u, k, b) /\ First(FileEnd, u, content, e)
    <2>1. ASSUME NEW marker \in Texts, NEW i \in Nat \ {0}, NEW x \in Nat, First(marker, t, i, x),
                 Len(marker) \in Nat, Len(marker) > 0
          PROVE  First(marker, u, i, x)
      <3>1. /\ x \in i .. Len(t) /\ Matches(marker, t, x)
            /\ \A j \in i .. x - 1 : ~Matches(marker, t, j)
        BY <2>1 DEF First
      <3>2. x + Len(marker) - 1 <= Len(t)
        BY <3>1 DEF Matches
      <3>3. \A j \in Nat \ {0} : j <= x => (Matches(marker, u, j) <=> Matches(marker, t, j))
        <4> SUFFICES ASSUME NEW j \in Nat \ {0}, j <= x
                     PROVE Matches(marker, u, j) <=> Matches(marker, t, j)
          OBVIOUS
        <4>1. j + Len(marker) - 1 <= Len(t)
          BY <1>3, <2>1, <3>2
        <4> QED BY <4>1, MoreText
      <3>4. x \in Nat \ {0} /\ x \in i .. Len(u)
        BY <1>3, <1>6, <3>1
      <3>5. Matches(marker, u, x)
        BY <3>1, <3>3, <3>4
      <3>6. ASSUME NEW j \in i .. x - 1 PROVE ~Matches(marker, u, j)
        <4>1. j \in Nat \ {0} /\ j <= x
          BY <3>4
        <4> QED BY <3>1, <3>3, <4>1
      <3> QED BY <3>4, <3>5, <3>6 DEF First
    <2>2. content \in Nat \ {0}
      BY <1>4
    <2> QED BY <1>3, <2>1, <2>2, Markers
  <1>8. SubSeq(u, k, b - 1) = before
    <2>1. PICK z \in Nat : z = b - 1 /\ z <= Len(t)
      <3>1. b - 1 \in Nat /\ b - 1 <= Len(t)
        BY <1>3, <1>4
      <3> QED BY <3>1
    <2>2. SubSeq(u, k, z) = SubSeq(t, k, z)
      BY <2>1, SamePart
    <2> QED BY <1>1, <2>1, <2>2
  <1>9. SubSeq(u, content, e - 1) = inside
    <2>1. PICK z \in Nat : z = e - 1 /\ z <= Len(t)
      <3>1. e - 1 \in Nat /\ e - 1 <= Len(t)
        BY <1>3, <1>4
      <3> QED BY <3>1
    <2>2. content \in Nat \ {0}
      BY <1>4
    <2>3. SubSeq(u, content, z) = SubSeq(t, content, z)
      BY <2>1, <2>2, SamePart
    <2> QED BY <1>2, <2>1, <2>3
  <1>10. f[k] = Then(before, inside, f[next])
    <2>1. k \in 1 .. Len(u) + 1
      BY <1>3, <1>6
    <2>2. f[k] = SplitAt(u, f, k)
      BY <2>1 DEF Splits
    <2>3. SplitAt(u, f, k) = Then(before, inside, f[next])
      <3>1. SplitAt(u, f, k) = Then(SubSeq(u, k, b - 1), SubSeq(u, content, e - 1), f[next])
        BY <1>3, <1>7, FileAndRest
      <3> QED BY <1>8, <1>9, <3>1
    <2> QED BY <2>2, <2>3
  <1>11. PICK rest \in Pieces : rest = f[next]
    <2>1. next \in 1 .. Len(u) + 1
      BY <1>3, <1>6
    <2> QED BY <2>1 DEF Splits
  <1>12. ComposesOut(out, before, inside, rest) /\ ComposesFiles(done, before, inside, rest)
    BY ComposedOut, ComposedFiles
  <1>13. /\ out \o f[k].out = (out \o before) \o rest.out
         /\ done \o f[k].files = Append(done, inside) \o rest.files
    BY <1>10, <1>11, <1>12 DEF ComposesOut, ComposesFiles
  <1> QED BY <1>5, <1>11, <1>13

\* bufferCharacter in a file.
Downloads == [partial : Texts, file : Texts, out : Texts, files : Seq(Texts)]
\* In a file, one character more ends it or goes on with it.
LEMMA FileNext ==
    ASSUME NEW text \in Texts, NEW c \in Chars, NEW t \in Texts, OneMore(t, text, c),
           NEW d \in Downloads, NEW k \in Nat \ {0}, NEW out \in Texts,
           Reached(text, k, out, d.files), NEW b \in Nat, InFile(text, k, out, b, d)
    PROVE  Parsed(t, BufferCharacter(d, c))
  <1>0. /\ d.partial = <<>> /\ d.file \in Texts /\ d.out \in Texts /\ d.files \in Seq(Texts)
        /\ b \in k .. Len(text) /\ Matches(FileBegin, text, b) /\ Passed(text, k, b - 1)
        /\ Missing(FileEnd, text, b + Len(FileBegin)) /\ d.file = SubSeq(text, b, Len(text))
        /\ d.out = out \o SubSeq(text, k, b - 1)
    BY DEF InFile, Downloads
  <1>1. PICK n \in Nat : n = Len(text)
    BY DEF Texts
  <1>2. /\ Len(t) = n + 1 /\ t[n + 1] = c /\ \A i \in 1 .. n : t[i] = text[i]
        /\ Extends(t, text)
    BY <1>1 DEF OneMore, Extends
  <1>3. b \in Nat \ {0} /\ k <= b /\ b <= n /\ b + Len(FileBegin) - 1 <= n
    BY <1>0, <1>1 DEF Matches
  <1>4. PICK m \in Nat : b + m = n + 1 /\ m > 0
    <2>1. n + 1 - b \in Nat /\ b + (n + 1 - b) = n + 1 /\ n + 1 - b > 0
      BY <1>3
    <2> QED BY <2>1
  <1>5. Len(d.file) = m /\ \A q \in 1 .. m : d.file[q] = text[b + q - 1]
    <2>1. b + m <= Len(text) + 1 /\ n = b + m - 1 /\ n \in Int
      BY <1>1, <1>4
    <2> QED BY <1>0, <1>1, <1>3, <2>1, SliceIs
  <1>6. d.file # <<>>
    BY <1>4, <1>5
  <1>7. PICK buffer \in Texts : buffer = Append(d.file, c) /\ OneMore(buffer, d.file, c)
    BY <1>0, AppendIs
  <1>8. buffer = SubSeq(t, b, n + 1)
    <2>1. Len(buffer) = m + 1 /\ b + (m + 1) <= Len(t) + 1 /\ n + 1 = b + (m + 1) - 1 /\ n + 1 \in Int
      BY <1>2, <1>4, <1>5, <1>7 DEF OneMore
    <2>2. ASSUME NEW q \in 1 .. m + 1 PROVE buffer[q] = t[b + q - 1]
      <3>1. CASE q = m + 1
        <4>1. b + q - 1 = n + 1
          BY <1>4, <3>1
        <4> QED BY <1>2, <1>5, <1>7, <3>1, <4>1 DEF OneMore
      <3>2. CASE q # m + 1
        <4>1. q \in 1 .. m /\ b + q - 1 \in 1 .. n
          BY <1>3, <1>4, <3>2
        <4>2. buffer[q] = d.file[q]
          BY <1>5, <1>7, <4>1 DEF OneMore
        <4> QED BY <1>2, <1>5, <4>1, <4>2
      <3> QED BY <3>1, <3>2
    <2>3. PICK w \in Nat, z \in Int : w = m + 1 /\ z = n + 1
      OBVIOUS
    <2>4. z = b + w - 1 /\ IsSlice(t, b, w, buffer)
      BY <2>1, <2>2, <2>3 DEF IsSlice
    <2>5. SubSeq(t, b, z) = buffer
      BY <1>3, <2>4, SliceOnly
    <2> QED BY <2>3, <2>5
  <1>9. Matches(FileBegin, t, b) /\ Passed(t, k, b - 1) /\ Reached(t, k, out, d.files)
    <2>1. Matches(FileBegin, t, b)
      <3>1. b \in Nat \ {0} /\ b + Len(FileBegin) - 1 <= Len(text)
        BY <1>1, <1>3
      <3> QED BY <1>0, <1>2, <3>1, MoreText, Markers
    <2>2. Passed(t, k, b - 1)
      <3>1. PICK z \in Int : z = b - 1
        BY <1>3
      <3>2. Passed(text, k, z)
        BY <1>0, <3>1
      <3>3. Passed(t, k, z)
        BY <1>2, <3>2, MoreText
      <3> QED BY <3>1, <3>3
    <2>3. Reached(t, k, out, d.files)
      BY <1>2, MoreText
    <2> QED BY <2>1, <2>2, <2>3
  <1>10. SubSeq(t, k, b - 1) = SubSeq(text, k, b - 1)
    <2>1. PICK z \in Nat : z = b - 1 /\ z <= n
      <3>1. b - 1 \in Nat /\ b - 1 <= n
        BY <1>3
      <3> QED BY <3>1
    <2>2. SubSeq(t, k, z) = SubSeq(text, k, z)
      BY <1>1, <1>2, <2>1, SamePart
    <2> QED BY <2>1, <2>2
  <1>11. PICK content \in Nat : content = b + Len(FileBegin) /\ content <= n + 1 /\ content > b
    <2>1. b + Len(FileBegin) \in Nat /\ b + Len(FileBegin) <= n + 1 /\ b + Len(FileBegin) > b
      BY <1>3, Markers
    <2> QED BY <2>1
  <1>12. PICK e \in Int : e + Len(FileEnd) = n + 2 /\ e = Len(t) + 1 - Len(FileEnd)
    <2>1. /\ Len(t) + 1 - Len(FileEnd) \in Int
          /\ Len(t) + 1 - Len(FileEnd) + Len(FileEnd) = n + 2
      BY <1>2, Markers
    <2> QED BY <2>1
  <1>13. EndsFile(buffer) <=> content <= e /\ Matches(FileEnd, t, e)
    <2>1. b <= Len(t)
      BY <1>2, <1>3
    <2> QED BY <1>2, <1>3, <1>8, <1>11, <1>12, <2>1, EndsIs
  <1>14. ASSUME NEW j \in content .. n + 1, Matches(FileEnd, t, j) PROVE j = e
    <2>1. j + Len(FileEnd) - 1 <= n + 1
      BY <1>2, <1>14 DEF Matches
    <2>2. CASE j + Len(FileEnd) - 1 <= n
      <3>1. j \in Nat \ {0} /\ j \in content .. n
        BY <1>11, <2>2, Markers
      <3>2. Matches(FileEnd, text, j)
        BY <1>1, <1>2, <1>14, <2>2, <3>1, MoreText, Markers
      <3> QED BY <1>0, <1>1, <1>11, <3>1, <3>2 DEF Missing
    <2> QED BY <1>12, <2>1, <2>2, Markers
  <1>15. CASE ~EndsFile(buffer)
    <2> DEFINE next == [d EXCEPT !.file = buffer]
    <2>1. BufferCharacter(d, c) = next
      BY <1>6, <1>7, <1>15 DEF BufferCharacter
    <2>2. /\ next.file = SubSeq(t, b, Len(t)) /\ next.partial = <<>>
          /\ next.out = d.out /\ next.files = d.files
      BY <1>0, <1>2, <1>8 DEF Downloads
    <2>3. Missing(FileEnd, t, content)
      <3> SUFFICES ASSUME NEW j \in content .. n + 1, Matches(FileEnd, t, j) PROVE FALSE
        BY <1>2 DEF Missing
      <3>1. j = e
        BY <1>14
      <3> QED BY <1>13, <1>15, <3>1
    <2>4. InFile(t, k, out, b, next)
      <3>1. b \in k .. Len(t)
        BY <1>2, <1>3
      <3>2. next.out = out \o SubSeq(t, k, b - 1)
        BY <1>0, <1>10, <2>2
      <3> QED BY <1>9, <1>11, <2>2, <2>3, <3>1, <3>2 DEF InFile
    <2>5. k <= Len(t) + 1
      BY <1>2, <1>3
    <2> HIDE DEF next
    <2>6. ParsedFrom(t, next, k, out)
      BY <1>9, <2>2, <2>4, <2>5 DEF ParsedFrom
    <2> QED BY <1>0, <2>1, <2>2, <2>6 DEF Parsed
  <1>16. CASE EndsFile(buffer)
    <2>1. e \in Nat /\ content <= e /\ e <= n + 1 /\ Matches(FileEnd, t, e)
      BY <1>11, <1>12, <1>13, <1>16, Markers
    <2>2. WholeFile(t, k, b, content, e)
      <3>1. First(FileBegin, t, k, b)
        <4>1. Passed(text, k, b - 1) /\ b >= k
          BY <1>0, <1>3
        <4> QED BY <1>2, <1>9, <4>1, FirstFrom
      <3>2. ASSUME NEW j \in content .. e - 1 PROVE ~Matches(FileEnd, t, j)
        <4>1. j \in content .. n + 1 /\ j # e
          BY <2>1
        <4> QED BY <1>14, <4>1
      <3>3. e \in content .. Len(t)
        BY <1>2, <2>1
      <3> QED BY <1>11, <2>1, <3>1, <3>2, <3>3 DEF WholeFile, First
    <2>3. PICK place \in Nat \ {0} : place = n + 2 /\ place = e + Len(FileEnd)
      BY <1>12
    <2>4. PICK before \in Texts : before = SubSeq(t, k, b - 1)
      BY <2>2, BeforeIs DEF WholeFile
    <2>5. PICK inside \in Texts : inside = SubSeq(t, content, e - 1)
      BY <2>1, <2>2, FileLengths
    <2>6. Reached(t, place, out \o before, Append(d.files, inside))
      <3>1. k <= Len(t)
        BY <1>2, <1>3
      <3> QED BY <1>0, <1>9, <2>1, <2>2, <2>3, <2>4, <2>5, <3>1, FileReached
    <2>7. Content(buffer) = inside
      <3>1. PICK l \in Nat : content + l = e
        <4>1. e - content \in Nat /\ content + (e - content) = e
          BY <2>1
        <4> QED BY <4>1
      <3>2. e - 1 = content + l - 1 /\ e - 1 \in Int /\ content + l <= Len(t) + 1 /\ content \in Nat \ {0}
        BY <1>2, <1>3, <1>11, <2>1, <3>1
      <3>3. Len(inside) = l /\ \A q \in 1 .. l : inside[q] = t[content + q - 1]
        <4>1. PICK y \in Int : y = e - 1
          BY <3>2
        <4>2. /\ Len(SubSeq(t, content, y)) = l
              /\ \A q \in 1 .. l : SubSeq(t, content, y)[q] = t[content + q - 1]
          BY <3>2, <4>1, SliceIs
        <4> QED BY <2>5, <4>1, <4>2
      <3>4. PICK w \in Nat, x \in Nat \ {0}, z \in Int :
                w = m + 1 /\ x = Len(FileBegin) + 1 /\ z = m + 1 - Len(FileEnd)
        <4>1. m + 1 \in Nat /\ Len(FileBegin) + 1 \in Nat \ {0} /\ m + 1 - Len(FileEnd) \in Int
          BY Markers
        <4> QED BY <4>1
      <3>5. Len(buffer) = w /\ \A q \in 1 .. w : buffer[q] = t[b + q - 1]
        <4>1. PICK y \in Int : y = n + 1
          OBVIOUS
        <4>2. b + w <= Len(t) + 1 /\ y = b + w - 1
          BY <1>2, <1>4, <3>4, <4>1
        <4>3. Len(SubSeq(t, b, y)) = w /\ \A q \in 1 .. w : SubSeq(t, b, y)[q] = t[b + q - 1]
          BY <1>3, <4>2, SliceIs
        <4> QED BY <1>8, <4>1, <4>3
      <3>6. x + l <= Len(buffer) + 1 /\ z = x + l - 1
        <4>1. Len(buffer) = w
          BY <3>5
        <4>2. PICK u \in Nat, v \in Nat : u = Len(FileBegin) /\ v = Len(FileEnd)
          BY Markers
        <4>3. /\ b + m = n + 1 /\ content = b + u /\ e + v = n + 2 /\ content + l = e
              /\ w = m + 1 /\ x = u + 1 /\ z = m + 1 - v
          BY <1>4, <1>11, <1>12, <3>1, <3>4, <4>2
        <4> QED BY <4>1, <4>3
      <3>7. ASSUME NEW q \in 1 .. l PROVE inside[q] = buffer[x + q - 1]
        <4>1. PICK p \in 1 .. w : p = x + q - 1
          BY <3>5, <3>6
        <4>2. b + p - 1 = content + q - 1
          BY <1>11, <3>4, <4>1, Markers
        <4>3. buffer[p] = t[b + p - 1]
          BY <3>5
        <4> QED BY <3>3, <4>1, <4>2, <4>3
      <3>8. SubSeq(buffer, x, z) = inside
        <4>1. IsSlice(buffer, x, l, inside)
          BY <3>3, <3>6, <3>7 DEF IsSlice
        <4> QED BY <3>6, <4>1, SliceOnly
      <3> QED BY <3>4, <3>5, <3>8 DEF Content
    <2> DEFINE next == [d EXCEPT !.file = <<>>, !.files = Append(@, Content(buffer))]
    <2>8. BufferCharacter(d, c) = next
      BY <1>6, <1>7, <1>16 DEF BufferCharacter
    <2>9. /\ next.file = <<>> /\ next.partial = <<>> /\ next.out = d.out
          /\ next.files = Append(d.files, inside)
      BY <1>0, <2>7 DEF Downloads
    <2>10. Append(d.files, inside) \in Seq(Texts)
      BY <1>0
    <2>11. out \o before \in Texts /\ d.out = out \o before
      BY <1>0, <1>10, <2>4 DEF Texts
    <2> HIDE DEF next
    <2>12. Scanning(t, place, out \o before, 0, next)
      <3>1. Ends(t, 0) /\ Passed(t, place, Len(t) - 0)
        BY <1>2, <2>3 DEF Ends, Passed
      <3>2. SubSeq(FileBegin, 1, 0) = <<>>
        BY Markers
      <3>3. SubSeq(t, place, Len(t) - 0) = <<>>
        BY <1>2, <2>3 DEF Texts
      <3>4. next.out = (out \o before) \o <<>>
        <4>1. out \o before \in Seq(Chars)
          BY <2>11 DEF Texts
        <4>2. (out \o before) \o <<>> = out \o before
          BY <4>1, ConcatEmptySeq
        <4> QED BY <2>9, <2>11, <4>2
      <3>5. 0 \in 0 .. Len(FileBegin) - 1 /\ place + 0 <= Len(t) + 1
        BY <1>2, <2>3, Markers
      <3> QED BY <2>9, <3>1, <3>2, <3>3, <3>4, <3>5 DEF Scanning
    <2>13. place <= Len(t) + 1
      BY <1>2, <2>3
    <2>14. ParsedFrom(t, next, place, out \o before)
      BY <2>6, <2>9, <2>12, <2>13 DEF ParsedFrom
    <2> QED BY <2>8, <2>9, <2>10, <2>11, <2>14 DEF Parsed
  <1> QED BY <1>15, <1>16

\* The characters of the begin marker that are kept in partialFileBegin.
LEMMA PartialIs ==
    ASSUME NEW h \in 0 .. Len(FileBegin) - 1
    PROVE  /\ SubSeq(FileBegin, 1, h) \in Texts /\ Len(SubSeq(FileBegin, 1, h)) = h
           /\ \A q \in 1 .. h : SubSeq(FileBegin, 1, h)[q] = FileBegin[q]
  <1>1. PICK a \in Nat \ {0}, m \in Nat, z \in Int : a = 1 /\ m = h /\ z = h
    BY Markers
  <1>2. a + m <= Len(FileBegin) + 1 /\ z = a + m - 1
    BY <1>1, Markers
  <1>3. /\ SubSeq(FileBegin, a, z) \in Texts /\ Len(SubSeq(FileBegin, a, z)) = m
        /\ \A q \in 1 .. m : SubSeq(FileBegin, a, z)[q] = FileBegin[a + q - 1]
    BY <1>2, SliceIs, Markers
  <1>4. \A q \in 1 .. m : a + q - 1 = q
    BY <1>1
  <1> QED BY <1>1, <1>3, <1>4

\* bufferCharacter elsewhere: the marker goes on, is complete, or was none.
LEMMA ScanNext ==
    ASSUME NEW text \in Texts, NEW c \in Chars, NEW t \in Texts, OneMore(t, text, c), Apart(t),
           NEW d \in Downloads, NEW k \in Nat \ {0}, NEW out \in Texts,
           Reached(text, k, out, d.files), NEW h \in Nat, Scanning(text, k, out, h, d)
    PROVE  Parsed(t, BufferCharacter(d, c))
  <1>0. /\ d.partial \in Texts /\ d.out \in Texts /\ d.files \in Seq(Texts)
        /\ h \in 0 .. Len(FileBegin) - 1 /\ k + h <= Len(text) + 1 /\ Ends(text, h)
        /\ Passed(text, k, Len(text) - h) /\ d.file = <<>> /\ d.partial = SubSeq(FileBegin, 1, h)
        /\ d.out = out \o SubSeq(text, k, Len(text) - h)
    BY DEF Scanning, Downloads
  <1>1. PICK n \in Nat, l \in Nat : n = Len(text) /\ l = Len(FileBegin) /\ l > 1 /\ h < l
    BY <1>0, Markers DEF Texts
  <1>2. /\ Len(t) = n + 1 /\ t[n + 1] = c /\ \A i \in 1 .. n : t[i] = text[i]
        /\ Extends(t, text)
    BY <1>1 DEF OneMore, Extends
  <1>3. /\ Len(d.partial) = h /\ \A q \in 1 .. h : d.partial[q] = FileBegin[q]
        /\ SubSeq(FileBegin, 1, h) \in Texts
    BY <1>0, PartialIs
  <1>4. h <= n /\ \A q \in 1 .. h : text[n - h + q] = FileBegin[q]
    BY <1>0, <1>1 DEF Ends
  <1>5. PICK e \in Nat : e + h = n /\ e = Len(text) - h /\ k <= e + 1 /\ e <= n
    <2>1. n - h \in Nat /\ n - h + h = n /\ k <= n - h + 1 /\ n - h <= n
      BY <1>0, <1>1, <1>4
    <2> QED BY <1>1, <2>1
  <1>6. \A q \in 1 .. h : t[e + q] = FileBegin[q]
    <2> SUFFICES ASSUME NEW q \in 1 .. h PROVE t[e + q] = FileBegin[q]
      OBVIOUS
    <2>1. e + q \in 1 .. n /\ e + q = n - h + q
      BY <1>5
    <2> QED BY <1>2, <1>4, <2>1
  <1>7. Passed(t, k, e) /\ Reached(t, k, out, d.files)
    BY <1>0, <1>2, <1>5, MoreText
  <1>8. SubSeq(t, k, e) = SubSeq(text, k, e) /\ d.out = out \o SubSeq(t, k, e)
    <2>1. e <= Len(text) /\ e <= Len(t) /\ \A i \in k .. e : t[i] = text[i]
      BY <1>1, <1>2, <1>5
    <2>2. SubSeq(t, k, e) = SubSeq(text, k, e)
      BY <2>1, SameSubSeq DEF Texts
    <2> QED BY <1>0, <1>5, <2>2
  <1>9. PICK more \in Texts : more = Append(d.partial, c) /\ OneMore(more, d.partial, c)
    BY <1>0, AppendIs
  <1>10. /\ Len(more) = h + 1 /\ more[h + 1] = c
         /\ \A q \in 1 .. h : more[q] = FileBegin[q]
    <2>1. /\ Len(more) = Len(d.partial) + 1 /\ more[Len(d.partial) + 1] = c
          /\ \A q \in 1 .. Len(d.partial) : more[q] = d.partial[q]
      BY <1>9 DEF OneMore
    <2> QED BY <1>3, <2>1
  <1>11. ASSUME NEW next \in Downloads, BufferCharacter(d, c) = next, next.files = d.files,
                (\E j \in Nat : Scanning(t, k, out, j, next)) \/ \E b \in Nat : InFile(t, k, out, b, next)
         PROVE  Parsed(t, BufferCharacter(d, c))
    <2>1. k <= Len(t) + 1
      BY <1>2, <1>5
    <2>2. ParsedFrom(t, next, k, out)
      BY <1>7, <1>11, <2>1 DEF ParsedFrom
    <2> QED BY <1>0, <1>11, <2>2 DEF Parsed
  <1>12. CASE c = FileBegin[h + 1] /\ h + 1 = l
    <2>1. more = FileBegin
      <3>1. \A q \in 1 .. l : more[q] = FileBegin[q]
        BY <1>10, <1>12
      <3> QED BY <1>1, <1>10, <1>12, <3>1, SeqEqual, Markers DEF Texts
    <2>2. PICK next : next = [d EXCEPT !.partial = <<>>, !.file = FileBegin]
      OBVIOUS
    <2>3. BufferCharacter(d, c) = next
      BY <1>0, <1>3, <1>9, <1>12, <2>1, <2>2 DEF BufferCharacter
    <2>4. /\ next.partial = <<>> /\ next.file = FileBegin /\ next.out = d.out
          /\ next.files = d.files
      BY <2>2 DEF Downloads
    <2>5. next \in Downloads
      <3>1. <<>> \in Texts
        BY DEF Texts
      <3> QED BY <2>2, <3>1, Markers DEF Downloads
    <2>6. PICK b \in Nat \ {0} : b = e + 1 /\ b + l = n + 2
      <3>1. e + 1 \in Nat \ {0} /\ e + 1 + l = n + 2
        BY <1>1, <1>5, <1>12
      <3> QED BY <3>1
    <2>7. Matches(FileBegin, t, b)
      <3>1. ASSUME NEW q \in 1 .. l PROVE t[b + q - 1] = FileBegin[q]
        <4>1. CASE q \in 1 .. h
          <5>1. b + q - 1 = e + q
            BY <2>6
          <5> QED BY <1>6, <4>1, <5>1
        <4>2. CASE q = h + 1
          <5>1. b + q - 1 = n + 1
            BY <1>5, <2>6, <4>2
          <5> QED BY <1>2, <1>12, <4>2, <5>1
        <4> QED BY <1>12, <4>1, <4>2
      <3>2. b + l - 1 <= Len(t)
        BY <1>2, <2>6
      <3> QED BY <1>1, <3>1, <3>2 DEF Matches
    <2>8. Missing(FileEnd, t, b + Len(FileBegin))
      BY <1>1, <1>2, <2>6 DEF Missing
    <2>9. SubSeq(t, b, Len(t)) = FileBegin
      <3>1. PICK z \in Int : z = n + 1
        OBVIOUS
      <3>2. z = b + l - 1 /\ IsSlice(t, b, l, FileBegin)
        BY <1>1, <1>2, <2>6, <2>7, <3>1 DEF Matches, IsSlice
      <3>3. SubSeq(t, b, z) = FileBegin
        BY <3>2, SliceOnly, Markers
      <3> QED BY <1>2, <3>1, <3>3
    <2>10. b \in k .. Len(t) /\ b - 1 = e
      BY <1>1, <1>2, <1>5, <2>6
    <2>11. InFile(t, k, out, b, next)
      BY <1>7, <1>8, <2>4, <2>7, <2>8, <2>9, <2>10 DEF InFile
    <2> QED BY <1>11, <2>3, <2>4, <2>5, <2>11
  <1>13. CASE c = FileBegin[h + 1] /\ h + 1 # l
    <2>0. PICK j \in 0 .. Len(FileBegin) - 1 : j = h + 1
      BY <1>1, <1>13
    <2>1. more = SubSeq(FileBegin, 1, j)
      <3>1. \A q \in 1 .. j : more[q] = FileBegin[q]
        BY <1>10, <1>13, <2>0
      <3>2. PICK s \in Texts : s = SubSeq(FileBegin, 1, j)
        BY PartialIs
      <3>3. Len(s) = j /\ \A q \in 1 .. j : s[q] = FileBegin[q]
        BY <3>2, PartialIs
      <3>4. more = s
        BY <1>10, <2>0, <3>1, <3>3, SeqEqual DEF Texts
      <3> QED BY <3>2, <3>4
    <2>a. more # FileBegin
      BY <1>1, <1>10, <1>13
    <2>2. PICK next : next = [d EXCEPT !.partial = more]
      OBVIOUS
    <2>3. BufferCharacter(d, c) = next
      BY <1>0, <1>3, <1>9, <1>13, <2>a, <2>2 DEF BufferCharacter
    <2>4. /\ next.partial = SubSeq(FileBegin, 1, j) /\ next.file = <<>> /\ next.out = d.out
          /\ next.files = d.files
      BY <1>0, <2>1, <2>2 DEF Downloads
    <2>5. next \in Downloads
      BY <2>2 DEF Downloads
    <2>6. Ends(t, j)
      <3>1. ASSUME NEW q \in 1 .. j PROVE t[n + 1 - j + q] = FileBegin[q]
        <4>1. n + 1 - j + q = e + q
          BY <1>5, <2>0
        <4>2. CASE q \in 1 .. h
          BY <1>6, <4>1, <4>2
        <4>3. CASE q = h + 1
          <5>1. e + q = n + 1
            BY <1>5, <4>3
          <5> QED BY <1>2, <1>13, <4>1, <4>3, <5>1
        <4> QED BY <2>0, <4>2, <4>3
      <3>2. j <= n + 1
        BY <1>4, <2>0
      <3> QED BY <1>2, <3>1, <3>2 DEF Ends
    <2>7. Len(t) - j = e /\ k + j <= Len(t) + 1 /\ j \in Nat
      BY <1>2, <1>5, <2>0, Markers
    <2>8. Scanning(t, k, out, j, next)
      BY <1>7, <1>8, <2>4, <2>6, <2>7 DEF Scanning
    <2> QED BY <1>11, <2>3, <2>4, <2>5, <2>7, <2>8
  <1>14. CASE c # FileBegin[h + 1]
    <2>1. PICK next : next = [d EXCEPT !.out = @ \o more, !.partial = <<>>]
      OBVIOUS
    <2>2. BufferCharacter(d, c) = next
      BY <1>0, <1>3, <1>9, <1>14, <2>1 DEF BufferCharacter
    <2>3. /\ next.partial = <<>> /\ next.file = <<>> /\ next.out = d.out \o more
          /\ next.files = d.files
      BY <1>0, <2>1 DEF Downloads
    <2>4. next \in Downloads
      <3>1. <<>> \in Texts /\ d.out \o more \in Texts
        BY <1>0 DEF Texts
      <3> QED BY <2>1, <3>1 DEF Downloads
    <2>5. Passed(t, k, n + 1)
      <3> SUFFICES ASSUME NEW p \in k .. n + 1 PROVE Differs(t, p)
        BY DEF Passed
      <3>0. 1 \in 1 .. Len(FileBegin) /\ p + 1 - 1 = p /\ p \in Nat
        BY <1>1
      <3>1. CASE p <= e
        BY <1>7, <3>0, <3>1 DEF Passed
      <3>2. CASE p = e + 1
        <4>1. PICK q \in 1 .. Len(FileBegin) : q = h + 1
          BY <1>1
        <4>2. p + q - 1 = n + 1
          BY <1>5, <3>2, <4>1
        <4>3. p + q - 1 <= Len(t) /\ t[p + q - 1] # FileBegin[q]
          BY <1>2, <1>14, <4>1, <4>2
        <4> QED BY <4>3 DEF Differs
      <3>3. CASE p > e + 1 /\ p <= n
        <4>1. PICK q \in 2 .. Len(FileBegin) : e + q = p /\ q \in 1 .. h
          <5>1. p - e \in 2 .. Len(FileBegin) /\ e + (p - e) = p /\ p - e \in 1 .. h
            BY <1>1, <1>5, <3>0, <3>3
          <5> QED BY <5>1
        <4>2. t[p] = FileBegin[q]
          BY <1>6, <4>1
        <4>3. t[p] # FileBegin[1]
          BY <4>2, Markers
        <4>4. p + 1 - 1 <= Len(t)
          BY <1>2, <3>0, <3>3
        <4> QED BY <3>0, <4>3, <4>4 DEF Differs
      <3>4. CASE p > e + 1 /\ p = n + 1
        <4>1. h \in 1 .. Len(FileBegin) - 1
          BY <1>1, <1>5, <3>4
        <4>2. PICK i \in 1 .. Len(t) - h : i = e + 1 /\ i + h = n + 1 /\ i \in Nat \ {0}
          <5>1. e + 1 \in 1 .. Len(t) - h /\ e + 1 + h = n + 1 /\ e + 1 \in Nat \ {0}
            BY <1>2, <1>5
          <5> QED BY <5>1
        <4>3. SubSeq(t, i, i + h - 1) = SubSeq(FileBegin, 1, h)
          <5>0. PICK z \in Int : z = i + h - 1
            <6>1. i + h - 1 \in Int
              OBVIOUS
            <6> QED BY <6>1
          <5>1. PICK s \in Texts : s = SubSeq(FileBegin, 1, h)
            BY <1>3
          <5>2. Len(s) = h /\ \A q \in 1 .. h : s[q] = FileBegin[q]
            BY <1>0, <5>1, PartialIs
          <5>3. ASSUME NEW q \in 1 .. h PROVE s[q] = t[i + q - 1]
            <6>1. i + q - 1 = e + q
              BY <4>2
            <6> QED BY <1>6, <5>2, <6>1
          <5>4. h \in Nat /\ IsSlice(t, i, h, s)
            BY <1>2, <4>2, <5>2, <5>3 DEF IsSlice
          <5>5. SubSeq(t, i, z) = s
            BY <4>2, <5>0, <5>4, SliceOnly
          <5> QED BY <5>0, <5>1, <5>5
        <4>4. t[i + h] # FileBegin[1]
          BY <4>1, <4>3 DEF Apart
        <4>5. t[p] # FileBegin[1] /\ p + 1 - 1 <= Len(t)
          BY <1>2, <3>0, <3>4, <4>2, <4>4
        <4> QED BY <3>0, <4>5 DEF Differs
      <3> QED BY <1>5, <3>0, <3>1, <3>2, <3>3, <3>4
    <2>6. d.out \o more = out \o SubSeq(t, k, n + 1)
      <3>1. PICK before \in Texts : before = SubSeq(t, k, e)
        <4>1. e <= Len(t) /\ Len(t) \in Nat
          BY <1>2, <1>5
        <4>2. SubSeq(t, k, e) \in Seq(Chars)
          BY <4>1 DEF Texts
        <4> QED BY <4>2 DEF Texts
      <3>2. SubSeq(t, e + 1, n + 1) = more
        <4>1. PICK a \in Nat \ {0}, m \in Nat, z \in Int : a = e + 1 /\ m = h + 1 /\ z = n + 1
          OBVIOUS
        <4>2. ASSUME NEW q \in 1 .. m PROVE more[q] = t[a + q - 1]
          <5>1. a + q - 1 = e + q
            BY <4>1
          <5>2. CASE q \in 1 .. h
            BY <1>6, <1>10, <5>1, <5>2
          <5>3. CASE q = h + 1
            BY <1>2, <1>5, <1>10, <5>1, <5>3
          <5> QED BY <4>1, <5>2, <5>3
        <4>3. IsSlice(t, a, m, more) /\ z = a + m - 1
          BY <1>2, <1>5, <1>10, <4>1, <4>2 DEF IsSlice
        <4>4. SubSeq(t, a, z) = more
          BY <4>3, SliceOnly
        <4> QED BY <4>1, <4>4
      <3>3. before \o more = SubSeq(t, k, n + 1)
        <4>1. k \in 1 .. Len(t) + 1 /\ e \in k - 1 .. Len(t) /\ n + 1 \in e .. Len(t)
          BY <1>2, <1>5
        <4>2. SubSeq(t, k, e) \o SubSeq(t, e + 1, n + 1) = SubSeq(t, k, n + 1)
          BY <4>1, ConcatAdjacentSubSeq DEF Texts
        <4> QED BY <3>1, <3>2, <4>2
      <3>4. out \in Seq(Chars) /\ before \in Seq(Chars) /\ more \in Seq(Chars)
        BY DEF Texts
      <3>5. out \o (before \o more) = (out \o before) \o more
        BY <3>4, Associative
      <3> QED BY <1>8, <3>1, <3>3, <3>5
    <2>7. SubSeq(FileBegin, 1, 0) = <<>>
      BY Markers
    <2>8. /\ Ends(t, 0) /\ Len(t) - 0 = n + 1 /\ 0 \in 0 .. Len(FileBegin) - 1
          /\ k + 0 <= Len(t) + 1
      BY <1>1, <1>2, <1>5, Markers DEF Ends
    <2>9. Scanning(t, k, out, 0, next)
      BY <2>3, <2>5, <2>6, <2>7, <2>8 DEF Scanning
    <2> QED BY <1>11, <2>2, <2>3, <2>4, <2>9
  <1> QED BY <1>12, <1>13, <1>14

\* What the downloader has, with what was written before it.
Given(d, before) == [d EXCEPT !.out = before \o @]
\* A character more has the same effect whatever was written before.
LEMMA BufferCharacterIs ==
    ASSUME NEW d \in Downloads, NEW c \in Chars, NEW before \in Texts
    PROVE  /\ BufferCharacter(d, c) \in Downloads
           /\ Given(d, before) \in Downloads
           /\ BufferCharacter(Given(d, before), c) = Given(BufferCharacter(d, c), before)
  <1>1. /\ d.partial \in Texts /\ d.file \in Texts /\ d.out \in Texts /\ d.files \in Seq(Texts)
        /\ d = [partial |-> d.partial, file |-> d.file, out |-> d.out, files |-> d.files]
    BY DEF Downloads
  <1>2. PICK g : g = Given(d, before)
    OBVIOUS
  <1>3. before \o d.out \in Texts
    BY <1>1 DEF Texts
  <1>4. /\ g \in Downloads /\ g.partial = d.partial /\ g.file = d.file /\ g.files = d.files
        /\ g.out = before \o d.out
    BY <1>1, <1>2, <1>3 DEF Given, Downloads
  <1>5. <<>> \in Texts
    BY DEF Texts
  <1>6. CASE d.file # <<>>
    <2>1. PICK buffer \in Texts : buffer = Append(d.file, c)
      BY <1>1, AppendIs
    <2>2. CASE EndsFile(buffer)
      <3>1. PICK inside \in Texts : inside = Content(buffer)
        <4>1. Len(buffer) >= Len(FileBegin) + Len(FileEnd)
          BY <2>2 DEF EndsFile
        <4>2. PICK x \in Nat \ {0}, z \in Int : x = Len(FileBegin) + 1 /\ z = Len(buffer) - Len(FileEnd)
          <5>1. Len(FileBegin) + 1 \in Nat \ {0} /\ Len(buffer) - Len(FileEnd) \in Int
            BY Markers DEF Texts
          <5> QED BY <5>1
        <4>3. x <= z + 1 /\ z <= Len(buffer) /\ Len(buffer) \in Nat
          BY <4>1, <4>2, Markers DEF Texts
        <4>4. SubSeq(buffer, x, z) \in Seq(Chars)
          BY <4>3 DEF Texts
        <4>5. Content(buffer) = SubSeq(buffer, x, z)
          BY <4>2 DEF Content
        <4> QED BY <4>4, <4>5 DEF Texts
      <3>2. PICK list \in Seq(Texts) : list = Append(d.files, inside)
        <4>1. PICK w \in Seq(Texts) : w = d.files
          BY <1>1
        <4>2. Append(w, inside) \in Seq(Texts)
          OBVIOUS
        <4> QED BY <4>1, <4>2
      <3>3. /\ BufferCharacter(d, c) = [d EXCEPT !.file = <<>>, !.files = list]
            /\ BufferCharacter(g, c) = [g EXCEPT !.file = <<>>, !.files = list]
        BY <1>1, <1>4, <1>6, <2>1, <2>2, <3>1, <3>2 DEF BufferCharacter, Downloads
      <3> QED BY <1>1, <1>2, <1>4, <1>5, <3>3 DEF Given, Downloads
    <2>3. CASE ~EndsFile(buffer)
      <3>1. /\ BufferCharacter(d, c) = [d EXCEPT !.file = buffer]
            /\ BufferCharacter(g, c) = [g EXCEPT !.file = buffer]
        BY <1>4, <1>6, <2>1, <2>3 DEF BufferCharacter
      <3> QED BY <1>1, <1>2, <1>4, <3>1 DEF Given, Downloads
    <2> QED BY <2>2, <2>3
  <1>7. CASE d.file = <<>>
    <2>1. PICK more \in Texts : more = Append(d.partial, c)
      BY <1>1, AppendIs
    <2>2. CASE c = FileBegin[Len(d.partial) + 1] /\ more = FileBegin
      <3>1. /\ BufferCharacter(d, c) = [d EXCEPT !.partial = <<>>, !.file = FileBegin]
            /\ BufferCharacter(g, c) = [g EXCEPT !.partial = <<>>, !.file = FileBegin]
        BY <1>4, <1>7, <2>1, <2>2 DEF BufferCharacter
      <3> QED BY <1>1, <1>2, <1>4, <1>5, <3>1, Markers DEF Given, Downloads
    <2>3. CASE c = FileBegin[Len(d.partial) + 1] /\ more # FileBegin
      <3>1. /\ BufferCharacter(d, c) = [d EXCEPT !.partial = more]
            /\ BufferCharacter(g, c) = [g EXCEPT !.partial = more]
        BY <1>1, <1>4, <1>7, <2>1, <2>3 DEF BufferCharacter, Downloads
      <3> QED BY <1>1, <1>2, <1>4, <3>1 DEF Given, Downloads
    <2>4. CASE c # FileBegin[Len(d.partial) + 1]
      <3>1. PICK x \in Texts, y \in Texts : x = d.out \o more /\ y = (before \o d.out) \o more
        <4>1. d.out \o more \in Texts /\ (before \o d.out) \o more \in Texts
          BY <1>1, <1>3 DEF Texts
        <4> QED BY <4>1
      <3>2. BufferCharacter(d, c) = [d EXCEPT !.out = x, !.partial = <<>>]
        BY <1>1, <1>7, <2>1, <2>4, <3>1 DEF BufferCharacter, Downloads
      <3>3. BufferCharacter(g, c) = [g EXCEPT !.out = y, !.partial = <<>>]
        BY <1>4, <1>7, <2>1, <2>4, <3>1 DEF BufferCharacter, Downloads
      <3>4. y = before \o x
        <4>1. PICK w \in Seq(Chars) : w = d.out
          BY <1>1 DEF Texts
        <4>2. before \in Seq(Chars) /\ more \in Seq(Chars)
          BY DEF Texts
        <4>3. before \o (w \o more) = (before \o w) \o more
          BY <4>2, Associative
        <4> QED BY <3>1, <4>1, <4>3
      <3> QED BY <1>1, <1>2, <1>4, <1>5, <3>1, <3>2, <3>3, <3>4 DEF Given, Downloads
    <2> QED BY <2>2, <2>3, <2>4
  <1> QED BY <1>2, <1>4, <1>6, <1>7

\* The start of a text has no marker cut short by another one if the text has none.
LEMMA ApartBefore ==
    ASSUME NEW whole \in Texts, Apart(whole), NEW text \in Texts, Extends(whole, text)
    PROVE  Apart(text)
  <1>1. PICK n \in Nat, l \in Nat : n = Len(text) /\ l = Len(whole) /\ n <= l
    BY DEF Texts, Extends
  <1> SUFFICES ASSUME NEW m \in 1 .. Len(FileBegin) - 1, NEW i \in 1 .. Len(text) - m,
                      SubSeq(text, i, i + m - 1) = SubSeq(FileBegin, 1, m)
               PROVE  text[i + m] # FileBegin[1]
    BY DEF Apart
  <1>2. m \in Nat /\ i \in Nat \ {0} /\ i \in 1 .. Len(whole) - m /\ i + m \in 1 .. n
    BY <1>1, Markers
  <1>3. PICK z \in Nat : z = i + m - 1 /\ z <= n
    <2>1. i + m - 1 \in Nat /\ i + m - 1 <= n
      BY <1>2
    <2> QED BY <2>1
  <1>4. SubSeq(whole, i, z) = SubSeq(text, i, z)
    <2>1. z <= Len(whole) /\ z <= Len(text) /\ \A j \in i .. z : whole[j] = text[j]
      BY <1>1, <1>2, <1>3 DEF Extends
    <2> QED BY <1>2, <2>1, SameSubSeq DEF Texts
  <1>5. whole[i + m] # FileBegin[1]
    BY <1>2, <1>3, <1>4 DEF Apart
  <1> QED BY <1>1, <1>2, <1>5 DEF Extends

\* One character more.
LEMMA ParsedNext ==
    ASSUME NEW text \in Texts, NEW c \in Chars, NEW t \in Texts, OneMore(t, text, c), Apart(t),
           NEW d \in Downloads, Parsed(text, d)
    PROVE  Parsed(t, BufferCharacter(d, c))
  <1>1. PICK k \in Nat \ {0}, out \in Texts : ParsedFrom(text, d, k, out)
    BY DEF Parsed
  <1>2. Reached(text, k, out, d.files)
    BY <1>1 DEF ParsedFrom
  <1>3. ASSUME NEW h \in Nat, Scanning(text, k, out, h, d) PROVE Parsed(t, BufferCharacter(d, c))
    BY <1>2, <1>3, ScanNext
  <1>4. ASSUME NEW b \in Nat, InFile(text, k, out, b, d) PROVE Parsed(t, BufferCharacter(d, c))
    BY <1>2, <1>4, FileNext
  <1> QED BY <1>1, <1>3, <1>4 DEF ParsedFrom

-----------------------------------------------------------------------------
\* FileDownloader.buffer looks at the characters one by one.
OneByOneFrom(d, chars, f) ==
    /\ f[0] = d
    /\ \A n \in 0 .. Len(chars) - 1 : f[n + 1] = BufferCharacter(f[n], chars[n + 1])
\* Character by character there is such a function.
LEMMA RunsFrom ==
    ASSUME NEW d, NEW chars, NEW N \in Nat
    PROVE  \E f : f = [n \in 0 .. N |-> IF n = 0 THEN d
                                     ELSE LET before == f[n - 1] IN BufferCharacter(before, chars[n])]
  <1> DEFINE Runs(f, k) == \A n \in 0 .. k :
                 f[n] = IF n = 0 THEN d ELSE BufferCharacter(f[n - 1], chars[n])
             run == {k \in Nat : \E f : f = [n \in 0 .. k |-> f[n]] /\ Runs(f, k)}
  <1>1. 0 \in run
    <2> DEFINE f == [n \in 0 .. 0 |-> d]
    <2>1. Runs(f, 0) /\ f = [n \in 0 .. 0 |-> f[n]]
      OBVIOUS
    <2> QED BY <2>1
  <1>2. \A k \in Nat : k \in run => k + 1 \in run
    <2> SUFFICES ASSUME NEW k \in Nat, k \in run PROVE k + 1 \in run
      OBVIOUS
    <2>1. PICK f : f = [n \in 0 .. k |-> f[n]] /\ Runs(f, k)
      OBVIOUS
    <2> DEFINE g == [n \in 0 .. k + 1 |-> IF n = k + 1 THEN BufferCharacter(f[k], chars[k + 1]) ELSE f[n]]
    <2>2. \A n \in 0 .. k + 1 :
              g[n] = IF n = k + 1 THEN BufferCharacter(f[k], chars[k + 1]) ELSE f[n]
      OBVIOUS
    <2>3. g = [n \in 0 .. k + 1 |-> g[n]]
      OBVIOUS
    <2> HIDE DEF g
    <2>4. Runs(g, k + 1)
      <3> SUFFICES ASSUME NEW n \in 0 .. k + 1
                   PROVE g[n] = IF n = 0 THEN d ELSE BufferCharacter(g[n - 1], chars[n])
        OBVIOUS
      <3>1. CASE n = k + 1
        <4>1. g[n] = BufferCharacter(f[k], chars[k + 1]) /\ g[k] = f[k] /\ n - 1 = k /\ n # 0
          BY <2>2, <3>1
        <4> QED BY <3>1, <4>1
      <3>2. CASE n \in 0 .. k
        <4>1. g[n] = f[n]
          BY <2>2, <3>2
        <4>2. n # 0 => g[n - 1] = f[n - 1]
          <5> SUFFICES ASSUME n # 0 PROVE g[n - 1] = f[n - 1]
            OBVIOUS
          <5>1. n - 1 \in 0 .. k + 1 /\ n - 1 # k + 1
            BY <3>2
          <5> QED BY <2>2, <5>1
        <4> QED BY <2>1, <3>2, <4>1, <4>2
      <3> QED BY <3>1, <3>2
    <2> HIDE DEF Runs
    <2>5. \E h : h = [n \in 0 .. k + 1 |-> h[n]] /\ Runs(h, k + 1)
      BY <2>3, <2>4
    <2> QED BY <2>5
  <1>3. N \in run
    <2> HIDE DEF run
    <2> QED BY <1>1, <1>2, Inductive
  <1>4. PICK f : f = [n \in 0 .. N |-> f[n]] /\ Runs(f, N)
    BY <1>3
  <1>5. [n \in 0 .. N |-> f[n]] =
            [n \in 0 .. N |-> IF n = 0 THEN d
                              ELSE LET before == f[n - 1] IN BufferCharacter(before, chars[n])]
    BY <1>4
  <1>6. f = [n \in 0 .. N |-> IF n = 0 THEN d
                             ELSE LET before == f[n - 1] IN BufferCharacter(before, chars[n])]
    BY <1>4, <1>5
  <1> QED BY <1>6

\* buffer returns what its last step has made.
LEMMA BufferedIs ==
    ASSUME NEW d, NEW chars \in Texts, ~NoMarker(d, chars)
    PROVE  \E f : OneByOneFrom(d, chars, f) /\ Buffered(d, chars) = f[Len(chars)]
  <1>1. PICK N \in Nat : N = Len(chars)
    BY DEF Texts
  <1> DEFINE f == CHOOSE f : f = [n \in 0 .. Len(chars) |-> IF n = 0 THEN d
                      ELSE LET before == f[n - 1] IN BufferCharacter(before, chars[n])]
  <1>2. f = [n \in 0 .. Len(chars) |-> IF n = 0 THEN d
                      ELSE LET before == f[n - 1] IN BufferCharacter(before, chars[n])]
    BY <1>1, RunsFrom
  <1>3. Buffered(d, chars) = f[Len(chars)]
    BY DEF Buffered
  <1> HIDE DEF f
  <1>4. \A n \in 0 .. N : f[n] = IF n = 0 THEN d ELSE BufferCharacter(f[n - 1], chars[n])
    BY <1>1, <1>2
  <1>5. OneByOneFrom(d, chars, f)
    <2>1. f[0] = d
      BY <1>4
    <2>2. ASSUME NEW n \in 0 .. N - 1 PROVE f[n + 1] = BufferCharacter(f[n], chars[n + 1])
      <3>1. n + 1 \in 0 .. N /\ n + 1 # 0 /\ n + 1 - 1 = n
        OBVIOUS
      <3> QED BY <1>4, <3>1
    <2> QED BY <1>1, <2>1, <2>2 DEF OneByOneFrom
  <1> QED BY <1>3, <1>5

\* A text and what comes after it.
Followed(whole, text, chars) ==
    /\ Len(whole) = Len(text) + Len(chars)
    /\ \A i \in 1 .. Len(text) : whole[i] = text[i]
    /\ \A i \in 1 .. Len(chars) : whole[Len(text) + i] = chars[i]
\* Putting two texts together gives one.
LEMMA FollowedIs ==
    ASSUME NEW text \in Texts, NEW chars \in Texts
    PROVE  text \o chars \in Texts /\ Followed(text \o chars, text, chars)
  <1>1. text \in Seq(Chars) /\ chars \in Seq(Chars)
    BY DEF Texts
  <1>2. /\ text \o chars \in Seq(Chars) /\ Len(text \o chars) = Len(text) + Len(chars)
        /\ \A i \in 1 .. Len(text) : (text \o chars)[i] = text[i]
        /\ \A i \in 1 .. Len(chars) : (text \o chars)[Len(text) + i] = chars[i]
    BY <1>1, ConcatIs
  <1> QED BY <1>2 DEF Texts, Followed

\* Each step of it has a state of the downloader.
LEMMA RunTyped ==
    ASSUME NEW d \in Downloads, NEW chars \in Texts, NEW f, OneByOneFrom(d, chars, f)
    PROVE  f[Len(chars)] \in Downloads /\ \A n \in 0 .. Len(chars) : f[n] \in Downloads
  <1>1. PICK N \in Nat : N = Len(chars)
    BY DEF Texts
  <1> DEFINE typed == {n \in Nat : n <= N => f[n] \in Downloads}
  <1>2. 0 \in typed
    BY DEF OneByOneFrom
  <1>3. \A n \in Nat : n \in typed => n + 1 \in typed
    <2> SUFFICES ASSUME NEW n \in Nat, n \in typed, n + 1 <= N PROVE f[n + 1] \in Downloads
      OBVIOUS
    <2>1. f[n] \in Downloads /\ n \in 0 .. N - 1 /\ n + 1 \in 1 .. N
      OBVIOUS
    <2>2. chars[n + 1] \in Chars
      BY <1>1, <2>1 DEF Texts
    <2>3. PICK c \in Chars : c = chars[n + 1]
      BY <2>2
    <2>4. f[n + 1] = BufferCharacter(f[n], c)
      BY <1>1, <2>1, <2>3 DEF OneByOneFrom
    <2>5. <<>> \in Texts
      BY DEF Texts
    <2> QED BY <2>1, <2>4, <2>5, BufferCharacterIs
  <1>4. Nat \subseteq typed
    <2> HIDE DEF typed
    <2> QED BY <1>2, <1>3, Inductive
  <1> QED BY <1>1, <1>4

\* One character after the other, what was made of the whole text is right.
LEMMA RunParsed ==
    ASSUME NEW d \in Downloads, NEW chars \in Texts, NEW f, OneByOneFrom(d, chars, f),
           NEW before \in Texts, NEW text \in Texts, NEW whole \in Texts,
           Followed(whole, text, chars), Apart(whole), Parsed(text, Given(d, before))
    PROVE  Parsed(whole, Given(f[Len(chars)], before))
  <1>1. PICK N \in Nat, l \in Nat : N = Len(chars) /\ l = Len(text)
    BY DEF Texts
  <1>2. /\ Len(whole) = l + N /\ \A i \in 1 .. l : whole[i] = text[i]
        /\ \A i \in 1 .. N : whole[l + i] = chars[i]
    BY <1>1 DEF Followed
  <1> DEFINE Start(t, n) == Len(t) = l + n /\ Extends(whole, t) /\ Parsed(t, Given(f[n], before))
             parsed == {n \in Nat : n <= N => \E t \in Texts : Start(t, n)}
  <1>3. 0 \in parsed
    <2>1. Start(text, 0)
      BY <1>1, <1>2 DEF OneByOneFrom, Extends
    <2> QED BY <2>1
  <1>4. \A n \in Nat : n \in parsed => n + 1 \in parsed
    <2> SUFFICES ASSUME NEW n \in Nat, n \in parsed, n + 1 <= N
                 PROVE \E t \in Texts : Start(t, n + 1)
      OBVIOUS
    <2>1. PICK t \in Texts : Start(t, n)
      OBVIOUS
    <2>2. n \in 0 .. N /\ n \in 0 .. N - 1 /\ n + 1 \in 1 .. N
      OBVIOUS
    <2>3. PICK c \in Chars : c = chars[n + 1]
      BY <1>1, <2>2 DEF Texts
    <2>4. PICK u \in Texts : u = Append(t, c) /\ OneMore(u, t, c)
      BY AppendIs
    <2>5. Extends(whole, u)
      <3>1. Len(u) = l + n + 1 /\ u[l + n + 1] = c /\ \A i \in 1 .. l + n : u[i] = t[i]
        BY <2>1, <2>4 DEF OneMore
      <3>2. whole[l + n + 1] = c
        <4>1. l + n + 1 = l + (n + 1)
          OBVIOUS
        <4> QED BY <1>2, <2>2, <2>3, <4>1
      <3>3. \A i \in 1 .. l + n : t[i] = whole[i]
        BY <2>1 DEF Extends
      <3>4. l + n + 1 <= Len(whole)
        BY <1>2, <2>2
      <3> QED BY <3>1, <3>2, <3>3, <3>4 DEF Extends
    <2>6. PICK e \in Downloads : e = f[n]
      BY <1>1, <2>2, RunTyped
    <2>7. PICK next : next = f[n + 1]
      OBVIOUS
    <2>8. next = BufferCharacter(e, c)
      BY <1>1, <2>2, <2>3, <2>6, <2>7 DEF OneByOneFrom
    <2>9. Apart(u)
      BY <2>5, ApartBefore
    <2>10. PICK g \in Downloads : g = Given(e, before) /\ BufferCharacter(g, c) = Given(next, before)
      BY <2>8, BufferCharacterIs
    <2>11. Parsed(t, g)
      BY <2>1, <2>6, <2>10
    <2>12. Parsed(u, BufferCharacter(g, c))
      BY <2>4, <2>9, <2>11, ParsedNext
    <2>13. Len(u) = l + (n + 1)
      BY <2>1, <2>4 DEF OneMore
    <2>14. Start(u, n + 1)
      BY <2>5, <2>7, <2>10, <2>12, <2>13
    <2> QED BY <2>14
  <1>5. N \in parsed
    <2> HIDE DEF parsed
    <2> QED BY <1>3, <1>4, Inductive
  <1>6. PICK t \in Texts : Start(t, N)
    BY <1>5
  <1>7. t = whole
    <2>1. Len(t) = Len(whole) /\ \A i \in 1 .. Len(t) : t[i] = whole[i]
      BY <1>2, <1>6 DEF Extends
    <2> QED BY <2>1, SeqEqual DEF Texts
  <1> QED BY <1>1, <1>6, <1>7

\* All characters at once, if none can begin a marker.
AtOnce(d, chars) == [d EXCEPT !.out = @ \o chars]
\* That has the same effect whatever was written before.
LEMMA AtOnceIs ==
    ASSUME NEW d \in Downloads, NEW chars \in Texts, NEW before \in Texts
    PROVE  /\ AtOnce(d, chars) \in Downloads
           /\ Given(AtOnce(d, chars), before) = AtOnce(Given(d, before), chars)
  <1>1. /\ d.partial \in Texts /\ d.file \in Texts /\ d.out \in Texts /\ d.files \in Seq(Texts)
        /\ d = [partial |-> d.partial, file |-> d.file, out |-> d.out, files |-> d.files]
    BY DEF Downloads
  <1>2. PICK x \in Texts, y \in Texts : x = d.out \o chars /\ y = before \o d.out
    <2>1. d.out \o chars \in Texts /\ before \o d.out \in Texts
      BY <1>1 DEF Texts
    <2> QED BY <2>1
  <1>3. before \o x = y \o chars
    <2>1. PICK w \in Seq(Chars) : w = d.out
      BY <1>1 DEF Texts
    <2>2. before \in Seq(Chars) /\ chars \in Seq(Chars)
      BY DEF Texts
    <2>3. before \o (w \o chars) = (before \o w) \o chars
      BY <2>2, Associative
    <2> QED BY <1>2, <2>1, <2>3
  <1>4. AtOnce(d, chars) = [d EXCEPT !.out = x] /\ Given(d, before) = [d EXCEPT !.out = y]
    BY <1>1, <1>2 DEF AtOnce, Given, Downloads
  <1>5. AtOnce(d, chars) \in Downloads
    BY <1>1, <1>2, <1>4 DEF Downloads
  <1>6. Given(AtOnce(d, chars), before) = [d EXCEPT !.out = before \o x]
    BY <1>1, <1>4 DEF Given
  <1>7. AtOnce(Given(d, before), chars) = [d EXCEPT !.out = y \o chars]
    BY <1>1, <1>4 DEF AtOnce
  <1> QED BY <1>3, <1>5, <1>6, <1>7

\* It is right, for a downloader with no file and nothing that may become one.
LEMMA ParsedAtOnce ==
    ASSUME NEW g \in Downloads, NEW chars \in Texts, NoMarker(g, chars), NEW text \in Texts,
           NEW whole \in Texts, Followed(whole, text, chars), Parsed(text, g)
    PROVE  Parsed(whole, AtOnce(g, chars))
  <1>1. /\ g.partial = <<>> /\ g.file = <<>> /\ g.out \in Texts /\ g.files \in Seq(Texts)
        /\ FileBegin[1] \notin Range(chars)
    BY DEF NoMarker, Downloads
  <1>2. PICK n \in Nat, N \in Nat, l \in Nat : n = Len(text) /\ N = Len(chars) /\ l = n + N
    BY DEF Texts
  <1>3. /\ Len(whole) = l /\ \A i \in 1 .. n : whole[i] = text[i]
        /\ \A i \in 1 .. N : whole[n + i] = chars[i]
    BY <1>2 DEF Followed
  <1>4. Extends(whole, text)
    BY <1>2, <1>3 DEF Extends
  <1>5. PICK k \in Nat \ {0}, out \in Texts : ParsedFrom(text, g, k, out)
    BY DEF Parsed
  <1>6. k <= n + 1 /\ Reached(text, k, out, g.files)
    BY <1>2, <1>5 DEF ParsedFrom
  <1>7. Passed(text, k, n) /\ g.out = out \o SubSeq(text, k, n)
    <2>1. ASSUME NEW h \in Nat, Scanning(text, k, out, h, g)
          PROVE Passed(text, k, n) /\ g.out = out \o SubSeq(text, k, n)
      <3>1. h \in 0 .. Len(FileBegin) - 1 /\ SubSeq(FileBegin, 1, h) = <<>>
        BY <1>1, <2>1 DEF Scanning
      <3>2. Len(<<>>) = h
        BY <3>1, PartialIs
      <3>3. h = 0 /\ Len(text) - h = n
        BY <1>2, <3>2
      <3> QED BY <2>1, <3>3 DEF Scanning
    <2>2. ASSUME NEW b \in Nat, InFile(text, k, out, b, g) PROVE FALSE
      <3>1. b \in k .. n /\ SubSeq(text, b, n) = <<>>
        BY <1>1, <1>2, <2>2 DEF InFile
      <3>2. PICK m \in Nat : m = n + 1 - b /\ m # 0
        <4>1. n + 1 - b \in Nat /\ n + 1 - b # 0
          BY <3>1
        <4> QED BY <4>1
      <3>3. b \in Nat \ {0} /\ b + m <= Len(text) + 1 /\ n = b + m - 1 /\ n \in Int
        BY <1>2, <3>1, <3>2
      <3>4. Len(SubSeq(text, b, n)) = m
        BY <3>3, SliceIs
      <3> QED BY <3>1, <3>2, <3>4
    <2> QED BY <1>5, <2>1, <2>2 DEF ParsedFrom
  <1>8. Passed(whole, k, l)
    <2> SUFFICES ASSUME NEW p \in k .. l PROVE Differs(whole, p)
      BY DEF Passed
    <2>1. CASE p \in k .. n
      <3>1. p \in Nat \ {0} /\ Differs(text, p)
        BY <1>7, <2>1 DEF Passed
      <3> QED BY <1>4, <3>1, MoreText
    <2>2. CASE p \in n + 1 .. l
      <3>1. PICK i \in 1 .. N : p = n + i
        <4>1. p - n \in 1 .. N /\ p = n + (p - n)
          BY <1>2, <2>2
        <4> QED BY <4>1
      <3>2. chars[i] \in Range(chars)
        <4>1. i \in DOMAIN chars
          BY <1>2 DEF Texts
        <4> QED BY <4>1 DEF Range
      <3>3. whole[p] # FileBegin[1]
        BY <1>1, <1>3, <3>1, <3>2
      <3>4. p + 1 - 1 = p /\ p <= Len(whole) /\ 1 \in 1 .. Len(FileBegin)
        BY <1>2, <1>3, <3>1, Markers
      <3> QED BY <3>3, <3>4 DEF Differs
    <2> QED BY <1>2, <2>1, <2>2
  <1>9. g.out \o chars = out \o SubSeq(whole, k, l)
    <2>1. PICK m \in Nat : k + m = n + 1
      <3>1. n + 1 - k \in Nat /\ k + (n + 1 - k) = n + 1
        BY <1>6
      <3> QED BY <3>1
    <2>2. k + m <= Len(text) + 1 /\ n \in Int /\ n = k + m - 1
      BY <1>2, <2>1
    <2>3. PICK x \in Texts : x = SubSeq(text, k, n) /\ Len(x) = m /\ \A q \in 1 .. m : x[q] = text[k + q - 1]
      <3>1. /\ SubSeq(text, k, n) \in Texts /\ Len(SubSeq(text, k, n)) = m
            /\ \A q \in 1 .. m : SubSeq(text, k, n)[q] = text[k + q - 1]
        BY <2>2, SliceIs
      <3> QED BY <3>1
    <2>4. PICK y \in Texts : y = x \o chars /\ Followed(y, x, chars)
      BY FollowedIs
    <2>5. IsSlice(whole, k, m + N, y)
      <3>1. Len(y) = m + N /\ k + (m + N) <= Len(whole) + 1
        BY <1>2, <1>3, <2>1, <2>3, <2>4 DEF Followed
      <3>2. ASSUME NEW q \in 1 .. m PROVE y[q] = whole[k + q - 1]
        <4>1. k + q - 1 \in 1 .. n
          BY <2>1
        <4> QED BY <1>3, <2>3, <2>4, <4>1 DEF Followed
      <3>3. ASSUME NEW q \in m + 1 .. m + N PROVE y[q] = whole[k + q - 1]
        <4>1. PICK i \in 1 .. N : q = m + i
          <5>1. q - m \in 1 .. N /\ q = m + (q - m)
            OBVIOUS
          <5> QED BY <5>1
        <4>2. y[q] = chars[i]
          BY <1>2, <2>3, <2>4, <4>1 DEF Followed
        <4>3. k + q - 1 = n + i
          BY <2>1, <4>1
        <4> QED BY <1>3, <4>2, <4>3
      <3> QED BY <3>1, <3>2, <3>3 DEF IsSlice
    <2>6. PICK z \in Nat : z = m + N
      OBVIOUS
    <2>7. l \in Int /\ l = k + z - 1
      BY <1>2, <2>1, <2>6
    <2>8. SubSeq(whole, k, l) = y
      BY <2>5, <2>6, <2>7, SliceOnly
    <2>9. out \in Seq(Chars) /\ x \in Seq(Chars) /\ chars \in Seq(Chars)
      BY DEF Texts
    <2>10. out \o (x \o chars) = (out \o x) \o chars
      BY <2>9, Associative
    <2> QED BY <1>7, <2>3, <2>4, <2>8, <2>10
  <1>10. PICK g2 : g2 = AtOnce(g, chars)
    OBVIOUS
  <1>11. g2.partial = <<>> /\ g2.file = <<>> /\ g2.out = g.out \o chars /\ g2.files = g.files
    BY <1>1, <1>10 DEF AtOnce, Downloads
  <1>12. Scanning(whole, k, out, 0, g2)
    <2>1. 0 \in 0 .. Len(FileBegin) - 1 /\ k + 0 <= Len(whole) + 1 /\ Len(whole) - 0 = l
      BY <1>2, <1>3, <1>6, Markers
    <2>2. Ends(whole, 0)
      BY <1>2, <1>3 DEF Ends
    <2>3. SubSeq(FileBegin, 1, 0) = <<>>
      BY Markers
    <2> QED BY <1>8, <1>9, <1>11, <2>1, <2>2, <2>3 DEF Scanning
  <1>13. ParsedFrom(whole, g2, k, out)
    <2>1. Reached(whole, k, out, g.files)
      BY <1>4, <1>6, MoreText
    <2>2. k <= Len(whole) + 1
      BY <1>2, <1>3, <1>6
    <2>3. 0 \in Nat
      OBVIOUS
    <2> QED BY <1>11, <1>12, <2>1, <2>2, <2>3 DEF ParsedFrom
  <1> QED BY <1>1, <1>10, <1>11, <1>13 DEF Parsed

\* FileDownloader.buffer, whatever it was given before: what it has made of the whole
\* text is right.
LEMMA BufferedIsRight ==
    ASSUME NEW d \in Downloads, NEW chars \in Texts
    PROVE  /\ Buffered(d, chars) \in Downloads
           /\ \A before \in Texts, text \in Texts :
                  Parsed(text, Given(d, before)) /\ Apart(text \o chars) =>
                      Parsed(text \o chars, Given(Buffered(d, chars), before))
  <1>1. CASE NoMarker(d, chars)
    <2>1. Buffered(d, chars) = AtOnce(d, chars)
      BY <1>1 DEF Buffered, AtOnce
    <2>2. <<>> \in Texts
      BY DEF Texts
    <2>3. AtOnce(d, chars) \in Downloads
      BY <2>2, AtOnceIs
    <2>4. ASSUME NEW before \in Texts, NEW text \in Texts, Parsed(text, Given(d, before))
          PROVE Parsed(text \o chars, Given(AtOnce(d, chars), before))
      <3>1. PICK g \in Downloads : g = Given(d, before)
        <4>1. FileBegin[1] \in Chars
          BY Markers
        <4> QED BY <4>1, BufferCharacterIs
      <3>2. PICK whole \in Texts : whole = text \o chars /\ Followed(whole, text, chars)
        BY FollowedIs
      <3>3. NoMarker(g, chars)
        BY <1>1, <3>1 DEF NoMarker, Given, Downloads
      <3>4. Parsed(whole, AtOnce(g, chars))
        BY <2>4, <3>1, <3>2, <3>3, ParsedAtOnce
      <3>5. AtOnce(g, chars) = Given(AtOnce(d, chars), before)
        BY <3>1, AtOnceIs
      <3> QED BY <3>2, <3>4, <3>5
    <2> QED BY <2>1, <2>3, <2>4
  <1>2. CASE ~NoMarker(d, chars)
    <2>1. PICK f : OneByOneFrom(d, chars, f) /\ Buffered(d, chars) = f[Len(chars)]
      BY <1>2, BufferedIs
    <2>2. f[Len(chars)] \in Downloads
      BY <2>1, RunTyped
    <2>3. ASSUME NEW before \in Texts, NEW text \in Texts, Parsed(text, Given(d, before)),
                 Apart(text \o chars)
          PROVE Parsed(text \o chars, Given(f[Len(chars)], before))
      <3>1. PICK whole \in Texts : whole = text \o chars /\ Followed(whole, text, chars)
        BY FollowedIs
      <3>2. Apart(whole)
        BY <2>3, <3>1
      <3>3. Parsed(whole, Given(f[Len(chars)], before))
        BY <2>1, <2>3, <3>1, <3>2, RunParsed
      <3> QED BY <3>1, <3>3
    <2> QED BY <2>1, <2>2, <2>3
  <1> QED BY <1>1, <1>2

-----------------------------------------------------------------------------
\* What Decode makes of the bytes from a place on depends on what it makes of those
\* after it.
LEMMA DecodeLooks ==
    ASSUME NEW bytes \in Texts, NEW i \in Nat \ {0}, NEW f, NEW g,
           \A j \in i + 1 .. Len(bytes) + 1 : f[j] = g[j] /\ f[j] \in Texts
    PROVE  Decode(bytes, f, i) = Decode(bytes, g, i) /\ Decode(bytes, f, i) \in Texts
  <1>0. Len(bytes) \in Nat /\ i \in Int /\ <<>> \in Texts
    BY DEF Texts
  <1>1. CASE i > Len(bytes)
    BY <1>0, <1>1 DEF Decode
  <1>2. CASE i <= Len(bytes) /\ bytes[i] # "lead"
    <2>1. PICK c \in Chars, rest \in Texts : c = bytes[i] /\ rest = f[i + 1] /\ rest = g[i + 1]
      <3>1. i \in 1 .. Len(bytes) /\ i + 1 \in i + 1 .. Len(bytes) + 1
        BY <1>0, <1>2
      <3>2. bytes[i] \in Chars
        BY <3>1 DEF Texts
      <3> QED BY <3>1, <3>2
    <2>2. Decode(bytes, f, i) = <<c>> \o rest /\ Decode(bytes, g, i) = <<c>> \o rest
      BY <1>0, <1>2, <2>1 DEF Decode
    <2>3. <<c>> \o rest \in Texts
      BY DEF Texts
    <2> QED BY <2>2, <2>3
  <1>3. CASE i = Len(bytes) /\ bytes[i] = "lead"
    BY <1>0, <1>3 DEF Decode
  <1>4. CASE i < Len(bytes) /\ bytes[i] = "lead"
    <2>1. PICK rest \in Texts : rest = f[i + 2] /\ rest = g[i + 2]
      <3>1. i + 2 \in i + 1 .. Len(bytes) + 1
        BY <1>0, <1>4
      <3> QED BY <3>1
    <2>2. Decode(bytes, f, i) = <<"wide">> \o rest /\ Decode(bytes, g, i) = <<"wide">> \o rest
      <3>1. ~(i > Len(bytes)) /\ i # Len(bytes) /\ bytes[i] = "lead"
        BY <1>0, <1>4
      <3>2. /\ Decode(bytes, f, i) = <<"wide">> \o f[i + 2]
            /\ Decode(bytes, g, i) = <<"wide">> \o g[i + 2]
        BY <3>1, Zenon DEF Decode
      <3> QED BY <2>1, <3>2
    <2>3. "wide" \in Chars
      BY Zenon DEF Chars
    <2>4. <<"wide">> \o rest \in Texts
      BY <2>3 DEF Texts
    <2> QED BY <2>2, <2>4
  <1> QED BY <1>0, <1>1, <1>2, <1>3, <1>4

\* What Decoded is: there is a function as it defines one.
Decodes(bytes, f) ==
    \A i \in 1 .. Len(bytes) + 1 : f[i] = Decode(bytes, f, i) /\ f[i] \in Texts
\* From the end of the bytes backwards, there is such a function.
LEMMA DecodesFrom ==
    ASSUME NEW bytes \in Texts, NEW N \in Nat, N = Len(bytes)
    PROVE  \E f : f = [i \in 1 .. N + 1 |-> Decode(bytes, f, i)] /\ Decodes(bytes, f)
  <1> DEFINE From(f, k) == \A j \in k + 1 .. N + 1 : f[j] = Decode(bytes, f, j) /\ f[j] \in Texts
             from == {n \in Nat : n <= N + 1 => \E f : From(f, N + 1 - n)}
  <1>1. 0 \in from
    <2>1. From(<<>>, N + 1)
      OBVIOUS
    <2>2. N + 1 - 0 = N + 1
      OBVIOUS
    <2> HIDE DEF From
    <2> QED BY <2>1, <2>2
  <1>2. \A n \in Nat : n \in from => n + 1 \in from
    <2> HIDE DEF From
    <2> SUFFICES ASSUME NEW n \in Nat, n \in from, n + 1 <= N + 1
                 PROVE \E f : From(f, N + 1 - (n + 1))
      OBVIOUS
    <2>1. PICK k \in Nat : k + 1 = N + 1 - n /\ k = N + 1 - (n + 1) /\ k + 1 \in Nat \ {0} /\ k <= N
      <3>1. /\ N + 1 - (n + 1) \in Nat /\ N + 1 - (n + 1) + 1 = N + 1 - n
            /\ N + 1 - (n + 1) <= N
        OBVIOUS
      <3> QED BY <3>1
    <2>2. PICK f : From(f, k + 1)
      <3>1. n <= N + 1
        OBVIOUS
      <3> QED BY <2>1, <3>1
    <2> USE DEF From
    <2> DEFINE g == [j \in k + 1 .. N + 1 |-> IF j = k + 1 THEN Decode(bytes, f, j) ELSE f[j]]
    <2>3. \A j \in k + 1 .. N + 1 : g[j] = IF j = k + 1 THEN Decode(bytes, f, j) ELSE f[j]
      OBVIOUS
    <2> HIDE DEF g
    <2>4. \A i \in k + 1 + 1 .. N + 1 : f[i] = g[i] /\ f[i] \in Texts
      <3> SUFFICES ASSUME NEW i \in k + 1 + 1 .. N + 1 PROVE f[i] = g[i] /\ f[i] \in Texts
        OBVIOUS
      <3>1. i \in k + 1 .. N + 1 /\ i # k + 1
        BY <2>1
      <3> QED BY <2>2, <2>3, <3>1
    <2>5. From(g, k)
      <3> SUFFICES ASSUME NEW j \in k + 1 .. N + 1
                   PROVE g[j] = Decode(bytes, g, j) /\ g[j] \in Texts
        OBVIOUS
      <3>1. Decode(bytes, f, j) = Decode(bytes, g, j) /\ Decode(bytes, f, j) \in Texts
        <4>1. \A i \in j + 1 .. N + 1 : f[i] = g[i] /\ f[i] \in Texts
          <5> SUFFICES ASSUME NEW i \in j + 1 .. N + 1 PROVE f[i] = g[i] /\ f[i] \in Texts
            OBVIOUS
          <5>1. i \in k + 1 + 1 .. N + 1
            BY <2>1
          <5> QED BY <2>4, <5>1
        <4>2. j \in Nat \ {0}
          BY <2>1
        <4> QED BY <4>1, <4>2, DecodeLooks
      <3>2. CASE j = k + 1
        BY <2>3, <3>1, <3>2
      <3>3. CASE j # k + 1
        <4>1. j \in k + 1 + 1 .. N + 1
          BY <2>1, <3>3
        <4>2. f[j] = Decode(bytes, f, j)
          BY <2>2, <4>1
        <4> QED BY <2>3, <3>1, <3>3, <4>2
      <3> QED BY <3>2, <3>3
    <2> HIDE DEF From
    <2> QED BY <2>1, <2>5
  <1>3. N + 1 \in from
    <2> HIDE DEF from
    <2> QED BY <1>1, <1>2, Inductive
  <1>4. PICK f : From(f, 0)
    <2>1. N + 1 <= N + 1 /\ N + 1 - (N + 1) = 0
      OBVIOUS
    <2> HIDE DEF From
    <2> QED BY <1>3, <2>1
  <1> DEFINE g == [j \in 1 .. N + 1 |-> f[j]]
  <1>5. \A j \in 1 .. N + 1 : g[j] = f[j]
    OBVIOUS
  <1>6. g = [j \in 1 .. N + 1 |-> g[j]]
    OBVIOUS
  <1> HIDE DEF g
  <1>7. \A j \in 1 .. N + 1 : g[j] = Decode(bytes, g, j) /\ g[j] \in Texts
    <2> SUFFICES ASSUME NEW j \in 1 .. N + 1
                 PROVE g[j] = Decode(bytes, g, j) /\ g[j] \in Texts
      OBVIOUS
    <2>1. g[j] = Decode(bytes, f, j)
      BY <1>4, <1>5
    <2>2. Decode(bytes, f, j) = Decode(bytes, g, j) /\ Decode(bytes, f, j) \in Texts
      <3>1. j \in Nat \ {0} /\ \A i \in j + 1 .. N + 1 : f[i] = g[i] /\ f[i] \in Texts
        BY <1>4, <1>5
      <3> QED BY <3>1, DecodeLooks
    <2> QED BY <2>1, <2>2
  <1>8. [j \in 1 .. N + 1 |-> g[j]] = [j \in 1 .. N + 1 |-> Decode(bytes, g, j)]
    BY <1>7
  <1> QED BY <1>6, <1>7, <1>8 DEF Decodes

\* Whichever it is.
LEMMA DecodesTyped ==
    ASSUME NEW bytes \in Texts, NEW N \in Nat, N = Len(bytes), NEW f,
           \A i \in 1 .. N + 1 : f[i] = Decode(bytes, f, i)
    PROVE  Decodes(bytes, f)
  <1> DEFINE typed == {n \in Nat : \A j \in 1 .. N + 1 : j + n > N + 1 => f[j] \in Texts}
  <1>1. 0 \in typed
    OBVIOUS
  <1>2. \A n \in Nat : n \in typed => n + 1 \in typed
    <2> SUFFICES ASSUME NEW n \in Nat, n \in typed PROVE n + 1 \in typed
      OBVIOUS
    <2>1. ASSUME NEW j \in 1 .. N + 1, j + (n + 1) > N + 1 PROVE f[j] \in Texts
      <3>1. \A i \in j + 1 .. N + 1 : f[i] = f[i] /\ f[i] \in Texts
        BY <2>1
      <3>2. j \in Nat \ {0}
        OBVIOUS
      <3> QED BY <3>1, <3>2, DecodeLooks
    <2>2. n + 1 \in Nat
      OBVIOUS
    <2> QED BY <2>1, <2>2
  <1>3. N + 1 \in typed
    <2> HIDE DEF typed
    <2> QED BY <1>1, <1>2, Inductive
  <1> QED BY <1>3 DEF Decodes

\* So Decoded is the value at 1 of such a function.
LEMMA DecodedIs ==
    ASSUME NEW bytes \in Texts
    PROVE  \E f : Decodes(bytes, f) /\ Decoded(bytes) = f[1]
  <1>1. PICK N \in Nat : N = Len(bytes)
    BY DEF Texts
  <1> DEFINE f == CHOOSE f : f = [i \in 1 .. Len(bytes) + 1 |-> Decode(bytes, f, i)]
  <1>2. f = [i \in 1 .. Len(bytes) + 1 |-> Decode(bytes, f, i)]
    BY <1>1, DecodesFrom
  <1>3. Decoded(bytes) = f[1]
    BY DEF Decoded
  <1> HIDE DEF f
  <1>4. \A i \in 1 .. N + 1 : f[i] = Decode(bytes, f, i)
    BY <1>1, <1>2
  <1> QED BY <1>1, <1>3, <1>4, DecodesTyped

\* Bytes that are cut into a first part, of which what cannot be decoded yet is kept,
\* and the rest: m of the first n are decoded.
Cut(bytes, m, n) ==
    /\ m <= n /\ n <= Len(bytes)
    /\ \/ m = n
       \/ m + 1 = n /\ bytes[n] = "lead"
    /\ \A i \in 1 .. m : bytes[i] = "lead" => i < m
IsTail(rest, bytes, m) ==
    Len(rest) + m = Len(bytes) /\ \A j \in 1 .. Len(rest) : rest[j] = bytes[m + j]
\* Decoding both parts one after the other is decoding the whole.
LEMMA DecodedParts ==
    ASSUME NEW bytes \in Texts, NEW m \in Nat, NEW n \in Nat, Cut(bytes, m, n),
           NEW first \in Texts, Len(first) = n, Extends(bytes, first),
           NEW rest \in Texts, IsTail(rest, bytes, m)
    PROVE  Decoded(bytes) = Decoded(first) \o Decoded(rest)
  <1>0. /\ \A i \in 1 .. n : first[i] = bytes[i]
        /\ Len(rest) + m = Len(bytes) /\ \A j \in 1 .. Len(rest) : rest[j] = bytes[m + j]
    BY DEF Extends, IsTail
  <1>1. PICK N \in Nat, k \in Nat : N = Len(bytes) /\ k = Len(rest) /\ N = m + k
    <2>1. Len(bytes) \in Nat /\ Len(rest) \in Nat /\ Len(bytes) = m + Len(rest)
      BY <1>0 DEF Texts
    <2> QED BY <2>1
  <1>2. PICK f : Decodes(bytes, f) /\ Decoded(bytes) = f[1]
    BY DecodedIs
  <1>3. PICK g : Decodes(first, g) /\ Decoded(first) = g[1]
    BY DecodedIs
  <1>4. PICK h : Decodes(rest, h) /\ Decoded(rest) = h[1]
    BY DecodedIs
  <1>5. /\ m <= n /\ n <= N /\ (m = n \/ (m + 1 = n /\ bytes[n] = "lead"))
        /\ \A i \in 1 .. m : bytes[i] = "lead" => i < m
    BY <1>1 DEF Cut
  <1>6. \A i \in 1 .. N + 1 : f[i] = Decode(bytes, f, i) /\ f[i] \in Texts
    BY <1>1, <1>2 DEF Decodes
  <1>7. \A i \in 1 .. n + 1 : g[i] = Decode(first, g, i) /\ g[i] \in Texts
    BY <1>3 DEF Decodes
  <1>8. \A i \in 1 .. k + 1 : h[i] = Decode(rest, h, i) /\ h[i] \in Texts
    BY <1>1, <1>4 DEF Decodes
  <1>9. \A j \in 1 .. k + 1 : f[m + j] = h[j]
    <2> DEFINE same == {q \in Nat : \A j \in 1 .. k + 1 : j + q > k => f[m + j] = h[j]}
    <2>1. 0 \in same
      <3> SUFFICES ASSUME NEW j \in 1 .. k + 1, j + 0 > k PROVE f[m + j] = h[j]
        OBVIOUS
      <3>1. j = k + 1 /\ m + j \in 1 .. N + 1 /\ m + j > Len(bytes) /\ j > Len(rest)
        BY <1>1
      <3>2. f[m + j] = <<>> /\ h[j] = <<>>
        BY <1>6, <1>8, <3>1 DEF Decode
      <3> QED BY <3>2
    <2>2. \A q \in Nat : q \in same => q + 1 \in same
      <3> SUFFICES ASSUME NEW q \in Nat, q \in same PROVE q + 1 \in same
        OBVIOUS
      <3>0. q + 1 \in Nat
        OBVIOUS
      <3> SUFFICES ASSUME NEW j \in 1 .. k + 1, j + (q + 1) > k PROVE f[m + j] = h[j]
        BY <3>0
      <3>1. CASE j = k + 1
        BY <2>1, <3>1
      <3>2. CASE j <= k
        <4>1. PICK a \in 1 .. N : a = m + j
          <5>1. m + j \in 1 .. N
            BY <1>1, <3>2
          <5> QED BY <5>1
        <4>2. /\ ~(a > Len(bytes)) /\ ~(j > Len(rest)) /\ rest[j] = bytes[a]
              /\ (a = Len(bytes) <=> j = Len(rest)) /\ a \in 1 .. N + 1
          <5>1. j \in 1 .. Len(rest)
            BY <1>1, <3>2
          <5>2. rest[j] = bytes[a]
            BY <1>0, <4>1, <5>1
          <5>3. j <= Len(rest) /\ a <= Len(bytes) /\ (a = Len(bytes) <=> j = Len(rest))
            <6>1. j \in Nat /\ j <= k /\ a <= N /\ a \in Nat
              BY <3>2
            <6>2. a = m + j /\ N = m + k
              BY <1>1, <4>1
            <6>3. a = N <=> j = k
              BY <6>1, <6>2
            <6> QED BY <1>1, <6>1, <6>3
          <5>4. ~(a > Len(bytes)) /\ ~(j > Len(rest)) /\ a \in 1 .. N + 1
            BY <1>1, <4>1, <5>3
          <5> QED BY <5>2, <5>3, <5>4
        <4>3. f[a] = Decode(bytes, f, a) /\ h[j] = Decode(rest, h, j)
          BY <1>6, <1>8, <4>2
        <4>4. f[a + 1] = h[j + 1]
          <5>1. j + 1 \in 1 .. k + 1 /\ (j + 1) + q > k /\ m + (j + 1) = a + 1
            BY <3>2, <4>1
          <5>2. f[m + (j + 1)] = h[j + 1]
            BY <5>1
          <5> QED BY <5>1, <5>2
        <4>5. a # Len(bytes) => f[a + 2] = h[j + 2]
          <5> SUFFICES ASSUME a # Len(bytes) PROVE f[a + 2] = h[j + 2]
            OBVIOUS
          <5>1. j + 2 \in 1 .. k + 1 /\ (j + 2) + q > k /\ m + (j + 2) = a + 2
            BY <1>1, <3>2, <4>1, <4>2
          <5>2. f[m + (j + 2)] = h[j + 2]
            BY <5>1
          <5> QED BY <5>1, <5>2
        <4>6. f[a] = h[j]
          BY <4>2, <4>3, <4>4, <4>5 DEF Decode
        <4> QED BY <4>1, <4>6
      <3> QED BY <3>1, <3>2
    <2>3. k \in same
      <3> HIDE DEF same
      <3> QED BY <2>1, <2>2, Inductive
    <2> QED BY <2>3
  <1>10. PICK tail \in Texts : tail = f[m + 1] /\ tail = h[1]
    <2>1. 1 \in 1 .. k + 1 /\ m + 1 \in 1 .. N + 1
      BY <1>1
    <2> QED BY <1>6, <1>9, <2>1
  <1>11. \A i \in 1 .. m + 1 : f[i] = g[i] \o tail
    <2> DEFINE joins == {q \in Nat : \A i \in 1 .. m + 1 : i + q > m => f[i] = g[i] \o tail}
    <2>1. 0 \in joins
      <3> SUFFICES ASSUME NEW i \in 1 .. m + 1, i + 0 > m PROVE f[i] = g[i] \o tail
        OBVIOUS
      <3>1. i = m + 1 /\ i \in 1 .. n + 1
        BY <1>5
      <3>2. g[i] = Decode(first, g, i)
        BY <1>7, <3>1
      <3>3. g[i] = <<>>
        <4>1. CASE m = n
          <5>1. i > Len(first)
            BY <3>1, <4>1
          <5> QED BY <3>2, <5>1 DEF Decode
        <4>2. CASE m + 1 = n /\ bytes[n] = "lead"
          <5>1. i = Len(first) /\ ~(i > Len(first)) /\ first[i] = "lead"
            BY <1>0, <3>1, <4>2
          <5> QED BY <3>2, <5>1 DEF Decode
        <4> QED BY <1>5, <4>1, <4>2
      <3>4. <<>> \o tail = tail
        BY DEF Texts
      <3> QED BY <1>10, <3>1, <3>3, <3>4
    <2>2. \A q \in Nat : q \in joins => q + 1 \in joins
      <3> SUFFICES ASSUME NEW q \in Nat, q \in joins PROVE q + 1 \in joins
        OBVIOUS
      <3>0. q + 1 \in Nat
        OBVIOUS
      <3> SUFFICES ASSUME NEW i \in 1 .. m + 1, i + (q + 1) > m PROVE f[i] = g[i] \o tail
        BY <3>0
      <3>1. CASE i = m + 1
        BY <2>1, <3>1
      <3>2. CASE i <= m
        <4>1. /\ i \in 1 .. N + 1 /\ i \in 1 .. n + 1 /\ ~(i > Len(bytes)) /\ ~(i > Len(first))
              /\ i \in 1 .. m /\ i \in 1 .. n /\ i \in 1 .. N
          BY <1>1, <1>5, <3>2
        <4>2. f[i] = Decode(bytes, f, i) /\ g[i] = Decode(first, g, i) /\ first[i] = bytes[i]
          BY <1>0, <1>6, <1>7, <4>1
        <4>3. CASE bytes[i] # "lead"
          <5>1. i + 1 \in 1 .. m + 1 /\ (i + 1) + q > m /\ i + 1 \in 1 .. n + 1
            BY <1>5, <3>2
          <5>2. f[i + 1] = g[i + 1] \o tail
            BY <5>1
          <5>3. PICK c \in Chars, x \in Texts : c = bytes[i] /\ x = g[i + 1]
            <6>1. bytes[i] \in Chars
              <7>1. i \in 1 .. Len(bytes)
                BY <1>1, <4>1
              <7> QED BY <7>1 DEF Texts
            <6> QED BY <1>7, <5>1, <6>1
          <5>4. f[i] = <<c>> \o (x \o tail) /\ g[i] = <<c>> \o x
            BY <4>1, <4>2, <4>3, <5>2, <5>3 DEF Decode
          <5>5. <<c>> \in Seq(Chars) /\ x \in Seq(Chars) /\ tail \in Seq(Chars)
            BY DEF Texts
          <5>6. <<c>> \o (x \o tail) = (<<c>> \o x) \o tail
            BY <5>5, Associative
          <5> QED BY <5>4, <5>6
        <4>4. CASE bytes[i] = "lead"
          <5>1. i < m
            BY <1>5, <4>1, <4>4
          <5>2. i + 2 \in 1 .. m + 1 /\ (i + 2) + q > m /\ i + 2 \in 1 .. n + 1
            BY <1>5, <5>1
          <5>3. f[i + 2] = g[i + 2] \o tail
            BY <5>2
          <5>4. PICK c \in Chars, x \in Texts : c = "wide" /\ x = g[i + 2]
            <6>1. "wide" \in Chars
              BY DEF Chars
            <6> QED BY <1>7, <5>2, <6>1
          <5>5. f[i] = <<c>> \o (x \o tail) /\ g[i] = <<c>> \o x
            <6>1. i # Len(bytes) /\ i # Len(first)
              BY <1>1, <1>5, <5>1
            <6>2. f[i] = <<"wide">> \o f[i + 2] /\ g[i] = <<"wide">> \o g[i + 2]
              BY <4>1, <4>2, <4>4, <6>1, Zenon DEF Decode
            <6> QED BY <5>3, <5>4, <6>2
          <5>6. <<c>> \in Seq(Chars) /\ x \in Seq(Chars) /\ tail \in Seq(Chars)
            BY DEF Texts
          <5>7. <<c>> \o (x \o tail) = (<<c>> \o x) \o tail
            BY <5>6, Associative
          <5> QED BY <5>5, <5>7
        <4> QED BY <4>3, <4>4
      <3> QED BY <3>1, <3>2
    <2>3. m \in joins
      <3> HIDE DEF joins
      <3> QED BY <2>1, <2>2, Inductive
    <2> QED BY <2>3
  <1>12. f[1] = g[1] \o tail
    <2>1. 1 \in 1 .. m + 1
      OBVIOUS
    <2> QED BY <1>11, <2>1
  <1> QED BY <1>2, <1>3, <1>4, <1>10, <1>12

\* What is decoded is a text.
LEMMA DecodedTexts ==
    ASSUME NEW bytes \in Texts
    PROVE  Decoded(bytes) \in Texts
  <1>1. PICK f : Decodes(bytes, f) /\ Decoded(bytes) = f[1]
    BY DecodedIs
  <1>2. 1 \in 1 .. Len(bytes) + 1
    BY DEF Texts
  <1> QED BY <1>1, <1>2 DEF Decodes

\* What is kept of a last character, byte by byte.
EndsCut(bytes) == Len(bytes) > 0 /\ bytes[Len(bytes)] = "lead"
\* Only a last byte that starts a character is kept.
LEMMA KeptIs ==
    ASSUME NEW bytes \in Texts
    PROVE  /\ EndsCut(bytes) => Kept(bytes) = <<"lead">>
           /\ ~EndsCut(bytes) => Kept(bytes) = <<>>
  <1>1. PICK n \in Nat : n = Len(bytes) /\ (bytes # <<>> <=> n > 0)
    BY DEF Texts
  <1> QED BY <1>1 DEF Kept, EndsCut, Last

\* The output between two places of the stream.
Between(s, a, e) == SubSeq(s, a + 1, e)
\* It is a text, with the bytes of the stream.
LEMMA BetweenIs ==
    ASSUME NEW s \in Texts, NEW a \in Nat, NEW e \in Nat, a <= e, e <= Len(s)
    PROVE  /\ Between(s, a, e) \in Texts /\ Len(Between(s, a, e)) + a = e
           /\ \A q \in Nat \ {0} : q + a <= e => Between(s, a, e)[q] = s[a + q]
  <1>1. PICK m \in Nat : a + m = e
    <2>1. e - a \in Nat /\ a + (e - a) = e
      OBVIOUS
    <2> QED BY <2>1
  <1>2. PICK b \in Nat \ {0} : b = a + 1
    OBVIOUS
  <1>3. b + m <= Len(s) + 1 /\ e \in Int /\ e = b + m - 1
    <2>1. Len(s) \in Nat
      BY DEF Texts
    <2> QED BY <1>1, <1>2, <2>1
  <1>4. /\ SubSeq(s, b, e) \in Texts /\ Len(SubSeq(s, b, e)) = m
        /\ \A q \in 1 .. m : SubSeq(s, b, e)[q] = s[b + q - 1]
    BY <1>3, SliceIs
  <1>5. PICK x \in Texts : x = Between(s, a, e) /\ Len(x) = m /\ \A q \in 1 .. m : x[q] = s[b + q - 1]
    BY <1>2, <1>4 DEF Between
  <1>6. ASSUME NEW q \in Nat \ {0}, q + a <= e PROVE x[q] = s[a + q]
    <2>1. q \in 1 .. m /\ b + q - 1 = a + q
      BY <1>1, <1>2, <1>6
    <2> QED BY <1>5, <2>1
  <1>7. Len(x) + a = e
    BY <1>1, <1>5
  <1> QED BY <1>5, <1>6, <1>7

\* What a stream is.
LEMMA StreamIs ==
    ASSUME NEW s \in Streams
    PROVE  s \in Texts /\ \A i \in 1 .. Len(s) - 1 : s[i] = "lead" => s[i + 1] # "lead"
  <1>1. /\ s \in Seq(STRING)
        /\ \A i \in 1 .. Len(s) - 1 : s[i] = "lead" => s[i + 1] = "continuation"
    BY StreamAssumption
  <1>2. s \in Texts
    BY <1>1, SeqWider DEF Texts, Chars
  <1> QED BY <1>1, <1>2

\* The text of what was received and of what comes next: the decoder has kept what is
\* to come before that.
Continues(s, a, r, e, bytes) ==
    /\ Decoded(Between(s, a, e)) = Decoded(Between(s, a, r)) \o Decoded(bytes)
    /\ Kept(Between(s, a, e)) = Kept(bytes)
\* The decoder carries on where it was, if it has kept what it was to keep.
LEMMA DecodedMore ==
    ASSUME NEW s \in Streams, NEW a \in Nat, NEW r \in Nat, NEW e \in Nat,
           a <= r, r <= e, e <= Len(s),
           NEW bytes, bytes = Kept(Between(s, a, r)) \o Between(s, r, e)
    PROVE  bytes \in Texts /\ Continues(s, a, r, e, bytes)
  <1>1. s \in Texts /\ \A i \in 1 .. Len(s) - 1 : s[i] = "lead" => s[i + 1] # "lead"
    BY StreamIs
  <1>2. PICK n \in Nat, N \in Nat, k \in Nat, L \in Nat :
            a + n = r /\ r + k = e /\ a + N = e /\ n + k = N /\ L = Len(s)
    <2>1. r - a \in Nat /\ e - a \in Nat /\ e - r \in Nat /\ Len(s) \in Nat
      BY <1>1 DEF Texts
    <2>2. a + (r - a) = r /\ r + (e - r) = e /\ a + (e - a) = e /\ (r - a) + (e - r) = e - a
      OBVIOUS
    <2> QED BY <2>1, <2>2
  <1>3. PICK first \in Texts : /\ first = Between(s, a, r) /\ Len(first) = n
                               /\ \A q \in 1 .. n : first[q] = s[a + q]
    <2>1. PICK x \in Texts : /\ x = Between(s, a, r) /\ Len(x) + a = r
                             /\ \A q \in Nat \ {0} : q + a <= r => x[q] = s[a + q]
      <3>1. r <= Len(s)
        BY <1>2
      <3> QED BY <1>1, <3>1, BetweenIs
    <2>2. Len(x) = n
      BY <1>2, <2>1 DEF Texts
    <2>3. \A q \in 1 .. n : q \in Nat \ {0} /\ q + a <= r
      BY <1>2
    <2> QED BY <2>1, <2>2, <2>3
  <1>4. PICK next \in Texts : /\ next = Between(s, r, e) /\ Len(next) = k
                              /\ \A q \in 1 .. k : next[q] = s[r + q]
    <2>1. PICK x \in Texts : /\ x = Between(s, r, e) /\ Len(x) + r = e
                             /\ \A q \in Nat \ {0} : q + r <= e => x[q] = s[r + q]
      BY <1>1, BetweenIs
    <2>2. Len(x) = k
      BY <1>2, <2>1 DEF Texts
    <2>3. \A q \in 1 .. k : q \in Nat \ {0} /\ q + r <= e
      BY <1>2
    <2> QED BY <2>1, <2>2, <2>3
  <1>5. PICK whole \in Texts : /\ whole = Between(s, a, e) /\ Len(whole) = N
                               /\ \A q \in 1 .. N : whole[q] = s[a + q]
    <2>1. PICK x \in Texts : /\ x = Between(s, a, e) /\ Len(x) + a = e
                             /\ \A q \in Nat \ {0} : q + a <= e => x[q] = s[a + q]
      <3>1. a <= e
        OBVIOUS
      <3> QED BY <1>1, <3>1, BetweenIs
    <2>2. Len(x) = N
      BY <1>2, <2>1 DEF Texts
    <2>3. \A q \in 1 .. N : q \in Nat \ {0} /\ q + a <= e
      BY <1>2
    <2> QED BY <2>1, <2>2, <2>3
  <1>6. \A q \in 1 .. n : first[q] = whole[q]
    <2>1. \A q \in 1 .. n : q \in 1 .. N
      BY <1>2
    <2> QED BY <1>3, <1>5, <2>1
  <1>7. \A q \in 1 .. k : next[q] = whole[n + q]
    <2> SUFFICES ASSUME NEW q \in 1 .. k PROVE next[q] = whole[n + q]
      OBVIOUS
    <2>1. n + q \in 1 .. N /\ a + (n + q) = r + q
      BY <1>2
    <2>2. whole[n + q] = s[a + (n + q)]
      BY <1>5, <2>1
    <2> QED BY <1>4, <2>1, <2>2
  <1>8. \A i \in 1 .. N - 1 : whole[i] = "lead" => whole[i + 1] # "lead"
    <2> SUFFICES ASSUME NEW i \in 1 .. N - 1, whole[i] = "lead" PROVE whole[i + 1] # "lead"
      OBVIOUS
    <2>1. i \in 1 .. N /\ i + 1 \in 1 .. N /\ a + i \in 1 .. Len(s) - 1 /\ a + (i + 1) = (a + i) + 1
      BY <1>2
    <2>2. whole[i] = s[a + i] /\ whole[i + 1] = s[a + (i + 1)]
      BY <1>5, <2>1
    <2> QED BY <1>1, <2>1, <2>2
  <1>9. Len(first) = n /\ Extends(whole, first)
    <2>1. Len(first) <= Len(whole)
      BY <1>2, <1>3, <1>5
    <2> QED BY <1>3, <1>6, <2>1 DEF Extends
  <1>10. CASE EndsCut(first)
    <2>1. PICK m \in Nat : m + 1 = n
      <3>1. n > 0
        BY <1>3, <1>10 DEF EndsCut
      <3>2. n - 1 \in Nat /\ n - 1 + 1 = n
        BY <3>1
      <3> QED BY <3>2
    <2>2. whole[n] = "lead" /\ n \in 1 .. n
      BY <1>3, <1>6, <1>10, <2>1 DEF EndsCut
    <2>3. PICK w \in Texts : w = <<"lead">> /\ Len(w) = 1 /\ w[1] = "lead"
      <3>1. "lead" \in Chars
        BY DEF Chars
      <3>2. <<"lead">> \in Seq(Chars) /\ Len(<<"lead">>) = 1 /\ <<"lead">>[1] = "lead"
        BY <3>1
      <3> QED BY <3>2 DEF Texts
    <2>4. PICK rest \in Texts : rest = w \o next /\ Followed(rest, w, next)
      BY FollowedIs
    <2>5. Len(rest) = k + 1 /\ rest[1] = "lead" /\ \A q \in 1 .. k : rest[1 + q] = next[q]
      <3>1. Len(rest) = 1 + k
        BY <1>4, <2>3, <2>4 DEF Followed
      <3>2. 1 \in 1 .. Len(w)
        BY <2>3
      <3>3. rest[1] = w[1] /\ \A q \in 1 .. k : rest[1 + q] = next[q]
        BY <1>4, <2>3, <2>4, <3>2 DEF Followed
      <3> QED BY <2>3, <3>1, <3>3
    <2>6. bytes = rest
      BY <1>3, <1>4, <1>10, <2>3, <2>4, KeptIs
    <2>7. \A j \in 1 .. Len(rest) : rest[j] = whole[m + j]
      <3> SUFFICES ASSUME NEW j \in 1 .. k + 1 PROVE rest[j] = whole[m + j]
        BY <2>5
      <3>1. CASE j = 1
        BY <2>1, <2>2, <2>5, <3>1
      <3>2. CASE j # 1
        <4>1. PICK q \in 1 .. k : j = 1 + q
          <5>1. j - 1 \in 1 .. k /\ j = 1 + (j - 1)
            BY <3>2
          <5> QED BY <5>1
        <4>2. m + j = n + q
          BY <2>1, <4>1
        <4> QED BY <1>7, <2>5, <4>1, <4>2
      <3> QED BY <3>1, <3>2
    <2>8. Cut(whole, m, n)
      <3>1. ASSUME NEW i \in 1 .. m, whole[i] = "lead" PROVE i < m
        <4>1. i \in 1 .. N - 1 /\ whole[i + 1] # "lead"
          <5>1. i \in 1 .. N - 1
            BY <1>2, <2>1
          <5> QED BY <1>8, <3>1, <5>1
        <4>2. i # m
          BY <2>1, <2>2, <4>1
        <4> QED BY <4>2
      <3>2. m <= n /\ n <= Len(whole)
        BY <1>2, <1>5, <2>1
      <3> QED BY <2>1, <2>2, <3>1, <3>2 DEF Cut
    <2>9. IsTail(rest, whole, m)
      <3>1. Len(rest) + m = N
        BY <1>2, <2>1, <2>5
      <3> QED BY <1>5, <2>7, <3>1 DEF IsTail
    <2>10. Decoded(whole) = Decoded(first) \o Decoded(rest)
      BY <1>9, <2>8, <2>9, DecodedParts
    <2>11. Kept(whole) = Kept(rest)
      <3>1. whole[N] = rest[k + 1] /\ N > 0 /\ k + 1 > 0
        <4>1. k + 1 \in 1 .. Len(rest) /\ m + (k + 1) = N
          BY <1>2, <2>1, <2>5
        <4>2. rest[k + 1] = whole[m + (k + 1)]
          BY <2>7, <4>1
        <4>3. N > 0 /\ k + 1 > 0
          BY <1>2, <2>1
        <4> QED BY <4>1, <4>2, <4>3
      <3>2. EndsCut(whole) <=> EndsCut(rest)
        BY <1>5, <2>5, <3>1 DEF EndsCut
      <3> QED BY <3>2, KeptIs
    <2> QED BY <1>3, <1>5, <2>6, <2>10, <2>11 DEF Continues
  <1>11. CASE ~EndsCut(first)
    <2>1. bytes = next
      <3>1. <<>> \o next = next
        BY DEF Texts
      <3> QED BY <1>3, <1>4, <1>11, <3>1, KeptIs
    <2>2. Cut(whole, n, n)
      <3>1. ASSUME NEW i \in 1 .. n, whole[i] = "lead" PROVE i < n
        <4>1. first[i] = "lead"
          BY <1>6, <3>1
        <4>2. i # n
          BY <1>3, <1>11, <4>1 DEF EndsCut
        <4> QED BY <4>2
      <3>2. n <= n /\ n <= Len(whole)
        <4>1. n <= N
          BY <1>2
        <4> QED BY <1>5, <4>1
      <3>3. \A i \in 1 .. n : whole[i] = "lead" => i < n
        BY <3>1
      <3> QED BY <3>2, <3>3 DEF Cut
    <2>3. IsTail(next, whole, n)
      <3>1. Len(next) + n = N
        BY <1>2, <1>4
      <3> QED BY <1>4, <1>5, <1>7, <3>1 DEF IsTail
    <2>4. Decoded(whole) = Decoded(first) \o Decoded(next)
      BY <1>9, <2>2, <2>3, DecodedParts
    <2>5. Kept(whole) = Kept(next)
      <3>1. CASE k = 0
        <4>1. N = n /\ Len(next) = 0
          BY <1>2, <1>4, <3>1
        <4>2. ~EndsCut(next)
          BY <4>1 DEF EndsCut
        <4>3. ~EndsCut(whole)
          <5> SUFFICES ASSUME EndsCut(whole) PROVE FALSE
            OBVIOUS
          <5>1. n > 0 /\ whole[n] = "lead"
            BY <1>5, <4>1 DEF EndsCut
          <5>2. n \in 1 .. n
            BY <5>1
          <5> QED BY <1>3, <1>6, <1>11, <5>1, <5>2 DEF EndsCut
        <4> QED BY <4>2, <4>3, KeptIs
      <3>2. CASE k # 0
        <4>1. k \in 1 .. k /\ n + k = N /\ k > 0 /\ N > 0
          BY <1>2, <3>2
        <4>2. next[k] = whole[N]
          BY <1>7, <4>1
        <4>3. EndsCut(whole) <=> EndsCut(next)
          BY <1>4, <1>5, <4>1, <4>2 DEF EndsCut
        <4> QED BY <4>3, KeptIs
      <3> QED BY <3>1, <3>2
    <2> QED BY <1>3, <1>4, <1>5, <2>1, <2>4, <2>5 DEF Continues
  <1> QED BY <1>10, <1>11

-----------------------------------------------------------------------------
(***************************************************************************)
(* The state of the page: the decoder has kept what is left of the output   *)
(* since the terminal was reset, and what the downloader has made of its    *)
(* text, with what is shown, is right.                                      *)
(***************************************************************************)
OutputText == Decoded(Between(stream, base, received))
Downloader(out) == [partial |-> partial, file |-> file, out |-> out, files |-> files]
PageInv ==
    /\ stream \in Streams /\ base \in Nat /\ received \in Nat
    /\ base <= received /\ received <= Len(stream)
    /\ partial \in Texts /\ file \in Texts /\ shown \in Texts /\ files \in Seq(Texts)
CarriedInv == carried = Kept(Between(stream, base, received))
ParsedInv == clean /\ Apart(OutputText) => Parsed(OutputText, Downloader(shown))
TerminalInv == PageInv /\ CarriedInv /\ ParsedInv

\* Nothing was received since.
LEMMA NothingYet ==
    ASSUME NEW s, NEW a \in Nat
    PROVE  Between(s, a, a) = <<>> /\ Decoded(<<>>) = <<>> /\ Kept(<<>>) = <<>>
  <1>1. Between(s, a, a) = <<>>
    BY DEF Between
  <1>2. <<>> \in Texts /\ Len(<<>>) = 0
    BY DEF Texts
  <1>3. PICK f : Decodes(<<>>, f) /\ Decoded(<<>>) = f[1]
    BY <1>2, DecodedIs
  <1>4. f[1] = Decode(<<>>, f, 1)
    <2>1. 1 \in 1 .. Len(<<>>) + 1
      BY <1>2
    <2> QED BY <1>3, <2>1 DEF Decodes
  <1>5. Decode(<<>>, f, 1) = <<>>
    BY <1>2 DEF Decode
  <1>6. Kept(<<>>) = <<>>
    BY <1>2, KeptIs DEF EndsCut
  <1> QED BY <1>1, <1>3, <1>4, <1>5, <1>6

\* The page is loaded in such a state.
LEMMA InitTerminal == Init => TerminalInv
  <1> SUFFICES ASSUME Init PROVE TerminalInv
    OBVIOUS
  <1>1. Between(stream, base, received) = <<>> /\ Decoded(<<>>) = <<>> /\ Kept(<<>>) = <<>>
    BY NothingYet DEF Init
  <1>2. PageInv
    <2>1. stream \in Texts /\ Len(stream) \in Nat
      BY StreamIs DEF Init, Texts
    <2>2. <<>> \in Texts /\ <<>> \in Seq(Texts)
      BY DEF Texts
    <2> QED BY <2>1, <2>2 DEF Init, PageInv
  <1>3. CarriedInv
    BY <1>1 DEF Init, CarriedInv
  <1>4. ParsedInv
    <2>1. Parsed(<<>>, Downloader(shown))
      BY ParsedNothing DEF Init, Downloader
    <2> QED BY <1>1, <2>1 DEF ParsedInv, OutputText
  <1> QED BY <1>2, <1>3, <1>4 DEF TerminalInv

\* Bytes received: both carry on where they were.
LEMMA ReceiveKeeps ==
    ASSUME TerminalInv, NEW n \in 1 .. Len(stream), ReceiveOutput(n)
    PROVE  TerminalInv'
  <1>1. /\ stream \in Streams /\ base \in Nat /\ received \in Nat
        /\ base <= received /\ received <= Len(stream)
        /\ partial \in Texts /\ file \in Texts /\ shown \in Texts /\ files \in Seq(Texts)
    BY DEF TerminalInv, PageInv
  <1>2. PICK e \in Nat : e = received + n /\ received <= e /\ e <= Len(stream)
    <2>1. stream \in Texts /\ Len(stream) \in Nat
      BY <1>1, StreamIs DEF Texts
    <2>2. received + n \in Nat /\ received <= received + n /\ received + n <= Len(stream)
      BY <1>1, <2>1 DEF ReceiveOutput
    <2> QED BY <2>2
  <1>3. PICK bytes : bytes = Kept(Between(stream, base, received)) \o Between(stream, received, e)
    OBVIOUS
  <1>4. /\ bytes \in Texts /\ Kept(Between(stream, base, e)) = Kept(bytes)
        /\ Decoded(Between(stream, base, e)) = Decoded(Between(stream, base, received)) \o Decoded(bytes)
    <2>1. bytes \in Texts /\ Continues(stream, base, received, e, bytes)
      BY <1>1, <1>2, <1>3, DecodedMore
    <2> QED BY <2>1 DEF Continues
  <1>5. bytes = carried \o SubSeq(stream, received + 1, received + n)
    BY <1>2, <1>3 DEF TerminalInv, CarriedInv, Between
  <1>6. PICK chars \in Texts : chars = Decoded(bytes)
    BY <1>4, DecodedTexts
  <1>7. PICK before \in Downloads : before = Downloader(<<>>)
    <2>1. <<>> \in Texts
      BY DEF Texts
    <2> QED BY <1>1, <2>1 DEF Downloads, Downloader
  <1>8. PICK d \in Downloads : d = Buffered(before, chars)
    BY BufferedIsRight
  <1>9. /\ carried' = Kept(bytes) /\ partial' = d.partial /\ file' = d.file /\ files' = d.files
        /\ shown' = shown \o d.out /\ received' = e
        /\ stream' = stream /\ base' = base /\ clean' = clean
    BY <1>2, <1>5, <1>6, <1>7, <1>8 DEF ReceiveOutput, Downloader
  <1>10. PageInv'
    <2>1. shown \o d.out \in Texts
      BY <1>1 DEF Downloads, Texts
    <2>2. d.partial \in Texts /\ d.file \in Texts /\ d.files \in Seq(Texts)
      BY DEF Downloads
    <2>3. base <= e
      BY <1>1, <1>2
    <2> QED BY <1>1, <1>2, <1>9, <2>1, <2>2, <2>3 DEF PageInv
  <1>11. CarriedInv'
    BY <1>4, <1>9 DEF CarriedInv
  <1>12. ParsedInv'
    <2>1. PICK text \in Texts : text = OutputText
      <3>1. stream \in Texts
        BY <1>1, StreamIs
      <3>2. Between(stream, base, received) \in Texts
        BY <1>1, <3>1, BetweenIs
      <3> QED BY <3>2, DecodedTexts DEF OutputText
    <2>2. PICK whole \in Texts : whole = text \o chars /\ Followed(whole, text, chars)
      BY FollowedIs
    <2>3. OutputText' = whole
      BY <1>4, <1>6, <1>9, <2>1, <2>2 DEF OutputText
    <2> SUFFICES ASSUME clean, Apart(whole) PROVE Parsed(whole, Downloader(shown)')
      BY <1>9, <2>3 DEF ParsedInv, Downloader
    <2>4. Apart(text)
      <3>1. Extends(whole, text)
        <4>1. Len(text) <= Len(whole)
          BY <2>2 DEF Followed, Texts
        <4> QED BY <2>2, <4>1 DEF Followed, Extends
      <3> QED BY <3>1, ApartBefore
    <2>5. Given(before, shown) = Downloader(shown)
      <3>1. shown \o <<>> = shown
        BY <1>1 DEF Texts
      <3> QED BY <1>7, <3>1 DEF Given, Downloader
    <2>6. Parsed(text, Given(before, shown))
      BY <2>1, <2>4, <2>5 DEF TerminalInv, ParsedInv
    <2>7. Parsed(whole, Given(d, shown))
      <3>1. shown \in Texts /\ Apart(text \o chars)
        BY <1>1, <2>2
      <3>2. Parsed(text \o chars, Given(Buffered(before, chars), shown))
        BY <2>6, <3>1, BufferedIsRight
      <3> QED BY <1>8, <2>2, <3>2
    <2>8. Given(d, shown) = Downloader(shown)'
      <3>1. d = [partial |-> d.partial, file |-> d.file, out |-> d.out, files |-> d.files]
        BY DEF Downloads
      <3>2. PICK out : out = shown \o d.out
        OBVIOUS
      <3>3. Given(d, shown) = [d EXCEPT !.out = out]
        BY <3>1, <3>2 DEF Given
      <3>4. Given(d, shown) = [partial |-> d.partial, file |-> d.file, out |-> out, files |-> d.files]
        BY <3>1, <3>3
      <3>5. Downloader(shown)' = [partial |-> partial', file |-> file', out |-> shown', files |-> files']
        BY DEF Downloader
      <3> QED BY <1>9, <3>2, <3>4, <3>5
    <2> QED BY <2>7, <2>8
  <1> QED BY <1>10, <1>11, <1>12 DEF TerminalInv

\* The terminal is reset, and the output goes on at a place of the stream.
LEMMA ResetKeeps ==
    ASSUME TerminalInv, NEW s \in Streams, NEW offset \in Nat, offset <= Len(s),
           stream' = s, received' = offset, Reset(offset)
    PROVE  TerminalInv'
  <1>1. Between(s, offset, offset) = <<>> /\ Decoded(<<>>) = <<>> /\ Kept(<<>>) = <<>>
    BY NothingYet
  <1>2. PageInv'
    <2>1. <<>> \in Texts /\ <<>> \in Seq(Texts)
      BY DEF Texts
    <2> QED BY <2>1 DEF TerminalInv, PageInv, Reset
  <1>3. CarriedInv'
    BY <1>1 DEF CarriedInv, Reset
  <1>4. ParsedInv'
    <2> SUFFICES ASSUME clean' PROVE Parsed(<<>>, Downloader(shown)')
      BY <1>1 DEF ParsedInv, OutputText, Reset
    <2>1. partial' = <<>> /\ file' = <<>> /\ shown' = <<>> /\ files' = <<>>
      BY DEF Reset
    <2>2. PICK d : d = Downloader(shown)'
      OBVIOUS
    <2>3. d.partial = <<>> /\ d.file = <<>> /\ d.out = <<>> /\ d.files = <<>>
      BY <2>1, <2>2 DEF Downloader
    <2> QED BY <2>2, <2>3, ParsedNothing
  <1> QED BY <1>2, <1>3, <1>4 DEF TerminalInv

\* Nothing of it changed.
LEMMA PageUnchanged ==
    ASSUME TerminalInv, UNCHANGED <<stream, base, received, carried, partial, file, files, shown, clean>>
    PROVE  TerminalInv'
  BY DEF TerminalInv, PageInv, CarriedInv, ParsedInv, OutputText, Downloader

\* Every action of the page and of the connection keeps it so.
LEMMA NextTerminal == TerminalInv /\ [Next]_vars => TerminalInv'
  <1> SUFFICES ASSUME TerminalInv, [Next]_vars PROVE TerminalInv'
    OBVIOUS
  <1>1. ASSUME NEW n \in 1 .. Len(stream), ReceiveOutput(n) PROVE TerminalInv'
    BY <1>1, ReceiveKeeps
  <1>2. CASE Drawn
    BY <1>2, PageUnchanged DEF Drawn, fileVars
  <1>3. CASE Disconnect
    BY <1>3, PageUnchanged DEF Disconnect, fileVars
  <1>4. CASE Reconnect
    <2>1. PICK offset \in received .. Len(stream) :
              /\ received' = offset
              /\ IF offset = received THEN UNCHANGED <<carried, fileVars, shown, base, clean>>
                 ELSE stream[offset] # "lead" /\ Reset(offset)
      BY <1>4 DEF Reconnect
    <2>2. stream' = stream
      BY <1>4 DEF Reconnect
    <2>3. CASE offset = received
      BY <2>1, <2>2, <2>3, PageUnchanged DEF fileVars
    <2>4. CASE offset # received
      <3>1. Reset(offset)
        BY <2>1, <2>4
      <3>2. stream \in Streams /\ offset \in Nat /\ offset <= Len(stream)
        BY DEF TerminalInv, PageInv
      <3> QED BY <2>1, <2>2, <3>1, <3>2, ResetKeeps
    <2> QED BY <2>3, <2>4
  <1>5. CASE Replaced
    <2>1. PICK s \in Streams : s = stream'
      BY <1>5 DEF Replaced
    <2>2. received' = 0 /\ Reset(0)
      BY <1>5 DEF Replaced
    <2>3. 0 \in Nat /\ 0 <= Len(s)
      BY StreamIs DEF Texts
    <2> QED BY <2>1, <2>2, <2>3, ResetKeeps
  <1>6. CASE UNCHANGED vars
    BY <1>6, PageUnchanged DEF vars, fileVars
  <1> QED BY <1>1, <1>2, <1>3, <1>4, <1>5, <1>6 DEF Next

\* wetty.ts writes to the terminal what outputDecoder.ts and download.ts made of the
\* output: however it was cut into messages and over however many connections, that
\* is the output's text without the files in it, and the files are whole.
THEOREM TerminalShowsStream == Spec => []ShowsStream
  <1>1. TerminalInv => ShowsStream
    <2> SUFFICES ASSUME TerminalInv, clean, Apart(OutputText)
                 PROVE shown = Split(OutputText).out /\ files = Split(OutputText).files
      BY DEF ShowsStream, OutputText, Between
    <2>1. stream \in Texts /\ base \in Nat /\ received \in Nat /\ base <= received
          /\ received <= Len(stream)
      BY StreamIs DEF TerminalInv, PageInv
    <2>2. OutputText \in Texts
      BY <2>1, BetweenIs, DecodedTexts DEF OutputText
    <2>3. Parsed(OutputText, Downloader(shown))
      BY DEF TerminalInv, ParsedInv
    <2>4. Downloader(shown).out = shown /\ Downloader(shown).files = files
      BY DEF Downloader
    <2> QED BY <2>2, <2>3, <2>4, ParsedIsSplit
  <1> QED BY <1>1, InitTerminal, NextTerminal, PTL DEF Spec

\* The page's count of the writes not drawn is the terminal's; a PAUSE is told on a
\* connection only, above one mark, and taken back in the callback that passes the other.
PauseInv ==
    /\ pending \in Nat /\ pending = drawing
    /\ told = "pause" => connected /\ drawing >= LowWater

\* wetty.ts counts up with every write that has a callback, and down in that callback,
\* over resets and reconnections: so a server that was told to pause is told to go on
\* by a callback that is still to come.
THEOREM TerminalPausesWhileDrawing == Spec => []PausedWhileDrawing
  <1>1. Init => PauseInv
    BY DEF Init, PauseInv
  <1>2. PauseInv /\ [Next]_vars => PauseInv'
    <2> SUFFICES ASSUME PauseInv, [Next]_vars PROVE PauseInv'
      OBVIOUS
    <2> USE DEF PauseInv
    <2>1. ASSUME NEW n \in 1 .. Len(stream), ReceiveOutput(n) PROVE PauseInv'
      <3>1. connected /\ UNCHANGED connected /\ \E text : Write(text)
        BY <2>1 DEF ReceiveOutput
      <3>2. PICK text : Write(text)
        BY <3>1
      <3>3. CASE UNCHANGED <<pending, drawing, told>>
        BY <3>1, <3>3
      <3>4. CASE /\ pending' = pending + 1 /\ drawing' = drawing + 1
                 /\ told' = IF pending' > HighWater THEN "pause" ELSE told
        BY <3>1, <3>4, FlowAssumption
      <3> QED BY <3>2, <3>3, <3>4 DEF Write, flowVars
    <2>2. CASE Drawn
      <3>1. /\ drawing > 0 /\ drawing' = drawing - 1 /\ pending' = pending - 1
            /\ UNCHANGED connected
            /\ told' = IF pending' < LowWater /\ connected THEN "resume" ELSE told
        BY <2>2 DEF Drawn, Resumes
      <3> QED BY <3>1, FlowAssumption
    <2>3. CASE Disconnect
      BY <2>3 DEF Disconnect
    <2>4. CASE Reconnect
      BY <2>4 DEF Reconnect, flowVars
    <2>5. CASE Replaced
      BY <2>5 DEF Replaced, flowVars
    <2>6. CASE UNCHANGED vars
      BY <2>6 DEF vars, flowVars
    <2> QED BY <2>1, <2>2, <2>3, <2>4, <2>5, <2>6 DEF Next
  <1>3. PauseInv => PausedWhileDrawing
    BY DEF PauseInv, PausedWhileDrawing
  <1> QED BY <1>1, <1>2, <1>3, PTL DEF Spec
=============================================================================
