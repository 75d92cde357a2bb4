---------------------------- MODULE StartupProofs -----------------------------
(***************************************************************************)
(* Proofs about Startup.tla, for any number of processes, command lines,    *)
(* files and full disks: what is read from any text and from the one that a *)
(* server writes (config_parse, config_write), whose file is overwritten,   *)
(* what a server that serves knows of the one it has read or made, and what *)
(* the two passes over the command line make of it.                         *)
(***************************************************************************)
EXTENDS Startup, DataLemmas

\* The characters of texts (that a string is in STRING is more than the provers know).
Characters == STRING \cup {"auth", "password", ":", " ", Newline}

\* The loop of config_parse is a function of how many lines were read.
LEMMA ReadUpTo ==
    ASSUME NEW lines, NEW N \in Nat
    PROVE  \E after : after = [n \in 0 .. N |->
               IF n = 0 THEN Initial ELSE ReadLine(after[n - 1], lines[n])]
  <1> DEFINE Reads(f, k) == \A n \in 0 .. k :
                 f[n] = IF n = 0 THEN Initial ELSE ReadLine(f[n - 1], lines[n])
             readable == {k \in Nat : \E f : f = [n \in 0 .. k |-> f[n]] /\ Reads(f, k)}
  <1>1. 0 \in readable
    <2> DEFINE f == [n \in 0 .. 0 |-> Initial]
    <2>1. Reads(f, 0) /\ f = [n \in 0 .. 0 |-> f[n]]
      OBVIOUS
    <2> QED BY <2>1
  <1>2. \A k \in Nat : k \in readable => k + 1 \in readable
    <2> SUFFICES ASSUME NEW k \in Nat, k \in readable PROVE k + 1 \in readable
      OBVIOUS
    <2>1. PICK f : f = [n \in 0 .. k |-> f[n]] /\ Reads(f, k)
      OBVIOUS
    <2> DEFINE g == [n \in 0 .. k + 1 |->
                        IF n = k + 1 THEN ReadLine(f[k], lines[k + 1]) ELSE f[n]]
    <2>2. \A n \in 0 .. k + 1 : g[n] = IF n = k + 1 THEN ReadLine(f[k], lines[k + 1]) ELSE f[n]
      OBVIOUS
    <2>3. g = [n \in 0 .. k + 1 |-> g[n]]
      OBVIOUS
    <2> HIDE DEF g
    <2>4. Reads(g, k + 1)
      <3> SUFFICES ASSUME NEW n \in 0 .. k + 1
                   PROVE g[n] = IF n = 0 THEN Initial ELSE ReadLine(g[n - 1], lines[n])
        OBVIOUS
      <3>1. CASE n = k + 1
        <4>1. g[n] = ReadLine(f[k], lines[n]) /\ g[n - 1] = f[k]
          BY <2>2, <3>1
        <4> QED BY <3>1, <4>1
      <3>2. CASE n \in 0 .. k
        <4>1. g[n] = f[n] /\ (n # 0 => g[n - 1] = f[n - 1])
          BY <2>2, <3>2
        <4> QED BY <2>1, <3>2, <4>1
      <3> QED BY <3>1, <3>2
    <2> HIDE DEF Reads
    <2>5. \E h : h = [n \in 0 .. k + 1 |-> h[n]] /\ Reads(h, k + 1)
      BY <2>3, <2>4
    <2> QED BY <2>5
  <1>3. N \in readable
    <2> HIDE DEF readable
    <2> QED BY <1>1, <1>2, Inductive
  <1>4. PICK f : f = [n \in 0 .. N |-> f[n]] /\ Reads(f, N)
    BY <1>3
  <1>5. [n \in 0 .. N |-> f[n]] =
            [n \in 0 .. N |-> IF n = 0 THEN Initial ELSE ReadLine(f[n - 1], lines[n])]
    BY <1>4
  <1>6. f = [n \in 0 .. N |-> IF n = 0 THEN Initial ELSE ReadLine(f[n - 1], lines[n])]
    BY <1>4, <1>5
  <1> QED BY <1>6

\* So config_parse returns what it has read of the last line, unless no password is
\* among it that is asked for.
LEMMA ParsedIs ==
    ASSUME NEW text \in Seq(Characters)
    PROVE  \E after : LET lines == Parts(text, Newline) IN
              /\ \A n \in 0 .. Len(lines) : after[n] = IF n = 0 THEN Initial ELSE ReadLine(after[n - 1], lines[n])
              /\ Parsed(text) = [after[Len(lines)] EXCEPT !.ok =
                        after[Len(lines)].ok /\ ~LacksPassword(after[Len(lines)])]
  <1> DEFINE lines == Parts(text, Newline)
  <1>1. Len(lines) \in Nat
    BY PartsAreSeq
  <1> DEFINE after == CHOOSE after : after = [n \in 0 .. Len(lines) |->
               IF n = 0 THEN Initial ELSE ReadLine(after[n - 1], lines[n])]
  <1>2. after = [n \in 0 .. Len(lines) |->
               IF n = 0 THEN Initial ELSE ReadLine(after[n - 1], lines[n])]
    <2> HIDE DEF lines
    <2> QED BY <1>1, ReadUpTo
  <1>3. Parsed(text) = [after[Len(lines)] EXCEPT !.ok =
                        after[Len(lines)].ok /\ ~LacksPassword(after[Len(lines)])]
    BY DEF Parsed
  <1> HIDE DEF after
  <1>4. \A n \in 0 .. Len(lines) : after[n] = IF n = 0 THEN Initial ELSE ReadLine(after[n - 1], lines[n])
    <2> HIDE DEF lines
    <2> QED BY <1>2
  <1> QED BY <1>3, <1>4

\* A line that says something about a key, and what the first lines say of it: see Says.
Tells(text, key) == ~IsComment(text) /\ Colon(text) # 0 /\ Key(text) = <<key>>
SaidBy(lines, n, key) ==
    LET saying == {m \in 1 .. n : Tells(lines[m], key)}
    IN  IF saying = {} THEN <<>> ELSE Value(lines[Max(saying)])

\* The last line that says something counts.
LEMMA SaidNext ==
    ASSUME NEW lines, NEW n \in Nat, NEW key
    PROVE  SaidBy(lines, n + 1, key) = IF Tells(lines[n + 1], key) THEN Value(lines[n + 1])
                                       ELSE SaidBy(lines, n, key)
  <1> DEFINE saying(k) == {m \in 1 .. k : Tells(lines[m], key)}
  <1>1. CASE Tells(lines[n + 1], key)
    <2>1. n + 1 \in saying(n + 1) /\ \A x \in saying(n + 1) : x <= n + 1
      BY <1>1
    <2>2. Max(saying(n + 1)) = n + 1
      <3>1. saying(n + 1) \in SUBSET Int
        OBVIOUS
      <3> HIDE DEF saying
      <3> QED BY <2>1, <3>1, MaxIs
    <2>3. SaidBy(lines, n + 1, key) = Value(lines[Max(saying(n + 1))])
      BY <2>1 DEF SaidBy
    <2> QED BY <1>1, <2>2, <2>3
  <1>2. CASE ~Tells(lines[n + 1], key)
    <2>1. saying(n + 1) = saying(n)
      BY <1>2
    <2> QED BY <1>2, <2>1 DEF SaidBy
  <1> QED BY <1>1, <1>2

\* What config_parse has read agrees with what was said so far.
AsSaid(got, lines, n) ==
    /\ got = [ok |-> got.ok, auth |-> got.auth, password |-> got.password]
    /\ got.ok \in BOOLEAN
    /\ got.ok =>
        /\ got.password = SaidBy(lines, n, "password")
        /\ \/ got.auth = "password" /\ SaidBy(lines, n, "auth") \in {<<>>, <<"password">>}
           \/ got.auth = "none" /\ SaidBy(lines, n, "auth") = <<"none">>

\* One line.
LEMMA ReadLineAsSaid ==
    ASSUME NEW lines, NEW n \in Nat, NEW got, AsSaid(got, lines, n)
    PROVE  AsSaid(ReadLine(got, lines[n + 1]), lines, n + 1)
  <1> DEFINE next == ReadLine(got, lines[n + 1])
  <1>1. /\ got = [ok |-> got.ok, auth |-> got.auth, password |-> got.password]
        /\ got.ok \in BOOLEAN
    BY DEF AsSaid
  <1>2. /\ SaidBy(lines, n + 1, "password") = IF Tells(lines[n + 1], "password") THEN Value(lines[n + 1])
                                              ELSE SaidBy(lines, n, "password")
        /\ SaidBy(lines, n + 1, "auth") = IF Tells(lines[n + 1], "auth") THEN Value(lines[n + 1])
                                          ELSE SaidBy(lines, n, "auth")
    BY SaidNext
  <1>3. ~(Tells(lines[n + 1], "auth") /\ Tells(lines[n + 1], "password"))
    BY DEF Tells
  <1>4. CASE ~got.ok
    BY <1>1, <1>4 DEF ReadLine, AsSaid
  <1>5. CASE got.ok /\ ~Tells(lines[n + 1], "auth") /\ ~Tells(lines[n + 1], "password")
    <2>1. next = got \/ next = Error(got)
      BY <1>5 DEF ReadLine, Tells
    <2> HIDE DEF next
    <2> QED BY <1>1, <1>2, <1>5, <2>1 DEF AsSaid, Error, next
  <1>6. CASE got.ok /\ Tells(lines[n + 1], "auth")
    <2> DEFINE value == Value(lines[n + 1])
    <2>1. next = IF value \in {<<"password">>, <<"none">>} THEN [got EXCEPT !.auth = value[1]]
                 ELSE [got EXCEPT !.ok = FALSE]
      BY <1>6 DEF ReadLine, Tells, ReadAuth, Error
    <2>2. SaidBy(lines, n + 1, "auth") = value /\ SaidBy(lines, n + 1, "password") = got.password
      BY <1>2, <1>3, <1>6 DEF AsSaid
    <2> HIDE DEF next, value
    <2>3. CASE value \in {<<"password">>, <<"none">>}
      <3>1. next = [ok |-> TRUE, auth |-> value[1], password |-> got.password]
        BY <1>1, <1>6, <2>1, <2>3
      <3>2. next.ok /\ next.auth = value[1] /\ next.password = got.password
        BY <3>1
      <3>3. got.password = SaidBy(lines, n, "password")
        BY <1>6 DEF AsSaid
      <3>4. \/ next.auth = "password" /\ value = <<"password">>
            \/ next.auth = "none" /\ value = <<"none">>
        BY <2>3, <3>2
      <3>5. AsSaid(next, lines, n + 1)
        BY <1>2, <1>3, <1>6, <2>2, <3>1, <3>2, <3>3, <3>4 DEF AsSaid
      <3> QED BY <3>5 DEF next
    <2>4. CASE value \notin {<<"password">>, <<"none">>}
      <3>1. AsSaid(next, lines, n + 1)
        BY <1>1, <2>1, <2>4 DEF AsSaid
      <3> QED BY <3>1 DEF next
    <2> QED BY <2>3, <2>4
  <1>7. CASE got.ok /\ Tells(lines[n + 1], "password")
    <2> DEFINE value == Value(lines[n + 1])
    <2>1. next = IF Fits(value) THEN [got EXCEPT !.password = value] ELSE [got EXCEPT !.ok = FALSE]
      BY <1>7 DEF ReadLine, Tells, ReadPassword, Error
    <2>2. /\ SaidBy(lines, n + 1, "password") = value
          /\ SaidBy(lines, n + 1, "auth") = SaidBy(lines, n, "auth")
      BY <1>2, <1>3, <1>7
    <2> HIDE DEF next, value
    <2> QED BY <1>1, <1>7, <2>1, <2>2 DEF AsSaid, next
  <1> QED BY <1>1, <1>4, <1>5, <1>6, <1>7

\* config_parse takes a text for what someone who reads all of it does.
THEOREM ParsedAsSaid ==
    ASSUME NEW text \in Seq(Characters), Parsed(text).ok
    PROVE  /\ Parsed(text).password = Says(text, "password")
           /\ Parsed(text).auth \in {"password", "none"}
           /\ Parsed(text).auth = "none" => Says(text, "auth") = <<"none">>
           /\ Parsed(text).auth = "password" => Parsed(text).password # <<>>
  <1> DEFINE lines == Parts(text, Newline)
  <1>1. Len(lines) \in Nat /\ DOMAIN lines = 1 .. Len(lines)
    BY PartsAreSeq
  <1>2. PICK after :
            /\ \A n \in 0 .. Len(lines) :
                  after[n] = IF n = 0 THEN Initial ELSE ReadLine(after[n - 1], lines[n])
            /\ Parsed(text) = [after[Len(lines)] EXCEPT !.ok =
                  after[Len(lines)].ok /\ ~LacksPassword(after[Len(lines)])]
    BY ParsedIs
  <1> DEFINE right == {n \in Nat : n <= Len(lines) => AsSaid(after[n], lines, n)}
  <1>3. \A key : Says(text, key) = SaidBy(lines, Len(lines), key)
    BY <1>1 DEF Says, SaidBy, Tells
  <1> HIDE DEF lines
  <1>4. 0 \in right
    <2>1. after[0] = Initial
      BY <1>1, <1>2
    <2>2. \A key : SaidBy(lines, 0, key) = <<>>
      BY DEF SaidBy
    <2>3. AsSaid(after[0], lines, 0)
      BY <2>1, <2>2 DEF AsSaid, Initial
    <2> QED BY <2>3
  <1>5. \A n \in Nat : n \in right => n + 1 \in right
    <2> SUFFICES ASSUME NEW n \in Nat, n \in right, n + 1 <= Len(lines)
                 PROVE  AsSaid(after[n + 1], lines, n + 1)
      OBVIOUS
    <2>1. after[n + 1] = ReadLine(after[n], lines[n + 1])
      BY <1>1, <1>2
    <2>2. AsSaid(after[n], lines, n)
      BY <1>1
    <2> QED BY <2>1, <2>2, ReadLineAsSaid
  <1>6. AsSaid(after[Len(lines)], lines, Len(lines))
    <2>1. Len(lines) \in right
      <3> HIDE DEF right
      <3> QED BY <1>1, <1>4, <1>5, Inductive
    <2> QED BY <1>1, <2>1
  <1> DEFINE got == after[Len(lines)]
  <1>7. Parsed(text) = [got EXCEPT !.ok = got.ok /\ ~LacksPassword(got)]
    BY <1>2
  <1>8. AsSaid(got, lines, Len(lines))
    BY <1>6
  <1> HIDE DEF got
  <1>9. /\ got.ok /\ ~LacksPassword(got)
        /\ Parsed(text).password = got.password /\ Parsed(text).auth = got.auth
    BY <1>7, <1>8 DEF AsSaid
  <1> QED BY <1>3, <1>8, <1>9 DEF AsSaid, LacksPassword

\* trim and strchr, once it is known what they find.
LEMMA TrimIs ==
    ASSUME NEW S, NEW s \in Seq(S), NEW a \in DOMAIN s, NEW b \in DOMAIN s,
           s[a] \notin Blanks, s[b] \notin Blanks,
           \A i \in DOMAIN s : s[i] \notin Blanks => a <= i /\ i <= b
    PROVE  Trim(s) = SubSeq(s, a, b)
  <1> DEFINE kept == {i \in DOMAIN s : s[i] \notin Blanks}
  <1>1. kept \in SUBSET Int /\ a \in kept /\ b \in kept
    OBVIOUS
  <1>2. \A i \in kept : a <= i /\ i <= b
    OBVIOUS
  <1>3. Min(kept) = a /\ Max(kept) = b
    <2> HIDE DEF kept
    <2> QED BY <1>1, <1>2, MinIs, MaxIs
  <1> QED BY <1>1, <1>3 DEF Trim
\* strchr finds the first.
LEMMA ColonIs ==
    ASSUME NEW S, NEW s \in Seq(S), NEW a \in DOMAIN s, s[a] = ":", \A i \in 1 .. a - 1 : s[i] # ":"
    PROVE  Colon(s) = a
  <1> DEFINE found == {i \in 1 .. Len(s) : s[i] = ":"}
  <1>1. found \in SUBSET Int /\ a \in found /\ \A i \in found : a <= i
    OBVIOUS
  <1>2. Min(found) = a
    <2> HIDE DEF found
    <2> QED BY <1>1, MinIs
  <1> QED BY <1>1, <1>2 DEF Colon, SelectInSeq

\* What a line is read as that has a blank before its value and none in it.
LEMMA LineIs ==
    ASSUME NEW S, NEW l \in Seq(S), NEW k \in Nat, k >= 1, NEW n \in Nat, n = 3 + k, n = Len(l),
           l[1] \notin Blanks, l[3] \in Blanks, Colon(l) = 2,
           NEW v \in Seq(S), k = Len(v), \A i \in 1 .. k : l[3 + i] = v[i],
           \A i \in 1 .. k : v[i] \notin Blanks, \A i \in 1 .. k : v[i] \notin Quotes
    PROVE  Trim(l) # <<>> /\ Trim(l)[1] = l[1] /\ Key(l) = <<l[1]>> /\ Value(l) = v
  <1>2. Key(l) = <<l[1]>>
    <2> DEFINE s == SubSeq(l, 1, 1)
    <2>1. s \in Seq(S)
      OBVIOUS
    <2>2. Len(s) = 1 /\ s[1] = l[1]
      OBVIOUS
    <2>3. Key(l) = Trim(s)
      BY DEF Key
    <2> HIDE DEF s
    <2>4. Trim(s) = SubSeq(s, 1, 1)
      <3>1. 1 \in DOMAIN s /\ s[1] \notin Blanks
        BY <2>1, <2>2
      <3>2. \A i \in DOMAIN s : 1 <= i /\ i <= 1
        BY <2>1, <2>2
      <3> QED BY <2>1, <3>1, <3>2, TrimIs
    <2>5. SubSeq(s, 1, 1) = <<s[1]>>
      <3> DEFINE t == SubSeq(s, 1, 1)
      <3>1. t \in Seq(S)
        BY <2>1, <2>2
      <3>2. Len(t) = 1 /\ t[1] = s[1]
        BY <2>1, <2>2
      <3> HIDE DEF t
      <3>3. t = <<t[1]>>
        BY <3>1, <3>2, OneIs
      <3> QED BY <3>2, <3>3 DEF t
    <2> QED BY <2>2, <2>3, <2>4, <2>5
  <1>3. Trim(l) # <<>> /\ Trim(l)[1] = l[1]
    <2> DEFINE kept == {i \in DOMAIN l : l[i] \notin Blanks}
    <2>1. 1 \in kept /\ kept \in SUBSET Int /\ \A i \in kept : 1 <= i
      OBVIOUS
    <2>2. Min(kept) = 1
      <3> HIDE DEF kept
      <3> QED BY <2>1, MinIs
    <2>3. l[n] \notin Blanks
      <3>1. l[3 + k] = v[k]
        OBVIOUS
      <3> QED BY <3>1
    <2>4. n \in kept /\ \A i \in kept : i <= n
      BY <2>3
    <2>5. Max(kept) = n
      <3> HIDE DEF kept
      <3> QED BY <2>1, <2>4, MaxIs
    <2>6. kept # {}
      BY <2>1
    <2>7. Trim(l) = SubSeq(l, 1, n)
      BY <2>2, <2>5, <2>6 DEF Trim
    <2> QED BY <2>7
  <1>4. Trim(SubSeq(l, 3, n)) = v
    <2> DEFINE s == SubSeq(l, 3, n)
    <2>1. s \in Seq(S)
      OBVIOUS
    <2>2. Len(s) = k + 1 /\ s[1] \in Blanks
      OBVIOUS
    <2>3. \A i \in 2 .. k + 1 : s[i] = l[i + 2]
      OBVIOUS
    <2>4. \A i \in 2 .. k + 1 : s[i] = v[i - 1]
      <3> SUFFICES ASSUME NEW i \in 2 .. k + 1 PROVE s[i] = v[i - 1]
        OBVIOUS
      <3>1. i - 1 \in 1 .. k /\ 3 + (i - 1) = i + 2
        OBVIOUS
      <3> HIDE DEF s
      <3>2. l[i + 2] = v[i - 1]
        BY <3>1
      <3> QED BY <2>3, <3>2
    <2> HIDE DEF s
    <2>5. Trim(s) = SubSeq(s, 2, k + 1)
      <3>1. 2 \in DOMAIN s /\ k + 1 \in DOMAIN s /\ DOMAIN s = 1 .. k + 1
        BY <2>1, <2>2
      <3>2. s[2] = v[1] /\ s[k + 1] = v[k]
        BY <2>4
      <3>3. s[2] \notin Blanks /\ s[k + 1] \notin Blanks
        BY <3>2
      <3>5. \A i \in DOMAIN s : s[i] \notin Blanks => 2 <= i /\ i <= k + 1
        BY <3>1, <2>2
      <3> QED BY <2>1, <3>1, <3>3, <3>5, TrimIs
    <2>6. SubSeq(s, 2, k + 1) \in Seq(S) /\ Len(SubSeq(s, 2, k + 1)) = k
      BY <2>1, <2>2
    <2>7. \A i \in 1 .. k : SubSeq(s, 2, k + 1)[i] = s[i + 1]
      BY <2>1, <2>2
    <2>8. \A i \in 1 .. k : s[i + 1] = v[i]
      BY <2>4
    <2>9. SubSeq(s, 2, k + 1) = v
      <3> DEFINE w == SubSeq(s, 2, k + 1)
      <3>1. w \in Seq(S) /\ Len(w) = Len(v)
        BY <2>6
      <3>2. \A i \in 1 .. Len(v) : w[i] = v[i]
        BY <2>7, <2>8
      <3> HIDE DEF w
      <3>3. w = v
        BY <3>1, <3>2, SeqEqual
      <3> QED BY <3>3 DEF w
    <2> QED BY <2>5, <2>9 DEF s
  <1>5. Unquote(v) = v
    <2>1. v[1] \notin Quotes
      OBVIOUS
    <2> QED BY <2>1 DEF Unquote
  <1>6. Value(l) = v
    BY <1>4, <1>5 DEF Value
  <1> QED BY <1>2, <1>3, <1>6

\* A line's shape, in a text, and what is read in it.
LineShape(text, from, to, v, colon) ==
    /\ from >= 1 /\ Len(v) >= 1 /\ to = from + 2 + Len(v) /\ to <= Len(text)
    /\ text[from] \notin Blanks /\ text[from] # colon /\ text[from + 1] = colon
    /\ text[from + 2] \in Blanks
    /\ \A i \in 1 .. Len(v) : text[from + 2 + i] = v[i]
    /\ \A i \in 1 .. Len(v) : v[i] \notin Blanks /\ v[i] \notin Quotes
IsRead(text, key, v) ==
    /\ Trim(text) # <<>> /\ Trim(text)[1] = key /\ Colon(text) = 2
    /\ Key(text) = <<key>> /\ Value(text) = v

\* It is what a line of this shape is read as, wherever it is in a text.
LEMMA LineAt ==
    ASSUME NEW S, NEW text \in Seq(S), NEW from \in Nat, NEW to \in Nat, NEW v \in Seq(S),
           NEW colon, LineShape(text, from, to, v, colon),
           \A s \in Seq(S) : \A i \in DOMAIN s :
                s[i] = colon /\ (\A j \in 1 .. i - 1 : s[j] # colon) => Colon(s) = i
    PROVE  IsRead(SubSeq(text, from, to), text[from], v)
  <1>0. PICK k \in Nat : k = Len(v)
    OBVIOUS
  <1>20. /\ from >= 1 /\ k >= 1 /\ to = from + 2 + k /\ to <= Len(text)
         /\ text[from] \notin Blanks /\ text[from] # colon /\ text[from + 1] = colon
         /\ text[from + 2] \in Blanks
         /\ \A i \in 1 .. k : text[from + 2 + i] = v[i]
         /\ \A i \in 1 .. k : v[i] \notin Blanks
         /\ \A i \in 1 .. k : v[i] \notin Quotes
    BY <1>0 DEF LineShape
  <1>21. PICK l : l = SubSeq(text, from, to)
    OBVIOUS
  <1>1. PICK n \in Nat : n = 3 + k
    OBVIOUS
  <1>2. PICK m \in Seq(S) : m = l
    <2>1. SubSeq(text, from, to) \in Seq(S)
      BY <1>20
    <2> QED BY <1>21, <2>1
  <1>3. Len(m) = n
    BY <1>1, <1>2, <1>20, <1>21
  <1>4. \A i \in 1 .. n : m[i] = text[from - 1 + i]
    BY <1>1, <1>2, <1>20, <1>21
  <1>5. m[1] = text[from] /\ m[2] = text[from + 1] /\ m[3] = text[from + 2]
    <2>1. 1 \in 1 .. n /\ 2 \in 1 .. n /\ 3 \in 1 .. n
      BY <1>1
    <2>2. from - 1 + 1 = from /\ from - 1 + 2 = from + 1 /\ from - 1 + 3 = from + 2
      OBVIOUS
    <2>3. /\ m[1] = text[from - 1 + 1] /\ m[2] = text[from - 1 + 2]
          /\ m[3] = text[from - 1 + 3]
      BY <1>4, <2>1
    <2> QED BY <2>2, <2>3
  <1>6. \A i \in 1 .. k : m[3 + i] = v[i]
    <2> SUFFICES ASSUME NEW i \in 1 .. k PROVE m[3 + i] = v[i]
      OBVIOUS
    <2>1. 3 + i \in 1 .. n /\ from - 1 + (3 + i) = from + 2 + i
      BY <1>1
    <2>2. m[3 + i] = text[from + 2 + i]
      BY <1>4, <2>1
    <2> QED BY <1>20, <2>2
  <1>7. Colon(m) = 2
    <2>1. 2 \in DOMAIN m /\ \A j \in 1 .. 2 - 1 : m[j] # colon
      BY <1>1, <1>3, <1>5, <1>20
    <2> QED BY <1>5, <1>20, <2>1
  <1>8. m[1] \notin Blanks /\ m[3] \in Blanks /\ n = Len(m)
    BY <1>3, <1>5, <1>20
  <1>9. /\ Trim(m) # <<>> /\ Trim(m)[1] = m[1]
        /\ Key(m) = <<m[1]>> /\ Value(m) = v
    BY <1>0, <1>1, <1>6, <1>7, <1>8, <1>20, LineIs
  <1> QED BY <1>2, <1>5, <1>7, <1>9, <1>21 DEF IsRead

\* A line's first colon is found.
LEMMA ColonFound ==
    \A s \in Seq(Characters) : \A i \in DOMAIN s :
        s[i] = ":" /\ (\A j \in 1 .. i - 1 : s[j] # ":") => Colon(s) = i
  BY ColonIs

\* A generated password is a text of one part, see GeneratedAssumption.
LEMMA GeneratedIs ==
    ASSUME NEW password \in Generated
    PROVE  /\ password \in Seq(Characters) /\ Len(password) \in Nat /\ Len(password) >= 1
           /\ Len(password) < PasswordMax
           /\ \A i \in 1 .. Len(password) :
                /\ password[i] # Newline
                /\ password[i] \notin Blanks
                /\ password[i] \notin Quotes
  <1>1. /\ password \in Seq(STRING) /\ Len(password) \in 1 .. PasswordMax - 1 /\ PasswordMax \in Nat
        /\ Range(password) \cap (Blanks \cup Quotes \cup {Newline, "#", ":", NUL}) = {}
    BY GeneratedAssumption
  <1>2. password \in Seq(Characters)
    <2>1. STRING \subseteq Characters
      BY DEF Characters
    <2> HIDE DEF Characters
    <2> QED BY <1>1, <2>1, SeqMonotonic
  <1>3. \A i \in DOMAIN password : password[i] \in Range(password)
    BY DEF Range
  <1>4. \A x \in Range(password) : x \notin Blanks /\ x \notin Quotes /\ x # Newline
    BY <1>1
  <1>5. DOMAIN password = 1 .. Len(password)
    BY <1>2
  <1>6. Len(password) \in Nat /\ Len(password) >= 1 /\ Len(password) < PasswordMax
    BY <1>1
  <1> QED BY <1>2, <1>3, <1>4, <1>5, <1>6

\* What config_write writes is two lines, and an empty one.
LEMMA WrittenLines ==
    ASSUME NEW password \in Generated
    PROVE  /\ Written(password) \in Seq(Characters)
           /\ \E first, second : /\ Parts(Written(password), Newline) = <<first, second, <<>>>>
                                 /\ IsRead(first, "auth", <<"password">>)
                                 /\ IsRead(second, "password", password)
  <1> USE DEF Characters
  <1>1. PICK a \in Characters, colon \in Characters, blank \in Characters, p \in Characters :
            a = "auth" /\ colon = ":" /\ blank = " " /\ p = "password"
    OBVIOUS
  <1>2. PICK nl \in Characters : nl = Newline
    OBVIOUS
  <1> HIDE DEF Characters
  <1>3. /\ blank \in Blanks /\ a \notin Blanks /\ p \notin Blanks /\ p \notin Quotes
        /\ a # nl /\ colon # nl /\ blank # nl /\ p # nl /\ a # colon /\ p # colon
    BY <1>1, <1>2 DEF Blanks, Quotes, Newline
  <1>4. PICK k \in Nat : k = Len(password) /\ k >= 1
    BY GeneratedIs
  <1>5. /\ password \in Seq(Characters)
        /\ \A i \in 1 .. k : password[i] # nl
        /\ \A i \in 1 .. k : password[i] \notin Blanks
        /\ \A i \in 1 .. k : password[i] \notin Quotes
    BY <1>2, <1>4, GeneratedIs
  <1>6. PICK head \in Seq(Characters) : head = <<a, colon, blank, p, nl, p, colon, blank>>
    BY EightIs
  <1>7. /\ 8 = Len(head)
        /\ head[1] = a /\ head[2] = colon /\ head[3] = blank /\ head[4] = p
        /\ head[5] = nl /\ head[6] = p /\ head[7] = colon /\ head[8] = blank
    BY <1>6, EightIs
  <1>8. PICK text : text = Written(password)
    OBVIOUS
  <1>9. text = head \o password \o <<nl>>
    BY <1>1, <1>2, <1>6, <1>8 DEF Written
  <1>10. PICK eight \in Nat : eight = 8
    OBVIOUS
  <1>11. /\ text \in Seq(Characters) /\ Len(text) = eight + k + 1
         /\ \A i \in 1 .. eight : text[i] = head[i]
         /\ \A i \in 1 .. k : text[eight + i] = password[i]
         /\ text[eight + k + 1] = nl
    <2>1. eight = Len(head)
      BY <1>7, <1>10
    <2> QED BY <1>4, <1>5, <1>9, <2>1, ThreeParts
  <1>12. /\ text[1] = a /\ text[2] = colon /\ text[3] = blank /\ text[4] = p
         /\ text[5] = nl /\ text[6] = p /\ text[7] = colon /\ text[8] = blank
    BY <1>7, <1>10, <1>11
  <1>13. PICK end \in Nat : end = 9 + k
    BY <1>4
  <1>14. end = Len(text) /\ text[end] = nl /\ end > 5
    BY <1>4, <1>10, <1>11, <1>13
  <1>15. \A i \in 1 .. k : text[8 + i] = password[i]
    BY <1>10, <1>11
  <1>16. \A i \in 1 .. end : text[i] = nl => i = 5 \/ i = end
    <2> SUFFICES ASSUME NEW i \in 1 .. end, i # 5, i # end PROVE text[i] # nl
      OBVIOUS
    <2>1. CASE i >= 9
      <3>1. i - 8 \in 1 .. k /\ 8 + (i - 8) = i
        BY <1>4, <1>13, <2>1
      <3>2. text[i] = password[i - 8]
        BY <1>15, <3>1
      <3> QED BY <1>5, <3>1, <3>2
    <2>2. CASE ~(i >= 9)
      <3>1. i = 1 \/ i = 2 \/ i = 3 \/ i = 4 \/ i = 6 \/ i = 7 \/ i = 8
        BY <1>13, <2>2
      <3> QED BY <1>3, <1>12, <3>1
    <2> QED BY <2>1, <2>2
  <1>17. PICK last \in Nat : last = end - 1
    BY <1>13
  <1>18. Parts(text, nl) = <<SubSeq(text, 1, 4), SubSeq(text, 6, last), <<>>>>
    <2>1. TwoLined(text, nl, 5, end)
      BY <1>12, <1>14, <1>16 DEF TwoLined
    <2>2. text \in Seq(Characters)
      BY <1>11
    <2> QED BY <1>17, <2>1, <2>2, LinesAre
  <1>19. PICK first : first = SubSeq(text, 1, 4)
    OBVIOUS
  <1>20. PICK second : second = SubSeq(text, 6, last)
    OBVIOUS
  <1>21. \A s \in Seq(Characters) : \A i \in DOMAIN s :
            s[i] = colon /\ (\A j \in 1 .. i - 1 : s[j] # colon) => Colon(s) = i
    BY <1>1, ColonFound
  <1>26. text \in Seq(Characters)
    BY <1>11
  <1>22. IsRead(first, a, <<p>>)
    <2>1. PICK v \in Seq(Characters) : v = <<p>> /\ 1 = Len(v) /\ v[1] = p
      <3>1. <<p>> \in Seq(Characters)
        OBVIOUS
      <3>2. 1 = Len(<<p>>)
        OBVIOUS
      <3>3. <<p>>[1] = p
        OBVIOUS
      <3> QED BY <3>1, <3>2, <3>3
    <2>2. PICK one \in Nat, four \in Nat : one = 1 /\ four = 4
      OBVIOUS
    <2>3. /\ one >= 1 /\ four = one + 2 + one /\ four <= Len(text) /\ one = Len(v)
          /\ first = SubSeq(text, one, four)
      BY <1>14, <1>19, <2>1, <2>2
    <2>4. /\ text[one] = a /\ text[one + 1] = colon /\ text[one + 2] = blank
          /\ text[one + 3] = p
      BY <1>12, <2>2
    <2>5. text[one] \notin Blanks /\ text[one] # colon /\ text[one + 2] \in Blanks
      BY <1>3, <2>4
    <2>6. \A i \in 1 .. Len(v) : i = 1
      BY <2>1
    <2>7. \A i \in 1 .. Len(v) : text[one + 2 + i] = v[i]
      BY <2>1, <2>2, <2>4, <2>6
    <2>8. \A i \in 1 .. Len(v) : v[i] \notin Blanks /\ v[i] \notin Quotes
      BY <1>3, <2>1, <2>6
    <2>9. Len(v) >= 1 /\ four = one + 2 + Len(v)
      BY <2>3
    <2>10. LineShape(text, one, four, v, colon)
      BY <2>3, <2>4, <2>5, <2>7, <2>8, <2>9 DEF LineShape
    <2>11. IsRead(SubSeq(text, one, four), text[one], v)
      BY <1>21, <1>26, <2>10, LineAt
    <2> QED BY <2>1, <2>3, <2>4, <2>11
  <1>23. IsRead(second, p, password)
    <2>1. PICK six \in Nat : six = 6
      OBVIOUS
    <2>2. /\ six >= 1 /\ Len(password) >= 1 /\ last = six + 2 + Len(password) /\ last <= Len(text)
          /\ second = SubSeq(text, six, last)
      BY <1>4, <1>13, <1>14, <1>17, <1>20, <2>1
    <2>3. text[six] = p /\ text[six + 1] = colon /\ text[six + 2] = blank
      BY <1>12, <2>1
    <2>4. text[six] \notin Blanks /\ text[six] # colon /\ text[six + 2] \in Blanks
      BY <1>3, <2>3
    <2>5. \A i \in 1 .. Len(password) : text[six + 2 + i] = password[i]
      BY <1>4, <1>15, <2>1
    <2>6. \A i \in 1 .. Len(password) : password[i] \notin Blanks /\ password[i] \notin Quotes
      BY <1>4, <1>5
    <2>7. LineShape(text, six, last, password, colon)
      BY <2>2, <2>3, <2>4, <2>5, <2>6 DEF LineShape
    <2>8. password \in Seq(Characters)
      BY <1>5
    <2>9. IsRead(SubSeq(text, six, last), text[six], password)
      BY <1>21, <1>26, <2>7, <2>8, LineAt
    <2> QED BY <2>2, <2>3, <2>9
  <1>24. Parts(text, nl) = <<first, second, <<>>>>
    BY <1>18, <1>19, <1>20
  <1>25. text \in Seq(Characters) /\ \E x, y : /\ Parts(text, nl) = <<x, y, <<>>>>
                                              /\ IsRead(x, a, <<p>>) /\ IsRead(y, p, password)
    BY <1>22, <1>23, <1>24, <1>26
  <1> QED BY <1>1, <1>2, <1>8, <1>25

\* A line that says nothing, and one that says something.
LEMMA ReadLineIs ==
    ASSUME NEW got, NEW text
    PROVE  /\ IsComment(text) => ReadLine(got, text) = got
           /\ \A key, v : got.ok /\ key # "#" /\ IsRead(text, key, v) =>
                ReadLine(got, text) = IF <<key>> = <<"auth">> THEN ReadAuth(got, v)
                                      ELSE IF <<key>> = <<"password">> THEN ReadPassword(got, v) ELSE got
  <1>1. IsComment(text) => ReadLine(got, text) = got
    BY DEF ReadLine
  <1>2. SUFFICES ASSUME NEW key, NEW v, got.ok, key # "#", IsRead(text, key, v)
                 PROVE  ReadLine(got, text) = IF <<key>> = <<"auth">> THEN ReadAuth(got, v)
                                      ELSE IF <<key>> = <<"password">> THEN ReadPassword(got, v) ELSE got
    BY <1>1
  <1>3. ~IsComment(text)
    BY <1>2 DEF IsComment, IsRead
  <1>4. Colon(text) # 0 /\ Key(text) = <<key>> /\ Value(text) = v
    BY <1>2 DEF IsRead
  <1> QED BY <1>2, <1>3, <1>4 DEF ReadLine

\* config_parse reads back what config_write has written.
THEOREM ParsedWritten ==
    ASSUME NEW password \in Generated
    PROVE  Parsed(Written(password)) = [ok |-> TRUE, auth |-> "password", password |-> password]
  <1>1. PICK text \in Seq(Characters) : text = Written(password)
    BY WrittenLines
  <1>2. PICK first, second : /\ Parts(text, Newline) = <<first, second, <<>>>>
                             /\ IsRead(first, "auth", <<"password">>)
                             /\ IsRead(second, "password", password)
    BY <1>1, WrittenLines
  <1>3. PICK lines : lines = Parts(text, Newline)
    OBVIOUS
  <1>4. PICK after :
            /\ \A n \in 0 .. Len(lines) :
                  after[n] = IF n = 0 THEN Initial ELSE ReadLine(after[n - 1], lines[n])
            /\ Parsed(text) = [after[Len(lines)] EXCEPT !.ok =
                  after[Len(lines)].ok /\ ~LacksPassword(after[Len(lines)])]
    BY <1>3, ParsedIs
  <1>5. Len(lines) = 3
    BY <1>2, <1>3
  <1>6. lines[1] = first /\ lines[2] = second /\ lines[3] = <<>>
    BY <1>2, <1>3
  <1>7. after[0] = Initial
    BY <1>4, <1>5
  <1>8. after[1] = ReadLine(after[0], first)
    BY <1>4, <1>5, <1>6
  <1>9. after[2] = ReadLine(after[1], second)
    BY <1>4, <1>5, <1>6
  <1>10. after[3] = ReadLine(after[2], <<>>)
    BY <1>4, <1>5, <1>6
  <1>11. Initial.ok /\ Initial.auth = "password" /\ Initial = [ok |-> TRUE, auth |-> "password", password |-> <<>>]
    BY DEF Initial
  <1>12. after[1] = Initial
    <2>1. "auth" # "#"
      OBVIOUS
    <2>2. after[1] = ReadAuth(Initial, <<"password">>)
      BY <1>2, <1>7, <1>8, <1>11, <2>1, ReadLineIs
    <2>3. <<"password">>[1] = "password"
      OBVIOUS
    <2>4. ReadAuth(Initial, <<"password">>) = [Initial EXCEPT !.auth = "password"]
      BY <2>3 DEF ReadAuth
    <2> QED BY <1>11, <2>2, <2>4
  <1>13. after[2] = [ok |-> TRUE, auth |-> "password", password |-> password]
    <2>1. "password" # "#" /\ <<"password">> # <<"auth">>
      OBVIOUS
    <2>2. after[2] = ReadPassword(Initial, password)
      BY <1>2, <1>9, <1>11, <1>12, <2>1, ReadLineIs
    <2>3. Fits(password)
      BY GeneratedIs DEF Fits
    <2>4. ReadPassword(Initial, password) = [Initial EXCEPT !.password = password]
      BY <2>3 DEF ReadPassword
    <2> QED BY <1>11, <2>2, <2>4
  <1>14. after[3] = after[2]
    <2>1. IsComment(<<>>)
      <3>1. Trim(<<>>) = <<>>
        BY DEF Trim
      <3> QED BY <3>1 DEF IsComment
    <2> QED BY <1>10, <2>1, ReadLineIs
  <1>15. PICK got : got = after[Len(lines)]
    OBVIOUS
  <1>16. got = [ok |-> TRUE, auth |-> "password", password |-> password]
    BY <1>5, <1>13, <1>14, <1>15
  <1>17. Parsed(text) = [got EXCEPT !.ok = got.ok /\ ~LacksPassword(got)]
    BY <1>4, <1>15
  <1>18. ~LacksPassword(got)
    <2>1. password # <<>>
      BY GeneratedIs
    <2> QED BY <1>16, <2>1 DEF LacksPassword
  <1>19. Parsed(text) = [ok |-> TRUE, auth |-> "password", password |-> password]
    BY <1>16, <1>17, <1>18
  <1> QED BY <1>1, <1>19

-----------------------------------------------------------------------------
\* A process that is about to make a file has found none, and one that has made it
\* has an empty one, unless somebody else was faster.
MakesItsOwn(p) ==
    /\ phase[p] = "write" /\ ~changed[p] => config = None
    /\ phase[p] = "flush" /\ ~changed[p] => config = <<>>

\* The inductive invariant.
FileInv ==
    /\ DOMAIN phase = Procs /\ DOMAIN changed = Procs
    /\ \A p \in Procs : changed[p] \in BOOLEAN /\ MakesItsOwn(p)

-----------------------------------------------------------------------------
\* A step of process p that leaves the file alone, when it does not bring p to the
\* point where it makes one.
LEMMA FileUntouched ==
    ASSUME FileInv, NEW p \in Procs, NEW to, UNCHANGED config,
           phase' = [phase EXCEPT ![p] = to],
           \/ to \notin {"write", "flush"} \/ to = phase[p]
           \/ config = None /\ to = "write",
           \/ UNCHANGED changed
           \/ changed' = [changed EXCEPT ![p] = FALSE] /\ (to = phase[p] => to \notin {"write", "flush"})
    PROVE  FileInv'
  <1>1. DOMAIN phase' = Procs /\ DOMAIN changed' = Procs
    BY DEF FileInv
  <1>2. ASSUME NEW q \in Procs PROVE changed'[q] \in BOOLEAN /\ MakesItsOwn(q)'
    BY DEF FileInv, MakesItsOwn
  <1> QED BY <1>1, <1>2 DEF FileInv

\* A process that is gone makes no file.
LEMMA ExitLeaves ==
    ASSUME FileInv, NEW p \in Procs, Exit(p), UNCHANGED config
    PROVE  FileInv'
  BY FileUntouched DEF Exit

\* Making and writing the file tells everybody else.
LEMMA WritesKeep ==
    ASSUME FileInv, NEW p \in Procs, OpenConfig(p) \/ FlushConfig(p)
    PROVE  FileInv'
  <1>1. CASE OpenConfig(p) /\ config' = config /\ Exit(p)
    BY <1>1, ExitLeaves
  <1>2. CASE OpenConfig(p) /\ ~(config' = config /\ Exit(p))
    <2>1. config' = <<>> /\ phase' = [phase EXCEPT ![p] = "flush"]
          /\ changed' = [q \in Procs |-> changed[q] \/ q # p]
      BY <1>2 DEF OpenConfig, Goes, ChangedFor
    <2> QED BY <2>1 DEF FileInv, MakesItsOwn
  <1>3. CASE FlushConfig(p)
    <2>1. phase' = [phase EXCEPT ![p] = "chmod"]
          /\ \/ changed' = [q \in Procs |-> changed[q] \/ q # p]
             \/ changed' = [q \in Procs |-> TRUE]
             \/ UNCHANGED <<config, changed>>
      BY <1>3 DEF FlushConfig, Goes, ChangedFor
    <2> QED BY <2>1 DEF FileInv, MakesItsOwn
  <1> QED BY <1>1, <1>2, <1>3

\* Nor does setting up authentication, which only looks for the file.
LEMMA SetupKeeps ==
    ASSUME FileInv, NEW p \in Procs, SetupAuth(p)
    PROVE  FileInv'
  <1>1. phase[p] = "auth"
    BY DEF SetupAuth
  <1>2. CASE TrustHeader(p)
    BY <1>2, FileUntouched DEF TrustHeader, Goes
  <1>3. CASE RefuseConfig(p)
    BY <1>3, ExitLeaves DEF RefuseConfig
  <1>4. CASE ReadConfig(p)
    BY <1>1, <1>4, FileUntouched DEF ReadConfig, Goes
  <1>5. CASE GeneratePassword(p)
    BY <1>1, <1>5, FileUntouched DEF GeneratePassword, IsMissing, Goes
  <1> QED BY <1>2, <1>3, <1>4, <1>5 DEF SetupAuth

\* Nor do the options, which do not touch it.
LEMMA OptionsKeep ==
    ASSUME FileInv, NEW p \in Procs, ParseOption(p)
    PROVE  FileInv'
  <1>1. \/ UNCHANGED <<config, phase, changed>>
        \/ UNCHANGED config /\ Exit(p)
        \/ UNCHANGED <<config, changed>> /\ phase' = [phase EXCEPT ![p] = "auth"]
    BY DEF ParseOption, EndOptions, SkipWord, TakeOption, ClientOption, optionVars, Goes
  <1>2. CASE UNCHANGED <<config, phase, changed>>
    BY <1>2 DEF FileInv, MakesItsOwn
  <1> QED BY <1>1, <1>2, ExitLeaves, FileUntouched

\* Every step keeps the invariant.
LEMMA FileStep == FileInv /\ [Next]_vars => FileInv'
  <1> SUFFICES ASSUME FileInv, [Next]_vars PROVE FileInv'
    OBVIOUS
  <1>1. ASSUME NEW p \in Procs, Step(p) PROVE FileInv'
    <2>1. CASE ChmodConfig(p) \/ Listen(p) \/ LeaveLoop(p) \/ ServerFree(p)
      <3>1. \/ UNCHANGED config /\ Exit(p)
            \/ /\ UNCHANGED <<config, changed>>
               /\ \E to \in {"command", "serving", "cleanup"} : phase' = [phase EXCEPT ![p] = to]
        BY <2>1 DEF ChmodConfig, Listen, LeaveLoop, ServerFree, Goes
      <3> QED BY <3>1, ExitLeaves, FileUntouched
    <2> QED BY <1>1, <2>1, OptionsKeep, SetupKeeps, WritesKeep DEF Step
  <1>2. ASSUME NEW p \in Procs, Launch(p) PROVE FileInv'
    BY <1>2, FileUntouched DEF Launch, Goes
  <1>3. ASSUME NEW p \in Procs, Signal(p) \/ LastClientGone(p) \/ CommandExits(p) \/ Kill(p) PROVE FileInv'
    <2>1. UNCHANGED config /\ (Exit(p) \/ UNCHANGED <<phase, changed>>)
      BY <1>3 DEF Signal, LastClientGone, CommandExits, Kill
    <2>2. CASE UNCHANGED <<phase, changed>>
      BY <2>1, <2>2 DEF FileInv, MakesItsOwn
    <2> QED BY <2>1, <2>2, ExitLeaves
  <1>4. CASE Edit
    <2>1. changed' = [p \in Procs |-> TRUE] /\ DOMAIN phase' = Procs
      BY <1>4 DEF Edit, FileInv
    <2> QED BY <2>1 DEF FileInv, MakesItsOwn
  <1>5. CASE UNCHANGED vars
    BY <1>5 DEF vars, procVars, FileInv, MakesItsOwn
  <1> QED BY <1>1, <1>2, <1>3, <1>4, <1>5 DEF Next

\* The inductive invariant holds of all processes, whatever the user does to the
\* file and whichever of them is killed when.
THEOREM FileCorrect == Spec => []FileInv
  <1>1. Init => FileInv
    BY DEF Init, FileInv, MakesItsOwn
  <1> QED BY <1>1, FileStep, PTL DEF Spec

\* A file that says something is changed by its user only, or by a server that has
\* been overtaken while it was about to make its own (config_write).
THEOREM OnlyUsersOverwrite == Spec => NeverOverwritten
  <1>1. ASSUME FileInv, [Next]_vars, config \notin {None, <<>>}, config' # config
        PROVE  Edit \/ \E p \in Procs : phase[p] \in {"write", "flush"} /\ changed[p]
    <2>1. ASSUME NEW p \in Procs, OpenConfig(p) PROVE phase[p] = "write"
      BY <2>1 DEF OpenConfig
    <2>2. ASSUME NEW p \in Procs, FlushConfig(p) PROVE phase[p] = "flush"
      BY <1>1, <2>2 DEF FlushConfig
    <2>3. ASSUME NEW p \in Procs, OpenConfig(p) \/ FlushConfig(p)
          PROVE  phase[p] \in {"write", "flush"} /\ changed[p]
      BY <1>1, <2>1, <2>2, <2>3 DEF FileInv, MakesItsOwn
    <2>4. ASSUME NEW p \in Procs, Step(p) PROVE OpenConfig(p) \/ FlushConfig(p)
      BY <1>1, <2>4 DEF Step, ParseOption, EndOptions, SkipWord, TakeOption, ClientOption, optionVars,
         SetupAuth, TrustHeader, RefuseConfig, ReadConfig, GeneratePassword, ChmodConfig, Listen,
         LeaveLoop, ServerFree
    <2>5. ASSUME NEW p \in Procs,
                 Launch(p) \/ Signal(p) \/ LastClientGone(p) \/ CommandExits(p) \/ Kill(p)
          PROVE  UNCHANGED config
      BY <2>5 DEF Launch, Signal, LastClientGone, CommandExits, Kill
    <2>6. ~UNCHANGED vars
      BY <1>1 DEF vars
    <2> QED BY <1>1, <2>3, <2>4, <2>5, <2>6 DEF Next
  <1>2. FileInv /\ [Next]_vars =>
          [config \notin {None, <<>>} /\ config' # config =>
              \/ Edit
              \/ \E p \in Procs : phase[p] \in {"write", "flush"} /\ changed[p]]_vars
    BY <1>1
  <1> QED BY <1>2, FileCorrect, PTL DEF Spec, NeverOverwritten

-----------------------------------------------------------------------------
\* What process p knows of the file: one that makes it has a password for it, has
\* found none, emptied it and written it, and one that goes on has read or
\* written what it says; unless somebody has changed it since.
Makes(p) == phase[p] \in {"write", "flush", "flush elsewhere", "chmod"}
GoesOn(p) == phase[p] \in {"command", "serving", "cleanup"} /\ settings[p]["H"] = None
Knows(p) ==
    /\ Makes(p) => \E password \in Generated :
                       cfg[p] = [ok |-> TRUE, auth |-> "password", password |-> password]
    /\ phase[p] = "flush" => config \in Seq(Characters)
    /\ phase[p] = "flush" /\ ~changed[p] => config = <<>>
    /\ phase[p] = "flush elsewhere" => changed[p]
    /\ phase[p] = "chmod" /\ ~changed[p] => config = Written(cfg[p].password)
    /\ GoesOn(p) /\ cfg[p].auth = "password" => cfg[p].password # <<>>
    /\ GoesOn(p) /\ ~changed[p] =>
          config \in Seq(Characters) /\ config # None /\ Parsed(config) = cfg[p] /\ cfg[p].ok
KnownInv ==
    /\ DOMAIN phase = Procs /\ DOMAIN changed = Procs
    /\ DOMAIN cfg = Procs /\ DOMAIN settings = Procs
    /\ config \in Seq(Characters) \cup {None}
    /\ \A p \in Procs : changed[p] \in BOOLEAN /\ Knows(p)

\* A process still knows what it did when nothing has changed, or it is told that
\* the file has.
LEMMA StillKnows ==
    ASSUME NEW q, Knows(q), cfg'[q] = cfg[q], settings'[q] = settings[q],
           \/ phase'[q] = phase[q] /\ (phase[q] = "flush" => config' \in Seq(Characters))
           \/ phase[q] = "flush" /\ phase'[q] = "flush elsewhere" /\ changed'[q],
           changed'[q] \/ (changed'[q] = changed[q] /\ config' = config)
    PROVE  Knows(q)'
  <1>1. CASE changed'[q]
    BY <1>1 DEF Knows, Makes, GoesOn
  <1>2. CASE changed'[q] = changed[q] /\ config' = config /\ phase'[q] = phase[q]
    BY <1>2 DEF Knows, Makes, GoesOn
  <1> QED BY <1>1, <1>2

\* A step of process p leaves the others alone, and the file.
Alone(p) ==
    /\ DOMAIN phase' = Procs /\ DOMAIN changed' = Procs
    /\ DOMAIN cfg' = Procs /\ DOMAIN settings' = Procs
    /\ config' = config /\ changed'[p] \in BOOLEAN
    /\ \A q \in Procs : q # p => /\ phase'[q] = phase[q] /\ cfg'[q] = cfg[q]
                                 /\ settings'[q] = settings[q] /\ changed'[q] = changed[q]
\* So what it knows afterwards is all that there is to look at.
LEMMA OwnStep ==
    ASSUME KnownInv, NEW p \in Procs, Alone(p), Knows(p)'
    PROVE  KnownInv'
  <1>1. /\ DOMAIN phase' = Procs /\ DOMAIN changed' = Procs
        /\ DOMAIN cfg' = Procs /\ DOMAIN settings' = Procs
        /\ config' \in Seq(Characters) \cup {None}
    BY DEF KnownInv, Alone
  <1>2. ASSUME NEW q \in Procs, q # p PROVE Knows(q)'
    <2>1. /\ phase'[q] = phase[q] /\ cfg'[q] = cfg[q] /\ settings'[q] = settings[q]
          /\ changed'[q] = changed[q] /\ config' = config
      BY <1>2 DEF Alone
    <2>2. Knows(q) /\ (phase[q] = "flush" => config' \in Seq(Characters))
      BY <2>1 DEF KnownInv, Knows
    <2> QED BY <2>1, <2>2, StillKnows
  <1>3. \A q \in Procs : changed'[q] \in BOOLEAN
    BY DEF KnownInv, Alone
  <1> QED BY <1>1, <1>2, <1>3 DEF KnownInv

\* A process that is gone knows nothing.
LEMMA ExitKnows ==
    ASSUME KnownInv, NEW p \in Procs, Exit(p), UNCHANGED config
    PROVE  KnownInv'
  <1>1. phase'[p] = "down"
    BY DEF Exit, KnownInv
  <1>2. Knows(p)'
    BY <1>1 DEF Knows, Makes, GoesOn
  <1>3. Alone(p)
    BY DEF Exit, KnownInv, Alone
  <1> QED BY <1>2, <1>3, OwnStep

\* A step of p that changes nothing of this but its phase.
LEMMA PhaseStep ==
    ASSUME KnownInv, NEW p \in Procs, NEW to, Goes(p, to), UNCHANGED <<config, cfg, settings, changed>>,
           Knows(p)'
    PROVE  KnownInv'
  <1>1. Alone(p)
    BY DEF KnownInv, Goes, Alone
  <1> QED BY <1>1, OwnStep

\* A configuration with a password, as config_generate_password leaves it.
LEMMA InitialWith ==
    ASSUME NEW password
    PROVE  [Initial EXCEPT !.password = password] =
                [ok |-> TRUE, auth |-> "password", password |-> password]
  <1>1. PICK a, b, c : a = TRUE /\ b = "password" /\ c = <<>>
    OBVIOUS
  <1>2. Initial = [ok |-> a, auth |-> b, password |-> c]
    BY <1>1 DEF Initial
  <1>3. [Initial EXCEPT !.password = password] = [ok |-> a, auth |-> b, password |-> password]
    BY <1>2
  <1> QED BY <1>1, <1>3

\* config_read knows what it has read, and config_generate_password what it made.
LEMMA SetupKnows ==
    ASSUME KnownInv, NEW p \in Procs, SetupAuth(p)
    PROVE  KnownInv'
  <1>1. phase[p] = "auth"
    BY DEF SetupAuth
  <1>3. CASE TrustHeader(p)
    <2>1. phase'[p] = "command" /\ settings'[p]["H"] # None
      BY <1>3 DEF TrustHeader, Goes, KnownInv, unread
    <2>2. Knows(p)'
      BY <2>1 DEF Knows, Makes, GoesOn
    <2> QED BY <1>3, <2>2, PhaseStep DEF TrustHeader, unread
  <1>4. CASE RefuseConfig(p)
    BY <1>4, ExitKnows DEF RefuseConfig
  <1>5. CASE ReadConfig(p)
    <2>1. /\ config' = config /\ config \in Seq(Characters) /\ config # None
          /\ Parsed(config).ok
      BY <1>5 DEF ReadConfig, KnownInv
    <2>2. PICK c : c = Parsed(config)
      OBVIOUS
    <2>3. /\ cfg' = [cfg EXCEPT ![p] = c] /\ changed' = [changed EXCEPT ![p] = FALSE]
          /\ phase' = [phase EXCEPT ![p] = "command"]
      BY <1>5, <2>2 DEF ReadConfig, Goes
    <2>4. c.ok /\ (c.auth = "password" => c.password # <<>>)
      BY <2>1, <2>2, ParsedAsSaid
    <2>5. cfg'[p] = c /\ phase'[p] = "command" /\ changed'[p] = FALSE
      BY <2>3 DEF KnownInv
    <2>6. Knows(p)'
      BY <2>1, <2>2, <2>4, <2>5 DEF Knows, Makes, GoesOn
    <2>7. Alone(p)
      BY <1>5, <2>3 DEF ReadConfig, KnownInv, unread, Alone
    <2> QED BY <2>6, <2>7, OwnStep
  <1>6. CASE GeneratePassword(p)
    <2>1. PICK password \in Generated : cfg' = [cfg EXCEPT ![p] = [Initial EXCEPT !.password = password]]
      BY <1>6 DEF GeneratePassword
    <2>2. PICK c : c = [ok |-> TRUE, auth |-> "password", password |-> password]
      OBVIOUS
    <2>8. c = [Initial EXCEPT !.password = password]
      BY <2>2, InitialWith
    <2>3. cfg' = [cfg EXCEPT ![p] = c]
      BY <2>1, <2>8
    <2>4. /\ changed' = [changed EXCEPT ![p] = FALSE] /\ config' = config
          /\ phase' = [phase EXCEPT ![p] = "write"]
      BY <1>6 DEF GeneratePassword, Goes
    <2>5. cfg'[p] = c /\ phase'[p] = "write"
      BY <2>3, <2>4 DEF KnownInv
    <2>6. Knows(p)'
      BY <2>2, <2>5 DEF Knows, Makes, GoesOn
    <2>7. Alone(p)
      BY <1>6, <2>3, <2>4 DEF GeneratePassword, KnownInv, unread, Alone
    <2> QED BY <2>6, <2>7, OwnStep
  <1> QED BY <1>3, <1>4, <1>5, <1>6 DEF SetupAuth

\* config_write empties the file: the others are told.
LEMMA OpenKnows ==
    ASSUME KnownInv, NEW p \in Procs, OpenConfig(p)
    PROVE  KnownInv'
  <1>1. CASE UNCHANGED config /\ Exit(p)
    BY <1>1, ExitKnows
  <1>2. CASE ~(UNCHANGED config /\ Exit(p))
    <2>1. /\ phase[p] = "write" /\ config' = <<>> /\ phase' = [phase EXCEPT ![p] = "flush"]
          /\ changed' = [q \in Procs |-> changed[q] \/ q # p] /\ cfg' = cfg /\ settings' = settings
      BY <1>2 DEF OpenConfig, Goes, ChangedFor, unread
    <2>2. <<>> \in Seq(Characters)
      OBVIOUS
    <2>3. \A q \in Procs : Knows(q) /\ changed[q] \in BOOLEAN
      BY DEF KnownInv
    <2>4. ASSUME NEW q \in Procs, q # p PROVE Knows(q)'
      <3>1. phase'[q] = phase[q] /\ changed'[q] /\ cfg'[q] = cfg[q] /\ settings'[q] = settings[q]
        BY <2>1, <2>4 DEF KnownInv
      <3>2. config' \in Seq(Characters) /\ Knows(q)
        BY <2>1, <2>2, <2>3
      <3> QED BY <3>1, <3>2, StillKnows
    <2>5. Knows(p)'
      <3>1. phase'[p] = "flush" /\ cfg'[p] = cfg[p]
        BY <2>1 DEF KnownInv
      <3> QED BY <2>1, <2>2, <2>3, <3>1 DEF Knows, Makes, GoesOn
    <2>6. /\ DOMAIN phase' = Procs /\ DOMAIN changed' = Procs /\ DOMAIN cfg' = Procs
          /\ DOMAIN settings' = Procs /\ \A q \in Procs : changed'[q] \in BOOLEAN
      BY <2>1, <2>3 DEF KnownInv
    <2> QED BY <2>1, <2>2, <2>4, <2>5, <2>6 DEF KnownInv
  <1> QED BY <1>1, <1>2


\* What stdio writes is known to be in the file, unless another text was there,
\* or the disk had no room, or it is another file.
LEMMA FlushKnows ==
    ASSUME KnownInv, NEW p \in Procs, FlushConfig(p)
    PROVE  KnownInv'
  <1>1. phase' = [phase EXCEPT ![p] = "chmod"] /\ settings' = settings /\ cfg' = cfg
    BY DEF FlushConfig, Goes, unread
  <1>2. Knows(p) /\ phase[p] \in {"flush", "flush elsewhere"}
    BY DEF KnownInv, FlushConfig
  <1>3. PICK password \in Generated :
            cfg[p] = [ok |-> TRUE, auth |-> "password", password |-> password]
    BY <1>2 DEF Knows, Makes
  <1>4. PICK text \in Seq(Characters) : text = Written(cfg[p].password)
    BY <1>3, WrittenLines
  <1>5. /\ phase'[p] = "chmod" /\ cfg'[p] = cfg[p]
        /\ DOMAIN phase' = Procs /\ DOMAIN cfg' = Procs /\ DOMAIN settings' = Procs
    BY <1>1 DEF KnownInv
  <1>6. SUFFICES ASSUME config' \in Seq(Characters) \cup {None}, DOMAIN changed' = Procs,
                        \/ config' = config /\ changed' = changed /\ changed[p]
                        \/ config' \in Seq(Characters) /\ changed' = [q \in Procs |-> TRUE]
                        \/ /\ config' \in Seq(Characters) /\ phase[p] = "flush"
                           /\ config = <<>> => config' = text
                           /\ changed' = [q \in Procs |-> changed[q] \/ q # p]
                 PROVE  KnownInv'
    <2>1. CASE phase[p] = "flush" /\ config' = text \o SubSeq(config, Len(text) + 1, Len(config)) /\ ChangedFor(p)
      <3>1. config \in Seq(Characters)
        BY <1>2, <2>1 DEF Knows
      <3>2. config' \in Seq(Characters)
        BY <2>1, <3>1, WrittenOver
      <3>3. config = <<>> => config' = text
        BY <2>1, WrittenOverNothing
      <3> QED BY <1>6, <2>1, <3>2, <3>3 DEF ChangedFor
    <2>2. CASE /\ phase[p] = "flush" /\ \E n \in Cuts : config' = SubSeq(text, 1, n)
               /\ changed' = [q \in Procs |-> TRUE]
      <3>1. PICK n \in Cuts : config' = SubSeq(text, 1, n)
        BY <2>2
      <3>2. n \in 0 .. Len(text)
        BY <1>3, <1>4, FileAssumption
      <3>3. config' \in Seq(Characters)
        BY <3>1, <3>2
      <3> QED BY <1>6, <2>2, <3>3
    <2>3. CASE phase[p] = "flush elsewhere" /\ UNCHANGED <<config, changed>>
      <3>1. changed[p]
        BY <1>2, <2>3 DEF Knows, KnownInv
      <3> QED BY <1>6, <2>3, <3>1 DEF KnownInv
    <2> QED BY <1>4, <2>1, <2>2, <2>3 DEF FlushConfig
  <1>7. \A q \in Procs : changed'[q] \in BOOLEAN
    BY <1>6 DEF KnownInv
  <1>8. ASSUME NEW q \in Procs, q # p PROVE Knows(q)'
    <2>1. phase'[q] = phase[q] /\ cfg'[q] = cfg[q] /\ settings'[q] = settings[q]
      BY <1>1, <1>8 DEF KnownInv
    <2>2. changed'[q] \/ (changed'[q] = changed[q] /\ config' = config)
      <3>1. CASE config' = config /\ changed' = changed
        BY <3>1
      <3>2. CASE changed' = [x \in Procs |-> TRUE]
        BY <3>2
      <3>3. CASE changed' = [x \in Procs |-> changed[x] \/ x # p]
        <4>1. changed'[q] <=> (changed[q] \/ q # p)
          BY <3>3
        <4> QED BY <1>8, <4>1
      <3> QED BY <1>6, <3>1, <3>2, <3>3
    <2>3. Knows(q) /\ (phase[q] = "flush" => config' \in Seq(Characters))
      BY <1>6 DEF KnownInv, Knows
    <2> QED BY <2>1, <2>2, <2>3, StillKnows
  <1>9. Knows(p)'
    <2>1. ~changed'[p] => config' = text
      BY <1>2, <1>6 DEF Knows, KnownInv
    <2> QED BY <1>3, <1>4, <1>5, <2>1 DEF Knows, Makes, GoesOn
  <1> QED BY <1>5, <1>6, <1>7, <1>8, <1>9 DEF KnownInv

\* A server that has made its file goes on as if it had read it: that is what
\* config_parse makes of what config_write writes.
LEMMA ChmodKnows ==
    ASSUME KnownInv, NEW p \in Procs, ChmodConfig(p)
    PROVE  KnownInv'
  <1>1. CASE Exit(p)
    BY <1>1, ExitKnows DEF ChmodConfig
  <1>2. CASE ~Exit(p)
    <2>1. /\ config # None /\ Goes(p, "command") /\ UNCHANGED <<config, cfg, settings, changed>>
          /\ phase[p] = "chmod"
      BY <1>2 DEF ChmodConfig, unread
    <2>2. Knows(p) /\ phase'[p] = "command" /\ config \in Seq(Characters)
      BY <2>1 DEF KnownInv, Goes
    <2>3. PICK password \in Generated :
              cfg[p] = [ok |-> TRUE, auth |-> "password", password |-> password]
      BY <2>1, <2>2 DEF Knows, Makes
    <2>4. cfg[p].password = password /\ cfg[p].ok
      BY <2>3
    <2>5. Parsed(Written(password)) = cfg[p]
      BY <2>3, ParsedWritten
    <2>6. password # <<>>
      BY GeneratedIs
    <2>7. ~changed[p] => config = Written(password)
      BY <2>1, <2>2, <2>4 DEF Knows
    <2>8. Knows(p)'
      BY <2>1, <2>2, <2>4, <2>5, <2>6, <2>7 DEF Knows, Makes, GoesOn
    <2> QED BY <2>1, <2>8, PhaseStep
  <1> QED BY <1>1, <1>2

\* What is left of a process's life changes none of this.
LEMMA RestKnows ==
    ASSUME KnownInv, NEW p \in Procs,
           \/ ParseOption(p) \/ Listen(p) \/ LeaveLoop(p) \/ ServerFree(p) \/ Launch(p)
           \/ Signal(p) \/ LastClientGone(p) \/ CommandExits(p) \/ Kill(p)
    PROVE  KnownInv'
  <1>1. Knows(p) /\ changed[p] \in BOOLEAN
    BY DEF KnownInv
  <1>2. CASE Exit(p) /\ UNCHANGED config
    BY <1>2, ExitKnows
  <1>3. CASE ParseOption(p) /\ ~(Exit(p) /\ UNCHANGED config)
    <2>1. /\ phase[p] = "options" /\ UNCHANGED <<config, cfg, changed>>
          /\ UNCHANGED phase \/ Goes(p, "auth")
          /\ UNCHANGED settings \/ \E opt, x : settings' = [settings EXCEPT ![p][opt] = x]
      BY <1>3 DEF ParseOption, EndOptions, SkipWord, TakeOption, ClientOption, optionVars, unread
    <2>2. Alone(p)
      BY <2>1 DEF Alone, KnownInv, Goes
    <2>3. phase'[p] \in {"options", "auth"}
      BY <2>1 DEF KnownInv, Goes
    <2>4. Knows(p)'
      BY <2>3 DEF Knows, Makes, GoesOn
    <2> QED BY <2>2, <2>4, OwnStep
  <1>4. CASE Launch(p)
    <2>1. Goes(p, "options") /\ UNCHANGED <<config, cfg, settings, changed>>
      BY <1>4 DEF Launch
    <2>2. Knows(p)'
      BY <2>1 DEF Knows, Makes, GoesOn, Goes, KnownInv
    <2> QED BY <2>1, <2>2, PhaseStep
  <1>5. CASE Listen(p) /\ ~(Exit(p) /\ UNCHANGED config)
    <2>1. phase[p] = "command" /\ Goes(p, "serving") /\ UNCHANGED <<config, cfg, settings, changed>>
      BY <1>5 DEF Listen, unread
    <2>2. Knows(p)'
      BY <1>1, <2>1 DEF Knows, Makes, GoesOn, Goes, KnownInv
    <2> QED BY <2>1, <2>2, PhaseStep
  <1>6. CASE LeaveLoop(p)
    <2>1. phase[p] = "serving" /\ Goes(p, "cleanup") /\ UNCHANGED <<config, cfg, settings, changed>>
      BY <1>6 DEF LeaveLoop, unread
    <2>2. Knows(p)'
      BY <1>1, <2>1 DEF Knows, Makes, GoesOn, Goes, KnownInv
    <2> QED BY <2>1, <2>2, PhaseStep
  <1>7. CASE Signal(p) \/ LastClientGone(p) \/ CommandExits(p) \/ Kill(p) \/ ServerFree(p)
    <2>1. \/ Exit(p) /\ UNCHANGED config
          \/ UNCHANGED <<config, phase, cfg, settings, changed>>
      BY <1>7 DEF Signal, LastClientGone, CommandExits, Kill, ServerFree
    <2>2. CASE UNCHANGED <<config, phase, cfg, settings, changed>>
      BY <2>2 DEF KnownInv, Knows, Makes, GoesOn
    <2> QED BY <1>2, <2>1, <2>2
  <1> QED BY <1>2, <1>3, <1>4, <1>5, <1>6, <1>7

\* What users write is text.
LEMMA EditsAreTexts ==
    Edits \subseteq Seq(Characters)
  <1>1. Edits \subseteq Seq(STRING)
    BY FileAssumption
  <1>2. STRING \subseteq Characters
    BY DEF Characters
  <1> HIDE DEF Characters
  <1>3. ASSUME NEW s \in Edits PROVE s \in Seq(Characters)
    BY <1>1, <1>2, SeqMonotonic
  <1> QED BY <1>3

\* The user's editing is told to everybody.
LEMMA EditKnows ==
    ASSUME KnownInv, Edit
    PROVE  KnownInv'
  <1>1. Edits \subseteq Seq(Characters)
    BY EditsAreTexts
  <1>2. config' \in Seq(Characters) \cup {None} /\ changed' = [p \in Procs |-> TRUE]
    BY <1>1 DEF Edit
  <1>3. cfg' = cfg /\ settings' = settings
    BY DEF Edit, unread
  <1>4. DOMAIN phase' = Procs
    BY DEF Edit, KnownInv
  <1>5. ASSUME NEW q \in Procs PROVE Knows(q)'
    <2>1. Knows(q) /\ changed'[q]
      BY <1>2 DEF KnownInv
    <2>2. \/ phase'[q] = phase[q] /\ (phase[q] = "flush" => config' \in Seq(Characters))
          \/ phase[q] = "flush" /\ phase'[q] = "flush elsewhere"
      BY <1>2 DEF Edit
    <2>3. cfg'[q] = cfg[q] /\ settings'[q] = settings[q]
      BY <1>3
    <2> QED BY <2>1, <2>2, <2>3, StillKnows
  <1> QED BY <1>2, <1>3, <1>4, <1>5 DEF KnownInv

\* Every step keeps the invariant.
LEMMA KnownStep == KnownInv /\ [Next]_vars => KnownInv'
  <1>1. ASSUME KnownInv, UNCHANGED vars PROVE KnownInv'
    <2>1. UNCHANGED <<config, phase, cfg, settings, changed>>
      BY <1>1 DEF vars, procVars, unread
    <2> QED BY <1>1, <2>1 DEF KnownInv, Knows, Makes, GoesOn
  <1> QED BY <1>1, SetupKnows, OpenKnows, FlushKnows, ChmodKnows, RestKnows, EditKnows DEF Next, Step

\* What processes know of the file is right, whoever edits it, whichever of them
\* writes it or is killed when, and wherever a full disk cuts what is written.
THEOREM KnownCorrect == Spec => []KnownInv
  <1>1. Init => KnownInv
    <2> SUFFICES ASSUME Init PROVE KnownInv
      OBVIOUS
    <2>1. Edits \subseteq Seq(Characters)
      BY EditsAreTexts
    <2>2. config \in Seq(Characters) \cup {None}
      BY <2>1 DEF Init
    <2>3. \A p \in Procs : phase[p] = "down" /\ changed[p] = FALSE
      BY DEF Init
    <2>4. \A p \in Procs : Knows(p)
      BY <2>3 DEF Knows, Makes, GoesOn
    <2>5. /\ DOMAIN phase = Procs /\ DOMAIN changed = Procs
          /\ DOMAIN cfg = Procs /\ DOMAIN settings = Procs
      BY DEF Init
    <2> QED BY <2>2, <2>3, <2>4, <2>5 DEF KnownInv
  <1> QED BY <1>1, KnownStep, PTL DEF Spec

\* A server that asks for no password was told so, by the last word of its file on
\* it, whatever the text of that file (config_parse, setup_auth).
THEOREM NeverOpenUntold == Spec => []OpenOnlyIfSaid
  <1>1. KnownInv => OpenOnlyIfSaid
    <2> SUFFICES ASSUME KnownInv, NEW p \in Procs, phase[p] = "serving", settings[p]["H"] = None
                 PROVE  /\ cfg[p].auth = "password" => cfg[p].password # <<>>
                        /\ ~changed[p] /\ cfg[p].auth = "none" => Says(config, "auth") = <<"none">>
      BY DEF OpenOnlyIfSaid
    <2>1. Knows(p) /\ GoesOn(p)
      BY DEF KnownInv, GoesOn
    <2>2. cfg[p].auth = "password" => cfg[p].password # <<>>
      BY <2>1 DEF Knows
    <2>3. ~changed[p] => config \in Seq(Characters) /\ Parsed(config) = cfg[p] /\ cfg[p].ok
      BY <2>1 DEF Knows
    <2>4. ~changed[p] /\ cfg[p].auth = "none" => Says(config, "auth") = <<"none">>
      BY <2>3, ParsedAsSaid
    <2> QED BY <2>2, <2>4
  <1> QED BY <1>1, KnownCorrect, PTL

\* The password that a server takes is the one that its file says, be it read there
\* or made by itself, as long as nobody else has changed the file (config_write).
THEOREM FileHasPassword == Spec => []PasswordInFile
  <1>1. KnownInv => PasswordInFile
    <2> SUFFICES ASSUME KnownInv, NEW p \in Procs, phase[p] = "serving", settings[p]["H"] = None,
                        ~changed[p]
                 PROVE  /\ config # None
                        /\ cfg[p].password = Says(config, "password")
                        /\ Parsed(config) = cfg[p]
      BY DEF PasswordInFile
    <2>1. Knows(p) /\ GoesOn(p)
      BY DEF KnownInv, GoesOn
    <2>2. config # None /\ config \in Seq(Characters) /\ Parsed(config) = cfg[p] /\ cfg[p].ok
      BY <2>1 DEF Knows
    <2>3. cfg[p].password = Says(config, "password")
      BY <2>2, ParsedAsSaid
    <2> QED BY <2>2, <2>3
  <1> QED BY <1>1, KnownCorrect, PTL

-----------------------------------------------------------------------------
\* A pass is at the first word of an option, or at a word that is unknown, or past
\* them all, and never between an option and its argument.
Boundary(l, i) ==
    /\ i \in 2 .. l.at
    /\ \A n \in DOMAIN l.options : IsPlace(l, n, i) => l.begins[n] = i

\* Words and options are counted.
LEMMA LineCounts ==
    ASSUME NEW l, IsLine(l)
    PROVE  /\ Len(l.words) \in Nat /\ DOMAIN l.words = 1 .. Len(l.words) /\ l.at \in Nat
           /\ Len(l.options) \in Nat /\ DOMAIN l.options = 1 .. Len(l.options)
           /\ \A word : Width(word) \in {1, 2} /\ Width(word) = IF TakesNext(word) THEN 2 ELSE 1
           /\ \A n \in DOMAIN l.options : l.begins[n] \in Nat
  <1>1. /\ Len(l.words) \in Nat /\ DOMAIN l.words = 1 .. Len(l.words) /\ l.at \in Nat
        /\ Len(l.options) \in Nat /\ DOMAIN l.options = 1 .. Len(l.options)
    BY DEF IsLine
  <1>2. \A word : Width(word) \in {1, 2} /\ Width(word) = IF TakesNext(word) THEN 2 ELSE 1
    BY DEF Width
  <1>3. \A n \in DOMAIN l.options : l.begins[n] \in Nat
    BY DEF IsLine, IsOption
  <1> QED BY <1>1, <1>2, <1>3

\* From an option a pass goes on to where another word begins ...
LEMMA PastOption ==
    ASSUME NEW l, IsLine(l), NEW n \in DOMAIN l.options, NEW first, first = l.begins[n]
    PROVE  /\ Boundary(l, first + Width(l.words[first]))
           /\ first \in 2 .. l.at - 1 /\ first + Width(l.words[first]) <= l.at
           /\ \A m \in DOMAIN l.options : l.begins[m] < first + Width(l.words[first]) <=>
                                          m <= n
  <1> DEFINE width(m) == Width(l.words[l.begins[m]])
  <1>1. PICK w \in {1, 2} : w = Width(l.words[first])
    BY LineCounts
  <1>2. /\ first \in Nat /\ n \in Nat /\ l.at \in Nat
        /\ \A m \in DOMAIN l.options : m \in Nat /\ l.begins[m] \in Nat /\ width(m) \in {1, 2}
    BY LineCounts
  <1>3. first \in 2 .. l.at - w
    BY <1>1 DEF IsLine, IsOption
  <1>4. \A m \in DOMAIN l.options : n < m => l.begins[m] >= first + w
    BY <1>1 DEF IsLine, IsOption
  <1>5. \A m \in DOMAIN l.options : m < n => first >= l.begins[m] + width(m)
    BY DEF IsLine, IsOption
  <1>6. \A m \in DOMAIN l.options : ~ n < m => m = n \/ m < n
    BY <1>2
  <1>7. \A m \in DOMAIN l.options : l.begins[m] < first + w <=> m <= n
    <2> SUFFICES ASSUME NEW m \in DOMAIN l.options PROVE l.begins[m] < first + w <=> m <= n
      OBVIOUS
    <2> HIDE DEF width
    <2> QED BY <1>1, <1>2, <1>4, <1>5, <1>6
  <1>8. Boundary(l, first + w)
    <2> SUFFICES ASSUME NEW m \in DOMAIN l.options, IsPlace(l, m, first + w)
                 PROVE  l.begins[m] = first + w
      BY <1>1, <1>2, <1>3 DEF Boundary
    <2>1. l.begins[m] <= first + w /\ first + w < l.begins[m] + width(m)
      BY DEF IsPlace
    <2> HIDE DEF width
    <2>2. CASE n < m
      BY <1>1, <1>2, <1>4, <2>1, <2>2
    <2>3. CASE m < n
      BY <1>1, <1>2, <1>5, <2>1, <2>3
    <2>4. CASE m = n
      <3>1. width(m) = w
        BY <1>1, <2>4 DEF width
      <3> QED BY <1>1, <1>2, <2>1, <2>4, <3>1
    <2> QED BY <1>6, <2>2, <2>3, <2>4
  <1>9. first \in 2 .. l.at - 1 /\ first + w <= l.at
    BY <1>1, <1>2, <1>3
  <1> QED BY <1>1, <1>7, <1>8, <1>9

\* ... and so it does from an unknown word.
LEMMA PastUnknown ==
    ASSUME NEW l, IsLine(l), NEW i, Boundary(l, i), i # l.at,
           \A n \in DOMAIN l.options : l.begins[n] # i
    PROVE  /\ IsUnknown(l, i) /\ Boundary(l, i + 1) /\ i \in 2 .. l.at - 1
           /\ \A n \in DOMAIN l.options : l.begins[n] < i + 1 <=> l.begins[n] < i
  <1>1. /\ i \in Nat /\ l.at \in Nat /\ i < l.at /\ i \in 2 .. l.at - 1
        /\ \A n \in DOMAIN l.options : l.begins[n] \in Nat /\ Width(l.words[l.begins[n]]) \in {1, 2}
    BY LineCounts DEF Boundary
  <1>2. \A n \in DOMAIN l.options : ~IsPlace(l, n, i)
    BY DEF Boundary
  <1>3. IsUnknown(l, i)
    BY <1>1, <1>2 DEF IsLine
  <1>4. \A n \in DOMAIN l.options : l.begins[n] < i + 1 <=> l.begins[n] < i
    BY <1>1
  <1>5. ASSUME NEW n \in DOMAIN l.options, IsPlace(l, n, i + 1) PROVE l.begins[n] = i + 1
    BY <1>1, <1>2, <1>5 DEF IsPlace
  <1> QED BY <1>1, <1>3, <1>4, <1>5 DEF Boundary

\* What getopt_long looks for in the first pass is a function of where it looks.
LEMMA OperandsFrom ==
    ASSUME NEW argv, NEW N \in Nat, N = Len(argv)
    PROVE  \E f : f = [i \in 2 .. N + 2 |-> OperandFrom(argv, f, i)]
  <1> DEFINE From(f, k) == \A j \in k .. N + 2 : f[j] = OperandFrom(argv, f, j)
             from == {n \in Nat : n <= N => \E f : From(f, N + 2 - n)}
  <1>1. 0 \in from
    <2> DEFINE f == [j \in {N + 2} |-> N + 1]
    <2>1. \A j \in N + 2 .. N + 2 : j = N + 2 /\ j > Len(argv)
      OBVIOUS
    <2>2. From(f, N + 2)
      BY <2>1 DEF OperandFrom
    <2>3. N + 2 - 0 = N + 2
      OBVIOUS
    <2> HIDE DEF From
    <2> QED BY <2>2, <2>3
  <1>2. \A n \in Nat : n \in from => n + 1 \in from
    <2> HIDE DEF From
    <2> SUFFICES ASSUME NEW n \in Nat, n \in from, n + 1 <= N
                 PROVE \E f : From(f, N + 2 - (n + 1))
      OBVIOUS
    <2>1. PICK k \in Nat : k + 1 = N + 2 - n /\ k = N + 2 - (n + 1) /\ k >= 2 /\ k <= N + 1
      <3>1. /\ N + 2 - (n + 1) \in Nat /\ N + 2 - (n + 1) + 1 = N + 2 - n
            /\ N + 2 - (n + 1) >= 2 /\ N + 2 - (n + 1) <= N + 1
        OBVIOUS
      <3> QED BY <3>1
    <2>2. PICK f : From(f, k + 1)
      <3>1. n <= N
        OBVIOUS
      <3> QED BY <2>1, <3>1
    <2> USE DEF From
    <2> DEFINE g == [j \in k .. N + 2 |-> IF j = k THEN OperandFrom(argv, f, j) ELSE f[j]]
    <2>3. \A j \in k .. N + 2 : g[j] = IF j = k THEN OperandFrom(argv, f, j) ELSE f[j]
      OBVIOUS
    <2> HIDE DEF g
    <2>4. \A i \in k + 1 .. N + 2 : f[i] = g[i]
      BY <2>1, <2>3
    <2>5. From(g, k)
      <3> SUFFICES ASSUME NEW j \in k .. N + 2 PROVE g[j] = OperandFrom(argv, g, j)
        OBVIOUS
      <3>1. OperandFrom(argv, f, j) = OperandFrom(argv, g, j)
        <4>1. CASE j > N
          BY <4>1 DEF OperandFrom
        <4>2. CASE j <= N
          <5>1. j + 1 \in k + 1 .. N + 2 /\ j + 2 \in k + 1 .. N + 2
            BY <2>1, <4>2
          <5>2. f[j + 1] = g[j + 1] /\ f[j + 2] = g[j + 2]
            BY <2>4, <5>1
          <5> QED BY <5>2 DEF OperandFrom
        <4> QED BY <2>1, <4>1, <4>2
      <3>2. j # k => j \in k + 1 .. N + 2
        BY <2>1
      <3>3. j # k => f[j] = OperandFrom(argv, f, j)
        BY <2>2, <3>2
      <3> QED BY <2>3, <3>1, <3>3
    <2> HIDE DEF From
    <2> QED BY <2>1, <2>5
  <1>3. PICK h : From(h, 2)
    <2>1. N \in from
      <3> HIDE DEF from
      <3> QED BY <1>1, <1>2, Inductive
    <2>2. N + 2 - N = 2 /\ N <= N
      OBVIOUS
    <2> HIDE DEF From
    <2> QED BY <2>1, <2>2
  <1> DEFINE g == [j \in 2 .. N + 2 |-> h[j]]
  <1>4. \A j \in 2 .. N + 2 : g[j] = h[j]
    OBVIOUS
  <1>5. \A j \in 2 .. N + 2 : g[j] = OperandFrom(argv, g, j)
    <2> SUFFICES ASSUME NEW j \in 2 .. N + 2 PROVE g[j] = OperandFrom(argv, g, j)
      OBVIOUS
    <2>1. g[j] = OperandFrom(argv, h, j)
      BY <1>3, <1>4
    <2> HIDE DEF g
    <2>2. CASE j > N
      BY <2>1, <2>2 DEF OperandFrom
    <2>3. CASE j <= N
      <3>1. g[j + 1] = h[j + 1] /\ g[j + 2] = h[j + 2]
        BY <1>4, <2>3
      <3> QED BY <2>1, <3>1 DEF OperandFrom
    <2> QED BY <2>2, <2>3
  <1>6. g = [i \in 2 .. N + 2 |-> g[i]]
    OBVIOUS
  <1> HIDE DEF g
  <1>7. [i \in 2 .. N + 2 |-> g[i]] = [i \in 2 .. N + 2 |-> OperandFrom(argv, g, i)]
    BY <1>5
  <1> QED BY <1>6, <1>7

\* The first pass finds the command, if no word before has the same text.
LEMMA CommandStartIs ==
    ASSUME NEW l, IsLine(l), Unambiguous(l)
    PROVE  CommandStart(l.words) = l.at
  <1> DEFINE argv == l.words
  <1>1. PICK N \in Nat : N = Len(argv)
    BY LineCounts
  <1>2. /\ l.at \in 2 .. N + 1 /\ DOMAIN argv = 1 .. N
        /\ l.at <= N => argv[l.at].opt = None /\ \A i \in 1 .. l.at - 1 : argv[i].text # argv[l.at].text
    BY <1>1, LineCounts DEF IsLine, Unambiguous
  <1> DEFINE at == CHOOSE at : at = [i \in 2 .. Len(argv) + 2 |-> OperandFrom(argv, at, i)]
  <1>3. at = [i \in 2 .. N + 2 |-> OperandFrom(argv, at, i)]
    BY <1>1, OperandsFrom
  <1>4. FirstOperand(argv) = at[2]
    BY DEF FirstOperand
  <1> HIDE DEF at
  <1>5. \A i \in 2 .. N + 2 : at[i] = OperandFrom(argv, at, i)
    BY <1>3
  <1> DEFINE Finds(n) == \A i \in Nat : Boundary(l, i) /\ l.at <= i + n => at[i] = l.at
             found == {n \in Nat : Finds(n)}
  <1>6. ASSUME NEW i \in Nat, Boundary(l, i), i >= l.at PROVE at[i] = l.at
    <2>1. i = l.at
      BY <1>2, <1>6 DEF Boundary
    <2> QED BY <1>1, <1>2, <1>5, <2>1 DEF OperandFrom
  <1>7. 0 \in found
    BY <1>2, <1>6
  <1>8. \A n \in Nat : n \in found => n + 1 \in found
    <2> HIDE DEF Finds
    <2> SUFFICES ASSUME NEW n \in Nat, Finds(n) PROVE Finds(n + 1)
      OBVIOUS
    <2> USE DEF Finds
    <2> SUFFICES ASSUME NEW i \in Nat, Boundary(l, i), l.at <= i + (n + 1)
                 PROVE  at[i] = l.at
      OBVIOUS
    <2>1. SUFFICES ASSUME i < l.at PROVE at[i] = l.at
      BY <1>2, <1>6
    <2>2. i \in 2 .. N /\ i # l.at
      BY <1>2, <2>1 DEF Boundary
    <2>3. at[i] = IF argv[i].opt = None THEN i
                  ELSE IF TakesNext(argv[i]) THEN at[i + 2] ELSE at[i + 1]
      BY <1>1, <1>5, <2>2 DEF OperandFrom
    <2>4. CASE \E m \in DOMAIN l.options : l.begins[m] = i
      <3>1. PICK m \in DOMAIN l.options : l.begins[m] = i
        BY <2>4
      <3>2. PICK w \in {1, 2} : w = Width(argv[i]) /\ w = IF TakesNext(argv[i]) THEN 2 ELSE 1
        BY LineCounts
      <3>3. Boundary(l, i + w)
        BY <3>1, <3>2, PastOption
      <3>4. argv[i].opt # None
        BY <3>1, NoneAssumption DEF IsLine, IsOption, Settings, Flags, TextOptions
      <3>5. at[i + w] = l.at
        BY <1>2, <3>3
      <3> QED BY <2>3, <3>2, <3>4, <3>5
    <2>5. CASE \A m \in DOMAIN l.options : l.begins[m] # i
      <3>1. IsUnknown(l, i) /\ Boundary(l, i + 1)
        BY <2>5, <2>2, PastUnknown
      <3>2. CASE TakesNext(argv[i])
        <4>1. i = N
          BY <1>1, <3>1, <3>2 DEF IsUnknown, TakesNext
        <4>2. at[i + 2] = N + 1 /\ l.at = N + 1
          BY <1>1, <1>2, <1>5, <2>1, <4>1 DEF OperandFrom
        <4> QED BY <2>3, <3>1, <3>2, <4>2 DEF IsUnknown
      <3>3. CASE ~TakesNext(argv[i])
        <4>1. at[i + 1] = l.at
          BY <1>2, <3>1
        <4> QED BY <2>3, <3>1, <3>3, <4>1 DEF IsUnknown
      <3> QED BY <3>2, <3>3
    <2> QED BY <2>4, <2>5
  <1>9. at[2] = l.at
    <2>1. Boundary(l, 2)
      BY <1>2 DEF Boundary, IsLine, IsOption, IsPlace
    <2>2. l.at \in Nat /\ l.at <= 2 + l.at
      BY <1>2
    <2>3. l.at \in found
      <3> HIDE DEF found
      <3> QED BY <1>7, <1>8, <2>2, Inductive
    <2> QED BY <2>1, <2>2, <2>3
  <1>10. CASE l.at > N
    BY <1>1, <1>4, <1>9, <1>10 DEF CommandStart
  <1>11. CASE l.at <= N
    <2> DEFINE same == {i \in DOMAIN argv : argv[i].text = argv[l.at].text}
    <2>1. same \in SUBSET Int /\ l.at \in same
      BY <1>2, <1>11
    <2>2. \A i \in same : l.at <= i
      BY <1>2, <1>11
    <2>3. CommandStart(argv) = Min(same)
      BY <1>1, <1>4, <1>9, <1>11, <1>2 DEF CommandStart
    <2> HIDE DEF same
    <2> QED BY <2>1, <2>2, <2>3, MinIs
  <1> QED BY <1>2, <1>10, <1>11

\* The options of a kind that begin before a word, and what the variables of main hold
\* when a pass has come there: CommandAsGiven, of a part of the line.
Given(l, opt, i) == {n \in DOMAIN l.options : l.options[n].opt = opt /\ l.begins[n] < i}
Agrees(l, i, set, pref) ==
    /\ \A opt \in Settings : set[opt] =
          IF Given(l, opt, i) = {} THEN Unset[opt]
          ELSE Taken(opt, Unset[opt], l.options[Max(Given(l, opt, i))].arg)
    /\ pref = {l.options[n].arg : n \in Given(l, "t", i)}

\* At first nothing is given.
LEMMA AgreesFirst ==
    ASSUME NEW l, IsLine(l)
    PROVE  Boundary(l, 2) /\ Agrees(l, 2, Unset, {})
  <1>1. /\ l.at \in 2 .. Len(l.words) + 1
        /\ \A n \in DOMAIN l.options : l.begins[n] \in Nat /\ l.begins[n] >= 2
    BY LineCounts DEF IsLine, IsOption
  <1>2. Boundary(l, 2)
    BY <1>1, LineCounts DEF Boundary, IsPlace
  <1>3. \A opt : Given(l, opt, 2) = {}
    BY <1>1 DEF Given
  <1> QED BY <1>2, <1>3 DEF Agrees

\* An unknown word gives nothing.
LEMMA AgreesUnknown ==
    ASSUME NEW l, IsLine(l), NEW i, Boundary(l, i), i # l.at,
           \A n \in DOMAIN l.options : l.begins[n] # i,
           NEW set, NEW pref, Agrees(l, i, set, pref)
    PROVE  Agrees(l, i + 1, set, pref)
  <1>1. \A opt : Given(l, opt, i + 1) = Given(l, opt, i)
    BY PastUnknown DEF Given
  <1> QED BY <1>1 DEF Agrees

\* An option is the last of its kind so far.
LEMMA GivenNext ==
    ASSUME NEW l, IsLine(l), NEW n \in DOMAIN l.options, NEW first, first = l.begins[n],
           NEW opt
    PROVE  IF opt = l.options[n].opt
           THEN /\ Given(l, opt, first + Width(l.words[first])) = Given(l, opt, first) \cup {n}
                /\ Max(Given(l, opt, first + Width(l.words[first]))) = n
           ELSE Given(l, opt, first + Width(l.words[first])) = Given(l, opt, first)
  <1> DEFINE after == first + Width(l.words[first])
  <1>1. /\ \A m \in DOMAIN l.options : m \in Nat /\ l.begins[m] \in Nat
        /\ first \in Nat /\ \A word : Width(word) \in {1, 2}
    BY LineCounts
  <1>2. \A m \in DOMAIN l.options : l.begins[m] < after <=> m <= n
    BY PastOption
  <1>3. \A m \in DOMAIN l.options : l.begins[m] < first <=> m < n
    <2> SUFFICES ASSUME NEW m \in DOMAIN l.options PROVE l.begins[m] < first <=> m < n
      OBVIOUS
    <2>1. CASE m < n
      <3>1. first >= l.begins[m] + Width(l.words[l.begins[m]])
        BY <2>1 DEF IsLine, IsOption
      <3>2. Width(l.words[l.begins[m]]) \in {1, 2}
        BY <1>1
      <3> QED BY <1>1, <2>1, <3>1, <3>2
    <2>2. CASE ~ m < n
      BY <1>1, <1>2, <2>2, PastOption
    <2> QED BY <2>1, <2>2
  <1> HIDE DEF after
  <1>4. CASE opt = l.options[n].opt
    <2>1. Given(l, opt, after) = Given(l, opt, first) \cup {n}
      BY <1>1, <1>2, <1>3, <1>4 DEF Given
    <2>2. n \in Given(l, opt, after) /\ \A m \in Given(l, opt, after) : m <= n
      BY <1>1, <1>2, <2>1 DEF Given
    <2>3. Given(l, opt, after) \in SUBSET Int
      BY <1>1 DEF Given
    <2>4. Max(Given(l, opt, after)) = n
      BY <2>2, <2>3, MaxIs
    <2> QED BY <1>4, <2>1, <2>4 DEF after
  <1>5. CASE opt # l.options[n].opt
    <2>1. Given(l, opt, after) = Given(l, opt, first)
      BY <1>1, <1>2, <1>3, <1>5 DEF Given
    <2> QED BY <1>5, <2>1 DEF after
  <1> QED BY <1>4, <1>5

\* What is set for it is what is given; a base path is put before nothing, if there
\* is no other.
LEMMA AgreesOption ==
    ASSUME NEW l, IsLine(l), Unambiguous(l),
           NEW n \in DOMAIN l.options, NEW first, first = l.begins[n],
           NEW set, NEW pref, Agrees(l, first, set, pref), DOMAIN set = Settings,
           NEW opt, opt = l.options[n].opt, NEW arg, arg = l.options[n].arg
    PROVE  IF opt = "t"
           THEN Agrees(l, first + Width(l.words[first]), set, pref \cup {arg})
           ELSE Agrees(l, first + Width(l.words[first]),
                       [set EXCEPT ![opt] = Taken(opt, @, arg)], pref)
  <1> DEFINE after == first + Width(l.words[first])
  <1>1. /\ Given(l, opt, after) = Given(l, opt, first) \cup {n} /\ Max(Given(l, opt, after)) = n
        /\ \A other : other # opt => Given(l, other, after) = Given(l, other, first)
    <2>1. \A any : IF any = l.options[n].opt
                    THEN /\ Given(l, any, after) = Given(l, any, first) \cup {n}
                         /\ Max(Given(l, any, after)) = n
                    ELSE Given(l, any, after) = Given(l, any, first)
      BY GivenNext
    <2> HIDE DEF after
    <2> QED BY <2>1
  <1> HIDE DEF after
  <1>2. CASE opt = "t"
    <2>1. \A other \in Settings : other # opt
      BY <1>2 DEF Settings
    <2>2. {l.options[m].arg : m \in Given(l, "t", after)} = pref \cup {arg}
      BY <1>1, <1>2 DEF Agrees
    <2>3. Agrees(l, after, set, pref \cup {arg})
      BY <1>1, <2>1, <2>2 DEF Agrees
    <2> QED BY <1>2, <2>3 DEF after
  <1>3. CASE opt # "t"
    <2> DEFINE new == [set EXCEPT ![opt] = Taken(opt, @, arg)]
    <2>1. \A other \in Settings : new[other] = IF other = opt THEN Taken(opt, set[opt], arg)
                                               ELSE set[other]
      OBVIOUS
    <2> HIDE DEF new
    <2>2. opt \in Settings => Taken(opt, set[opt], arg) = Taken(opt, Unset[opt], arg)
      <3>1. CASE opt = "b"
        <4>1. \A m \in Given(l, "b", first) : m = n
          BY <3>1 DEF Given, Unambiguous
        <4>2. l.begins[n] \in Nat
          BY LineCounts
        <4>3. Given(l, "b", first) = {}
          BY <4>1, <4>2 DEF Given
        <4> QED BY <3>1, <4>3 DEF Agrees
      <3>2. CASE opt # "b"
        BY <3>2 DEF Taken
      <3> QED BY <3>1, <3>2
    <2>3. ASSUME NEW other \in Settings
          PROVE  new[other] = IF Given(l, other, after) = {} THEN Unset[other]
                              ELSE Taken(other, Unset[other], l.options[Max(Given(l, other, after))].arg)
      <3>1. CASE other = opt
        <4>1. Given(l, other, after) # {} /\ Max(Given(l, other, after)) = n
          BY <1>1, <3>1
        <4> QED BY <2>1, <2>2, <3>1, <4>1
      <3>2. CASE other # opt
        <4>1. Given(l, other, after) = Given(l, other, first) /\ new[other] = set[other]
          BY <1>1, <2>1, <3>2
        <4> QED BY <4>1 DEF Agrees
      <3> QED BY <3>1, <3>2
    <2>4. pref = {l.options[m].arg : m \in Given(l, "t", after)}
      BY <1>1, <1>3 DEF Agrees
    <2>5. Agrees(l, after, new, pref)
      BY <2>3, <2>4 DEF Agrees
    <2> QED BY <1>3, <2>5 DEF after, new
  <1> QED BY <1>2, <1>3

\* What is true of a process and its command line.
Command(p) ==
    /\ DOMAIN settings[p] = Settings
    /\ phase[p] = "down" => optind[p] = 2 /\ settings[p] = Unset /\ prefs[p] = {}
    /\ phase[p] # "down" => IsLine(line[p])
    /\ phase[p] # "down" /\ Unambiguous(line[p]) =>
          /\ start[p] = line[p].at
          /\ phase[p] = "options" =>
                Boundary(line[p], optind[p]) /\ Agrees(line[p], optind[p], settings[p], prefs[p])
          /\ phase[p] # "options" => Agrees(line[p], line[p].at, settings[p], prefs[p])
CommandInv ==
    /\ DOMAIN phase = Procs /\ DOMAIN line = Procs /\ DOMAIN start = Procs
    /\ DOMAIN optind = Procs /\ DOMAIN settings = Procs /\ DOMAIN prefs = Procs
    /\ \A p \in Procs : Command(p)

\* A step of a process leaves the others alone.
OnlyFor(p) ==
    /\ DOMAIN phase' = Procs /\ DOMAIN line' = Procs /\ DOMAIN start' = Procs
    /\ DOMAIN optind' = Procs /\ DOMAIN settings' = Procs /\ DOMAIN prefs' = Procs
    /\ \A q \in Procs : q # p =>
          /\ phase'[q] = phase[q] /\ line'[q] = line[q] /\ start'[q] = start[q]
          /\ optind'[q] = optind[q] /\ settings'[q] = settings[q] /\ prefs'[q] = prefs[q]
LEMMA OthersCommand ==
    ASSUME CommandInv, NEW p \in Procs, OnlyFor(p), Command(p)'
    PROVE  CommandInv'
  <1>1. ASSUME NEW q \in Procs, q # p PROVE Command(q)'
    BY <1>1 DEF OnlyFor, CommandInv, Command
  <1> QED BY <1>1 DEF OnlyFor, CommandInv

\* Of a line that is not unambiguous nothing more is said.
LEMMA AmbiguousCommand ==
    ASSUME CommandInv, NEW p \in Procs, phase[p] # "down", ~Unambiguous(line[p]),
           OnlyFor(p), phase'[p] # "down", line'[p] = line[p], DOMAIN settings'[p] = Settings
    PROVE  CommandInv'
  <1>1. IsLine(line[p])
    BY DEF CommandInv, Command
  <1>2. Command(p)'
    BY <1>1 DEF Command
  <1> QED BY <1>2, OthersCommand

\* A process that is gone is as it was at first.
LEMMA ExitCommand ==
    ASSUME CommandInv, NEW p \in Procs, Exit(p)
    PROVE  CommandInv'
  <1>1. OnlyFor(p)
    BY DEF Exit, OnlyFor, CommandInv
  <1>2. /\ phase'[p] = "down" /\ optind'[p] = 2 /\ settings'[p] = Unset /\ prefs'[p] = {}
    BY DEF Exit, CommandInv
  <1>3. Command(p)'
    BY <1>2 DEF Command, Unset
  <1> QED BY <1>1, <1>3, OthersCommand

\* After the options the line is no longer looked at.
LEMMA LaterCommand ==
    ASSUME CommandInv, NEW p \in Procs, UNCHANGED <<line, start, optind, settings, prefs>>,
           phase[p] \notin {"down", "options"},
           NEW to, Goes(p, to), to \notin {"down", "options"}
    PROVE  CommandInv'
  <1>1. phase'[p] \notin {"down", "options"} /\ OnlyFor(p)
    BY DEF CommandInv, Goes, OnlyFor
  <1>2. Command(p)
    BY DEF CommandInv
  <1>3. Command(p)'
    BY <1>1, <1>2 DEF Command
  <1> QED BY <1>1, <1>3, OthersCommand

\* A process is started with a line, of which the first pass finds the command.
LEMMA LaunchCommand ==
    ASSUME CommandInv, NEW p \in Procs, Launch(p)
    PROVE  CommandInv'
  <1>1. PICK l \in Lines[p] :
            line' = [line EXCEPT ![p] = l] /\ start' = [start EXCEPT ![p] = CommandStart(l.words)]
    BY DEF Launch
  <1>2. IsLine(l) /\ (Unambiguous(l) => CommandStart(l.words) = l.at)
    BY LineAssumption, CommandStartIs
  <1>3. /\ phase' = [phase EXCEPT ![p] = "options"] /\ phase[p] = "down"
        /\ optind' = optind /\ settings' = settings /\ prefs' = prefs
    BY DEF Launch, Goes
  <1>4. Command(p)
    BY DEF CommandInv
  <1>5. /\ phase'[p] = "options" /\ line'[p] = l /\ (Unambiguous(l) => start'[p] = l.at)
        /\ optind'[p] = 2 /\ settings'[p] = Unset /\ prefs'[p] = {}
    BY <1>1, <1>2, <1>3, <1>4 DEF CommandInv, Command
  <1>6. Command(p)'
    BY <1>2, <1>5, AgreesFirst DEF Command, Unset
  <1>7. OnlyFor(p)
    BY <1>1, <1>3 DEF CommandInv, OnlyFor
  <1> QED BY <1>6, <1>7, OthersCommand

\* A word that is taken for no option is none.
LEMMA SkipCommand ==
    ASSUME CommandInv, NEW p \in Procs, phase[p] = "options", SkipWord(p)
    PROVE  CommandInv'
  <1> DEFINE l == line[p]
             i == optind[p]
  <1>0. SUFFICES ASSUME Unambiguous(l) PROVE CommandInv'
    <2>1. /\ UNCHANGED <<phase, line, start, settings, prefs>> /\ OnlyFor(p)
          /\ DOMAIN settings[p] = Settings
      BY DEF SkipWord, optionVars, OnlyFor, CommandInv, Command
    <2> QED BY <2>1, AmbiguousCommand
  <1>1. /\ IsLine(l) /\ start[p] = l.at /\ Boundary(l, i) /\ Agrees(l, i, settings[p], prefs[p])
        /\ DOMAIN settings[p] = Settings
    BY <1>0 DEF CommandInv, Command
  <1>2. /\ i < l.at /\ i \in Nat /\ l.at \in Nat
        /\ \/ ~TakesArgument(l.words[i]) /\ l.words[i].opt \notin Flags
           \/ TakesNext(l.words[i]) /\ i + 1 >= l.at
    BY <1>1, LineCounts DEF SkipWord, Word, Argv, IsLast, Boundary
  <1>3. ASSUME NEW n \in DOMAIN l.options, l.begins[n] = i PROVE FALSE
    <2>1. IsOption(l, n)
      BY <1>1 DEF IsLine
    <2>2. l.words[i].opt \in Settings \cup {"t", "v", "h"} /\ i \in 2 .. l.at - Width(l.words[i])
      BY <1>3, <2>1 DEF IsOption
    <2>3. TakesArgument(l.words[i]) \/ l.words[i].opt \in Flags
      BY <2>2 DEF Settings, TakesArgument, Flags, TextOptions
    <2>4. TakesNext(l.words[i]) => i + 1 < l.at
      BY <1>2, <2>2 DEF Width
    <2> QED BY <1>2, <2>3, <2>4
  <1>4. i # l.at
    BY <1>2
  <1>5. Boundary(l, i + 1) /\ Agrees(l, i + 1, settings[p], prefs[p])
    BY <1>1, <1>3, <1>4, PastUnknown, AgreesUnknown
  <1>6. /\ UNCHANGED <<phase, line, start, settings, prefs>>
        /\ optind' = [optind EXCEPT ![p] = i + 1]
    BY DEF SkipWord, optionVars
  <1>7. OnlyFor(p) /\ optind'[p] = i + 1
    BY <1>6 DEF OnlyFor, CommandInv
  <1>8. Command(p)'
    BY <1>1, <1>5, <1>6, <1>7 DEF Command
  <1> QED BY <1>7, <1>8, OthersCommand

\* A word that is taken for an option is one, with what is taken for its argument.
LEMMA WordIsOption ==
    ASSUME NEW l, IsLine(l), NEW i, Boundary(l, i), i < l.at,
           TakesArgument(l.words[i]) \/ l.words[i].opt \in Flags,
           ~(TakesNext(l.words[i]) /\ i + 1 >= l.at)
    PROVE  \E n \in DOMAIN l.options : l.begins[n] = i
  <1>1. i \in Nat /\ l.at \in Nat /\ Len(l.words) \in Nat /\ l.at <= Len(l.words) + 1
    BY LineCounts DEF Boundary, IsLine
  <1>2. SUFFICES ASSUME \A n \in DOMAIN l.options : l.begins[n] # i PROVE FALSE
    OBVIOUS
  <1>3. IsUnknown(l, i)
    BY <1>1, <1>2, PastUnknown
  <1> QED BY <1>1, <1>3 DEF IsUnknown

LEMMA TakeCommand ==
    ASSUME CommandInv, NEW p \in Procs, phase[p] = "options", TakeOption(p)
    PROVE  CommandInv'
  <1> DEFINE l == line[p]
             i == optind[p]
             word == l.words[i]
             after == i + Width(word)
  <1>0. SUFFICES ASSUME Unambiguous(l) PROVE CommandInv'
    <2>1. CASE Exit(p)
      BY <2>1, ExitCommand
    <2>2. CASE ~Exit(p)
      <3>1. /\ UNCHANGED <<phase, line, start>> /\ DOMAIN optind' = Procs
            /\ \A q \in Procs : q # p => optind'[q] = optind[q]
        BY <2>2 DEF TakeOption, ClientOption, optionVars, CommandInv
      <3>2. /\ settings' = settings \/ \E opt, x : settings' = [settings EXCEPT ![p][opt] = x]
            /\ prefs' = prefs \/ \E x : prefs' = [prefs EXCEPT ![p] = x]
        BY <2>2 DEF TakeOption, ClientOption, optionVars
      <3>3. OnlyFor(p) /\ DOMAIN settings'[p] = DOMAIN settings[p]
        BY <3>1, <3>2 DEF OnlyFor, CommandInv
      <3> QED BY <3>1, <3>3, AmbiguousCommand DEF CommandInv, Command
    <2> QED BY <2>1, <2>2
  <1>1. /\ IsLine(l) /\ start[p] = l.at /\ Boundary(l, i) /\ Agrees(l, i, settings[p], prefs[p])
        /\ DOMAIN settings[p] = Settings
    BY <1>0 DEF CommandInv, Command
  <1>2. /\ i < l.at /\ i \in Nat /\ l.at \in Nat
        /\ TakesArgument(word) \/ word.opt \in Flags
        /\ ~(TakesNext(word) /\ i + 1 >= l.at)
    BY <1>1, LineCounts DEF TakeOption, Word, Argv, IsLast, Boundary
  <1>3. PICK n \in DOMAIN l.options : l.begins[n] = i
    BY <1>1, <1>2, WordIsOption
  <1>4. IsOption(l, n)
    BY <1>1 DEF IsLine
  <1>5. /\ word.opt \in Settings \cup {"t", "v", "h"} /\ word.opt = l.options[n].opt
        /\ l.options[n].arg = IF TakesNext(word) THEN l.words[i + 1].text
                              ELSE IF TakesArgument(word) THEN word.attached ELSE "set"
        /\ word.opt = "t" /\ TakesNext(word) => l.words[i + 1].opt = None
    BY <1>0, <1>3, <1>4 DEF IsOption, Unambiguous
  <1>6. /\ Boundary(l, after)
        /\ IF word.opt = "t" THEN Agrees(l, after, settings[p], prefs[p] \cup {l.options[n].arg})
           ELSE Agrees(l, after, [settings[p] EXCEPT ![word.opt] = Taken(word.opt, @, l.options[n].arg)],
                       prefs[p])
    BY <1>0, <1>1, <1>3, <1>5, PastOption, AgreesOption
  <1>7. /\ Word(p) = word /\ After(p) = after
        /\ l.options[n].arg = IF TakesArgument(word) THEN Argument(p) ELSE "set"
    BY <1>5 DEF Word, Argv, After, Width, Argument, TakesNext
  <1> HIDE DEF after
  <1>8. CASE Exit(p)
    BY <1>8, ExitCommand
  <1>9. CASE word.opt = "t" /\ ~Exit(p)
    <2>1. TakesArgument(word) /\ word.opt # None
      BY <1>9, NoneAssumption DEF TakesArgument, TextOptions
    <2>2. after = IF TakesNext(word) THEN i + 2 ELSE i + 1
      BY DEF after, Width
    <2>3. /\ UNCHANGED <<phase, line, start, settings>>
          /\ \/ ~(after - 1 < l.at /\ l.words[after - 1].opt = None)
                /\ optind' = [optind EXCEPT ![p] = after - 1] /\ prefs' = prefs
             \/ prefs' = [prefs EXCEPT ![p] = @ \cup {Argument(p)}]
                /\ optind' = [optind EXCEPT ![p] = after - 1 + 1]
      BY <1>1, <1>7, <1>9 DEF TakeOption, ClientOption, optionVars, Argv
    <2>4. OnlyFor(p)
      BY <2>3 DEF OnlyFor, CommandInv
    <2>5. CASE prefs' = [prefs EXCEPT ![p] = @ \cup {Argument(p)}]
               /\ optind' = [optind EXCEPT ![p] = after - 1 + 1]
      <3>1. after - 1 + 1 = after
        BY <1>2, <2>2
      <3>2. optind'[p] = after /\ prefs'[p] = prefs[p] \cup {l.options[n].arg}
        BY <1>7, <2>1, <2>5, <3>1 DEF CommandInv
      <3>3. Command(p)'
        BY <1>1, <1>6, <1>9, <2>3, <3>2 DEF Command
      <3> QED BY <2>4, <3>3, OthersCommand
    <2>6. CASE /\ ~(after - 1 < l.at /\ l.words[after - 1].opt = None)
               /\ optind' = [optind EXCEPT ![p] = after - 1] /\ prefs' = prefs
      <3>1. ~TakesNext(word)
        <4> SUFFICES ASSUME TakesNext(word) PROVE FALSE
          OBVIOUS
        <4>1. after - 1 = i + 1
          BY <1>2, <2>2
        <4> QED BY <1>2, <1>5, <1>9, <2>6, <4>1
      <3>2. optind'[p] = i
        <4>1. after - 1 = i
          BY <1>2, <2>2, <3>1
        <4> QED BY <2>6, <4>1 DEF CommandInv
      <3>3. Command(p)'
        BY <1>1, <2>3, <2>6, <3>2 DEF Command
      <3> QED BY <2>4, <3>3, OthersCommand
    <2> QED BY <2>3, <2>5, <2>6
  <1>10. CASE word.opt # "t" /\ ~Exit(p)
    <2>1. /\ UNCHANGED <<phase, line, start, prefs>> /\ word.opt \notin {"h", "v"}
          /\ settings' = [settings EXCEPT ![p][word.opt] = Taken(word.opt, @, l.options[n].arg)]
          /\ optind' = [optind EXCEPT ![p] = after]
      BY <1>7, <1>10 DEF TakeOption, optionVars
    <2>2. OnlyFor(p)
      BY <2>1 DEF OnlyFor, CommandInv
    <2>3. /\ settings'[p] = [settings[p] EXCEPT ![word.opt] = Taken(word.opt, @, l.options[n].arg)]
          /\ optind'[p] = after
      BY <2>1 DEF CommandInv
    <2>4. DOMAIN settings'[p] = Settings
      BY <1>1, <2>3
    <2>5. Command(p)'
      BY <1>1, <1>6, <1>10, <2>1, <2>3, <2>4 DEF Command
    <2> QED BY <2>2, <2>5, OthersCommand
  <1> QED BY <1>8, <1>9, <1>10

\* The second pass ends where the command begins.
LEMMA EndCommand ==
    ASSUME CommandInv, NEW p \in Procs, phase[p] = "options", EndOptions(p)
    PROVE  CommandInv'
  <1>1. Command(p) /\ optind[p] >= start[p]
    BY DEF CommandInv, EndOptions
  <1>2. Unambiguous(line[p]) => optind[p] = line[p].at
    BY <1>1, LineCounts DEF Command, Boundary
  <1>3. /\ phase' = [phase EXCEPT ![p] = "auth"]
        /\ UNCHANGED <<line, start, optind, settings, prefs>>
    BY DEF EndOptions, Goes, unread
  <1>4. OnlyFor(p) /\ phase'[p] = "auth"
    BY <1>3 DEF OnlyFor, CommandInv
  <1>5. Command(p)'
    BY <1>1, <1>2, <1>3, <1>4 DEF Command
  <1> QED BY <1>4, <1>5, OthersCommand

\* What follows the options.
LEMMA RestCommand ==
    ASSUME CommandInv, NEW p \in Procs,
           \/ SetupAuth(p) \/ OpenConfig(p) \/ FlushConfig(p) \/ ChmodConfig(p) \/ Listen(p)
           \/ LeaveLoop(p) \/ ServerFree(p) \/ Signal(p) \/ LastClientGone(p) \/ CommandExits(p)
           \/ Kill(p)
    PROVE  CommandInv'
  <1>1. CASE Exit(p)
    BY <1>1, ExitCommand
  <1>2. CASE UNCHANGED <<phase, line, start, optind, settings, prefs>>
    BY <1>2 DEF CommandInv, Command
  <1>3. CASE /\ UNCHANGED unread /\ phase[p] \notin {"down", "options"}
             /\ \E to \in {"command", "write", "flush", "chmod", "serving", "cleanup"} : Goes(p, to)
    <2>1. PICK to \in {"command", "write", "flush", "chmod", "serving", "cleanup"} : Goes(p, to)
      BY <1>3
    <2>2. to \notin {"down", "options"}
      OBVIOUS
    <2>3. UNCHANGED <<line, start, optind, settings, prefs>>
      BY <1>3 DEF unread
    <2> QED BY <1>3, <2>1, <2>2, <2>3, LaterCommand
  <1>4. CASE SetupAuth(p)
    BY <1>1, <1>3, <1>4 DEF SetupAuth, TrustHeader, ReadConfig, GeneratePassword, RefuseConfig
  <1>5. CASE OpenConfig(p) \/ FlushConfig(p) \/ ChmodConfig(p)
    BY <1>1, <1>3, <1>5 DEF OpenConfig, FlushConfig, ChmodConfig
  <1>6. CASE Listen(p) \/ LeaveLoop(p) \/ ServerFree(p)
    BY <1>1, <1>3, <1>6 DEF Listen, LeaveLoop, ServerFree
  <1>7. CASE Signal(p) \/ LastClientGone(p) \/ CommandExits(p) \/ Kill(p)
    BY <1>1, <1>2, <1>7 DEF Signal, LastClientGone, CommandExits, Kill
  <1> QED BY <1>4, <1>5, <1>6, <1>7

\* Who edits the file does not change what a process was told.
LEMMA EditCommand ==
    ASSUME CommandInv, Edit
    PROVE  CommandInv'
  <1>1. UNCHANGED <<line, start, optind, settings, prefs>>
    BY DEF Edit, unread
  <1>2. DOMAIN phase' = Procs
    BY DEF Edit, CommandInv
  <1>3. ASSUME NEW q \in Procs PROVE Command(q)'
    <2>1. phase'[q] = phase[q] \/ (phase[q] = "flush" /\ phase'[q] = "flush elsewhere")
      BY DEF Edit
    <2> QED BY <1>1, <2>1 DEF CommandInv, Command
  <1> QED BY <1>1, <1>2, <1>3 DEF CommandInv

\* Every step keeps what is true of the command lines.
LEMMA CommandStep == CommandInv /\ [Next]_vars => CommandInv'
  <1>1. ASSUME CommandInv, UNCHANGED vars PROVE CommandInv'
    <2>1. UNCHANGED <<phase, line, start, optind, settings, prefs>>
      BY <1>1 DEF vars, procVars, unread
    <2> QED BY <1>1, <2>1 DEF CommandInv, Command
  <1>2. ASSUME CommandInv, NEW p \in Procs, ParseOption(p) PROVE CommandInv'
    BY <1>2, EndCommand, SkipCommand, TakeCommand DEF ParseOption
  <1> QED BY <1>1, <1>2, LaunchCommand, RestCommand, EditCommand DEF Next, Step

\* On every command line without the word "--" that is unambiguous, however long and in
\* whatever order, both passes of getopt_long stand where an option begins or past
\* them all, and the second has taken what was given so far (main).
THEOREM CommandCorrect == Spec => []CommandInv
  <1>1. Init => CommandInv
    <2> SUFFICES ASSUME Init PROVE CommandInv
      OBVIOUS
    <2>1. /\ DOMAIN phase = Procs /\ DOMAIN line = Procs /\ DOMAIN start = Procs
          /\ DOMAIN optind = Procs /\ DOMAIN settings = Procs /\ DOMAIN prefs = Procs
      BY DEF Init
    <2>2. ASSUME NEW p \in Procs PROVE Command(p)
      <3>1. phase[p] = "down" /\ optind[p] = 2 /\ settings[p] = Unset /\ prefs[p] = {}
        BY DEF Init
      <3> QED BY <3>1 DEF Command, Unset
    <2> QED BY <2>1, <2>2 DEF CommandInv
  <1> QED BY <1>1, CommandStep, PTL DEF Spec

\* A server that serves, and whose command line is unambiguous and without the word
\* "--", runs the command that it was given, under the options before it of which the
\* last of a kind counts, and under no others, whatever the command has for options
\* of its own (calc_command_start, main).
THEOREM RunsAsGiven == Spec => []CommandAsGiven
  <1>1. CommandInv => CommandAsGiven
    <2> SUFFICES ASSUME CommandInv, NEW p \in Procs, phase[p] = "serving", Unambiguous(line[p])
                 PROVE  LET given == line[p].options
                            OfKind(opt) == {n \in DOMAIN given : given[n].opt = opt}
                        IN  /\ SubSeq(Argv(p), start[p], Len(Argv(p))) = line[p].command
                            /\ \A opt \in Settings : settings[p][opt] =
                                  IF OfKind(opt) = {} THEN Unset[opt]
                                  ELSE Taken(opt, Unset[opt], given[Max(OfKind(opt))].arg)
                            /\ prefs[p] = {given[n].arg : n \in OfKind("t")}
      BY DEF CommandAsGiven
    <2> DEFINE l == line[p]
    <2>1. IsLine(l) /\ start[p] = l.at /\ Agrees(l, l.at, settings[p], prefs[p])
      BY DEF CommandInv, Command
    <2>2. SubSeq(Argv(p), start[p], Len(Argv(p))) = l.command
      BY <2>1 DEF Argv, IsLine
    <2>3. \A opt : Given(l, opt, l.at) = {n \in DOMAIN l.options : l.options[n].opt = opt}
      <3>1. \A n \in DOMAIN l.options : l.begins[n] < l.at
        <4> SUFFICES ASSUME NEW n \in DOMAIN l.options PROVE l.begins[n] < l.at
          OBVIOUS
        <4>1. l.begins[n] \in 2 .. l.at - 1 /\ l.at \in Nat
          BY <2>1, PastOption, LineCounts
        <4> QED BY <4>1
      <3> QED BY <3>1 DEF Given
    <2> QED BY <2>1, <2>2, <2>3 DEF Agrees
  <1> QED BY <1>1, CommandCorrect, PTL
=============================================================================
