---------------------------- MODULE BrowserProofs ----------------------------
(***************************************************************************)
(* Proofs about Browser.tla, for any number of tabs, connections and        *)
(* sessions, whatever the users do and whichever connections die: a session *)
(* is one page's where there are Web Locks, a page's text is one piece of   *)
(* its session's output, and it is complete when the session is over.       *)
(***************************************************************************)
EXTENDS Browser, OffsetLemmas

-----------------------------------------------------------------------------
\* The server's sessions: a connection has one at most, and only one that is
\* not over.
SessionsOK ==
    \A s \in Ids :
        /\ shown[s] <= produced[s]
        /\ owner[s] # None => phase[s] \in {"running", "ended"}
        /\ \A r \in Ids : owner[s] # None /\ owner[r] = owner[s] => r = s

\* The server's end of a connection: it waits for a hello before anything is
\* sent, and forgets everything when it closes.
LineOK(c) ==
    /\ line[c] # "up" => hello[c] = None /\ role[c] = "fresh"
    /\ hello[c] # None => role[c] = "fresh"
    /\ \A s \in Ids : owner[s] = c => role[c] \in {"attached", "greeted"}
    /\ ~Listening(c) => wire[c] = <<>> /\ line[c] # "opening"
    /\ line[c] # "down" /\ role[c] \in {"fresh", "attached"} => wire[c] = <<>>

\* A page and its connection, whose first message says what the page knows.
PageOK(t) ==
    /\ ws[t] # None <=> page[t] \in {"connecting", "open"}
    /\ ws[t] # None => /\ line[ws[t]] = "opening" <=> page[t] = "connecting"
                       /\ \A u \in Tabs : ws[u] = ws[t] => u = t
                       /\ hello[ws[t]] # None => hello[ws[t]] = HelloOf(t)
    /\ page[t] = "claiming" => Locks /\ stored[t] # None /\ sessionId[t] = None
    /\ page[t] = "none" => stored[t] = None
    /\ sessionId[t] \in {None, stored[t]}

\* A page that uses a session has its lock.
LockOK(t) == Locks /\ sessionId[t] # None => holder[sessionId[t]] = t

\* The id of a session is known to nobody before its first page is told ...
Secret(s) ==
    /\ \A t \in Tabs : stored[t] # s /\ sessionId[t] # s
    /\ \A c \in Conns : hello[c] # None => hello[c].id # s
    /\ holder[s] = None /\ waiters[s] = {}

\* ... the one whose connection c has session s: it will be told, or is being told.
Told(c, s) ==
    \/ owner[s] = c /\ role[c] = "attached"
    \/ wire[c] # <<>> /\ Head(wire[c]).type = "session" /\ Head(wire[c]).id = s

\* A page is told the session it asked for, or a new one that no other page is
\* told, and then its old one has ended.
TellingOK(t) ==
    ws[t] # None => \A s \in Ids : Told(ws[t], s) =>
        \/ sessionId[t] = s
        \/ /\ Secret(s)
           /\ \A u \in Tabs : u # t /\ ws[u] # None => ~Told(ws[u], s)
           /\ sessionId[t] # None => phase[sessionId[t]] \in {"ended", "freed"}

\* Nobody knows of a session that has not been started.
UnbornOK(s) ==
    phase[s] = "unborn" =>
        /\ Secret(s) /\ owner[s] = None
        /\ \A t \in Tabs : ws[t] # None => ~Told(ws[t], s)

\* A session's command has exited, and a page that is at offset at has all of its
\* output, unless that outran the page.
Over(s) == s \in Ids /\ phase[s] \in {"ended", "freed"}
Complete(s, at, t) == Over(s) /\ (outrun[t] \/ at = produced[s])

\* Where in its stream a message ends, and what may come next there to page t.
EndOf(m) == IF m.type = "session" THEN m.offset ELSE m.to
Continues(m, s, at, t) ==
    \/ m.type = "output" /\ m.id = s /\ m.from <= m.to /\ (outrun[t] \/ m.from = at)
    \/ m.type = "end" /\ (m.code = "normal" => Complete(s, at, t))

\* Of what is on its way to page t each message goes on where the last one ends.
Chained(w, t) ==
    \A i \in 1 .. Len(w) - 1 :
        w[i].type # "end" /\ Continues(w[i + 1], w[i].id, EndOf(w[i]), t)

\* The first goes on where the page is, and the server's next one will go on
\* where the last one ends.
StreamOK(t) ==
    LET c == ws[t]
        w == wire[c]
        last == w[Len(w)]
    IN  c # None =>
        /\ Chained(w, t)
        /\ w # <<>> => \/ w[1].type = "session"
                       \/ Continues(w[1], sessionId[t], received[t], t)
        /\ line[c] # "down" /\ w # <<>> => last.type # "end"
        /\ \A s \in Ids : owner[s] = c /\ role[c] = "greeted" =>
              IF w = <<>> THEN sessionId[t] = s /\ (outrun[t] \/ received[t] = shown[s])
              ELSE last.id = s /\ (outrun[t] \/ EndOf(last) = shown[s])

\* A terminal's text ends where the page is.
TextOK(t) ==
    outrun[t] \/ text[t] = Blank \/ (sessionId[t] # None /\ text[t] = TextOf(sessionId[t], received[t]))

\* A page believes that its session is over when it has all of it.
Finished(t) == Complete(sessionId[t], received[t], t)
EndOK(t) ==
    LET w == wire[ws[t]] IN
    /\ page[t] = "ended" => Finished(t)
    /\ endCode[t] # None =>
          /\ page[t] = "open" /\ w = <<>> /\ line[ws[t]] = "down"
          /\ endCode[t] = "normal" => Finished(t)
    /\ page[t] = "open" /\ line[ws[t]] = "down" /\ code[ws[t]] = "normal" =>
          IF w = <<>> THEN Finished(t) ELSE w[Len(w)] = SessionEnd("normal")

\* The inductive invariant.
BrowserInv ==
    /\ TypeOK
    /\ SessionsOK
    /\ \A c \in Conns : LineOK(c)
    /\ \A t \in Tabs : /\ PageOK(t) /\ LockOK(t) /\ TellingOK(t)
                       /\ StreamOK(t) /\ TextOK(t) /\ EndOK(t)
    /\ \A s \in Ids : UnbornOK(s)

\* What keeps output from being outrun: the terminal of a session that has a page
\* is read only while Limit of it at most is still to be sent, and then once
\* before it is sent, unless the page's RESUME came too soon.
NotOutrun ==
    \A s \in Ids :
        /\ phase[s] = "unborn" => produced[s] = 0
        /\ \A t \in Tabs : owner[s] # None /\ ws[t] = owner[s] =>
              \/ outrun[t]
              \/ /\ produced[s] - shown[s] <= Capacity
                 /\ reading[s] => produced[s] - shown[s] <= Limit

-----------------------------------------------------------------------------
\* At first there is nothing.
LEMMA InitOK == Init => BrowserInv
  <1> SUFFICES ASSUME Init PROVE BrowserInv
    OBVIOUS
  <1>1. TypeOK
    BY LimitsAssumption DEF Init, Server!Init, TypeOK, Blank, Codes
  <1>2. SessionsOK
    BY DEF Init, Server!Init, SessionsOK
  <1>3. ASSUME NEW c \in Conns PROVE LineOK(c)
    BY <1>3, NoneAssumption DEF Init, Server!Init, LineOK
  <1>4. ASSUME NEW t \in Tabs
        PROVE  PageOK(t) /\ LockOK(t) /\ TellingOK(t) /\ StreamOK(t) /\ TextOK(t) /\ EndOK(t)
    BY <1>4 DEF Init, PageOK, LockOK, TellingOK, StreamOK, TextOK, EndOK, Blank
  <1>5. ASSUME NEW s \in Ids PROVE UnbornOK(s)
    BY <1>5, NoneAssumption DEF Init, Server!Init, UnbornOK, Secret, Told
  <1> QED BY <1>1, <1>2, <1>3, <1>4, <1>5 DEF BrowserInv

\* What is complete stays complete in every step: so does what a message that is
\* on its way says ...
CompleteStays == \A s \in Ids : Over(s) => Over(s)' /\ UNCHANGED produced[s]

\* ... of where it goes on ...
LEMMA ContinuesKept ==
    ASSUME NEW t \in Tabs, NEW m, NEW s, NEW at, Continues(m, s, at, t), CompleteStays,
           outrun[t] => outrun'[t]
    PROVE  Continues(m, s, at, t)'
  BY DEF Continues, CompleteStays, Complete, Over

\* ... and so do all that are on their way to one page.
LEMMA ChainKept ==
    ASSUME NEW t \in Tabs, NEW w, Chained(w, t), CompleteStays, outrun[t] => outrun'[t]
    PROVE  Chained(w, t)'
  BY ContinuesKept DEF Chained, EndOf

\* A page of which a step changes nothing has the same stream before it ...
LEMMA StreamKept ==
    ASSUME NEW t \in Tabs, StreamOK(t), CompleteStays, outrun[t] => outrun'[t],
           UNCHANGED <<ws[t], sessionId[t], received[t]>>,
           ws[t] # None => /\ UNCHANGED wire[ws[t]]
                           /\ line'[ws[t]] # "down" => line[ws[t]] # "down",
           \A s \in Ids : owner'[s] = ws[t] /\ role'[ws[t]] = "greeted" =>
               owner[s] = ws[t] /\ role[ws[t]] = "greeted" /\ (outrun[t] \/ UNCHANGED shown[s])
    PROVE  StreamOK(t)'
  <1> SUFFICES ASSUME ws[t] # None PROVE StreamOK(t)'
    BY DEF StreamOK
  <1>1. PICK w : w = wire[ws[t]] /\ wire'[ws'[t]] = w
    OBVIOUS
  <1>2. Chained(w, t) /\ Chained(w, t)'
    BY <1>1, ChainKept DEF StreamOK
  <1>3. w # <<>> => w[1].type = "session" \/ Continues(w[1], sessionId[t], received[t], t)'
    <2>1. w # <<>> => w[1].type = "session" \/ Continues(w[1], sessionId[t], received[t], t)
      BY <1>1 DEF StreamOK
    <2>2. Continues(w[1], sessionId[t], received[t], t) => Continues(w[1], sessionId[t], received[t], t)'
      BY ContinuesKept DEF Continues, Complete, Over
    <2> QED BY <2>1, <2>2
  <1>4. line'[ws[t]] # "down" /\ w # <<>> => w[Len(w)].type # "end"
    BY <1>1 DEF StreamOK
  <1>5. ASSUME NEW s \in Ids, owner'[s] = ws[t], role'[ws[t]] = "greeted"
        PROVE  IF w = <<>> THEN sessionId'[t] = s /\ (outrun'[t] \/ received'[t] = shown'[s])
               ELSE w[Len(w)].id = s /\ (outrun'[t] \/ EndOf(w[Len(w)]) = shown'[s])
    BY <1>1, <1>5 DEF StreamOK
  <1> QED BY <1>1, <1>2, <1>3, <1>4, <1>5 DEF StreamOK, EndOf

\* ... and is as far at its end.
LEMMA EndKept ==
    ASSUME NEW t \in Tabs, PageOK(t), EndOK(t), CompleteStays, outrun[t] => outrun'[t],
           UNCHANGED <<ws[t], sessionId[t], received[t], page[t], endCode[t]>>,
           ws[t] # None => /\ UNCHANGED <<wire[ws[t]], code[ws[t]]>>
                           /\ line'[ws[t]] = "down" <=> line[ws[t]] = "down"
    PROVE  EndOK(t)'
  <1>1. Finished(t) => Finished(t)'
    BY DEF Finished, CompleteStays, Complete, Over
  <1> QED BY <1>1 DEF PageOK, EndOK

\* A lock that is given to a page that waits is nobody else's.
LEMMA GrantOK ==
    ASSUME BrowserInv, NEW r \in Ids, Grant(r)
    PROVE  BrowserInv'
  <1>1. UNCHANGED <<serverVars, lineVars, pageVars, boundVars>>
    BY DEF Grant
  <1>2. TypeOK'
    BY <1>1 DEF BrowserInv, TypeOK, Grant, serverVars, lineVars, pageVars, boundVars
  <1>3. SessionsOK'
    BY <1>1 DEF BrowserInv, SessionsOK, serverVars
  <1>4. ASSUME NEW c \in Conns PROVE LineOK(c)'
    BY <1>1 DEF BrowserInv, LineOK, Listening, serverVars, lineVars, pageVars
  <1>5. ASSUME NEW t \in Tabs PROVE PageOK(t)'
    BY <1>1 DEF BrowserInv, PageOK, HelloOf, lineVars, pageVars
  <1>6. ASSUME NEW t \in Tabs PROVE LockOK(t)'
    BY <1>1, NoneAssumption DEF BrowserInv, LockOK, Grant, TypeOK, pageVars
  <1>7. ASSUME NEW s \in Ids, Secret(s) PROVE Secret(s)'
    BY <1>1, <1>7 DEF BrowserInv, Secret, Grant, TypeOK, lineVars, pageVars
  <1>8. ASSUME NEW t \in Tabs PROVE TellingOK(t)'
    BY <1>1, <1>7 DEF BrowserInv, TellingOK, Told, serverVars, lineVars, pageVars
  <1>9. ASSUME NEW t \in Tabs PROVE StreamOK(t)' /\ TextOK(t)' /\ EndOK(t)'
    <2>1. CompleteStays
      BY <1>1 DEF CompleteStays, Over, serverVars
    <2>2. UNCHANGED <<ws, page, sessionId, received, endCode, outrun, text>>
          /\ UNCHANGED <<line, role, code, wire, owner, shown>>
      BY <1>1 DEF serverVars, lineVars, pageVars
    <2>3. StreamOK(t)' /\ EndOK(t)'
      BY <2>1, <2>2, StreamKept, EndKept DEF BrowserInv
    <2> QED BY <2>2, <2>3 DEF BrowserInv, TextOK
  <1>10. ASSUME NEW s \in Ids PROVE UnbornOK(s)'
    BY <1>1, <1>7 DEF BrowserInv, UnbornOK, Told, serverVars, lineVars, pageVars
  <1> QED BY <1>2, <1>3, <1>4, <1>5, <1>6, <1>8, <1>9, <1>10 DEF BrowserInv

\* A page goes, and its tab may get another one with an id that was known: what
\* the four actions of the user have in common.
Restarts(t, id) ==
    /\ Abandons(t)
    /\ UNCHANGED serverVars
    /\ stored' = [stored EXCEPT ![t] = id]
    /\ sessionId' = [sessionId EXCEPT ![t] = IF Locks THEN None ELSE id]
    /\ \E p \in {"none", "claiming", "fetching"} :
          /\ p = "none" => id = None
          /\ p = "claiming" => Locks /\ id # None
          /\ page' = [page EXCEPT ![t] = p]
    /\ received' = [received EXCEPT ![t] = 0]
    /\ everOpened' = [everOpened EXCEPT ![t] = FALSE]
    /\ endCode' = [endCode EXCEPT ![t] = None]
    /\ text' = [text EXCEPT ![t] = Blank]
    /\ outrun' = [outrun EXCEPT ![t] = FALSE]
    /\ acts' \in 0 .. MaxActs /\ UNCHANGED faults

\* Locks are taken only from tab t, and only those of known sessions are given.
LocksMove(t) ==
    /\ holder' \in [Ids -> Tabs \cup {None}] /\ waiters' \in [Ids -> SUBSET Tabs]
    /\ \A s \in Ids : holder[s] \in Tabs \ {t} => holder'[s] = holder[s]
    /\ \A s \in Ids : Secret(s) => holder'[s] = None /\ waiters'[s] = {}

\* A page that lets go of its connection leaves those of the others alone.
LEMMA AbandonsOK ==
    ASSUME BrowserInv, NEW t \in Tabs, Abandons(t), UNCHANGED serverVars
    PROVE  /\ line' \in [Conns -> {"down", "opening", "up"}] /\ wire' \in [Conns -> Seq(Messages)]
           /\ ws' \in [Tabs -> Conns \cup {None}] /\ ws'[t] = None
           /\ UNCHANGED <<hello, role, code, phase, owner, produced, shown, reading>>
           /\ SessionsOK'
           /\ \A c \in Conns : LineOK(c)'
           /\ \A u \in Tabs \ {t} : /\ ws'[u] = ws[u]
                                    /\ ws[u] # None => UNCHANGED <<line[ws[u]], wire[ws[u]]>>
           /\ \A u \in Tabs, s \in Ids : ws'[u] # None =>
                 u # t /\ ws[u] # None /\ (Told(ws[u], s)' <=> Told(ws[u], s))
  <1> USE NoneAssumption
  <1>1. line' \in [Conns -> {"down", "opening", "up"}] /\ wire' \in [Conns -> Seq(Messages)]
        /\ ws' \in [Tabs -> Conns \cup {None}]
    <2>1. CASE ws[t] = None
      BY <2>1 DEF BrowserInv, TypeOK, Abandons
    <2>2. CASE ws[t] # None
      <3>1. line' = [line EXCEPT ![ws[t]] = IF @ = "opening" THEN "down" ELSE @]
            /\ wire' = [wire EXCEPT ![ws[t]] = <<>>] /\ ws' = [ws EXCEPT ![t] = None]
        BY <2>2 DEF Abandons
      <3>2. line' \in [Conns -> {"down", "opening", "up"}] /\ ws' \in [Tabs -> Conns \cup {None}]
        BY <3>1 DEF BrowserInv, TypeOK
      <3>3. <<>> \in Seq(Messages)
        OBVIOUS
      <3>4. wire' \in [Conns -> Seq(Messages)]
        BY <3>1, <3>3 DEF BrowserInv, TypeOK
      <3> QED BY <3>2, <3>4
    <2> QED BY <2>1, <2>2
  <1>2. UNCHANGED <<hello, role, code, phase, owner, produced, shown, reading>> /\ ws'[t] = None
    BY DEF BrowserInv, TypeOK, Abandons, serverVars
  <1>3. ASSUME NEW u \in Tabs \ {t}
        PROVE  ws'[u] = ws[u] /\ (ws[u] # None => UNCHANGED <<line[ws[u]], wire[ws[u]]>>)
    BY <1>3 DEF BrowserInv, TypeOK, PageOK, Abandons
  <1>4. SessionsOK'
    BY <1>2 DEF BrowserInv, SessionsOK
  <1>5. ASSUME NEW c \in Conns PROVE LineOK(c)'
    <2>1. c = ws[t] => ~Listening(c)' /\ wire'[c] = <<>>
                       /\ line'[c] = IF line[c] = "opening" THEN "down" ELSE line[c]
      BY <1>2, <1>3 DEF BrowserInv, TypeOK, PageOK, Abandons, Listening
    <2>2. c # ws[t] => UNCHANGED <<wire[c], line[c]>> /\ (Listening(c)' <=> Listening(c))
      BY <1>2, <1>3 DEF BrowserInv, TypeOK, Abandons, Listening
    <2> QED BY <1>2, <2>1, <2>2 DEF BrowserInv, LineOK
  <1>6. ASSUME NEW u \in Tabs, ws'[u] # None, NEW s \in Ids
        PROVE  u # t /\ ws[u] # None /\ (Told(ws[u], s)' <=> Told(ws[u], s))
    BY <1>2, <1>3, <1>6 DEF Told
  <1> QED BY <1>1, <1>2, <1>3, <1>4, <1>5, <1>6

\* A page that goes takes nothing along that another page has.
LEMMA RestartOK ==
    ASSUME BrowserInv, NEW t \in Tabs, NEW id \in Ids \cup {None}, Restarts(t, id), LocksMove(t),
           \A s \in Ids : Secret(s) => s # id
    PROVE  BrowserInv'
  <1> USE NoneAssumption
  <1>0. /\ line' \in [Conns -> {"down", "opening", "up"}] /\ wire' \in [Conns -> Seq(Messages)]
        /\ ws' \in [Tabs -> Conns \cup {None}]
        /\ SessionsOK'
        /\ \A c \in Conns : LineOK(c)'
    BY AbandonsOK DEF Restarts
  <1>1. UNCHANGED <<hello, role, code, phase, owner, produced, shown, reading>> /\ ws'[t] = None
    BY AbandonsOK DEF Restarts
  <1>2. TypeOK'
    <2>1. page' \in [Tabs -> {"none", "claiming", "fetching", "connecting", "open",
                             "waiting", "ended", "takenOver", "refused"}]
          /\ stored' \in [Tabs -> Ids \cup {None}] /\ sessionId' \in [Tabs -> Ids \cup {None}]
          /\ text' \in [Tabs -> [id : Ids \cup {None}, to : Nat]]
      BY DEF BrowserInv, TypeOK, Restarts, Blank
    <2>2. received' \in [Tabs -> Nat] /\ everOpened' \in [Tabs -> BOOLEAN] /\ outrun' \in [Tabs -> BOOLEAN]
          /\ endCode' \in [Tabs -> {None, "normal", "taken"}]
          /\ acts' \in 0 .. MaxActs /\ faults' \in 0 .. MaxFaults
      BY DEF BrowserInv, TypeOK, Restarts
    <2> QED BY <1>0, <1>1, <2>1, <2>2 DEF BrowserInv, TypeOK, LocksMove
  <1>3. ASSUME NEW u \in Tabs \ {t}
        PROVE  /\ UNCHANGED <<ws[u], page[u], stored[u], sessionId[u], received[u], endCode[u], text[u], outrun[u]>>
               /\ ws[u] # None => UNCHANGED <<line[ws[u]], wire[ws[u]]>>
    <2>1. ws'[u] = ws[u] /\ (ws[u] # None => UNCHANGED <<line[ws[u]], wire[ws[u]]>>)
      BY <1>3, AbandonsOK DEF Restarts
    <2> QED BY <1>3, <2>1 DEF BrowserInv, TypeOK, Restarts
  <1>4. /\ stored'[t] = id /\ sessionId'[t] \in {None, id} /\ text'[t] = Blank
        /\ Locks => sessionId'[t] = None
        /\ endCode'[t] = None /\ page'[t] \in {"none", "claiming", "fetching"}
        /\ page'[t] = "none" => id = None
        /\ page'[t] = "claiming" => Locks /\ id # None
    BY DEF BrowserInv, TypeOK, Restarts
  <1>5. ASSUME NEW u \in Tabs, ws'[u] # None, NEW s \in Ids
        PROVE  u # t /\ ws[u] # None /\ (Told(ws[u], s)' <=> Told(ws[u], s))
    BY <1>5, AbandonsOK DEF Restarts
  <1>6. ASSUME NEW u \in Tabs PROVE PageOK(u)'
    <2>1. CASE u = t
      BY <1>1, <1>4, <2>1 DEF PageOK
    <2>2. CASE u # t
      <3>1. ASSUME NEW v \in Tabs, ws'[v] = ws'[u], ws'[u] # None PROVE v = u
        BY <1>1, <1>3, <2>2, <3>1 DEF BrowserInv, PageOK
      <3> QED BY <1>1, <1>3, <2>2, <3>1 DEF BrowserInv, PageOK, HelloOf
    <2> QED BY <2>1, <2>2
  <1>7. ASSUME NEW u \in Tabs PROVE LockOK(u)'
    <2>1. SUFFICES ASSUME Locks, u # t, sessionId[u] # None PROVE holder'[sessionId[u]] = u
      BY <1>3, <1>4 DEF LockOK
    <2>2. sessionId[u] \in Ids /\ holder[sessionId[u]] = u
      BY <2>1 DEF BrowserInv, TypeOK, LockOK
    <2> QED BY <2>1, <2>2 DEF LocksMove
  <1>8. ASSUME NEW s \in Ids, Secret(s) PROVE Secret(s)'
    BY <1>1, <1>3, <1>4, <1>8 DEF Secret, LocksMove
  <1>9. ASSUME NEW u \in Tabs PROVE TellingOK(u)'
    BY <1>1, <1>3, <1>5, <1>8 DEF BrowserInv, TellingOK
  <1>10. ASSUME NEW u \in Tabs PROVE StreamOK(u)' /\ TextOK(u)' /\ EndOK(u)'
    <2>1. CASE u = t
      BY <1>1, <1>4, <2>1 DEF StreamOK, TextOK, EndOK
    <2>2. CASE u # t
      <3>1. StreamOK(u)'
        BY <1>1, <1>3, <2>2, StreamKept DEF BrowserInv, CompleteStays, Over
      <3>2. TextOK(u)'
        BY <1>3, <2>2 DEF BrowserInv, TextOK
      <3>3. EndOK(u)'
        BY <1>1, <1>3, <2>2, EndKept DEF BrowserInv, CompleteStays, Over
      <3> QED BY <3>1, <3>2, <3>3
    <2> QED BY <2>1, <2>2
  <1>11. ASSUME NEW s \in Ids PROVE UnbornOK(s)'
    BY <1>1, <1>3, <1>5, <1>8 DEF BrowserInv, UnbornOK
  <1> QED BY <1>0, <1>2, <1>6, <1>7, <1>9, <1>10, <1>11 DEF BrowserInv

\* What a page asks for before it is given it.
LEMMA ClaimMoves ==
    ASSUME BrowserInv, NEW t \in Tabs, NEW s \in Ids, NEW held \in [Ids -> Tabs \cup {None}],
           NEW queued \in [Ids -> SUBSET Tabs], Claim(s, t, held, queued), ~Secret(s),
           \A r \in Ids : holder[r] \in Tabs \ {t} => held[r] = holder[r],
           \A r \in Ids : Secret(r) => held[r] = None /\ queued[r] = {}
    PROVE  LocksMove(t)
  <1>1. holder' \in [Ids -> Tabs \cup {None}] /\ waiters' \in [Ids -> SUBSET Tabs]
    BY DEF Claim
  <1>2. ASSUME NEW r \in Ids, holder[r] \in Tabs \ {t} PROVE holder'[r] = holder[r]
    BY <1>2, NoneAssumption DEF Claim
  <1>3. ASSUME NEW r \in Ids, Secret(r) PROVE holder'[r] = None /\ waiters'[r] = {}
    <2>1. r # s /\ held[r] = None /\ queued[r] = {}
      BY <1>3
    <2> QED BY <2>1 DEF Claim
  <1> QED BY <1>1, <1>2, <1>3 DEF LocksMove

\* A stored id is no secret.
LEMMA StoredKnown ==
    ASSUME BrowserInv, NEW t \in Tabs
    PROVE  /\ stored[t] \in Ids \cup {None}
           /\ stored[t] # None => ~Secret(stored[t])
           /\ \A s \in Ids : Secret(s) => s # stored[t]
  BY DEF BrowserInv, TypeOK, Secret

\* The locks of a page that goes are given back.
LEMMA LocksGivenBack ==
    ASSUME BrowserInv, NEW t \in Tabs
    PROVE  /\ HolderWithout(t) \in [Ids -> Tabs \cup {None}]
           /\ WaitersWithout(t) \in [Ids -> SUBSET Tabs]
           /\ \A s \in Ids : holder[s] \in Tabs \ {t} => HolderWithout(t)[s] = holder[s]
           /\ \A s \in Ids : Secret(s) => HolderWithout(t)[s] = None /\ WaitersWithout(t)[s] = {}
  BY NoneAssumption DEF BrowserInv, TypeOK, Secret, HolderWithout, WaitersWithout

\* The actions of the user.
LEMMA UserOK ==
    ASSUME BrowserInv, NEW t \in Tabs, NEW u \in Tabs,
           Visit(t) \/ Duplicate(t, u) \/ Reload(t) \/ Shut(t)
    PROVE  BrowserInv'
  <1> USE NoneAssumption
  <1>1. ASSUME Act PROVE acts' \in 0 .. MaxActs /\ UNCHANGED faults
    BY <1>1, LimitsAssumption DEF Act, BrowserInv, TypeOK
  <1>2. ASSUME NEW v \in Tabs, page[v] = "none", UNCHANGED <<ws, lineVars>> PROVE Abandons(v)
    <2>1. ws[v] = None
      BY <1>2 DEF BrowserInv, PageOK
    <2>2. ws' = [ws EXCEPT ![v] = None]
      BY <1>2, <2>1 DEF BrowserInv, TypeOK
    <2> QED BY <1>2, <2>1, <2>2 DEF Abandons, lineVars
  <1>3. ASSUME NEW v \in Tabs, NEW id \in Ids \cup {None}, Starts(v, id), Abandons(v), Act,
               UNCHANGED serverVars
        PROVE  Restarts(v, id)
    <2>1. \E p \in {"none", "claiming", "fetching"} :
             /\ p = "none" => id = None
             /\ p = "claiming" => Locks /\ id # None
             /\ page' = [page EXCEPT ![v] = p]
      BY <1>3 DEF Starts
    <2> QED BY <1>1, <1>3, <2>1 DEF Restarts, Starts
  <1>4. \A s \in Ids : Secret(s) => s # None
    OBVIOUS
  <1>5. CASE Visit(t)
    <2>1. Restarts(t, None)
      BY <1>2, <1>3, <1>5 DEF Visit
    <2>2. LocksMove(t)
      BY <1>5 DEF Visit, LocksMove, lockVars, BrowserInv, TypeOK, Secret
    <2> QED BY <1>4, <2>1, <2>2, RestartOK
  <1>6. CASE Duplicate(t, u)
    <2>1. Restarts(u, stored[t])
      BY <1>2, <1>3, <1>6, StoredKnown DEF Duplicate
    <2>2. LocksMove(u)
      <3>1. CASE stored[t] = None
        BY <1>6, <3>1 DEF Duplicate, LocksMove, lockVars, BrowserInv, TypeOK, Secret
      <3>2. CASE stored[t] # None
        <4>1. Claim(stored[t], u, holder, waiters) /\ stored[t] \in Ids /\ ~Secret(stored[t])
          BY <1>6, <3>2, StoredKnown DEF Duplicate
        <4>2. holder \in [Ids -> Tabs \cup {None}] /\ waiters \in [Ids -> SUBSET Tabs]
              /\ \A r \in Ids : Secret(r) => holder[r] = None /\ waiters[r] = {}
          BY DEF BrowserInv, TypeOK, Secret
        <4> QED BY <4>1, <4>2, ClaimMoves
      <3> QED BY <3>1, <3>2
    <2> QED BY <2>1, <2>2, StoredKnown, RestartOK
  <1>7. CASE Reload(t)
    <2>1. Restarts(t, stored[t])
      BY <1>3, <1>7, StoredKnown DEF Reload
    <2>2. LocksMove(t)
      <3>1. CASE stored[t] = None
        BY <1>7, <3>1, LocksGivenBack DEF Reload, LocksMove
      <3>2. CASE stored[t] # None
        <4>1. Claim(stored[t], t, HolderWithout(t), WaitersWithout(t))
              /\ stored[t] \in Ids /\ ~Secret(stored[t])
          BY <1>7, <3>2, StoredKnown DEF Reload
        <4> QED BY <4>1, LocksGivenBack, ClaimMoves
      <3> QED BY <3>1, <3>2
    <2> QED BY <2>1, <2>2, StoredKnown, RestartOK
  <1>8. CASE Shut(t)
    <2>1. sessionId' = [sessionId EXCEPT ![t] = IF Locks THEN None ELSE None]
      BY <1>8 DEF Shut
    <2>2. Restarts(t, None)
      BY <1>1, <1>8, <2>1 DEF Shut, Restarts
    <2>3. LocksMove(t)
      BY <1>8, LocksGivenBack DEF Shut, LocksMove
    <2> QED BY <1>4, <2>2, <2>3, RestartOK
  <1> QED BY <1>5, <1>6, <1>7, <1>8

\* A page has the lock it asked for, or does without it: the session that it may
\* use is one it knew (claimSession).
LEMMA ClaimedOK ==
    ASSUME BrowserInv, NEW t \in Tabs, Claimed(t) \/ TimedOut(t) \/ Reconnect(t)
    PROVE  BrowserInv'
  <1> USE NoneAssumption
  <1>1. UNCHANGED <<stored, received, everOpened, endCode, ws, text, outrun>>
        /\ UNCHANGED <<serverVars, lineVars, holder, boundVars>>
    BY DEF Claimed, TimedOut, Reconnect, lockVars
  <1>2. page[t] \in {"claiming", "waiting"} /\ ws[t] = None
    BY DEF BrowserInv, PageOK, Claimed, TimedOut, Reconnect, Reconnects
  <1>3. page' = [page EXCEPT ![t] = "fetching"]
    BY DEF Claimed, TimedOut, Reconnect
  <1>4. \/ UNCHANGED sessionId
        \/ /\ sessionId' = [sessionId EXCEPT ![t] = stored[t]]
           /\ page[t] = "claiming" /\ holder[stored[t]] = t
    BY DEF Claimed, TimedOut, Reconnect
  <1>5. UNCHANGED waiters \/ waiters' = [waiters EXCEPT ![stored[t]] = @ \ {t}]
    BY DEF Claimed, TimedOut, Reconnect, lockVars
  <1>6. TypeOK'
    <2>1. page' \in [Tabs -> {"none", "claiming", "fetching", "connecting", "open",
                             "waiting", "ended", "takenOver", "refused"}]
      BY <1>3 DEF BrowserInv, TypeOK
    <2>2. sessionId' \in [Tabs -> Ids \cup {None}]
      <3>1. sessionId \in [Tabs -> Ids \cup {None}] /\ stored[t] \in Ids \cup {None}
        BY DEF BrowserInv, TypeOK
      <3> QED BY <1>4, <3>1
    <2>3. waiters' \in [Ids -> SUBSET Tabs]
      <3>1. waiters \in [Ids -> SUBSET Tabs]
        BY DEF BrowserInv, TypeOK
      <3> QED BY <1>5, <3>1
    <2> QED BY <1>1, <2>1, <2>2, <2>3 DEF BrowserInv, TypeOK, serverVars, lineVars, boundVars
  <1>7. SessionsOK'
    BY <1>1 DEF BrowserInv, SessionsOK, serverVars
  <1>8. ASSUME NEW c \in Conns PROVE LineOK(c)'
    BY <1>1 DEF BrowserInv, LineOK, Listening, serverVars, lineVars
  <1>9. ASSUME NEW u \in Tabs
        PROVE  /\ ws[u] # None => u # t /\ UNCHANGED sessionId[u]
               /\ u # t => UNCHANGED <<page[u], sessionId[u]>>
               /\ sessionId[u] # None => UNCHANGED sessionId[u]
    BY <1>2, <1>3, <1>4 DEF BrowserInv, TypeOK, PageOK
  <1>10. page'[t] = "fetching" /\ sessionId'[t] \in {sessionId[t], stored[t]}
    BY <1>3, <1>4 DEF BrowserInv, TypeOK
  <1>11. ASSUME NEW u \in Tabs PROVE PageOK(u)'
    BY <1>1, <1>2, <1>9, <1>10 DEF BrowserInv, PageOK, HelloOf, lineVars
  <1>12. ASSUME NEW u \in Tabs PROVE LockOK(u)'
    BY <1>1, <1>4 DEF BrowserInv, TypeOK, LockOK
  <1>13. ASSUME NEW s \in Ids, Secret(s) PROVE Secret(s)'
    BY <1>1, <1>4, <1>5, <1>13 DEF BrowserInv, TypeOK, Secret, lineVars
  <1>14. ASSUME NEW u \in Tabs PROVE TellingOK(u)'
    BY <1>1, <1>9, <1>13 DEF BrowserInv, TellingOK, Told, serverVars, lineVars
  <1>15. CompleteStays
    BY <1>1 DEF CompleteStays, Over, serverVars
  <1>16. ASSUME NEW u \in Tabs PROVE StreamOK(u)'
    <2>1. CASE u = t
      BY <1>1, <1>2, <2>1 DEF StreamOK
    <2>2. CASE u # t
      BY <1>1, <1>9, <1>15, <2>2, StreamKept DEF BrowserInv, serverVars, lineVars
    <2> QED BY <2>1, <2>2
  <1>17. ASSUME NEW u \in Tabs PROVE TextOK(u)'
    BY <1>1, <1>9 DEF BrowserInv, TextOK
  <1>18. ASSUME NEW u \in Tabs PROVE EndOK(u)'
    <2>1. CASE u = t
      BY <1>1, <1>2, <1>10, <2>1 DEF BrowserInv, EndOK
    <2>2. CASE u # t
      BY <1>1, <1>9, <1>15, <2>2, EndKept DEF BrowserInv, lineVars
    <2> QED BY <2>1, <2>2
  <1>19. ASSUME NEW s \in Ids PROVE UnbornOK(s)'
    BY <1>1, <1>13 DEF BrowserInv, UnbornOK, Told, serverVars, lineVars
  <1> QED BY <1>6, <1>7, <1>8, <1>11, <1>12, <1>14, <1>16, <1>17, <1>18, <1>19 DEF BrowserInv

\* A page opens a connection that nobody uses, on which nothing is on its way.
LEMMA FetchedOK ==
    ASSUME BrowserInv, NEW t \in Tabs, NEW c \in Conns, Fetched(t, c)
    PROVE  BrowserInv'
  <1> USE NoneAssumption
  <1>1. UNCHANGED <<stored, sessionId, received, endCode, text, outrun, hello, role, wire>>
        /\ UNCHANGED <<everOpened, serverVars, lockVars, boundVars>>
    BY DEF Fetched
  <1>2. page[t] = "fetching" /\ ws[t] = None /\ endCode[t] = None
    BY DEF BrowserInv, PageOK, EndOK, Fetched
  <1>3. /\ line[c] = "down" /\ ~Listening(c) /\ wire[c] = <<>> /\ hello[c] = None /\ role[c] = "fresh"
        /\ \A s \in Ids : owner[s] # c
    BY DEF BrowserInv, LineOK, Fetched
  <1>4. TypeOK'
    BY <1>1 DEF BrowserInv, TypeOK, Fetched, Codes, serverVars, lockVars, boundVars
  <1>5. SessionsOK'
    BY <1>1 DEF BrowserInv, SessionsOK, serverVars
  <1>6. /\ ws'[t] = c /\ line'[c] = "opening" /\ page'[t] = "connecting"
        /\ \A u \in Tabs \ {t} : UNCHANGED <<ws[u], page[u]>> /\ ws[u] # c
        /\ \A d \in Conns \ {c} : UNCHANGED <<line[d], code[d]>>
    BY <1>3 DEF BrowserInv, TypeOK, Fetched, Listening
  <1>7. ASSUME NEW d \in Conns PROVE LineOK(d)'
    <2>1. CASE d = c
      BY <1>1, <1>3, <1>6, <2>1 DEF LineOK, Listening, serverVars
    <2>2. CASE d # c
      BY <1>1, <1>2, <1>6, <2>2 DEF BrowserInv, LineOK, Listening, serverVars
    <2> QED BY <2>1, <2>2
  <1>8. ASSUME NEW u \in Tabs PROVE PageOK(u)'
    <2>1. CASE u = t
      BY <1>1, <1>3, <1>6, <2>1 DEF BrowserInv, PageOK
    <2>2. CASE u # t
      <3>1. ws[u] # None => ws[u] \in Conns
        BY DEF BrowserInv, TypeOK
      <3> QED BY <1>1, <1>6, <2>2, <3>1 DEF BrowserInv, PageOK, HelloOf
    <2> QED BY <2>1, <2>2
  <1>9. ASSUME NEW u \in Tabs PROVE LockOK(u)' /\ TextOK(u)'
    BY <1>1 DEF BrowserInv, LockOK, TextOK, lockVars
  <1>10. ASSUME NEW s \in Ids PROVE Secret(s)' <=> Secret(s)
    BY <1>1 DEF Secret, lockVars
  <1>11. ASSUME NEW s \in Ids, NEW d PROVE Told(d, s)' <=> Told(d, s)
    BY <1>1 DEF Told, serverVars
  <1>12. ASSUME NEW s \in Ids PROVE ~Told(c, s)
    BY <1>3 DEF Told
  <1>13. ASSUME NEW u \in Tabs PROVE TellingOK(u)'
    BY <1>1, <1>6, <1>10, <1>11, <1>12 DEF BrowserInv, TellingOK, serverVars
  <1>14. CompleteStays
    BY <1>1 DEF CompleteStays, Over, serverVars
  <1>15. ASSUME NEW u \in Tabs PROVE StreamOK(u)' /\ EndOK(u)'
    <2>1. CASE u = t
      BY <1>1, <1>2, <1>3, <1>6, <2>1 DEF StreamOK, EndOK, Chained, serverVars
    <2>2. CASE u # t
      <3>1. ws[u] # None => ws[u] \in Conns \ {c}
        BY <1>6, <2>2 DEF BrowserInv, TypeOK
      <3> QED BY <1>1, <1>6, <1>14, <2>2, <3>1, StreamKept, EndKept DEF BrowserInv, serverVars
    <2> QED BY <2>1, <2>2
  <1>16. ASSUME NEW s \in Ids PROVE UnbornOK(s)'
    BY <1>1, <1>6, <1>10, <1>11, <1>12 DEF BrowserInv, UnbornOK, serverVars
  <1> QED BY <1>4, <1>5, <1>7, <1>8, <1>9, <1>13, <1>15, <1>16 DEF BrowserInv

\* The connection is there: the page says which session it had (onOpen).
LEMMA OpenedOK ==
    ASSUME BrowserInv, NEW t \in Tabs, Opened(t)
    PROVE  BrowserInv'
  <1> DEFINE c == ws[t]
  <1> USE NoneAssumption
  <1>1. UNCHANGED <<stored, sessionId, received, endCode, ws, text, outrun, role, code, wire>>
        /\ UNCHANGED <<serverVars, lockVars, boundVars>>
    BY DEF Opened
  <1>2. /\ c \in Conns /\ line[c] = "opening" /\ hello[c] = None /\ role[c] = "fresh" /\ wire[c] = <<>>
        /\ page[t] = "connecting" /\ endCode[t] = None
        /\ \A s \in Ids : owner[s] # c
        /\ \A u \in Tabs \ {t} : ws[u] # c
    <2>1. page[t] = "connecting" /\ endCode[t] = None
      BY DEF BrowserInv, EndOK, Opened
    <2>2. c # None /\ line[c] = "opening" /\ \A u \in Tabs \ {t} : ws[u] # c
      BY <2>1 DEF BrowserInv, PageOK
    <2>3. c \in Conns
      BY <2>2 DEF BrowserInv, TypeOK
    <2>4. LineOK(c)
      BY <2>3 DEF BrowserInv
    <2> QED BY <2>1, <2>2, <2>3, <2>4 DEF LineOK
  <1>3. /\ page'[t] = "open" /\ line'[c] = "up" /\ hello'[c] = HelloOf(t)
        /\ \A u \in Tabs \ {t} : UNCHANGED page[u]
        /\ \A d \in Conns \ {c} : UNCHANGED <<line[d], hello[d]>>
    BY <1>2 DEF BrowserInv, TypeOK, Opened
  <1>4. HelloOf(t) \in [id : Ids \cup {None}, offset : Nat] /\ HelloOf(t).id = sessionId[t]
    BY DEF BrowserInv, TypeOK, HelloOf
  <1>5. TypeOK'
    <2>1. page' \in [Tabs -> {"none", "claiming", "fetching", "connecting", "open",
                             "waiting", "ended", "takenOver", "refused"}]
          /\ everOpened' \in [Tabs -> BOOLEAN] /\ line' \in [Conns -> {"down", "opening", "up"}]
      BY DEF BrowserInv, TypeOK, Opened
    <2>2. hello' \in [Conns -> [id : Ids \cup {None}, offset : Nat] \cup {None}]
      BY <1>4 DEF BrowserInv, TypeOK, Opened
    <2> QED BY <1>1, <2>1, <2>2 DEF BrowserInv, TypeOK, serverVars, lockVars, boundVars
  <1>6. SessionsOK'
    BY <1>1 DEF BrowserInv, SessionsOK, serverVars
  <1>7. ASSUME NEW d \in Conns PROVE LineOK(d)'
    <2>1. CASE d = c
      BY <1>1, <1>2, <1>3, <2>1 DEF LineOK, Listening, serverVars
    <2>2. CASE d # c
      BY <1>1, <1>3, <2>2 DEF BrowserInv, LineOK, Listening, serverVars
    <2> QED BY <2>1, <2>2
  <1>8. ASSUME NEW u \in Tabs PROVE PageOK(u)'
    <2>1. CASE u = t
      BY <1>1, <1>2, <1>3, <2>1 DEF BrowserInv, PageOK, HelloOf
    <2>2. CASE u # t
      <3>1. ws[u] # None => ws[u] \in Conns \ {c}
        BY <1>2, <2>2 DEF BrowserInv, TypeOK
      <3> QED BY <1>1, <1>3, <2>2, <3>1 DEF BrowserInv, PageOK, HelloOf
    <2> QED BY <2>1, <2>2
  <1>9. ASSUME NEW u \in Tabs PROVE LockOK(u)' /\ TextOK(u)'
    BY <1>1 DEF BrowserInv, LockOK, TextOK, lockVars
  <1>10. ASSUME NEW s \in Ids, Secret(s) PROVE Secret(s)'
    BY <1>1, <1>3, <1>4, <1>10 DEF Secret, lockVars
  <1>11. ASSUME NEW s \in Ids, NEW d PROVE Told(d, s)' <=> Told(d, s)
    BY <1>1 DEF Told, serverVars
  <1>12. ASSUME NEW u \in Tabs PROVE TellingOK(u)'
    BY <1>1, <1>10, <1>11 DEF BrowserInv, TellingOK, serverVars
  <1>13. CompleteStays
    BY <1>1 DEF CompleteStays, Over, serverVars
  <1>14. ASSUME NEW u \in Tabs PROVE StreamOK(u)' /\ EndOK(u)'
    <2>1. CASE u = t
      BY <1>1, <1>2, <1>3, <2>1 DEF StreamOK, EndOK, Chained, serverVars
    <2>2. CASE u # t
      <3>1. ws[u] # None => ws[u] \in Conns \ {c}
        BY <1>2, <2>2 DEF BrowserInv, TypeOK
      <3> QED BY <1>1, <1>3, <1>13, <2>2, <3>1, StreamKept, EndKept DEF BrowserInv, serverVars
    <2> QED BY <2>1, <2>2
  <1>15. ASSUME NEW s \in Ids PROVE UnbornOK(s)'
    BY <1>1, <1>10, <1>11 DEF BrowserInv, UnbornOK, serverVars
  <1> QED BY <1>5, <1>6, <1>7, <1>8, <1>9, <1>12, <1>14, <1>15 DEF BrowserInv

\* A page whose connection closes tries again or is over, as the reason says.
LEMMA ClosedOK ==
    ASSUME BrowserInv, NEW t \in Tabs, CloseArrives(t) \/ Dies(t)
    PROVE  BrowserInv'
  <1> USE NoneAssumption
  <1>1. page[t] \in {"connecting", "open"} /\ ws[t] # None /\ ws[t] \in Conns
        /\ UNCHANGED <<hello, role, code, serverVars, lockVars>>
    BY DEF BrowserInv, TypeOK, PageOK, CloseArrives, Dies, lineVars
  <1>2. Abandons(t)
    <2>1. CASE CloseArrives(t)
      <3>1. line[ws[t]] = "down" /\ wire[ws[t]] = <<>> /\ UNCHANGED <<line, wire>>
            /\ ws' = [ws EXCEPT ![t] = None]
        BY <2>1 DEF CloseArrives, OnClose, lineVars
      <3>2. line' = [line EXCEPT ![ws[t]] = IF @ = "opening" THEN "down" ELSE @]
            /\ wire' = [wire EXCEPT ![ws[t]] = <<>>]
        BY <1>1, <3>1 DEF BrowserInv, TypeOK
      <3> QED BY <1>1, <3>1, <3>2 DEF Abandons
    <2>2. CASE Dies(t)
      BY <1>1, <2>2 DEF Dies, OnClose, Abandons
    <2> QED BY <2>1, <2>2
  <1>3. PICK event \in {code[ws[t]], "dropped"} :
           /\ OnClose(t, event)
           /\ event # "dropped" => page[t] = "open" /\ line[ws[t]] = "down" /\ wire[ws[t]] = <<>>
    BY DEF CloseArrives, Dies
  <1>4. /\ CloseCode(t, event) \in Codes
        /\ CloseCode(t, event) = "normal" => Finished(t)
    <2>1. endCode[t] \in {None, "normal", "taken"} /\ event \in Codes
      BY <1>1, <1>3 DEF BrowserInv, TypeOK, Codes
    <2>2. endCode[t] # None /\ endCode[t] = "normal" => Finished(t)
      BY DEF BrowserInv, EndOK
    <2>3. event = "normal" => Finished(t)
      BY <1>3 DEF BrowserInv, EndOK
    <2> QED BY <2>1, <2>2, <2>3 DEF CloseCode, Codes
  <1>5. /\ AfterClose(t, CloseCode(t, event)) \in {"waiting", "ended", "takenOver", "refused"}
        /\ AfterClose(t, CloseCode(t, event)) = "ended" => CloseCode(t, event) = "normal"
    BY <1>4 DEF AfterClose, Codes
  <1>6. /\ page'[t] \in {"waiting", "ended", "takenOver", "refused"} /\ endCode'[t] = None
        /\ page'[t] = "ended" => Finished(t)
        /\ \A u \in Tabs \ {t} : UNCHANGED <<page[u], endCode[u]>>
        /\ UNCHANGED <<stored, sessionId, received, everOpened, text, outrun>>
    BY <1>3, <1>4, <1>5 DEF BrowserInv, TypeOK, OnClose
  <1>7. /\ line' \in [Conns -> {"down", "opening", "up"}] /\ wire' \in [Conns -> Seq(Messages)]
        /\ ws' \in [Tabs -> Conns \cup {None}]
        /\ SessionsOK'
        /\ \A c \in Conns : LineOK(c)'
    BY <1>1, <1>2, AbandonsOK
  <1>8. UNCHANGED <<hello, role, code, phase, owner, produced, shown, reading>> /\ ws'[t] = None
    BY <1>1, <1>2, AbandonsOK
  <1>9. TypeOK'
    <2>1. page' \in [Tabs -> {"none", "claiming", "fetching", "connecting", "open",
                             "waiting", "ended", "takenOver", "refused"}]
          /\ endCode' \in [Tabs -> {None, "normal", "taken"}]
      BY <1>3, <1>5 DEF BrowserInv, TypeOK, OnClose
    <2>2. acts' \in 0 .. MaxActs /\ faults' \in 0 .. MaxFaults
      BY LimitsAssumption DEF BrowserInv, TypeOK, CloseArrives, Dies, Fault, boundVars
    <2> QED BY <1>1, <1>6, <1>7, <1>8, <2>1, <2>2 DEF BrowserInv, TypeOK, lockVars
  <1>10. ASSUME NEW u \in Tabs \ {t}
         PROVE  ws'[u] = ws[u] /\ (ws[u] # None => UNCHANGED <<line[ws[u]], wire[ws[u]]>>)
    BY <1>1, <1>2, <1>10, AbandonsOK
  <1>11. ASSUME NEW u \in Tabs, ws'[u] # None, NEW s \in Ids
         PROVE  u # t /\ ws[u] # None /\ (Told(ws[u], s)' <=> Told(ws[u], s))
    BY <1>1, <1>2, <1>11, AbandonsOK
  <1>12. ASSUME NEW u \in Tabs PROVE PageOK(u)'
    <2>1. CASE u = t
      BY <1>1, <1>6, <1>8, <2>1 DEF BrowserInv, PageOK
    <2>2. CASE u # t
      <3>1. ASSUME NEW v \in Tabs, ws'[v] = ws'[u], ws'[u] # None PROVE v = u
        BY <1>8, <1>10, <2>2, <3>1 DEF BrowserInv, PageOK
      <3> QED BY <1>6, <1>8, <1>10, <2>2, <3>1 DEF BrowserInv, PageOK, HelloOf
    <2> QED BY <2>1, <2>2
  <1>13. ASSUME NEW u \in Tabs PROVE LockOK(u)' /\ TextOK(u)'
    BY <1>1, <1>6 DEF BrowserInv, LockOK, TextOK, lockVars
  <1>14. ASSUME NEW s \in Ids, Secret(s) PROVE Secret(s)'
    BY <1>1, <1>6, <1>8, <1>14 DEF Secret, lockVars
  <1>15. ASSUME NEW u \in Tabs PROVE TellingOK(u)'
    BY <1>6, <1>8, <1>10, <1>11, <1>14 DEF BrowserInv, TellingOK
  <1>16. CompleteStays
    BY <1>8 DEF CompleteStays, Over
  <1>17. ASSUME NEW u \in Tabs PROVE StreamOK(u)' /\ EndOK(u)'
    <2>1. CASE u = t
      BY <1>6, <1>8, <2>1 DEF StreamOK, EndOK, Finished, Complete, Over
    <2>2. CASE u # t
      BY <1>6, <1>8, <1>10, <1>16, <2>2, StreamKept, EndKept DEF BrowserInv
    <2> QED BY <2>1, <2>2
  <1>18. ASSUME NEW s \in Ids PROVE UnbornOK(s)'
    BY <1>8, <1>11, <1>14 DEF BrowserInv, UnbornOK
  <1> QED BY <1>7, <1>9, <1>12, <1>13, <1>15, <1>17, <1>18 DEF BrowserInv

\* What is left when the first message has been taken.
LEMMA TailChained ==
    ASSUME NEW t \in Tabs, NEW w \in Seq(Messages), w # <<>>, Chained(w, t)
    PROVE  /\ Head(w) = w[1] /\ w[1] \in Messages
           /\ Tail(w) \in Seq(Messages)
           /\ Chained(Tail(w), t)
           /\ Tail(w) = <<>> => w[Len(w)] = w[1]
           /\ Tail(w) # <<>> => /\ w[1].type # "end"
                                /\ Continues(Tail(w)[1], w[1].id, EndOf(w[1]), t)
                                /\ Tail(w)[Len(Tail(w))] = w[Len(w)]
  <1>1. Len(w) \in Nat \ {0} /\ Head(w) = w[1] /\ w[1] \in Messages
    OBVIOUS
  <1>2. /\ Tail(w) \in Seq(Messages) /\ Len(Tail(w)) = Len(w) - 1
        /\ \A i \in 1 .. Len(w) - 1 : Tail(w)[i] = w[i + 1]
        /\ Tail(w) = <<>> <=> Len(w) = 1
    <2>1. Tail(w) \in Seq(Messages) /\ Len(Tail(w)) = Len(w) - 1
      OBVIOUS
    <2>2. ASSUME NEW i \in 1 .. Len(w) - 1 PROVE Tail(w)[i] = w[i + 1]
      OBVIOUS
    <2>3. Tail(w) = <<>> <=> Len(Tail(w)) = 0
      BY <2>1
    <2> QED BY <1>1, <2>1, <2>2, <2>3
  <1>3. Chained(Tail(w), t)
    <2>1. ASSUME NEW i \in 1 .. Len(Tail(w)) - 1
          PROVE  Tail(w)[i].type # "end" /\ Continues(Tail(w)[i + 1], Tail(w)[i].id, EndOf(Tail(w)[i]), t)
      <3>1. i + 1 \in 1 .. Len(w) - 1 /\ Tail(w)[i] = w[i + 1] /\ Tail(w)[i + 1] = w[(i + 1) + 1]
        BY <1>1, <1>2
      <3> QED BY <3>1 DEF Chained
    <2> QED BY <2>1 DEF Chained
  <1>4. ASSUME Tail(w) # <<>>
        PROVE  /\ w[1].type # "end" /\ Continues(Tail(w)[1], w[1].id, EndOf(w[1]), t)
               /\ Tail(w)[Len(Tail(w))] = w[Len(w)]
    <2>1. 1 \in 1 .. Len(w) - 1 /\ Len(w) - 1 \in 1 .. Len(w) - 1 /\ (Len(w) - 1) + 1 = Len(w)
          /\ Tail(w)[1] = w[1 + 1]
      BY <1>1, <1>2, <1>4
    <2> QED BY <1>2, <2>1 DEF Chained
  <1> QED BY <1>1, <1>2, <1>3, <1>4

\* A page takes a message: what it finds, and what it leaves.
LEMMA MessageTaken ==
    ASSUME BrowserInv, NEW t \in Tabs, NEW type, NextMessage(t, type)
    PROVE  LET c == ws[t]
               w == wire[ws[t]]
           IN  /\ c \in Conns /\ page[t] = "open" /\ endCode[t] = None /\ hello[c] = None
               /\ w \in Seq(Messages) /\ w # <<>> /\ Head(w) = w[1] /\ w[1] \in Messages /\ w[1].type = type
               /\ type # "session" => Continues(w[1], sessionId[t], received[t], t)
               /\ line[c] # "down" => role[c] \notin {"fresh", "attached"}
               /\ wire' \in [Conns -> Seq(Messages)] /\ wire'[c] = Tail(w)
               /\ \A d \in Conns \ {c} : wire'[d] = wire[d]
               /\ \A u \in Tabs \ {t} : ws[u] # c
               /\ \A s \in Ids : ~Told(c, s)'
  <1> DEFINE c == ws[t]
             w == wire[ws[t]]
  <1> USE NoneAssumption
  <1>1. page[t] = "open" /\ w # <<>> /\ Head(w).type = type /\ wire' = [wire EXCEPT ![c] = Tail(@)]
        /\ UNCHANGED <<page, ws, line, hello, role, code, serverVars>>
    BY DEF NextMessage
  <1>2. c # None /\ c \in Conns /\ w \in Seq(Messages)
        /\ \A u \in Tabs \ {t} : ws[u] # c
    BY <1>1 DEF BrowserInv, TypeOK, PageOK
  <1>3. endCode[t] = None
    BY <1>1 DEF BrowserInv, EndOK
  <1>4. Chained(w, t) /\ (w[1].type = "session" \/ Continues(w[1], sessionId[t], received[t], t))
    BY <1>1, <1>2 DEF BrowserInv, StreamOK
  <1>5. Head(w) = w[1] /\ w[1] \in Messages /\ Tail(w) \in Seq(Messages)
        /\ (Tail(w) # <<>> => Tail(w)[1].type # "session" /\ Head(Tail(w)) = Tail(w)[1])
    <2>1. Head(w) = w[1] /\ w[1] \in Messages /\ Tail(w) \in Seq(Messages)
      BY <1>1, <1>2, <1>4, TailChained
    <2>2. ASSUME Tail(w) # <<>> PROVE Tail(w)[1].type # "session" /\ Head(Tail(w)) = Tail(w)[1]
      <3>1. Continues(Tail(w)[1], w[1].id, EndOf(w[1]), t)
        BY <1>1, <1>2, <1>4, <2>2, TailChained
      <3> QED BY <2>1, <2>2, <3>1 DEF Continues
    <2> QED BY <2>1, <2>2
  <1>6. wire' \in [Conns -> Seq(Messages)] /\ wire'[c] = Tail(w)
        /\ \A d \in Conns \ {c} : wire'[d] = wire[d]
    <2>1. wire \in [Conns -> Seq(Messages)]
      BY DEF BrowserInv, TypeOK
    <2> QED BY <1>1, <1>2, <1>5, <2>1
  <1>7. LineOK(c) /\ hello[c] = None /\ (line[c] # "down" => role[c] \notin {"fresh", "attached"})
    BY <1>1, <1>2 DEF BrowserInv, LineOK
  <1>8. ASSUME NEW s \in Ids PROVE ~Told(c, s)'
    <2>1. ~(owner[s] = c /\ role[c] = "attached")
      BY <1>7 DEF LineOK
    <2> QED BY <1>1, <1>5, <1>6, <2>1 DEF Told, serverVars
  <1> QED BY <1>1, <1>2, <1>3, <1>4, <1>5, <1>6, <1>7, <1>8

\* What is common to the three kinds of messages: nothing changes for the other
\* pages and on the server.
LEMMA MessageOK ==
    ASSUME BrowserInv, NEW t \in Tabs, NEW type, NextMessage(t, type),
           \A u \in Tabs \ {t} : UNCHANGED <<stored[u], sessionId[u], received[u], endCode[u], text[u]>>
    PROVE  /\ SessionsOK' /\ CompleteStays
           /\ \A c \in Conns : LineOK(c)'
           /\ \A u \in Tabs \ {t} : PageOK(u)' /\ StreamOK(u)' /\ TextOK(u)' /\ EndOK(u)'
           /\ \A u \in Tabs \ {t} : ws[u] # None => \A s \in Ids : Told(ws[u], s)' <=> Told(ws[u], s)
  <1> USE NoneAssumption
  <1>1. UNCHANGED <<page, ws, outrun, line, hello, role, code, phase, owner, produced, shown>>
    BY DEF NextMessage, serverVars
  <1>2. /\ ws[t] \in Conns /\ \A d \in Conns \ {ws[t]} : wire'[d] = wire[d]
        /\ \A u \in Tabs \ {t} : ws[u] # ws[t]
        /\ line[ws[t]] # "down" => role[ws[t]] \notin {"fresh", "attached"}
    BY MessageTaken
  <1>3. SessionsOK' /\ CompleteStays
    BY <1>1 DEF BrowserInv, SessionsOK, CompleteStays, Complete, Over
  <1>4. ASSUME NEW c \in Conns PROVE LineOK(c)'
    <2>1. CASE c = ws[t]
      BY <1>1, <1>2, <2>1 DEF BrowserInv, LineOK, Listening
    <2>2. CASE c # ws[t]
      BY <1>1, <1>2, <2>2 DEF BrowserInv, LineOK, Listening
    <2> QED BY <2>1, <2>2
  <1>5. ASSUME NEW u \in Tabs \ {t}
        PROVE  /\ ws[u] # None => ws[u] \in Conns /\ UNCHANGED wire[ws[u]]
               /\ UNCHANGED <<stored[u], sessionId[u], received[u], endCode[u], text[u]>>
    <2>1. ws[u] # None => ws[u] \in Conns
      BY DEF BrowserInv, TypeOK
    <2>2. ws[u] # ws[t]
      BY <1>2, <1>5
    <2>3. ws[u] # None => wire'[ws[u]] = wire[ws[u]]
      BY <1>2, <2>1, <2>2
    <2> QED BY <1>1, <1>5, <2>1, <2>3
  <1>6. ASSUME NEW u \in Tabs \ {t} PROVE PageOK(u)' /\ TextOK(u)'
    BY <1>1, <1>5, <1>6 DEF BrowserInv, PageOK, TextOK, HelloOf
  <1>7. ASSUME NEW u \in Tabs \ {t} PROVE StreamOK(u)' /\ EndOK(u)'
    BY <1>1, <1>3, <1>5, <1>7, StreamKept, EndKept DEF BrowserInv
  <1>8. ASSUME NEW u \in Tabs \ {t}, ws[u] # None, NEW s \in Ids PROVE Told(ws[u], s)' <=> Told(ws[u], s)
    BY <1>1, <1>5, <1>8 DEF Told
  <1> QED BY <1>3, <1>4, <1>6, <1>7, <1>8

\* A page that has taken a message is where that message ends.
LEMMA StreamMoves ==
    ASSUME BrowserInv, NEW t \in Tabs, NEW type, type # "end", NextMessage(t, type),
           sessionId'[t] = wire[ws[t]][1].id, outrun[t] \/ received'[t] = EndOf(wire[ws[t]][1]), CompleteStays
    PROVE  StreamOK(t)'
  <1>1. PICK w : w = wire[ws[t]]
    OBVIOUS
  <1>2. /\ ws[t] \in Conns /\ w \in Seq(Messages) /\ w # <<>>
        /\ wire'[ws[t]] = Tail(w)
    BY <1>1, MessageTaken
  <1>3. UNCHANGED <<ws, outrun, line, role, owner, shown>>
    BY DEF NextMessage, serverVars
  <1>4. /\ Chained(w, t)
        /\ line[ws[t]] # "down" => w[Len(w)].type # "end"
        /\ \A s \in Ids : owner[s] = ws[t] /\ role[ws[t]] = "greeted" =>
              w[Len(w)].id = s /\ (outrun[t] \/ EndOf(w[Len(w)]) = shown[s])
    BY <1>1, <1>2, NoneAssumption DEF BrowserInv, StreamOK
  <1>5. /\ Chained(Tail(w), t)
        /\ Tail(w) = <<>> => w[Len(w)] = w[1]
        /\ Tail(w) # <<>> => /\ Continues(Tail(w)[1], w[1].id, EndOf(w[1]), t)
                             /\ Tail(w)[Len(Tail(w))] = w[Len(w)]
    BY <1>2, <1>4, TailChained
  <1>6. Chained(Tail(w), t)'
    BY <1>3, <1>5, ChainKept
  <1>7. Tail(w) # <<>> => Continues(Tail(w)[1], sessionId[t], received[t], t)'
    <2>1. SUFFICES ASSUME Tail(w) # <<>>
                   PROVE  Continues(Tail(w)[1], sessionId[t], received[t], t)'
      OBVIOUS
    <2>2. PICK m, s, at : m = Tail(w)[1] /\ s = w[1].id /\ at = EndOf(w[1])
      OBVIOUS
    <2>3. Continues(m, s, at, t)'
      BY <1>3, <1>5, <2>1, <2>2, ContinuesKept
    <2>4. m = Tail(w)[1] /\ s = sessionId'[t] /\ (outrun'[t] \/ at = received'[t])
      BY <1>1, <1>3, <2>2 DEF EndOf
    <2> QED BY <2>3, <2>4 DEF Continues, Complete, Over
  <1>8. ASSUME NEW s \in Ids, owner'[s] = ws'[t], role'[ws'[t]] = "greeted"
        PROVE  IF Tail(w) = <<>> THEN sessionId'[t] = s /\ (outrun'[t] \/ received'[t] = shown'[s])
               ELSE Tail(w)[Len(Tail(w))].id = s
                    /\ (outrun'[t] \/ EndOf(Tail(w)[Len(Tail(w))]) = shown'[s])
    BY <1>1, <1>3, <1>4, <1>5, <1>8
  <1> QED BY <1>2, <1>3, <1>4, <1>5, <1>6, <1>7, <1>8 DEF StreamOK, EndOf

\* Output goes on where the page's text ends.
LEMMA ReceiveOutputOK ==
    ASSUME BrowserInv, NEW t \in Tabs, ReceiveOutput(t)
    PROVE  BrowserInv'
  <1> DEFINE c == ws[t]
             m == wire[ws[t]][1]
  <1> USE NoneAssumption
  <1>1. NextMessage(t, "output") /\ UNCHANGED <<stored, sessionId, endCode, lockVars>>
        /\ UNCHANGED <<page, ws, line, hello, role, code, everOpened, outrun, serverVars, boundVars>>
    BY DEF ReceiveOutput, NextMessage
  <1>2. /\ c \in Conns /\ page[t] = "open" /\ endCode[t] = None
        /\ Head(wire[c]) = m /\ m \in Messages /\ m.type = "output"
        /\ wire' \in [Conns -> Seq(Messages)] /\ hello[c] = None
        /\ \A s \in Ids : ~Told(c, s)'
    BY <1>1, MessageTaken
  <1>3. Continues(m, sessionId[t], received[t], t)
    BY <1>1, MessageTaken
  <1>4. m.id \in Ids /\ m.from \in Nat /\ m.to \in Nat /\ m.id = sessionId[t] /\ m.from <= m.to
        /\ (outrun[t] \/ m.from = received[t]) /\ EndOf(m) = m.to
    BY <1>2, <1>3 DEF Messages, Continues, EndOf
  <1>5. /\ received[t] + (m.to - m.from) \in Nat
        /\ outrun[t] \/ received[t] + (m.to - m.from) = m.to
    BY <1>4 DEF BrowserInv, TypeOK
  <1>6. /\ received' = [received EXCEPT ![t] = @ + (m.to - m.from)]
        /\ text' = [text EXCEPT ![t] = TextOf(m.id, m.to)]
    BY <1>2 DEF ReceiveOutput
  <1>7. /\ outrun[t] \/ received'[t] = m.to
        /\ text'[t] = TextOf(m.id, m.to)
        /\ \A u \in Tabs \ {t} : UNCHANGED <<received[u], text[u]>>
    BY <1>5, <1>6 DEF BrowserInv, TypeOK
  <1>8. TypeOK'
    <2>1. TextOf(m.id, m.to) \in [id : Ids \cup {None}, to : Nat]
      BY <1>4 DEF TextOf
    <2>2. received' \in [Tabs -> Nat] /\ text' \in [Tabs -> [id : Ids \cup {None}, to : Nat]]
      BY <1>4, <1>5, <1>6, <2>1 DEF BrowserInv, TypeOK
    <2> QED BY <1>1, <1>2, <2>2 DEF BrowserInv, TypeOK, serverVars, lockVars, boundVars
  <1>9. /\ SessionsOK' /\ CompleteStays
        /\ \A d \in Conns : LineOK(d)'
        /\ \A u \in Tabs \ {t} : PageOK(u)' /\ StreamOK(u)' /\ TextOK(u)' /\ EndOK(u)'
        /\ \A u \in Tabs \ {t} : ws[u] # None => \A s \in Ids : Told(ws[u], s)' <=> Told(ws[u], s)
    BY <1>1, <1>7, MessageOK
  <1>10. PageOK(t)'
    BY <1>1, <1>2 DEF BrowserInv, PageOK
  <1>11. TextOK(t)'
    BY <1>1, <1>4, <1>7 DEF TextOK
  <1>12. StreamOK(t)'
    <2>1. sessionId'[t] = m.id /\ (outrun[t] \/ received'[t] = EndOf(m))
      BY <1>1, <1>4, <1>7
    <2> QED BY <1>1, <1>9, <2>1, StreamMoves
  <1>13. EndOK(t)'
    <2>1. SUFFICES ASSUME line[c] = "down", code[c] = "normal"
                   PROVE  Tail(wire[c]) # <<>> /\ Tail(wire[c])[Len(Tail(wire[c]))] = SessionEnd("normal")
      BY <1>1, <1>2, MessageTaken DEF EndOK
    <2>2. wire[c] \in Seq(Messages) /\ wire[c] # <<>>
      BY <1>1, MessageTaken
    <2>3. wire[c][Len(wire[c])] = SessionEnd("normal") /\ Chained(wire[c], t)
      BY <1>2, <2>1, <2>2 DEF BrowserInv, EndOK, StreamOK
    <2>4. m # SessionEnd("normal")
      BY <1>2 DEF SessionEnd
    <2> QED BY <2>2, <2>3, <2>4, TailChained
  <1>14. ASSUME NEW u \in Tabs PROVE LockOK(u)'
    BY <1>1 DEF BrowserInv, LockOK, lockVars
  <1>15. ASSUME NEW s \in Ids PROVE Secret(s)' <=> Secret(s)
    BY <1>1 DEF Secret, lockVars
  <1>16. ASSUME NEW u \in Tabs PROVE TellingOK(u)'
    BY <1>1, <1>2, <1>9, <1>15 DEF BrowserInv, TellingOK, serverVars
  <1>17. ASSUME NEW s \in Ids PROVE UnbornOK(s)'
    BY <1>1, <1>2, <1>9, <1>15 DEF BrowserInv, UnbornOK, serverVars
  <1> QED BY <1>8, <1>9, <1>10, <1>11, <1>12, <1>13, <1>14, <1>16, <1>17 DEF BrowserInv

\* The end of a session comes after all of its output, and nothing after it.
LEMMA ReceiveEndOK ==
    ASSUME BrowserInv, NEW t \in Tabs, ReceiveEnd(t)
    PROVE  BrowserInv'
  <1> DEFINE c == ws[t]
             m == wire[ws[t]][1]
  <1> USE NoneAssumption
  <1>1. NextMessage(t, "end") /\ UNCHANGED <<stored, sessionId, received, text, lockVars>>
        /\ UNCHANGED <<page, ws, line, hello, role, code, everOpened, outrun, serverVars, boundVars>>
    BY DEF ReceiveEnd, NextMessage
  <1>2. /\ c \in Conns /\ page[t] = "open" /\ wire[c] \in Seq(Messages) /\ wire[c] # <<>>
        /\ Head(wire[c]) = m /\ m \in Messages /\ m.type = "end"
        /\ wire' \in [Conns -> Seq(Messages)] /\ hello[c] = None /\ wire'[c] = Tail(wire[c])
        /\ \A s \in Ids : ~Told(c, s)'
    BY <1>1, MessageTaken
  <1>3. Continues(m, sessionId[t], received[t], t)
    BY <1>1, MessageTaken
  <1>4. m.code \in {"normal", "taken"} /\ (m.code = "normal" => Finished(t))
    BY <1>2, <1>3 DEF Messages, Continues, Finished
  <1>5. Tail(wire[c]) = <<>> /\ line[c] = "down"
    <2>1. Chained(wire[c], t) /\ (line[c] # "down" => wire[c][Len(wire[c])].type # "end")
      BY <1>2 DEF BrowserInv, StreamOK
    <2>2. Tail(wire[c]) # <<>> => m.type # "end"
      BY <1>2, <2>1, TailChained
    <2>3. Tail(wire[c]) = <<>> => wire[c][Len(wire[c])] = m
      BY <1>2, <2>1, TailChained
    <2> QED BY <1>2, <2>1, <2>2, <2>3
  <1>6. endCode' = [endCode EXCEPT ![t] = m.code]
    BY <1>2 DEF ReceiveEnd
  <1>7. endCode'[t] = m.code /\ \A u \in Tabs \ {t} : UNCHANGED endCode[u]
    BY <1>6 DEF BrowserInv, TypeOK
  <1>8. TypeOK'
    <2>1. endCode' \in [Tabs -> {None, "normal", "taken"}]
      BY <1>4, <1>6 DEF BrowserInv, TypeOK
    <2> QED BY <1>1, <1>2, <2>1 DEF BrowserInv, TypeOK, serverVars, lockVars, boundVars
  <1>9. /\ SessionsOK' /\ CompleteStays
        /\ \A d \in Conns : LineOK(d)'
        /\ \A u \in Tabs \ {t} : PageOK(u)' /\ StreamOK(u)' /\ TextOK(u)' /\ EndOK(u)'
        /\ \A u \in Tabs \ {t} : ws[u] # None => \A s \in Ids : Told(ws[u], s)' <=> Told(ws[u], s)
    BY <1>1, <1>7, MessageOK
  <1>10. PageOK(t)'
    BY <1>1, <1>2 DEF BrowserInv, PageOK, HelloOf
  <1>11. TextOK(t)'
    BY <1>1 DEF BrowserInv, TextOK
  <1>12. StreamOK(t)'
    <2>1. role[c] = "fresh" /\ UNCHANGED <<line, role, ws>>
      BY <1>1, <1>2, <1>5 DEF BrowserInv, LineOK
    <2>2. wire'[ws'[t]] = <<>> /\ role'[ws'[t]] = "fresh"
      BY <1>2, <1>5, <2>1
    <2> QED BY <2>2 DEF StreamOK, Chained
  <1>13. EndOK(t)'
    <2>1. wire'[ws'[t]] = <<>> /\ line'[ws'[t]] = "down" /\ page'[t] = "open"
      BY <1>1, <1>2, <1>5
    <2>2. endCode'[t] = "normal" => Finished(t)'
      BY <1>1, <1>4, <1>7 DEF Finished, Complete, Over, serverVars
    <2>3. code[c] = "normal" => wire[c][Len(wire[c])] = SessionEnd("normal") /\ m.code = "normal"
      <3>1. Chained(wire[c], t)
        BY <1>2 DEF BrowserInv, StreamOK
      <3>2. wire[c][Len(wire[c])] = m
        BY <1>2, <1>5, <3>1, TailChained
      <3> QED BY <1>2, <1>5, <3>2 DEF BrowserInv, EndOK, SessionEnd
    <2> QED BY <1>1, <1>7, <2>1, <2>2, <2>3 DEF EndOK
  <1>14. ASSUME NEW u \in Tabs PROVE LockOK(u)'
    BY <1>1 DEF BrowserInv, LockOK, lockVars
  <1>15. ASSUME NEW s \in Ids PROVE Secret(s)' <=> Secret(s)
    BY <1>1 DEF Secret, lockVars
  <1>16. ASSUME NEW u \in Tabs PROVE TellingOK(u)'
    BY <1>1, <1>2, <1>9, <1>15 DEF BrowserInv, TellingOK, serverVars
  <1>17. ASSUME NEW s \in Ids PROVE UnbornOK(s)'
    BY <1>1, <1>2, <1>9, <1>15 DEF BrowserInv, UnbornOK, serverVars
  <1> QED BY <1>8, <1>9, <1>10, <1>11, <1>12, <1>13, <1>14, <1>16, <1>17 DEF BrowserInv

\* A page that is told a new session has its lock at once and is the only one
\* that knows it; another one it had has ended.
LEMMA ReceiveSessionOK ==
    ASSUME BrowserInv, NEW t \in Tabs, ReceiveSession(t)
    PROVE  BrowserInv'
  <1> DEFINE c == ws[t]
             m == wire[ws[t]][1]
  <1> USE NoneAssumption
  <1>1. NextMessage(t, "session") /\ UNCHANGED endCode
        /\ UNCHANGED <<page, ws, line, hello, role, code, everOpened, outrun, serverVars, boundVars>>
    BY DEF ReceiveSession, NextMessage
  <1>2. /\ c \in Conns /\ page[t] = "open" /\ endCode[t] = None
        /\ wire[c] \in Seq(Messages) /\ wire[c] # <<>>
        /\ Head(wire[c]) = m /\ m \in Messages /\ m.type = "session"
        /\ wire' \in [Conns -> Seq(Messages)] /\ hello[c] = None /\ wire'[c] = Tail(wire[c])
        /\ \A s \in Ids : ~Told(c, s)'
    BY <1>1, MessageTaken
  <1>3. m.id \in Ids /\ m.offset \in Nat /\ EndOf(m) = m.offset /\ Told(c, m.id)
    BY <1>2 DEF Messages, EndOf, Told
  <1>4. received' = [received EXCEPT ![t] = m.offset]
        /\ text' = IF StartsOver(t, m) THEN [text EXCEPT ![t] = Blank] ELSE text
    BY <1>2 DEF ReceiveSession
  <1>5. \/ m.id = sessionId[t] /\ UNCHANGED <<sessionId, stored, lockVars>>
        \/ /\ m.id # sessionId[t]
           /\ sessionId' = [sessionId EXCEPT ![t] = m.id] /\ stored' = [stored EXCEPT ![t] = m.id]
           /\ Claim(m.id, t, holder, waiters)
    BY <1>2 DEF ReceiveSession
  <1>6. m.id # sessionId[t] => Secret(m.id) /\ \A u \in Tabs \ {t} : ws[u] # None => ~Told(ws[u], m.id)
    BY <1>2, <1>3 DEF BrowserInv, TellingOK
  <1>7. /\ received'[t] = m.offset /\ sessionId'[t] = m.id /\ stored'[t] = m.id
        /\ text'[t] = IF StartsOver(t, m) THEN Blank ELSE text[t]
        /\ \A u \in Tabs \ {t} : UNCHANGED <<received[u], text[u], sessionId[u], stored[u]>>
    <2>1. m.id = sessionId[t] => stored[t] = m.id
      BY <1>3 DEF BrowserInv, PageOK
    <2> QED BY <1>4, <1>5, <2>1 DEF BrowserInv, TypeOK
  <1>8. \/ m.id = sessionId[t] /\ UNCHANGED <<holder, waiters>>
        \/ /\ m.id # sessionId[t] /\ UNCHANGED waiters
           /\ holder' = IF Locks THEN [holder EXCEPT ![m.id] = t] ELSE holder
    BY <1>5, <1>6 DEF Claim, Secret, lockVars
  <1>9. TypeOK'
    <2>1. received' \in [Tabs -> Nat] /\ text' \in [Tabs -> [id : Ids \cup {None}, to : Nat]]
      BY <1>3, <1>4 DEF BrowserInv, TypeOK, Blank
    <2>2. sessionId' \in [Tabs -> Ids \cup {None}] /\ stored' \in [Tabs -> Ids \cup {None}]
      BY <1>3, <1>5 DEF BrowserInv, TypeOK
    <2>3. holder' \in [Ids -> Tabs \cup {None}] /\ waiters' \in [Ids -> SUBSET Tabs]
      <3>1. holder \in [Ids -> Tabs \cup {None}] /\ waiters \in [Ids -> SUBSET Tabs]
        BY DEF BrowserInv, TypeOK
      <3> QED BY <1>8, <3>1
    <2> QED BY <1>1, <1>2, <2>1, <2>2, <2>3 DEF BrowserInv, TypeOK, serverVars, boundVars
  <1>10. /\ SessionsOK' /\ CompleteStays
         /\ \A d \in Conns : LineOK(d)'
         /\ \A u \in Tabs \ {t} : PageOK(u)' /\ StreamOK(u)' /\ TextOK(u)' /\ EndOK(u)'
         /\ \A u \in Tabs \ {t} : ws[u] # None => \A s \in Ids : Told(ws[u], s)' <=> Told(ws[u], s)
    BY <1>1, <1>7, MessageOK
  <1>11. PageOK(t)'
    BY <1>1, <1>2, <1>7 DEF BrowserInv, PageOK
  <1>12. TextOK(t)'
    BY <1>1, <1>3, <1>7 DEF BrowserInv, TextOK, StartsOver, TextOf
  <1>13. StreamOK(t)'
    BY <1>1, <1>3, <1>7, <1>10, StreamMoves
  <1>14. EndOK(t)'
    <2>1. SUFFICES ASSUME line[c] = "down", code[c] = "normal"
                   PROVE  Tail(wire[c]) # <<>> /\ Tail(wire[c])[Len(Tail(wire[c]))] = SessionEnd("normal")
      BY <1>1, <1>2 DEF EndOK
    <2>2. wire[c][Len(wire[c])] = SessionEnd("normal") /\ Chained(wire[c], t)
      BY <1>2, <2>1 DEF BrowserInv, EndOK, StreamOK
    <2>3. m # SessionEnd("normal")
      BY <1>2 DEF SessionEnd
    <2> QED BY <1>2, <2>2, <2>3, TailChained
  <1>15. ASSUME NEW u \in Tabs PROVE LockOK(u)'
    <2>1. CASE u = t
      BY <1>3, <1>7, <1>8, <2>1 DEF BrowserInv, TypeOK, LockOK
    <2>2. CASE u # t
      <3>1. sessionId[u] # None => sessionId[u] \in Ids /\ (m.id # sessionId[t] => sessionId[u] # m.id)
        BY <1>6 DEF BrowserInv, TypeOK, Secret
      <3> QED BY <1>3, <1>7, <1>8, <2>2, <3>1 DEF BrowserInv, TypeOK, LockOK
    <2> QED BY <2>1, <2>2
  <1>16. ASSUME NEW s \in Ids, Secret(s), s # m.id PROVE Secret(s)'
    <2>1. UNCHANGED <<hello, holder[s], waiters[s]>>
      BY <1>1, <1>8, <1>16 DEF BrowserInv, TypeOK
    <2>2. \A u \in Tabs : stored'[u] # s /\ sessionId'[u] # s
      BY <1>7, <1>16 DEF Secret
    <2> QED BY <1>16, <2>1, <2>2 DEF Secret
  <1>17. ASSUME NEW u \in Tabs PROVE TellingOK(u)'
    <2>1. CASE u = t
      BY <1>1, <1>2, <2>1 DEF TellingOK
    <2>2. CASE u # t
      <3> SUFFICES ASSUME ws[u] # None, NEW s \in Ids, Told(ws[u], s), sessionId[u] # s
                   PROVE  /\ Secret(s)'
                          /\ \A v \in Tabs : v # u /\ ws[v] # None => ~Told(ws[v], s)'
                          /\ sessionId[u] # None => phase[sessionId[u]] \in {"ended", "freed"}
        BY <1>1, <1>7, <1>10, <2>2 DEF TellingOK, serverVars
      <3>1. /\ Secret(s)
            /\ \A v \in Tabs : v # u /\ ws[v] # None => ~Told(ws[v], s)
            /\ sessionId[u] # None => phase[sessionId[u]] \in {"ended", "freed"}
        BY DEF BrowserInv, TellingOK
      <3>2. s # m.id
        BY <1>2, <1>3, <2>2, <3>1
      <3>3. Secret(s)'
        BY <1>16, <3>1, <3>2
      <3> QED BY <1>2, <1>10, <3>1, <3>3
    <2> QED BY <2>1, <2>2
  <1>18. ASSUME NEW s \in Ids PROVE UnbornOK(s)'
    <2>1. phase[s] = "unborn" => s # m.id
      BY <1>2, <1>3 DEF BrowserInv, UnbornOK
    <2> QED BY <1>1, <1>2, <1>10, <1>16, <2>1 DEF BrowserInv, UnbornOK, serverVars
  <1> QED BY <1>9, <1>10, <1>11, <1>12, <1>13, <1>14, <1>15, <1>17, <1>18 DEF BrowserInv

\* A message that goes on where the last one ends makes no gap.
LEMMA AppendChained ==
    ASSUME NEW t \in Tabs, NEW w \in Seq(Messages), NEW m \in Messages, Chained(w, t)',
           w # <<>> => w[Len(w)].type # "end" /\ Continues(m, w[Len(w)].id, EndOf(w[Len(w)]), t)'
    PROVE  /\ Append(w, m) \in Seq(Messages) /\ Append(w, m) # <<>>
           /\ Append(w, m)[Len(Append(w, m))] = m
           /\ Append(w, m)[1] = IF w = <<>> THEN m ELSE w[1]
           /\ Head(Append(w, m)) = Append(w, m)[1]
           /\ Chained(Append(w, m), t)'
  <1> DEFINE v == Append(w, m)
  <1>1. /\ v \in Seq(Messages) /\ Len(v) = Len(w) + 1 /\ Len(w) \in Nat
        /\ v[Len(w) + 1] = m
        /\ \A i \in 1 .. Len(w) : v[i] = w[i]
    OBVIOUS
  <1>2. v # <<>> /\ Head(v) = v[1]
    <2>1. v # <<>>
      BY <1>1
    <2> QED BY <1>1, <2>1
  <1>3. v[1] = IF w = <<>> THEN m ELSE w[1]
    <2>1. w = <<>> <=> Len(w) = 0
      OBVIOUS
    <2> QED BY <1>1, <2>1
  <1>4. ASSUME NEW i \in 1 .. Len(v) - 1
        PROVE  v[i].type # "end" /\ Continues(v[i + 1], v[i].id, EndOf(v[i]), t)'
    <2>1. CASE i = Len(w)
      <3>1. w # <<>> /\ v[i] = w[Len(w)] /\ v[i + 1] = m
        BY <1>1, <2>1
      <3> QED BY <3>1
    <2>2. CASE i # Len(w)
      <3>1. i \in 1 .. Len(w) - 1 /\ v[i] = w[i] /\ v[i + 1] = w[i + 1]
        BY <1>1, <2>2
      <3> QED BY <3>1 DEF Chained, EndOf
    <2> QED BY <2>1, <2>2
  <1>5. Chained(v, t)'
    BY <1>4 DEF Chained, EndOf
  <1> QED BY <1>1, <1>2, <1>3, <1>5

\* What the page of connection c has is what the server has sent there.
Follows(c, m) ==
    LET last == wire[c][Len(wire[c])] IN
    \A t \in Tabs : ws[t] = c =>
        \A s, at :
            /\ wire[c] = <<>> /\ s = sessionId[t] /\ at = received[t] =>
                  m.type = "session" \/ Continues(m, s, at, t)'
            /\ wire[c] # <<>> /\ s = last.id /\ at = EndOf(last) => Continues(m, s, at, t)'

\* The server's message to a page.
LEMMA Sends ==
    ASSUME BrowserInv, NEW c \in Conns, NEW m \in Messages, wire' = Sent(c, m), line[c] = "up",
           UNCHANGED pageVars, CompleteStays, Follows(c, m), line'[c] # "down" => m.type # "end",
           \A d \in Conns \ {c} : UNCHANGED line[d],
           \A d \in Conns, s \in Ids : owner'[s] = d /\ role'[d] = "greeted" =>
               IF d = c THEN m.id = s /\ EndOf(m) = shown'[s]
               ELSE owner[s] = d /\ role[d] = "greeted" /\ UNCHANGED shown[s]
    PROVE  /\ wire' \in [Conns -> Seq(Messages)]
           /\ \A d \in Conns \ {c} : UNCHANGED wire[d]
           /\ ~Listening(c) => wire'[c] = wire[c]
           /\ \A t \in Tabs : ws[t] = c => /\ wire'[c] # <<>> /\ wire'[c][Len(wire'[c])] = m
                                          /\ Head(wire'[c]) = IF wire[c] = <<>> THEN m ELSE Head(wire[c])
           /\ \A t \in Tabs : StreamOK(t)'
  <1> USE NoneAssumption
  <1>1. wire \in [Conns -> Seq(Messages)]
    BY DEF BrowserInv, TypeOK
  <1>2. Append(wire[c], m) \in Seq(Messages)
    BY <1>1
  <1>3. /\ wire' \in [Conns -> Seq(Messages)]
        /\ \A d \in Conns \ {c} : UNCHANGED wire[d]
        /\ ~Listening(c) => wire'[c] = wire[c]
        /\ Listening(c) => wire'[c] = Append(wire[c], m)
    BY <1>1, <1>2 DEF Sent
  <1>4. ASSUME NEW t \in Tabs, ws[t] = c
        PROVE  /\ wire'[c] # <<>> /\ wire'[c][Len(wire'[c])] = m
               /\ Head(wire'[c]) = IF wire[c] = <<>> THEN m ELSE Head(wire[c])
               /\ StreamOK(t)'
    <2>1. PICK w : w = wire[c]
      OBVIOUS
    <2>2. w \in Seq(Messages) /\ wire'[c] = Append(w, m)
      BY <1>1, <1>3, <1>4, <2>1 DEF Listening
    <2>3. /\ Chained(w, t)
          /\ w # <<>> => w[1].type = "session" \/ Continues(w[1], sessionId[t], received[t], t)
          /\ w # <<>> => w[Len(w)].type # "end"
      BY <1>4, <2>1 DEF BrowserInv, StreamOK
    <2>4. Chained(w, t)'
      BY <2>3, ChainKept DEF pageVars
    <2>5. IF w = <<>> THEN m.type = "session" \/ Continues(m, sessionId[t], received[t], t)'
          ELSE Continues(m, w[Len(w)].id, EndOf(w[Len(w)]), t)'
      <3>1. PICK s, at : IF w = <<>> THEN s = sessionId[t] /\ at = received[t]
                         ELSE s = w[Len(w)].id /\ at = EndOf(w[Len(w)])
        OBVIOUS
      <3>2. (m.type = "session" /\ w = <<>>) \/ Continues(m, s, at, t)'
        BY <1>4, <2>1, <3>1 DEF Follows
      <3>3. IF w = <<>> THEN s = sessionId'[t] /\ at = received'[t]
            ELSE s = w[Len(w)].id /\ at = EndOf(w[Len(w)])
        BY <3>1 DEF pageVars
      <3> QED BY <3>2, <3>3 DEF Continues, Complete, Over, EndOf
    <2>6. /\ Append(w, m) # <<>>
          /\ Append(w, m)[Len(Append(w, m))] = m
          /\ Append(w, m)[1] = IF w = <<>> THEN m ELSE w[1]
          /\ Head(Append(w, m)) = Append(w, m)[1]
          /\ Chained(Append(w, m), t)'
      BY <2>2, <2>3, <2>4, <2>5, AppendChained
    <2>7. Append(w, m)[1].type = "session" \/ Continues(Append(w, m)[1], sessionId[t], received[t], t)'
      <3>1. CASE w = <<>>
        BY <2>5, <2>6, <3>1
      <3>2. CASE w # <<>>
        <4>1. PICK s, at : s = sessionId[t] /\ at = received[t]
          OBVIOUS
        <4>2. s = sessionId'[t] /\ at = received'[t]
          BY <4>1 DEF pageVars
        <4>3. w[1].type = "session" \/ Continues(w[1], s, at, t)'
          BY <2>3, <3>2, <4>1, ContinuesKept DEF pageVars
        <4> QED BY <2>6, <3>2, <4>2, <4>3 DEF Continues, Complete, Over
      <3> QED BY <3>1, <3>2
    <2>8. ws'[t] = c
      BY <1>4 DEF pageVars
    <2>9. ASSUME NEW s \in Ids, owner'[s] = c, role'[c] = "greeted" PROVE m.id = s /\ EndOf(m) = shown'[s]
      BY <2>9
    <2>10. StreamOK(t)'
      <3>1. line'[c] # "down" => m.type # "end"
        OBVIOUS
      <3>2. PICK v : v = Append(w, m)
        OBVIOUS
      <3>3. /\ wire'[ws'[t]] = v /\ Chained(v, t)' /\ v # <<>> /\ v[Len(v)] = m
            /\ v[1].type = "session" \/ Continues(v[1], sessionId[t], received[t], t)'
        BY <2>2, <2>6, <2>7, <2>8, <3>2
      <3> QED BY <2>8, <2>9, <3>1, <3>3 DEF StreamOK, EndOf
    <2>11. w # <<>> => Head(w) = w[1]
      BY <2>2
    <2> QED BY <2>1, <2>2, <2>6, <2>10, <2>11
  <1>5. ASSUME NEW t \in Tabs, ws[t] # c PROVE StreamOK(t)'
    <2>1. ws[t] # None => ws[t] \in Conns \ {c}
      BY <1>5 DEF BrowserInv, TypeOK
    <2>2. UNCHANGED <<ws, sessionId, received, outrun>>
      BY DEF pageVars
    <2>3. ASSUME NEW s \in Ids, owner'[s] = ws[t], role'[ws[t]] = "greeted", ws[t] # None
          PROVE  owner[s] = ws[t] /\ role[ws[t]] = "greeted" /\ UNCHANGED shown[s]
      BY <2>1, <2>3
    <2> QED BY <1>3, <2>1, <2>2, <2>3, StreamKept DEF BrowserInv, StreamOK
  <1> QED BY <1>3, <1>4, <1>5

\* A step of the server keeps what the pages know, if it tells a session only to
\* a page that has it: all of its steps but the start of a session.
LEMMA ServerKeeps ==
    ASSUME BrowserInv, UNCHANGED <<pageVars, lockVars>>,
           \A c \in Conns : hello'[c] \in {hello[c], None},
           \A c \in Conns : line'[c] = "opening" <=> line[c] = "opening",
           \A s \in Ids : phase[s] \in {"ended", "freed"} => phase'[s] \in {"ended", "freed"},
           \A s \in Ids : phase'[s] = "unborn" => phase[s] = "unborn" /\ UNCHANGED owner[s],
           \A t \in Tabs : ws[t] # None =>
               \A s \in Ids : Told(ws[t], s)' => Told(ws[t], s) \/ sessionId[t] = s
    PROVE  /\ \A t \in Tabs : PageOK(t)' /\ LockOK(t)' /\ TellingOK(t)' /\ TextOK(t)'
           /\ \A s \in Ids : UnbornOK(s)'
  <1> USE NoneAssumption
  <1>1. UNCHANGED <<page, stored, sessionId, received, endCode, ws, text, outrun, holder, waiters>>
    BY DEF pageVars, lockVars
  <1>2. ASSUME NEW t \in Tabs PROVE PageOK(t)'
    <2>1. ws[t] # None => ws[t] \in Conns
      BY DEF BrowserInv, TypeOK
    <2> QED BY <1>1, <2>1 DEF BrowserInv, PageOK, HelloOf
  <1>3. ASSUME NEW t \in Tabs PROVE LockOK(t)' /\ TextOK(t)'
    BY <1>1 DEF BrowserInv, LockOK, TextOK
  <1>4. ASSUME NEW s \in Ids, Secret(s) PROVE Secret(s)' /\ \A t \in Tabs : sessionId[t] # s
    BY <1>1, <1>4 DEF Secret
  <1>5. ASSUME NEW t \in Tabs PROVE TellingOK(t)'
    <2> SUFFICES ASSUME ws[t] # None, NEW s \in Ids, Told(ws[t], s), sessionId[t] # s
                 PROVE  /\ Secret(s)'
                        /\ \A u \in Tabs : u # t /\ ws[u] # None => ~Told(ws[u], s)'
                        /\ sessionId[t] # None => phase'[sessionId[t]] \in {"ended", "freed"}
      BY <1>1 DEF TellingOK
    <2>1. /\ Secret(s)
          /\ \A u \in Tabs : u # t /\ ws[u] # None => ~Told(ws[u], s)
          /\ sessionId[t] # None => phase[sessionId[t]] \in {"ended", "freed"}
      BY DEF BrowserInv, TellingOK
    <2>2. sessionId[t] # None => sessionId[t] \in Ids
      BY DEF BrowserInv, TypeOK
    <2> QED BY <1>4, <2>1, <2>2
  <1>6. ASSUME NEW s \in Ids PROVE UnbornOK(s)'
    BY <1>1, <1>4 DEF BrowserInv, UnbornOK
  <1> QED BY <1>2, <1>3, <1>5, <1>6

\* The client is told its session (SET_SESSION).
LEMMA GreetOK ==
    ASSUME BrowserInv, NEW c \in Conns, NEW s \in Ids, Greet(c, s)
    PROVE  BrowserInv'
  <1> DEFINE m == SetSession(s, shown[s])
  <1> USE NoneAssumption
  <1>1. UNCHANGED <<line, hello, code, pageVars, lockVars, boundVars>>
        /\ UNCHANGED <<phase, owner, produced, shown, reading, ws, page, endCode, outrun>>
    BY DEF Greet, serverVars, pageVars
  <1>2. owner[s] = c /\ role[c] = "attached" /\ line[c] = "up" /\ wire[c] = <<>>
        /\ wire' = Sent(c, m) /\ role' = [role EXCEPT ![c] = "greeted"]
    <2>1. owner[s] = c /\ role[c] = "attached" /\ wire' = Sent(c, m) /\ role' = [role EXCEPT ![c] = "greeted"]
      BY DEF Greet
    <2> QED BY <2>1 DEF BrowserInv, TypeOK, LineOK
  <1>3. m \in Messages /\ m.type = "session" /\ m.id = s /\ EndOf(m) = shown[s]
    BY DEF BrowserInv, TypeOK, Messages, SetSession, EndOf
  <1>4. role'[c] = "greeted" /\ \A d \in Conns \ {c} : UNCHANGED role[d]
    BY <1>2 DEF BrowserInv, TypeOK
  <1>5. CompleteStays
    BY <1>1 DEF CompleteStays, Over
  <1>6. SessionsOK'
    BY <1>1 DEF BrowserInv, SessionsOK
  <1>7. /\ wire' \in [Conns -> Seq(Messages)]
        /\ \A d \in Conns \ {c} : UNCHANGED wire[d]
        /\ ~Listening(c) => wire'[c] = wire[c]
        /\ \A t \in Tabs : ws[t] = c => wire'[c] # <<>> /\ Head(wire'[c]) = m
        /\ \A t \in Tabs : StreamOK(t)'
    <2>1. Follows(c, m)
      BY <1>2, <1>3 DEF Follows
    <2>2. ASSUME NEW d \in Conns, NEW r \in Ids, owner'[r] = d, role'[d] = "greeted"
          PROVE  IF d = c THEN m.id = r /\ EndOf(m) = shown'[r]
                 ELSE owner[r] = d /\ role[d] = "greeted" /\ UNCHANGED shown[r]
      BY <1>1, <1>2, <1>3, <1>4, <2>2 DEF BrowserInv, SessionsOK
    <2> HIDE DEF m
    <2> QED BY <1>1, <1>2, <1>3, <1>5, <2>1, <2>2, Sends
  <1>8. TypeOK'
    BY <1>1, <1>2, <1>7 DEF BrowserInv, TypeOK, pageVars, lockVars, boundVars
  <1>9. ASSUME NEW d \in Conns PROVE LineOK(d)'
    <2>1. CASE d = c
      BY <1>1, <1>2, <1>4, <1>7, <2>1 DEF BrowserInv, LineOK, Listening
    <2>2. CASE d # c
      BY <1>1, <1>4, <1>7, <2>2 DEF BrowserInv, LineOK, Listening
    <2> QED BY <2>1, <2>2
  <1>10. ASSUME NEW t \in Tabs, ws[t] # None, NEW r \in Ids, Told(ws[t], r)' PROVE Told(ws[t], r)
    <2>1. CASE ws[t] = c
      BY <1>1, <1>2, <1>3, <1>4, <1>7, <1>10, <2>1 DEF Told
    <2>2. CASE ws[t] # c
      <3>1. ws[t] \in Conns \ {c}
        BY <1>10, <2>2 DEF BrowserInv, TypeOK
      <3> QED BY <1>1, <1>4, <1>7, <1>10, <3>1 DEF Told
    <2> QED BY <2>1, <2>2
  <1>11. /\ \A t \in Tabs : PageOK(t)' /\ LockOK(t)' /\ TellingOK(t)' /\ TextOK(t)'
         /\ \A r \in Ids : UnbornOK(r)'
    BY <1>1, <1>10, ServerKeeps
  <1>12. ASSUME NEW t \in Tabs PROVE EndOK(t)'
    <2>1. CASE ws[t] = c
      BY <1>1, <1>2, <2>1 DEF BrowserInv, EndOK, PageOK
    <2>2. CASE ws[t] # c
      <3>1. ws[t] # None => ws[t] \in Conns \ {c}
        BY <2>2 DEF BrowserInv, TypeOK
      <3> QED BY <1>1, <1>5, <1>7, <3>1, EndKept DEF BrowserInv, pageVars
    <2> QED BY <2>1, <2>2
  <1> QED BY <1>6, <1>7, <1>8, <1>9, <1>11, <1>12 DEF BrowserInv

\* What the server says next to the page that has session s goes on where the
\* page will be.
LEMMA FollowsShown ==
    ASSUME BrowserInv, NEW c \in Conns, NEW s \in Ids, owner[s] = c, role[c] = "greeted",
           NEW m, NEW at, at = shown[s], UNCHANGED outrun,
           \A t \in Tabs : ws[t] = c => Continues(m, s, at, t)'
    PROVE  Follows(c, m)
  <1> SUFFICES ASSUME NEW t \in Tabs, ws[t] = c, NEW r, NEW to,
                      IF wire[c] = <<>> THEN r = sessionId[t] /\ to = received[t]
                      ELSE r = wire[c][Len(wire[c])].id /\ to = EndOf(wire[c][Len(wire[c])])
               PROVE  Continues(m, r, to, t)'
    BY DEF Follows
  <1>1. r = s /\ (outrun[t] \/ to = at)
    BY NoneAssumption DEF BrowserInv, StreamOK
  <1> QED BY <1>1 DEF Continues, Complete, Over

\* The client is sent output (OUTPUT).
LEMMA SendOutputOK ==
    ASSUME BrowserInv, NotOutrun, NEW c \in Conns, NEW s \in Ids, SendOutput(c, s)
    PROVE  BrowserInv'
  <1> USE NoneAssumption
  <1>1. UNCHANGED <<line, hello, role, code, pageVars, lockVars, boundVars>>
        /\ UNCHANGED <<phase, owner, produced, reading, ws, page, endCode, outrun>>
    BY DEF SendOutput, Server!Show, pageVars
  <1>2. produced[s] \in Nat /\ shown[s] \in Nat /\ Capacity \in Nat /\ Limit \in Nat
        /\ Oldest(Capacity, produced[s]) \in Nat
    <2>1. produced[s] \in Nat /\ shown[s] \in Nat
      BY DEF BrowserInv, TypeOK
    <2> QED BY <2>1, SizeAssumption DEF Oldest, Larger
  <1>3. owner[s] = c /\ role[c] = "greeted" /\ line[c] = "up"
    <2>1. owner[s] = c /\ role[c] = "greeted"
      BY DEF SendOutput
    <2> QED BY <2>1 DEF BrowserInv, TypeOK, LineOK
  <1>4. PICK to : /\ to \in Nat /\ shown[s] <= to /\ to <= produced[s]
                  /\ shown[s] >= Oldest(Capacity, produced[s]) => shown[s] < to
                  /\ shown' = [shown EXCEPT ![s] = to]
    <2>1. Server!Oldest(Capacity, produced[s]) = Oldest(Capacity, produced[s])
      BY DEF Server!Oldest, Server!Larger, Oldest, Larger
    <2>2. PICK from :
             /\ from = IF shown[s] < Oldest(Capacity, produced[s]) THEN Oldest(Capacity, produced[s])
                       ELSE shown[s] + 1
             /\ \E to \in from .. produced[s] : shown' = [shown EXCEPT ![s] = to]
      BY <2>1 DEF SendOutput, Server!Show
    <2>3. from \in Nat /\ from > shown[s]
      BY <1>2, <2>2
    <2>4. PICK to \in from .. produced[s] : shown' = [shown EXCEPT ![s] = to]
      BY <2>2
    <2>5. to \in Nat /\ shown[s] <= to /\ to <= produced[s] /\ shown[s] < to
      BY <1>2, <2>3, <2>4
    <2> QED BY <2>4, <2>5
  <1>5. shown'[s] = to /\ \A r \in Ids \ {s} : UNCHANGED shown[r]
    BY <1>4 DEF BrowserInv, TypeOK
  <1>6. PICK from \in NextOutput(s) :
           IF from < to THEN wire' = Sent(c, Output(s, from, to)) ELSE UNCHANGED wire /\ from = to
    <2>1. \A from \in NextOutput(s) : from \in Nat
      BY <1>2, ResumeRange DEF NextOutput
    <2>2. PICK from \in NextOutput(s) :
             \/ from < shown'[s] /\ wire' = Sent(c, Output(s, from, shown'[s]))
             \/ from = shown'[s] /\ UNCHANGED wire
      BY DEF SendOutput
    <2> QED BY <1>4, <1>5, <2>1, <2>2
  <1>7. CompleteStays
    BY <1>1 DEF CompleteStays, Over
  <1>8. SessionsOK'
    BY <1>1, <1>4, <1>5 DEF BrowserInv, SessionsOK
  <1>9. /\ wire' \in [Conns -> Seq(Messages)]
        /\ \A d \in Conns \ {c} : UNCHANGED wire[d]
        /\ ~Listening(c) => wire'[c] = wire[c]
        /\ \A t \in Tabs : ws[t] = c /\ wire'[c] # <<>> /\ Head(wire'[c]).type = "session" =>
              wire[c] # <<>> /\ Head(wire'[c]) = Head(wire[c])
        /\ \A t \in Tabs : StreamOK(t)'
    <2>1. from \in Nat /\ \A t \in Tabs : ws[t] = c => outrun[t] \/ (from = shown[s] /\ from < to)
      <3>1. from \in Nat
        BY <1>2, ResumeRange DEF NextOutput
      <3>2. ASSUME NEW t \in Tabs, ws[t] = c, ~outrun[t] PROVE from = shown[s] /\ from < to
        <4>1. produced[s] - shown[s] <= Capacity
          BY <1>3, <3>2, NoneAssumption DEF NotOutrun
        <4>2. shown[s] >= Oldest(Capacity, produced[s])
          BY <1>2, <4>1 DEF Oldest, Larger
        <4> QED BY <1>2, <1>4, <4>2 DEF NextOutput
      <3> QED BY <3>1, <3>2
    <2>2. CASE from < to
      <3>1. PICK m : m = Output(s, from, to)
        OBVIOUS
      <3>2. m \in Messages /\ m.type = "output" /\ m.id = s /\ EndOf(m) = shown'[s]
            /\ m.from = from /\ m.to = to
        BY <1>4, <1>5, <2>1, <3>1 DEF Messages, Output, EndOf
      <3>3. Follows(c, m)
        <4>1. PICK at : at = shown[s]
          OBVIOUS
        <4>2. ASSUME NEW t \in Tabs, ws[t] = c PROVE Continues(m, s, at, t)'
          BY <1>1, <1>4, <2>1, <2>2, <3>2, <4>1, <4>2 DEF Continues
        <4> QED BY <1>1, <1>3, <4>1, <4>2, FollowsShown
      <3>4. ASSUME NEW d \in Conns, NEW r \in Ids, owner'[r] = d, role'[d] = "greeted"
            PROVE  IF d = c THEN m.id = r /\ EndOf(m) = shown'[r]
                   ELSE owner[r] = d /\ role[d] = "greeted" /\ UNCHANGED shown[r]
        BY <1>1, <1>3, <1>5, <3>2, <3>4 DEF BrowserInv, SessionsOK
      <3>5. m.type # "end" /\ line[c] = "up" /\ wire' = Sent(c, m)
        BY <1>3, <1>6, <2>2, <3>1, <3>2
      <3>6. /\ wire' \in [Conns -> Seq(Messages)]
            /\ \A d \in Conns \ {c} : UNCHANGED wire[d]
            /\ ~Listening(c) => wire'[c] = wire[c]
            /\ \A t \in Tabs : ws[t] = c =>
                  wire'[c] # <<>> /\ Head(wire'[c]) = IF wire[c] = <<>> THEN m ELSE Head(wire[c])
            /\ \A t \in Tabs : StreamOK(t)'
        BY <1>1, <1>7, <3>2, <3>3, <3>4, <3>5, Sends
      <3> QED BY <3>2, <3>6
    <2>3. CASE ~(from < to)
      <3>1. UNCHANGED wire /\ \A t \in Tabs : ws[t] = c => outrun[t]
        BY <1>6, <2>1, <2>3
      <3>2. ASSUME NEW t \in Tabs PROVE StreamOK(t)'
        <4>1. ASSUME NEW r \in Ids, owner'[r] = ws[t], role'[ws[t]] = "greeted"
              PROVE  owner[r] = ws[t] /\ role[ws[t]] = "greeted" /\ (outrun[t] \/ UNCHANGED shown[r])
          BY <1>1, <1>3, <1>5, <3>1, <4>1 DEF BrowserInv, SessionsOK
        <4> QED BY <1>1, <1>7, <3>1, <4>1, StreamKept DEF BrowserInv, pageVars
      <3> QED BY <3>1, <3>2 DEF BrowserInv, TypeOK
    <2> QED BY <2>2, <2>3
  <1>10. TypeOK'
    <2>1. shown' \in [Ids -> Nat]
      BY <1>4 DEF BrowserInv, TypeOK
    <2> QED BY <1>1, <1>9, <2>1 DEF BrowserInv, TypeOK, pageVars, lockVars, boundVars
  <1>11. ASSUME NEW d \in Conns PROVE LineOK(d)'
    <2>1. CASE d = c
      BY <1>1, <1>3, <1>9, <2>1 DEF BrowserInv, LineOK, Listening
    <2>2. CASE d # c
      BY <1>1, <1>9, <2>2 DEF BrowserInv, LineOK, Listening
    <2> QED BY <2>1, <2>2
  <1>12. ASSUME NEW t \in Tabs, ws[t] # None, NEW r \in Ids, Told(ws[t], r)' PROVE Told(ws[t], r)
    <2>1. CASE ws[t] = c
      <3>1. wire'[c] # <<>> /\ Head(wire'[c]).type = "session" /\ Head(wire'[c]).id = r
        BY <1>1, <1>3, <1>12, <2>1 DEF Told
      <3>2. wire[c] # <<>> /\ Head(wire[c]).type = "session" /\ Head(wire[c]).id = r
        BY <1>9, <2>1, <3>1
      <3> QED BY <2>1, <3>2 DEF Told
    <2>2. CASE ws[t] # c
      <3>1. ws[t] \in Conns \ {c}
        BY <1>12, <2>2 DEF BrowserInv, TypeOK
      <3> QED BY <1>1, <1>9, <1>12, <3>1 DEF Told
    <2> QED BY <2>1, <2>2
  <1>13. /\ \A t \in Tabs : PageOK(t)' /\ LockOK(t)' /\ TellingOK(t)' /\ TextOK(t)'
         /\ \A r \in Ids : UnbornOK(r)'
    BY <1>1, <1>12, ServerKeeps
  <1>14. ASSUME NEW t \in Tabs PROVE EndOK(t)'
    <2>1. CASE ws[t] = c
      BY <1>1, <1>3, <2>1 DEF BrowserInv, EndOK, PageOK
    <2>2. CASE ws[t] # c
      <3>1. ws[t] # None => ws[t] \in Conns \ {c}
        BY <2>2 DEF BrowserInv, TypeOK
      <3> QED BY <1>1, <1>7, <1>9, <3>1, EndKept DEF BrowserInv, pageVars
    <2> QED BY <2>1, <2>2
  <1> QED BY <1>8, <1>9, <1>10, <1>11, <1>13, <1>14 DEF BrowserInv

\* A connection that closes on the server's side gives up its session.
LetsGo(c) ==
    /\ reading' \in [Ids -> BOOLEAN]
    /\ \/ \E s \in Ids : owner[s] = c /\ Server!Leave(s)
       \/ (\A s \in Ids : owner[s] # c) /\ UNCHANGED <<phase, owner, produced, shown>>

\* The server closes a connection, after what it has to say there: nothing, or
\* the end of the session.
LEMMA HangsUp ==
    ASSUME BrowserInv, NEW c \in Conns, NEW why \in Codes, HungUp(c, why), LetsGo(c),
           UNCHANGED pageVars
    PROVE  /\ reading' \in [Ids -> BOOLEAN]
           /\ phase' \in [Ids -> {"unborn", "running", "ended", "freed"}]
           /\ owner' \in [Ids -> Conns \cup {None}] /\ shown' \in [Ids -> Nat] /\ UNCHANGED produced
           /\ line' \in [Conns -> {"down", "opening", "up"}] /\ code' \in [Conns -> Codes]
           /\ hello' \in [Conns -> [id : Ids \cup {None}, offset : Nat] \cup {None}]
           /\ role' \in [Conns -> {"fresh", "attached", "greeted", "taken"}]
           /\ line'[c] = "down" /\ code'[c] = why /\ hello'[c] = None /\ role'[c] = "fresh"
           /\ \A d \in Conns \ {c} : UNCHANGED <<line[d], code[d], hello[d], role[d]>>
           /\ \A s \in Ids, d \in Conns : owner'[s] = d =>
                 d # c /\ UNCHANGED <<owner[s], shown[s], phase[s]>>
           /\ \A s \in Ids : /\ phase[s] \in {"ended", "freed"} => phase'[s] \in {"ended", "freed"}
                             /\ phase'[s] = "unborn" => phase[s] = "unborn" /\ UNCHANGED owner[s]
           /\ CompleteStays
           /\ SessionsOK'
  <1> USE NoneAssumption
  <1>1. TypeOK /\ SessionsOK
    BY DEF BrowserInv
  <1>2. /\ line' \in [Conns -> {"down", "opening", "up"}] /\ code' \in [Conns -> Codes]
        /\ hello' \in [Conns -> [id : Ids \cup {None}, offset : Nat] \cup {None}]
        /\ role' \in [Conns -> {"fresh", "attached", "greeted", "taken"}]
        /\ line'[c] = "down" /\ code'[c] = why /\ hello'[c] = None /\ role'[c] = "fresh"
        /\ \A d \in Conns \ {c} : UNCHANGED <<line[d], code[d], hello[d], role[d]>>
    BY <1>1 DEF TypeOK, HungUp
  <1>5. reading' \in [Ids -> BOOLEAN]
    BY DEF LetsGo
  <1>3. CASE \E s \in Ids : owner[s] = c /\ Server!Leave(s)
    <2>1. PICK s \in Ids : owner[s] = c /\ Server!Leave(s)
      BY <1>3
    <2>2. /\ phase' \in [Ids -> {"unborn", "running", "ended", "freed"}]
          /\ owner' \in [Ids -> Conns \cup {None}] /\ shown' \in [Ids -> Nat] /\ UNCHANGED produced
          /\ owner'[s] = None /\ shown'[s] = 0
          /\ phase'[s] = IF phase[s] = "ended" THEN "freed" ELSE phase[s]
          /\ \A r \in Ids \ {s} : UNCHANGED <<owner[r], shown[r], phase[r]>>
      BY <1>1, <2>1 DEF TypeOK, Server!Leave
    <2>3. phase[s] \in {"running", "ended"} /\ \A r \in Ids : owner[r] = c => r = s
      BY <1>1, <2>1 DEF SessionsOK
    <2>4. \A r \in Ids, d \in Conns : owner'[r] = d =>
              d # c /\ UNCHANGED <<owner[r], shown[r], phase[r]>>
      BY <2>2, <2>3
    <2>5. \A r \in Ids : /\ phase[r] \in {"ended", "freed"} => phase'[r] \in {"ended", "freed"}
                         /\ phase'[r] = "unborn" => phase[r] = "unborn" /\ UNCHANGED owner[r]
      BY <2>2, <2>3
    <2>6. SessionsOK'
      <3>1. 0 <= produced[s]
        BY <1>1 DEF TypeOK
      <3>2. \A r \in Ids : shown'[r] <= produced'[r]
        BY <1>1, <2>2, <3>1 DEF SessionsOK
      <3>3. \A r \in Ids : owner'[r] # None => r # s /\ UNCHANGED <<owner[r], phase[r]>>
        BY <2>2
      <3> QED BY <1>1, <3>2, <3>3 DEF SessionsOK
    <2>7. CompleteStays
      BY <2>2, <2>5 DEF CompleteStays, Over
    <2> QED BY <1>2, <1>5, <2>2, <2>4, <2>5, <2>6, <2>7
  <1>4. CASE (\A s \in Ids : owner[s] # c) /\ UNCHANGED <<phase, owner, produced, shown>>
    BY <1>1, <1>2, <1>4, <1>5 DEF TypeOK, SessionsOK, CompleteStays, Over
  <1> QED BY <1>3, <1>4 DEF LetsGo

\* The end of a session is said on its connection, which is then closed.
LEMMA SaysEndOK ==
    ASSUME BrowserInv, NEW c \in Conns, NEW why \in {"normal", "taken"},
           line[c] = "up", HungUp(c, why), LetsGo(c),
           wire' = Sent(c, SessionEnd(why)), UNCHANGED <<pageVars, lockVars, boundVars>>,
           why = "normal" => \E s \in Ids : /\ owner[s] = c /\ role[c] = "greeted"
                                            /\ Over(s)' /\ produced'[s] = shown[s]
    PROVE  BrowserInv'
  <1> DEFINE m == SessionEnd(why)
  <1> USE NoneAssumption
  <1>1. UNCHANGED <<ws, page, endCode, sessionId, received, outrun>>
    BY DEF pageVars
  <1>2. m \in Messages /\ m.type = "end" /\ m.code = why /\ why \in Codes
    BY DEF SessionEnd, Messages, Codes
  <1>3. /\ line'[c] = "down" /\ code'[c] = why /\ hello'[c] = None /\ role'[c] = "fresh"
        /\ \A d \in Conns \ {c} : UNCHANGED <<line[d], code[d], hello[d], role[d]>>
        /\ \A s \in Ids, d \in Conns : owner'[s] = d =>
              d # c /\ UNCHANGED <<owner[s], shown[s], phase[s]>>
        /\ \A s \in Ids : /\ phase[s] \in {"ended", "freed"} => phase'[s] \in {"ended", "freed"}
                          /\ phase'[s] = "unborn" => phase[s] = "unborn" /\ UNCHANGED owner[s]
        /\ CompleteStays
        /\ SessionsOK'
    BY <1>2, HangsUp
  <1>4. Follows(c, m)
    <2>1. CASE why = "taken"
      BY <1>2, <2>1 DEF Follows, Continues
    <2>2. CASE why = "normal"
      <3>1. PICK s \in Ids : /\ owner[s] = c /\ role[c] = "greeted"
                             /\ Over(s)' /\ produced'[s] = shown[s]
        BY <2>2
      <3>2. PICK at : at = shown[s]
        OBVIOUS
      <3>3. ASSUME NEW t \in Tabs PROVE Continues(m, s, at, t)'
        BY <1>2, <3>1, <3>2 DEF Continues, Complete, Over
      <3> HIDE DEF m
      <3> QED BY <1>1, <3>1, <3>2, <3>3, FollowsShown
    <2> QED BY <2>1, <2>2
  <1>5. /\ wire' \in [Conns -> Seq(Messages)]
        /\ \A d \in Conns \ {c} : UNCHANGED wire[d]
        /\ ~Listening(c) => wire'[c] = wire[c]
        /\ \A t \in Tabs : ws[t] = c => /\ wire'[c] # <<>> /\ wire'[c][Len(wire'[c])] = m
                                       /\ Head(wire'[c]) = IF wire[c] = <<>> THEN m ELSE Head(wire[c])
        /\ \A t \in Tabs : StreamOK(t)'
    <2>1. ASSUME NEW d \in Conns, NEW r \in Ids, owner'[r] = d, role'[d] = "greeted"
          PROVE  IF d = c THEN m.id = r /\ EndOf(m) = shown'[r]
                 ELSE owner[r] = d /\ role[d] = "greeted" /\ UNCHANGED shown[r]
      BY <1>3, <2>1
    <2>2. wire' = Sent(c, m) /\ (line'[c] # "down" => m.type # "end")
          /\ \A d \in Conns \ {c} : UNCHANGED line[d]
      BY <1>3
    <2> HIDE DEF m
    <2> QED BY <1>2, <1>3, <1>4, <2>1, <2>2, Sends
  <1>6. TypeOK'
    <2>1. /\ reading' \in [Ids -> BOOLEAN]
          /\ phase' \in [Ids -> {"unborn", "running", "ended", "freed"}]
          /\ owner' \in [Ids -> Conns \cup {None}] /\ shown' \in [Ids -> Nat] /\ UNCHANGED produced
          /\ line' \in [Conns -> {"down", "opening", "up"}] /\ code' \in [Conns -> Codes]
          /\ hello' \in [Conns -> [id : Ids \cup {None}, offset : Nat] \cup {None}]
          /\ role' \in [Conns -> {"fresh", "attached", "greeted", "taken"}]
      BY <1>2, HangsUp
    <2> QED BY <1>5, <2>1 DEF BrowserInv, TypeOK, pageVars, lockVars, boundVars
  <1>7. ASSUME NEW d \in Conns PROVE LineOK(d)'
    <2>1. CASE d = c
      BY <1>1, <1>3, <1>5, <2>1 DEF BrowserInv, LineOK, Listening
    <2>2. CASE d # c
      <3>1. UNCHANGED <<line[d], hello[d], role[d], wire[d]>> /\ (Listening(d)' <=> Listening(d))
            /\ \A s \in Ids : owner'[s] = d => owner[s] = d
        BY <1>1, <1>3, <1>5, <2>2 DEF Listening
      <3> QED BY <3>1 DEF BrowserInv, LineOK
    <2> QED BY <2>1, <2>2
  <1>8. ASSUME NEW t \in Tabs, ws[t] # None, NEW r \in Ids, Told(ws[t], r)' PROVE Told(ws[t], r)
    <2>1. CASE ws[t] = c
      <3>1. Head(wire'[c]) = IF wire[c] = <<>> THEN m ELSE Head(wire[c])
        BY <1>5, <2>1
      <3>2. wire[c] # <<>> /\ Head(wire[c]).type = "session" /\ Head(wire[c]).id = r
        BY <1>1, <1>2, <1>3, <1>8, <2>1, <3>1 DEF Told
      <3> QED BY <2>1, <3>2 DEF Told
    <2>2. CASE ws[t] # c
      <3>1. ws[t] \in Conns \ {c}
        BY <1>8, <2>2 DEF BrowserInv, TypeOK
      <3> QED BY <1>1, <1>3, <1>5, <1>8, <3>1 DEF Told
    <2> QED BY <2>1, <2>2
  <1>9. /\ \A t \in Tabs : PageOK(t)' /\ LockOK(t)' /\ TellingOK(t)' /\ TextOK(t)'
        /\ \A r \in Ids : UnbornOK(r)'
    <2>1. \A d \in Conns : hello'[d] \in {hello[d], None} /\ (line'[d] = "opening" <=> line[d] = "opening")
      BY <1>3
    <2> QED BY <1>3, <1>8, <2>1, ServerKeeps
  <1>10. ASSUME NEW t \in Tabs PROVE EndOK(t)'
    <2>1. CASE ws[t] = c
      <3>1. page[t] = "open" /\ endCode[t] = None
        BY <2>1 DEF BrowserInv, PageOK, EndOK
      <3>2. wire'[c] # <<>> /\ wire'[c][Len(wire'[c])] = m
        BY <1>5, <2>1
      <3> QED BY <1>1, <1>3, <2>1, <3>1, <3>2 DEF EndOK
    <2>2. CASE ws[t] # c
      <3>1. ws[t] # None => ws[t] \in Conns \ {c}
        BY <2>2 DEF BrowserInv, TypeOK
      <3> QED BY <1>1, <1>3, <1>5, <3>1, EndKept DEF BrowserInv, pageVars
    <2> QED BY <2>1, <2>2
  <1> QED BY <1>3, <1>5, <1>6, <1>7, <1>9, <1>10 DEF BrowserInv

\* ... when all of it was sent ...
LEMMA SendEndOK ==
    ASSUME BrowserInv, NEW c \in Conns, NEW s \in Ids, SendEnd(c, s)
    PROVE  BrowserInv'
  <1>1. /\ owner[s] = c /\ role[c] = "greeted" /\ phase[s] = "ended" /\ shown[s] = produced[s]
        /\ Server!Leave(s) /\ HungUp(c, "normal") /\ wire' = Sent(c, SessionEnd("normal"))
        /\ UNCHANGED <<pageVars, lockVars, boundVars>>
    BY DEF SendEnd, AllSent
  <1>2. line[c] = "up"
    BY <1>1 DEF BrowserInv, LineOK
  <1>3. phase'[s] = "freed" /\ UNCHANGED produced
    BY <1>1 DEF BrowserInv, TypeOK, Server!Leave
  <1>4. Over(s)' /\ produced'[s] = shown[s]
    BY <1>1, <1>3 DEF Over
  <1>5. LetsGo(c)
    <2>1. reading' \in [Ids -> BOOLEAN]
      BY DEF SendEnd, BrowserInv, TypeOK
    <2> QED BY <1>1, <2>1 DEF LetsGo
  <1> QED BY <1>1, <1>2, <1>4, <1>5, SaysEndOK

\* ... or when another page has taken it.
LEMMA SendTakenOK ==
    ASSUME BrowserInv, NEW c \in Conns, SendTaken(c)
    PROVE  BrowserInv'
  <1>1. /\ role[c] = "taken" /\ wire' = Sent(c, SessionEnd("taken")) /\ HungUp(c, "taken")
        /\ UNCHANGED <<serverVars, pageVars, lockVars, boundVars>>
    BY DEF SendTaken
  <1>2. line[c] = "up" /\ \A s \in Ids : owner[s] # c
    BY <1>1 DEF BrowserInv, LineOK
  <1>3. LetsGo(c)
    BY <1>1, <1>2 DEF LetsGo, BrowserInv, TypeOK, serverVars
  <1> QED BY <1>1, <1>2, <1>3, SaysEndOK

\* The server gives up a connection.
LEMMA DropOK ==
    ASSUME BrowserInv, NEW c \in Conns, Drop(c)
    PROVE  BrowserInv'
  <1> USE NoneAssumption
  <1>1. UNCHANGED <<wire, pageVars, lockVars, ws, page, endCode, sessionId, received, outrun>>
        /\ line[c] = "up" /\ LetsGo(c) /\ acts' \in 0 .. MaxActs /\ faults' \in 0 .. MaxFaults
    <2>1. UNCHANGED <<wire, pageVars, lockVars>> /\ line[c] = "up" /\ LetsGo(c)
      <3>1. reading' \in [Ids -> BOOLEAN]
        BY DEF Drop, BrowserInv, TypeOK, serverVars
      <3>2. \/ \E s \in Ids : owner[s] = c /\ Server!Leave(s)
            \/ (\A s \in Ids : owner[s] # c) /\ UNCHANGED <<phase, owner, produced, shown>>
        BY DEF Drop, serverVars
      <3> QED BY <3>1, <3>2 DEF Drop, LetsGo
    <2>2. acts' \in 0 .. MaxActs /\ faults' \in 0 .. MaxFaults
      BY LimitsAssumption DEF Drop, BrowserInv, TypeOK, Fault, boundVars
    <2> QED BY <2>1, <2>2 DEF pageVars
  <1>2. PICK why \in {"dropped", "policy"} : HungUp(c, why)
    BY DEF Drop
  <1>3. why \in Codes
    BY DEF Codes
  <1>4. /\ line'[c] = "down" /\ code'[c] = why /\ hello'[c] = None /\ role'[c] = "fresh"
        /\ \A d \in Conns \ {c} : UNCHANGED <<line[d], code[d], hello[d], role[d]>>
        /\ \A s \in Ids, d \in Conns : owner'[s] = d =>
              d # c /\ UNCHANGED <<owner[s], shown[s], phase[s]>>
        /\ \A s \in Ids : /\ phase[s] \in {"ended", "freed"} => phase'[s] \in {"ended", "freed"}
                          /\ phase'[s] = "unborn" => phase[s] = "unborn" /\ UNCHANGED owner[s]
        /\ CompleteStays
        /\ SessionsOK'
    BY <1>1, <1>2, <1>3, HangsUp
  <1>5. TypeOK'
    <2>1. /\ reading' \in [Ids -> BOOLEAN]
          /\ phase' \in [Ids -> {"unborn", "running", "ended", "freed"}]
          /\ owner' \in [Ids -> Conns \cup {None}] /\ shown' \in [Ids -> Nat] /\ UNCHANGED produced
          /\ line' \in [Conns -> {"down", "opening", "up"}] /\ code' \in [Conns -> Codes]
          /\ hello' \in [Conns -> [id : Ids \cup {None}, offset : Nat] \cup {None}]
          /\ role' \in [Conns -> {"fresh", "attached", "greeted", "taken"}]
      BY <1>1, <1>2, <1>3, HangsUp
    <2> QED BY <1>1, <2>1 DEF BrowserInv, TypeOK, pageVars, lockVars
  <1>6. ASSUME NEW d \in Conns PROVE LineOK(d)'
    <2>1. CASE d = c
      BY <1>1, <1>4, <2>1 DEF BrowserInv, LineOK, Listening
    <2>2. CASE d # c
      <3>1. UNCHANGED <<line[d], hello[d], role[d], wire[d]>> /\ (Listening(d)' <=> Listening(d))
            /\ \A s \in Ids : owner'[s] = d => owner[s] = d
        BY <1>1, <1>4, <2>2 DEF Listening
      <3> QED BY <3>1 DEF BrowserInv, LineOK
    <2> QED BY <2>1, <2>2
  <1>7. ASSUME NEW t \in Tabs PROVE ws[t] # None => ws[t] \in Conns
    BY DEF BrowserInv, TypeOK
  <1>8. ASSUME NEW t \in Tabs, ws[t] # None, NEW r \in Ids, Told(ws[t], r)' PROVE Told(ws[t], r)
    <2>1. owner'[r] = ws[t] => ws[t] # c /\ owner[r] = ws[t]
      BY <1>4, <1>7, <1>8
    <2>2. ws[t] # c => UNCHANGED role[ws[t]]
      <3>1. ws[t] # c => ws[t] \in Conns \ {c}
        BY <1>7, <1>8
      <3> QED BY <1>1, <1>4, <3>1
    <2> QED BY <1>1, <1>8, <2>1, <2>2 DEF Told
  <1>9. /\ \A t \in Tabs : PageOK(t)' /\ LockOK(t)' /\ TellingOK(t)' /\ TextOK(t)'
        /\ \A r \in Ids : UnbornOK(r)'
    <2>1. \A d \in Conns : hello'[d] \in {hello[d], None} /\ (line'[d] = "opening" <=> line[d] = "opening")
      BY <1>1, <1>4
    <2> QED BY <1>1, <1>4, <1>8, <2>1, ServerKeeps
  <1>10. ASSUME NEW t \in Tabs PROVE StreamOK(t)'
    <2>1. ASSUME NEW s \in Ids, owner'[s] = ws[t], role'[ws[t]] = "greeted", ws[t] # None
          PROVE  owner[s] = ws[t] /\ role[ws[t]] = "greeted" /\ UNCHANGED shown[s]
      BY <1>4, <1>7, <2>1
    <2>2. ws[t] # None => (line'[ws[t]] # "down" => line[ws[t]] # "down")
      BY <1>4, <1>7
    <2> QED BY <1>1, <1>4, <2>1, <2>2, StreamKept DEF BrowserInv, StreamOK
  <1>11. ASSUME NEW t \in Tabs PROVE EndOK(t)'
    <2>1. CASE ws[t] = c
      <3>1. page[t] = "open" /\ endCode[t] = None
        BY <1>1, <2>1 DEF BrowserInv, PageOK, EndOK
      <3> QED BY <1>1, <1>4, <2>1, <3>1 DEF EndOK
    <2>2. CASE ws[t] # c
      BY <1>1, <1>4, <1>7, <2>2, EndKept DEF BrowserInv, pageVars
    <2> QED BY <2>1, <2>2
  <1> QED BY <1>4, <1>5, <1>6, <1>9, <1>10, <1>11 DEF BrowserInv

\* A command writes or exits, which no page and no connection sees at once.
LEMMA CommandOK ==
    ASSUME BrowserInv, UNCHANGED <<lineVars, pageVars, lockVars, boundVars, owner, shown>>,
           phase' \in [Ids -> {"unborn", "running", "ended", "freed"}], produced' \in [Ids -> Nat],
           reading' \in [Ids -> BOOLEAN], CompleteStays, SessionsOK',
           \A s \in Ids : /\ phase[s] \in {"ended", "freed"} => phase'[s] \in {"ended", "freed"}
                          /\ phase'[s] = "unborn" => phase[s] = "unborn"
    PROVE  BrowserInv'
  <1>1. UNCHANGED <<line, hello, role, code, wire, ws, page, endCode, sessionId, received, outrun>>
    BY DEF lineVars, pageVars
  <1>2. TypeOK'
    BY <1>1 DEF BrowserInv, TypeOK, pageVars, lockVars, boundVars
  <1>3. ASSUME NEW c \in Conns PROVE LineOK(c)'
    BY <1>1 DEF BrowserInv, LineOK, Listening
  <1>4. /\ \A t \in Tabs : PageOK(t)' /\ LockOK(t)' /\ TellingOK(t)' /\ TextOK(t)'
        /\ \A s \in Ids : UnbornOK(s)'
    <2>1. \A t \in Tabs, s \in Ids : Told(ws[t], s)' => Told(ws[t], s)
      BY <1>1 DEF Told
    <2> QED BY <1>1, <2>1, ServerKeeps
  <1>5. ASSUME NEW t \in Tabs PROVE StreamOK(t)' /\ EndOK(t)'
    BY <1>1, StreamKept, EndKept DEF BrowserInv
  <1> QED BY <1>2, <1>3, <1>4, <1>5 DEF BrowserInv

\* More output: what is complete does not grow, as its command has exited.
LEMMA ProduceOK ==
    ASSUME BrowserInv, NEW s \in Ids, Produce(s)
    PROVE  BrowserInv'
  <1>1. /\ phase[s] = "running" /\ UNCHANGED <<phase, owner, shown>>
        /\ UNCHANGED <<lineVars, pageVars, lockVars, boundVars>>
    BY DEF Produce, Server!Produce
  <1>2. PICK n \in 1 .. ReadMax : produced' = [produced EXCEPT ![s] = @ + n]
    BY DEF Produce, Server!Produce
  <1>3. n \in Nat /\ produced \in [Ids -> Nat]
    BY SizeAssumption DEF BrowserInv, TypeOK
  <1>4. /\ produced' \in [Ids -> Nat] /\ produced'[s] >= produced[s]
        /\ \A r : r # s => produced'[r] = produced[r]
    BY <1>2, <1>3
  <1>5. CompleteStays
    BY <1>1, <1>4 DEF CompleteStays, Over
  <1>6. SessionsOK'
    <2>1. \A r \in Ids : shown[r] \in Nat /\ shown[r] <= produced[r] /\ produced[r] <= produced'[r]
      <3>1. \A r \in Ids : produced[r] \in Nat /\ (r = s \/ produced'[r] = produced[r])
        BY <1>3, <1>4
      <3>2. \A r \in Ids : produced[r] <= produced'[r]
        BY <1>4, <3>1
      <3> QED BY <3>2 DEF BrowserInv, TypeOK, SessionsOK
    <2>2. \A r \in Ids : shown'[r] <= produced'[r]
      BY <1>1, <1>3, <1>4, <2>1
    <2> QED BY <1>1, <2>2 DEF BrowserInv, SessionsOK
  <1>7. reading' \in [Ids -> BOOLEAN]
    BY NoneAssumption DEF Produce, BrowserInv, TypeOK
  <1> QED BY <1>1, <1>4, <1>5, <1>6, <1>7, CommandOK DEF BrowserInv, TypeOK

\* A command exits.
LEMMA CommandEndsOK ==
    ASSUME BrowserInv, NEW s \in Ids, End(s)
    PROVE  BrowserInv'
  <1>1. /\ phase[s] = "running" /\ UNCHANGED <<owner, produced, shown>>
        /\ phase' = [phase EXCEPT ![s] = IF owner[s] = None THEN "freed" ELSE "ended"]
        /\ UNCHANGED <<lineVars, pageVars, lockVars, boundVars>>
    BY DEF End, Server!End
  <1>2. /\ phase' \in [Ids -> {"unborn", "running", "ended", "freed"}]
        /\ phase'[s] = IF owner[s] = None THEN "freed" ELSE "ended"
        /\ \A r : r # s => phase'[r] = phase[r]
    BY <1>1 DEF BrowserInv, TypeOK
  <1>3. CompleteStays
    BY <1>1, <1>2 DEF CompleteStays, Over
  <1>4. SessionsOK'
    BY <1>1, <1>2 DEF BrowserInv, SessionsOK
  <1>5. reading' \in [Ids -> BOOLEAN]
    BY DEF End, BrowserInv, TypeOK
  <1> QED BY <1>1, <1>2, <1>3, <1>4, <1>5, CommandOK DEF BrowserInv, TypeOK

\* The terminal of a session is read on.
LEMMA ReadOnOK ==
    ASSUME BrowserInv, NEW c \in Conns, NEW s \in Ids, ReadOn(c, s)
    PROVE  BrowserInv'
  <1>1. UNCHANGED <<lineVars, pageVars, lockVars, boundVars, phase, owner, produced, shown>>
        /\ reading' \in [Ids -> BOOLEAN]
    BY DEF ReadOn, BrowserInv, TypeOK
  <1>2. CompleteStays /\ SessionsOK'
    BY <1>1 DEF CompleteStays, Over, BrowserInv, SessionsOK
  <1> QED BY <1>1, <1>2, CommandOK DEF BrowserInv, TypeOK

\* A page asks for that; less is known of its stream when that was too soon.
LEMMA ReceiveResumeOK ==
    ASSUME BrowserInv, NEW c \in Conns, NEW s \in Ids, ReceiveResume(c, s)
    PROVE  BrowserInv'
  <1>1. UNCHANGED <<lineVars, lockVars, boundVars, phase, owner, produced, shown>>
        /\ UNCHANGED <<page, stored, sessionId, received, everOpened, endCode, ws, text>>
        /\ reading' \in [Ids -> BOOLEAN] /\ outrun' \in [Tabs -> BOOLEAN]
        /\ \A t \in Tabs : outrun[t] => outrun'[t]
    <2>1. outrun' \in [Tabs -> BOOLEAN] /\ \A t \in Tabs : outrun[t] => outrun'[t]
      BY DEF ReceiveResume
    <2>2. reading' \in [Ids -> BOOLEAN]
      BY DEF ReceiveResume, BrowserInv, TypeOK
    <2> QED BY <2>1, <2>2 DEF ReceiveResume
  <1>2. UNCHANGED <<line, hello, role, code, wire, holder, waiters>>
    BY <1>1 DEF lineVars, lockVars
  <1>3. TypeOK'
    BY <1>1, <1>2 DEF BrowserInv, TypeOK, boundVars
  <1>4. SessionsOK' /\ CompleteStays
    BY <1>1 DEF BrowserInv, SessionsOK, CompleteStays, Over
  <1>5. ASSUME NEW d \in Conns PROVE LineOK(d)'
    BY <1>1, <1>2 DEF BrowserInv, LineOK, Listening
  <1>6. ASSUME NEW t \in Tabs PROVE PageOK(t)' /\ LockOK(t)' /\ TextOK(t)'
    BY <1>1, <1>2 DEF BrowserInv, PageOK, HelloOf, LockOK, TextOK
  <1>7. ASSUME NEW t \in Tabs PROVE TellingOK(t)'
    BY <1>1, <1>2 DEF BrowserInv, TellingOK, Told, Secret
  <1>8. ASSUME NEW t \in Tabs PROVE StreamOK(t)' /\ EndOK(t)'
    BY <1>1, <1>2, <1>4, StreamKept, EndKept DEF BrowserInv
  <1>9. ASSUME NEW r \in Ids PROVE UnbornOK(r)'
    BY <1>1, <1>2 DEF BrowserInv, UnbornOK, Told, Secret
  <1> QED BY <1>3, <1>4, <1>5, <1>6, <1>7, <1>8, <1>9 DEF BrowserInv

\* A client that has said hello has been sent nothing, and what it asked for is
\* what its page has.
LEMMA HelloMeans ==
    ASSUME BrowserInv, NEW c \in Conns, hello[c] # None
    PROVE  /\ line[c] = "up" /\ role[c] = "fresh" /\ wire[c] = <<>>
           /\ hello[c].id \in Ids \cup {None} /\ hello[c].offset \in Nat
           /\ \A t \in Tabs : ws[t] = c =>
                /\ sessionId[t] = hello[c].id
                /\ \A u \in Tabs : ws[u] = c => u = t
  <1>1. line[c] = "up" /\ role[c] = "fresh"
    BY DEF BrowserInv, LineOK
  <1>2. wire[c] = <<>>
    BY <1>1 DEF BrowserInv, LineOK
  <1>3. hello[c].id \in Ids \cup {None} /\ hello[c].offset \in Nat
    BY DEF BrowserInv, TypeOK
  <1>4. ASSUME NEW t \in Tabs, ws[t] = c
        PROVE  sessionId[t] = hello[c].id /\ \A u \in Tabs : ws[u] = c => u = t
    <2>1. ws[t] # None
      BY <1>4, NoneAssumption
    <2>2. hello[c] = HelloOf(t) /\ \A u \in Tabs : ws[u] = c => u = t
      BY <1>4, <2>1 DEF BrowserInv, PageOK
    <2> QED BY <2>2 DEF HelloOf
  <1> QED BY <1>1, <1>2, <1>3, <1>4

\* The client gets the session it had, which another connection may lose.
LEMMA ServeAgainOK ==
    ASSUME BrowserInv, NEW c \in Conns, NEW s \in Ids, ServeAgain(c, s)
    PROVE  BrowserInv'
  <1> USE NoneAssumption
  <1>1. /\ hello[c] # None /\ hello[c].id = s /\ phase[s] = "running"
        /\ \A r \in Ids : owner[r] # c
        /\ owner' = [owner EXCEPT ![s] = c]
        /\ hello' = [hello EXCEPT ![c] = None]
        /\ role' = [d \in Conns |-> IF d = c THEN "attached"
                                    ELSE IF d = owner[s] THEN "taken" ELSE role[d]]
        /\ UNCHANGED <<phase, produced, reading, line, code, wire, pageVars, lockVars, boundVars>>
    BY DEF ServeAgain, Resumable, Server!Take, Server!OwnsNothing
  <1>2. UNCHANGED <<ws, page, endCode, sessionId, received, outrun>>
    BY <1>1 DEF pageVars
  <1>3. /\ line[c] = "up" /\ role[c] = "fresh" /\ wire[c] = <<>> /\ hello[c].offset \in Nat
        /\ \A t \in Tabs : ws[t] = c => sessionId[t] = s
    BY <1>1, HelloMeans
  <1>4. PICK at : at \in Nat /\ at <= produced[s] /\ shown' = [shown EXCEPT ![s] = at]
    <2>1. PICK at : shown' = [shown EXCEPT ![s] = at]
      BY DEF ServeAgain, Server!Take
    <2>2. shown'[s] = at /\ produced[s] \in Nat
      BY <2>1 DEF BrowserInv, TypeOK
    <2>3. at \in ResumeOffsets(Capacity, Limit, produced[s], hello[c].offset)
      BY <2>2 DEF ServeAgain
    <2>4. Capacity \in Nat /\ Limit \in Nat
      BY SizeAssumption
    <2>5. at \in Nat /\ at \in Earliest(Capacity, Limit, produced[s]) .. produced[s]
      BY <1>3, <2>2, <2>3, <2>4, ResumeRange
    <2>6. Earliest(Capacity, Limit, produced[s]) \in Nat
      BY <2>2, <2>4, EarliestRange
    <2>7. at <= produced[s]
      BY <2>2, <2>5, <2>6
    <2> QED BY <2>1, <2>5, <2>7
  <1>5. /\ owner'[s] = c /\ shown'[s] = at
        /\ \A r \in Ids \ {s} : UNCHANGED <<owner[r], shown[r]>>
        /\ hello'[c] = None /\ role'[c] = "attached"
        /\ \A d \in Conns \ {c} : UNCHANGED hello[d]
        /\ \A d \in Conns \ {c} : role'[d] = IF d = owner[s] THEN "taken" ELSE role[d]
    BY <1>1, <1>4 DEF BrowserInv, TypeOK
  <1>6. ASSUME NEW d \in Conns, NEW r \in Ids, owner'[r] = d, d # c
        PROVE  r # s /\ owner[r] = d /\ UNCHANGED <<role[d], shown[r]>>
    <2>1. r # s /\ owner[r] = d /\ UNCHANGED shown[r]
      BY <1>5, <1>6
    <2>2. d # owner[s]
      BY <2>1 DEF BrowserInv, SessionsOK
    <2> QED BY <1>5, <1>6, <2>1, <2>2
  <1>7. CompleteStays
    BY <1>1 DEF CompleteStays, Over
  <1>8. TypeOK'
    <2>1. /\ owner' \in [Ids -> Conns \cup {None}] /\ shown' \in [Ids -> Nat]
          /\ hello' \in [Conns -> [id : Ids \cup {None}, offset : Nat] \cup {None}]
          /\ role' \in [Conns -> {"fresh", "attached", "greeted", "taken"}]
      BY <1>1, <1>4 DEF BrowserInv, TypeOK
    <2> QED BY <1>1, <2>1 DEF BrowserInv, TypeOK, pageVars, lockVars, boundVars
  <1>9. SessionsOK'
    <2>1. \A r \in Ids : shown'[r] <= produced'[r]
      BY <1>1, <1>4, <1>5 DEF BrowserInv, SessionsOK
    <2>2. \A r \in Ids : owner'[r] = c <=> r = s
      BY <1>1, <1>5
    <2> QED BY <1>1, <1>5, <2>1, <2>2 DEF BrowserInv, SessionsOK
  <1>10. ASSUME NEW d \in Conns PROVE LineOK(d)'
    <2>1. CASE d = c
      BY <1>1, <1>2, <1>3, <1>5, <2>1 DEF LineOK, Listening
    <2>2. CASE d # c /\ d = owner[s]
      <3>1. role[d] \in {"attached", "greeted"}
        BY <2>2 DEF BrowserInv, LineOK
      <3>2. line[d] = "up" /\ hello[d] = None /\ (~Listening(d) => wire[d] = <<>>)
        BY <3>1 DEF BrowserInv, LineOK
      <3>3. \A r \in Ids : owner'[r] # d
        BY <1>6, <2>2 DEF BrowserInv, SessionsOK
      <3>4. role'[d] = "taken" /\ hello'[d] = None /\ line'[d] = "up"
        BY <1>1, <1>5, <2>2, <3>2
      <3> QED BY <1>1, <1>2, <3>2, <3>3, <3>4 DEF LineOK, Listening
    <2>3. CASE d # c /\ d # owner[s]
      <3>1. UNCHANGED <<line[d], hello[d], role[d], wire[d]>> /\ (Listening(d)' <=> Listening(d))
            /\ \A r \in Ids : owner'[r] = d => owner[r] = d
        BY <1>1, <1>2, <1>5, <1>6, <2>3 DEF Listening
      <3> QED BY <3>1 DEF BrowserInv, LineOK
    <2> QED BY <2>1, <2>2, <2>3
  <1>11. ASSUME NEW t \in Tabs PROVE ws[t] # None => ws[t] \in Conns
    BY DEF BrowserInv, TypeOK
  <1>12. ASSUME NEW t \in Tabs, ws[t] # None, NEW r \in Ids, Told(ws[t], r)'
         PROVE  Told(ws[t], r) \/ sessionId[t] = r
    <2>1. CASE ws[t] = c
      <3>1. owner'[r] = c
        BY <1>1, <1>2, <1>3, <1>12, <2>1 DEF Told
      <3>2. r = s
        BY <1>1, <1>5, <3>1
      <3> QED BY <1>3, <2>1, <3>2
    <2>2. CASE ws[t] # c
      <3>1. owner'[r] = ws[t] => owner[r] = ws[t] /\ UNCHANGED role[ws[t]]
        BY <1>2, <1>6, <1>11, <1>12, <2>2
      <3> QED BY <1>1, <1>2, <1>12, <3>1 DEF Told
    <2> QED BY <2>1, <2>2
  <1>13. /\ \A t \in Tabs : PageOK(t)' /\ LockOK(t)' /\ TellingOK(t)' /\ TextOK(t)'
         /\ \A r \in Ids : UnbornOK(r)'
    <2>1. \A d \in Conns : hello'[d] \in {hello[d], None} /\ (line'[d] = "opening" <=> line[d] = "opening")
      BY <1>1, <1>5
    <2>2. \A r \in Ids : phase'[r] = "unborn" => phase[r] = "unborn" /\ UNCHANGED owner[r]
      BY <1>1, <1>5
    <2> QED BY <1>1, <1>12, <2>1, <2>2, ServerKeeps
  <1>14. ASSUME NEW t \in Tabs PROVE StreamOK(t)' /\ EndOK(t)'
    <2>1. ASSUME NEW r \in Ids, owner'[r] = ws[t], role'[ws[t]] = "greeted", ws[t] # None
          PROVE  owner[r] = ws[t] /\ role[ws[t]] = "greeted" /\ UNCHANGED shown[r]
      BY <1>5, <1>6, <1>11, <2>1
    <2>2. StreamOK(t)'
      BY <1>1, <1>2, <1>7, <2>1, StreamKept DEF BrowserInv, StreamOK
    <2> QED BY <1>1, <1>2, <1>7, <2>2, EndKept DEF BrowserInv
  <1> QED BY <1>8, <1>9, <1>10, <1>13, <1>14 DEF BrowserInv

\* The client gets a session of its own.
LEMMA ServeNewOK ==
    ASSUME BrowserInv, NEW c \in Conns, NEW s \in Ids, ServeNew(c, s)
    PROVE  BrowserInv'
  <1> USE NoneAssumption
  <1>1. /\ hello[c] # None /\ ~(hello[c].id \in Ids /\ Resumable(hello[c].id))
        /\ phase[s] = "unborn" /\ \A r \in Ids : owner[r] # c
        /\ phase' = [phase EXCEPT ![s] = "running"]
        /\ owner' = [owner EXCEPT ![s] = c]
        /\ hello' = [hello EXCEPT ![c] = None]
        /\ role' = [role EXCEPT ![c] = "attached"]
        /\ UNCHANGED <<produced, shown, reading, line, code, wire, pageVars, lockVars, boundVars>>
    BY DEF ServeNew, Server!Start, Server!OwnsNothing
  <1>2. UNCHANGED <<ws, page, stored, endCode, sessionId, received, text, outrun, holder, waiters>>
    BY <1>1 DEF pageVars, lockVars
  <1>3. /\ line[c] = "up" /\ role[c] = "fresh" /\ wire[c] = <<>>
        /\ hello[c].id \in Ids \cup {None}
        /\ \A t \in Tabs : ws[t] = c =>
              sessionId[t] = hello[c].id /\ \A u \in Tabs : ws[u] = c => u = t
    BY <1>1, HelloMeans
  <1>4. /\ owner'[s] = c /\ phase'[s] = "running"
        /\ \A r \in Ids \ {s} : UNCHANGED <<owner[r], phase[r]>>
        /\ hello'[c] = None /\ role'[c] = "attached"
        /\ \A d \in Conns \ {c} : UNCHANGED <<hello[d], role[d]>>
    BY <1>1 DEF BrowserInv, TypeOK
  <1>5. ASSUME NEW d \in Conns, NEW r \in Ids, owner'[r] = d, d # c
        PROVE  r # s /\ owner[r] = d /\ UNCHANGED role[d]
    BY <1>4, <1>5
  <1>6. /\ Secret(s) /\ owner[s] = None
        /\ \A t \in Tabs : ws[t] # None => ~Told(ws[t], s)
    BY <1>1 DEF BrowserInv, UnbornOK
  <1>7. CompleteStays
    BY <1>1, <1>4 DEF CompleteStays, Over
  <1>8. TypeOK'
    <2>1. /\ owner' \in [Ids -> Conns \cup {None}]
          /\ phase' \in [Ids -> {"unborn", "running", "ended", "freed"}]
          /\ hello' \in [Conns -> [id : Ids \cup {None}, offset : Nat] \cup {None}]
          /\ role' \in [Conns -> {"fresh", "attached", "greeted", "taken"}]
      BY <1>1 DEF BrowserInv, TypeOK
    <2> QED BY <1>1, <2>1 DEF BrowserInv, TypeOK, pageVars, lockVars, boundVars
  <1>9. SessionsOK'
    <2>1. \A r \in Ids : owner'[r] = c <=> r = s
      BY <1>1, <1>4
    <2> QED BY <1>1, <1>4, <2>1 DEF BrowserInv, SessionsOK
  <1>10. ASSUME NEW d \in Conns PROVE LineOK(d)'
    <2>1. CASE d = c
      BY <1>1, <1>2, <1>3, <1>4, <2>1 DEF LineOK, Listening
    <2>2. CASE d # c
      <3>1. UNCHANGED <<line[d], hello[d], role[d], wire[d]>> /\ (Listening(d)' <=> Listening(d))
            /\ \A r \in Ids : owner'[r] = d => owner[r] = d
        BY <1>1, <1>2, <1>4, <1>5, <2>2 DEF Listening
      <3> QED BY <3>1 DEF BrowserInv, LineOK
    <2> QED BY <2>1, <2>2
  <1>11. ASSUME NEW t \in Tabs
         PROVE  /\ ws[t] # None => ws[t] \in Conns
                /\ sessionId[t] # None => sessionId[t] \in Ids
    BY DEF BrowserInv, TypeOK
  <1>12. ASSUME NEW t \in Tabs, ws[t] # None, NEW r \in Ids, Told(ws[t], r)'
         PROVE  IF r = s THEN ws[t] = c ELSE ws[t] # c /\ Told(ws[t], r)
    <2>1. CASE ws[t] = c
      <3>1. owner'[r] = c
        BY <1>1, <1>2, <1>3, <1>12, <2>1 DEF Told
      <3> QED BY <1>1, <1>4, <2>1, <3>1
    <2>2. CASE ws[t] # c
      <3>1. owner'[r] = ws[t] => owner[r] = ws[t] /\ UNCHANGED role[ws[t]]
        BY <1>2, <1>5, <1>11, <1>12, <2>2
      <3>2. Told(ws[t], r)
        BY <1>1, <1>2, <1>12, <3>1 DEF Told
      <3> QED BY <1>6, <1>12, <2>2, <3>2
    <2> QED BY <2>1, <2>2
  <1>13. ASSUME NEW r \in Ids, Secret(r) PROVE Secret(r)' /\ \A t \in Tabs : sessionId[t] # r
    BY <1>2, <1>4, <1>13 DEF Secret
  <1>14. ASSUME NEW t \in Tabs PROVE PageOK(t)' /\ LockOK(t)' /\ TextOK(t)'
    <2>1. PageOK(t)'
      BY <1>1, <1>2, <1>4, <1>11 DEF BrowserInv, PageOK, HelloOf
    <2> QED BY <1>2, <2>1 DEF BrowserInv, LockOK, TextOK
  <1>15. ASSUME NEW t \in Tabs PROVE TellingOK(t)'
    <2> SUFFICES ASSUME ws[t] # None, NEW r \in Ids, Told(ws[t], r)', sessionId[t] # r
                 PROVE  /\ Secret(r)'
                        /\ \A u \in Tabs : u # t /\ ws[u] # None => ~Told(ws[u], r)'
                        /\ sessionId[t] # None => phase'[sessionId[t]] \in {"ended", "freed"}
      BY <1>2 DEF TellingOK
    <2>1. CASE r = s
      <3>1. ws[t] = c
        BY <1>12, <2>1
      <3>2. \A u \in Tabs : u # t /\ ws[u] # None => ~Told(ws[u], r)'
        BY <1>3, <1>12, <2>1, <3>1
      <3>3. sessionId[t] # None => phase[sessionId[t]] \in {"ended", "freed"}
        <4> SUFFICES ASSUME sessionId[t] # None PROVE phase[sessionId[t]] \in {"ended", "freed"}
          OBVIOUS
        <4>1. sessionId[t] = hello[c].id /\ sessionId[t] \in Ids
          BY <1>3, <1>11, <3>1
        <4>2. phase[sessionId[t]] # "running"
          BY <1>1, <4>1 DEF Resumable
        <4>3. phase[sessionId[t]] # "unborn"
          BY <4>1 DEF BrowserInv, UnbornOK, Secret
        <4> QED BY <4>1, <4>2, <4>3 DEF BrowserInv, TypeOK
      <3> QED BY <1>1, <1>4, <1>6, <1>11, <1>13, <2>1, <3>2, <3>3
    <2>2. CASE r # s
      <3>1. Told(ws[t], r)
        BY <1>12, <2>2
      <3>2. /\ Secret(r)
            /\ \A u \in Tabs : u # t /\ ws[u] # None => ~Told(ws[u], r)
            /\ sessionId[t] # None => phase[sessionId[t]] \in {"ended", "freed"}
        BY <3>1 DEF BrowserInv, TellingOK
      <3>3. \A u \in Tabs : u # t /\ ws[u] # None => ~Told(ws[u], r)'
        BY <1>12, <2>2, <3>2
      <3> QED BY <1>1, <1>4, <1>11, <1>13, <3>2, <3>3
    <2> QED BY <2>1, <2>2
  <1>16. ASSUME NEW r \in Ids PROVE UnbornOK(r)'
    <2> SUFFICES ASSUME phase'[r] = "unborn"
                 PROVE  /\ Secret(r)' /\ owner'[r] = None
                        /\ \A t \in Tabs : ws[t] # None => ~Told(ws[t], r)'
      BY <1>2 DEF UnbornOK
    <2>1. r # s /\ phase[r] = "unborn" /\ UNCHANGED owner[r]
      BY <1>4
    <2>2. /\ Secret(r) /\ owner[r] = None
          /\ \A t \in Tabs : ws[t] # None => ~Told(ws[t], r)
      BY <2>1 DEF BrowserInv, UnbornOK
    <2> QED BY <1>12, <1>13, <2>1, <2>2
  <1>17. ASSUME NEW t \in Tabs PROVE StreamOK(t)' /\ EndOK(t)'
    <2>1. ASSUME NEW r \in Ids, owner'[r] = ws[t], role'[ws[t]] = "greeted", ws[t] # None
          PROVE  owner[r] = ws[t] /\ role[ws[t]] = "greeted" /\ UNCHANGED shown[r]
      BY <1>1, <1>4, <1>5, <1>11, <2>1
    <2>2. StreamOK(t)'
      BY <1>1, <1>2, <1>7, <2>1, StreamKept DEF BrowserInv, StreamOK
    <2> QED BY <1>1, <1>2, <1>7, <2>2, EndKept DEF BrowserInv
  <1> QED BY <1>8, <1>9, <1>10, <1>14, <1>15, <1>16, <1>17 DEF BrowserInv

-----------------------------------------------------------------------------
\* What pages do by themselves leaves the output that is still to be sent alone.
LEMMA PagesNotOutrun ==
    ASSUME NotOutrun, UNCHANGED serverVars,
           \A t \in Tabs : \/ UNCHANGED <<ws[t], outrun[t]>>
                          \/ ws'[t] = None
                          \/ \A s \in Ids : owner[s] # ws'[t]
    PROVE  NotOutrun'
  <1>1. UNCHANGED <<phase, owner, produced, shown, reading>>
    BY DEF serverVars
  <1> QED BY <1>1 DEF NotOutrun

\* Of what is still to be sent there is no more than the buffer keeps: a read adds
\* ReadMax at most to what is Limit at most, and comes once.
LEMMA NotOutrunKept ==
    ASSUME BrowserInv, NotOutrun, [Next]_vars
    PROVE  NotOutrun'
  <1> USE NoneAssumption
  <1>0. /\ Limit \in Nat /\ ReadMax \in Nat /\ Capacity \in Nat /\ Capacity = Limit + ReadMax
        /\ produced \in [Ids -> Nat] /\ shown \in [Ids -> Nat] /\ outrun \in [Tabs -> BOOLEAN]
        /\ reading \in [Ids -> BOOLEAN] /\ ws \in [Tabs -> Conns \cup {None}]
        /\ owner \in [Ids -> Conns \cup {None}]
        /\ phase \in [Ids -> {"unborn", "running", "ended", "freed"}]
        /\ \A s \in Ids : shown[s] <= produced[s]
    BY SizeAssumption DEF BrowserInv, TypeOK, SessionsOK
  <1>1. ASSUME NEW t \in Tabs, NEW u \in Tabs, Visit(t) \/ Duplicate(t, u)
        PROVE  NotOutrun'
    <2>1. PICK v \in Tabs :
              page[v] = "none" /\ UNCHANGED <<ws, serverVars>> /\ \E id : Starts(v, id)
      BY <1>1 DEF Visit, Duplicate
    <2>2. ws'[v] = None
      BY <2>1 DEF BrowserInv, PageOK
    <2>3. \A w \in Tabs \ {v} : UNCHANGED <<ws[w], outrun[w]>>
      BY <1>0, <2>1 DEF Starts
    <2> QED BY <2>1, <2>2, <2>3, PagesNotOutrun
  <1>2. ASSUME NEW t \in Tabs, Reload(t) \/ Shut(t) \/ Dies(t) \/ CloseArrives(t)
        PROVE  NotOutrun'
    <2>1. /\ UNCHANGED serverVars
          /\ ws' = [ws EXCEPT ![t] = None]
          /\ outrun' = [outrun EXCEPT ![t] = FALSE] \/ UNCHANGED outrun
      BY <1>2 DEF Reload, Shut, Dies, CloseArrives, Starts, Abandons, OnClose
    <2>2. ws'[t] = None /\ \A w \in Tabs \ {t} : UNCHANGED <<ws[w], outrun[w]>>
      BY <1>0, <2>1
    <2> QED BY <2>1, <2>2, PagesNotOutrun
  <1>3. ASSUME NEW t \in Tabs, NEW c \in Conns, Fetched(t, c)
        PROVE  NotOutrun'
    <2>1. UNCHANGED <<serverVars, outrun>> /\ ws' = [ws EXCEPT ![t] = c] /\ line[c] = "down"
      BY <1>3 DEF Fetched
    <2>2. \A s \in Ids : owner[s] # c
      BY <2>1 DEF BrowserInv, LineOK
    <2>3. ws'[t] = c /\ \A w \in Tabs \ {t} : UNCHANGED <<ws[w], outrun[w]>>
      BY <1>0, <2>1
    <2> QED BY <2>1, <2>2, <2>3, PagesNotOutrun
  <1>4. ASSUME UNCHANGED <<serverVars, ws, outrun>> PROVE NotOutrun'
    BY <1>4, PagesNotOutrun
  <1>5. ASSUME NEW t \in Tabs, PageStep(t) PROVE NotOutrun'
    <2>1. ASSUME Claimed(t) \/ TimedOut(t) \/ Opened(t) \/ Reconnect(t) PROVE NotOutrun'
      BY <1>4, <2>1 DEF Claimed, TimedOut, Opened, Reconnect
    <2>2. ASSUME ReceiveOutput(t) \/ ReceiveEnd(t) \/ ReceiveSession(t) PROVE NotOutrun'
      BY <1>4, <2>2 DEF ReceiveOutput, ReceiveEnd, ReceiveSession, NextMessage
    <2> QED BY <1>2, <1>3, <1>5, <2>1, <2>2 DEF PageStep
  <1>6. ASSUME UNCHANGED <<ws, outrun>>, NEW s \in Ids,
               \A r \in Ids \ {s} : UNCHANGED <<phase[r], owner[r], produced[r], shown[r], reading[r]>>,
               phase'[s] = "unborn" => produced'[s] = 0,
               \A t \in Tabs : owner'[s] # None /\ ws[t] = owner'[s] =>
                   \/ outrun[t]
                   \/ /\ produced'[s] - shown'[s] <= Capacity
                      /\ reading'[s] => produced'[s] - shown'[s] <= Limit
        PROVE  NotOutrun'
    BY <1>6 DEF NotOutrun
  <1>7. ASSUME NEW c \in Conns, ServerStep(c) PROVE NotOutrun'
    <2>1. ASSUME NEW s \in Ids, ServeNew(c, s) PROVE NotOutrun'
      <3>1. /\ phase[s] = "unborn" /\ UNCHANGED <<ws, outrun, produced, shown, reading>>
            /\ phase' = [phase EXCEPT ![s] = "running"] /\ owner' = [owner EXCEPT ![s] = c]
        BY <2>1 DEF ServeNew, Server!Start, pageVars
      <3>2. produced[s] = 0 /\ shown[s] = 0
        BY <1>0, <3>1 DEF NotOutrun
      <3> QED BY <1>0, <1>6, <3>1, <3>2
    <2>2. ASSUME NEW s \in Ids, ServeAgain(c, s) PROVE NotOutrun'
      <3>1. /\ phase[s] = "running" /\ UNCHANGED <<ws, outrun, phase, produced, reading>>
            /\ owner' = [owner EXCEPT ![s] = c] /\ hello[c] # None
        BY <2>2 DEF ServeAgain, Resumable, Server!Take, pageVars
      <3>2. PICK at : shown' = [shown EXCEPT ![s] = at]
        BY <2>2 DEF ServeAgain, Server!Take
      <3>3. at \in ResumeOffsets(Capacity, Limit, produced[s], hello[c].offset)
            /\ hello[c].offset \in Nat
        BY <1>0, <2>2, <3>1, <3>2 DEF ServeAgain, BrowserInv, TypeOK
      <3>4. at \in Earliest(Capacity, Limit, produced[s]) .. produced[s] /\ at \in Nat
        BY <1>0, <3>3, ResumeRange
      <3>5. Earliest(Capacity, Limit, produced[s]) \in Nat
            /\ produced[s] - Earliest(Capacity, Limit, produced[s]) <= Limit
        BY <1>0, EarliestRange
      <3>6. produced[s] - at <= Limit
        BY <1>0, <3>4, <3>5
      <3>7. produced'[s] - shown'[s] <= Limit /\ produced'[s] - shown'[s] <= Capacity
        BY <1>0, <3>1, <3>2, <3>4, <3>6
      <3> QED BY <1>0, <1>6, <3>1, <3>2, <3>7
    <2>3. ASSUME NEW s \in Ids, Greet(c, s) PROVE NotOutrun'
      BY <1>4, <2>3 DEF Greet, pageVars
    <2>4. ASSUME NEW s \in Ids, SendOutput(c, s) PROVE NotOutrun'
      <3>1. UNCHANGED <<ws, outrun, phase, owner, produced, reading>>
        BY <2>4 DEF SendOutput, Server!Show, pageVars
      <3>2. Oldest(Capacity, produced[s]) \in Nat
            /\ Server!Oldest(Capacity, produced[s]) = Oldest(Capacity, produced[s])
        BY <1>0 DEF Oldest, Larger, Server!Oldest, Server!Larger
      <3>3. PICK from :
               /\ from = IF shown[s] < Oldest(Capacity, produced[s]) THEN Oldest(Capacity, produced[s])
                         ELSE shown[s] + 1
               /\ \E to \in from .. produced[s] : shown' = [shown EXCEPT ![s] = to]
        BY <2>4, <3>2 DEF SendOutput, Server!Show
      <3>4. from \in Nat /\ from > shown[s]
        BY <1>0, <3>2, <3>3
      <3>5. PICK to \in from .. produced[s] : shown' = [shown EXCEPT ![s] = to]
        BY <3>3
      <3>6. produced'[s] - shown'[s] <= produced[s] - shown[s]
            /\ produced'[s] - shown'[s] \in Int /\ produced[s] - shown[s] \in Int
        BY <1>0, <3>1, <3>4, <3>5
      <3>7. ASSUME NEW t \in Tabs, owner'[s] # None, ws[t] = owner'[s], ~outrun[t]
            PROVE  /\ produced'[s] - shown'[s] <= Capacity
                   /\ reading'[s] => produced'[s] - shown'[s] <= Limit
        <4>1. /\ produced[s] - shown[s] <= Capacity
              /\ reading[s] => produced[s] - shown[s] <= Limit
          BY <3>1, <3>7 DEF NotOutrun
        <4> QED BY <1>0, <3>1, <3>6, <4>1
      <3>8. phase'[s] = "unborn" => produced'[s] = 0
        BY <3>1 DEF NotOutrun
      <3> QED BY <1>0, <1>6, <3>1, <3>5, <3>7, <3>8
    <2>5. ASSUME NEW s \in Ids, ReadOn(c, s) PROVE NotOutrun'
      <3>1. /\ UNCHANGED <<ws, outrun, phase, owner, produced, shown>> /\ phase[s] = "running"
            /\ shown[s] = produced[s] /\ reading' = [reading EXCEPT ![s] = TRUE]
        BY <2>5 DEF ReadOn, AllSent, pageVars
      <3>2. produced'[s] - shown'[s] <= Limit /\ produced'[s] - shown'[s] <= Capacity
        BY <1>0, <3>1
      <3>3. \A r \in Ids \ {s} : UNCHANGED reading[r]
        BY <1>0, <3>1
      <3> QED BY <1>6, <3>1, <3>2, <3>3
    <2>6. ASSUME NEW s \in Ids, SendEnd(c, s) PROVE NotOutrun'
      <3>1. UNCHANGED <<ws, outrun, produced, reading>> /\ phase[s] = "ended" /\ Server!Leave(s)
        BY <2>6 DEF SendEnd, Server!Leave, pageVars
      <3> QED BY <1>0, <1>6, <3>1 DEF Server!Leave
    <2>7. ASSUME SendTaken(c) PROVE NotOutrun'
      BY <1>4, <2>7 DEF SendTaken, pageVars
    <2> QED BY <1>7, <2>1, <2>2, <2>3, <2>4, <2>5, <2>6, <2>7 DEF ServerStep
  <1>8. ASSUME NEW c \in Conns, Drop(c) PROVE NotOutrun'
    <2>1. UNCHANGED <<ws, outrun>>
      BY <1>8 DEF Drop, pageVars
    <2>2. ASSUME NEW s \in Ids, owner[s] = c, Server!Leave(s),
                 reading' = [reading EXCEPT ![s] = phase[s] = "running"]
          PROVE  NotOutrun'
      <3>1. phase[s] # "unborn"
        BY <2>2 DEF BrowserInv, SessionsOK
      <3>2. phase'[s] # "unborn" /\ owner'[s] = None /\ UNCHANGED produced
            /\ \A r \in Ids \ {s} : UNCHANGED <<phase[r], owner[r], shown[r], reading[r]>>
        BY <1>0, <2>2, <3>1 DEF Server!Leave
      <3> QED BY <1>6, <2>1, <3>2
    <2> QED BY <1>4, <1>8, <2>1, <2>2 DEF Drop
  <1>9. ASSUME NEW c \in Conns, NEW s \in Ids, ReceiveResume(c, s) PROVE NotOutrun'
    <2>1. /\ UNCHANGED <<phase, owner, produced, shown, ws>> /\ owner[s] = c /\ phase[s] = "running"
          /\ reading' = [reading EXCEPT ![s] = TRUE]
          /\ outrun' = [t \in Tabs |-> outrun[t] \/ (ws[t] = c /\ produced[s] - shown[s] > Limit)]
      BY <1>9 DEF ReceiveResume
    <2>2. ASSUME NEW r \in Ids, NEW t \in Tabs, owner'[r] # None, ws'[t] = owner'[r], ~outrun'[t]
          PROVE  /\ produced'[r] - shown'[r] <= Capacity
                 /\ reading'[r] => produced'[r] - shown'[r] <= Limit
      <3>1. ~outrun[t] /\ ~(ws[t] = c /\ produced[s] - shown[s] > Limit)
        BY <2>1, <2>2
      <3>2. /\ produced[r] - shown[r] <= Capacity
            /\ reading[r] => produced[r] - shown[r] <= Limit
        BY <2>1, <2>2, <3>1 DEF NotOutrun
      <3>3. CASE r = s
        BY <1>0, <2>1, <2>2, <3>1, <3>2, <3>3
      <3>4. CASE r # s
        BY <1>0, <2>1, <3>2, <3>4
      <3> QED BY <3>3, <3>4
    <2>3. \A r \in Ids : phase'[r] = "unborn" => produced'[r] = 0
      BY <2>1 DEF NotOutrun
    <2> QED BY <2>2, <2>3 DEF NotOutrun
  <1>10. ASSUME NEW s \in Ids, Grant(s) PROVE NotOutrun'
    BY <1>4, <1>10 DEF Grant, pageVars
  <1>11. ASSUME NEW s \in Ids, Produce(s) PROVE NotOutrun'
    <2>1. /\ UNCHANGED <<ws, outrun, phase, owner, shown>> /\ reading[s] /\ phase[s] = "running"
          /\ reading' = [reading EXCEPT ![s] = owner[s] = None]
      BY <1>11 DEF Produce, Server!Produce, pageVars
    <2>2. PICK n \in 1 .. ReadMax : produced' = [produced EXCEPT ![s] = @ + n]
      BY <1>11 DEF Produce, Server!Produce
    <2>3. produced'[s] = produced[s] + n /\ n \in Nat /\ n <= ReadMax
          /\ \A r \in Ids \ {s} : UNCHANGED <<produced[r], reading[r]>>
      BY <1>0, <2>1, <2>2
    <2>5. owner[s] # None => ~reading'[s]
      BY <1>0, <2>1, Zenon
    <2>4. ASSUME NEW t \in Tabs, owner'[s] # None, ws[t] = owner'[s], ~outrun[t]
          PROVE  produced'[s] - shown'[s] <= Capacity
      <3>1. produced[s] - shown[s] <= Limit
        BY <2>1, <2>4 DEF NotOutrun
      <3> QED BY <1>0, <2>1, <2>3, <3>1
    <2> QED BY <1>6, <2>1, <2>3, <2>4, <2>5
  <1>12. ASSUME NEW s \in Ids, End(s) PROVE NotOutrun'
    <2>1. /\ UNCHANGED <<ws, outrun, owner, produced, shown>> /\ phase[s] = "running"
          /\ phase' = [phase EXCEPT ![s] = IF owner[s] = None THEN "freed" ELSE "ended"]
          /\ reading' = [reading EXCEPT ![s] = FALSE]
      BY <1>12 DEF End, Server!End, pageVars
    <2>2. phase'[s] # "unborn" /\ ~reading'[s]
          /\ \A r \in Ids \ {s} : UNCHANGED <<phase[r], reading[r]>>
      BY <1>0, <2>1
    <2>3. \A t \in Tabs : owner[s] # None /\ ws[t] = owner[s] =>
             outrun[t] \/ produced[s] - shown[s] <= Capacity
      BY DEF NotOutrun
    <2> QED BY <1>6, <2>1, <2>2, <2>3
  <1>13. CASE UNCHANGED vars
    BY <1>4, <1>13 DEF vars, pageVars
  <1> QED BY <1>1, <1>2, <1>5, <1>7, <1>8, <1>9, <1>10, <1>11, <1>12, <1>13 DEF Next

\* Every step keeps the invariant.
LEMMA StepOK == BrowserInv /\ NotOutrun /\ [Next]_vars => BrowserInv'
  <1> SUFFICES ASSUME BrowserInv, NotOutrun, [Next]_vars PROVE BrowserInv'
    OBVIOUS
  <1>1. ASSUME NEW t \in Tabs, NEW u \in Tabs,
               Visit(t) \/ Duplicate(t, u) \/ Reload(t) \/ Shut(t)
        PROVE  BrowserInv'
    BY <1>1, UserOK
  <1>2. ASSUME NEW t \in Tabs, Dies(t) PROVE BrowserInv'
    BY <1>2, ClosedOK
  <1>3. ASSUME NEW t \in Tabs, PageStep(t) PROVE BrowserInv'
    <2>1. CASE Claimed(t) \/ TimedOut(t) \/ Reconnect(t)
      BY <2>1, ClaimedOK
    <2>2. CASE \E c \in Conns : Fetched(t, c)
      BY <2>2, FetchedOK
    <2>3. CASE Opened(t)
      BY <2>3, OpenedOK
    <2>4. CASE ReceiveOutput(t)
      BY <2>4, ReceiveOutputOK
    <2>5. CASE ReceiveEnd(t)
      BY <2>5, ReceiveEndOK
    <2>6. CASE ReceiveSession(t)
      BY <2>6, ReceiveSessionOK
    <2>7. CASE CloseArrives(t)
      BY <2>7, ClosedOK
    <2> QED BY <1>3, <2>1, <2>2, <2>3, <2>4, <2>5, <2>6, <2>7 DEF PageStep
  <1>4. ASSUME NEW c \in Conns, ServerStep(c) PROVE BrowserInv'
    <2>1. ASSUME NEW s \in Ids, ServeNew(c, s) PROVE BrowserInv'
      BY <2>1, ServeNewOK
    <2>2. ASSUME NEW s \in Ids, ServeAgain(c, s) PROVE BrowserInv'
      BY <2>2, ServeAgainOK
    <2>3. ASSUME NEW s \in Ids, Greet(c, s) PROVE BrowserInv'
      BY <2>3, GreetOK
    <2>4. ASSUME NEW s \in Ids, SendOutput(c, s) PROVE BrowserInv'
      BY <2>4, SendOutputOK
    <2>5. ASSUME NEW s \in Ids, ReadOn(c, s) PROVE BrowserInv'
      BY <2>5, ReadOnOK
    <2>6. ASSUME NEW s \in Ids, SendEnd(c, s) PROVE BrowserInv'
      BY <2>6, SendEndOK
    <2>7. CASE SendTaken(c)
      BY <2>7, SendTakenOK
    <2> QED BY <1>4, <2>1, <2>2, <2>3, <2>4, <2>5, <2>6, <2>7 DEF ServerStep
  <1>5. ASSUME NEW c \in Conns, Drop(c) PROVE BrowserInv'
    BY <1>5, DropOK
  <1>8. ASSUME NEW c \in Conns, NEW s \in Ids, ReceiveResume(c, s) PROVE BrowserInv'
    BY <1>8, ReceiveResumeOK
  <1>6. ASSUME NEW s \in Ids, Grant(s) \/ Produce(s) \/ End(s) PROVE BrowserInv'
    BY <1>6, GrantOK, ProduceOK, CommandEndsOK
  <1>7. CASE UNCHANGED vars
    <2>1. TypeOK' /\ SessionsOK'
      BY <1>7 DEF BrowserInv, TypeOK, SessionsOK, vars, serverVars, lineVars, pageVars, lockVars,
         boundVars
    <2>2. ASSUME NEW c \in Conns PROVE LineOK(c)'
      BY <1>7 DEF BrowserInv, LineOK, Listening, vars, serverVars, lineVars, pageVars
    <2>3. ASSUME NEW t \in Tabs
          PROVE  PageOK(t)' /\ LockOK(t)' /\ StreamOK(t)' /\ TextOK(t)' /\ EndOK(t)'
      <3>1. CompleteStays
        BY <1>7 DEF CompleteStays, Over, vars, serverVars
      <3>2. UNCHANGED <<ws, page, sessionId, received, endCode, outrun, line, role, code, wire, owner, shown>>
        BY <1>7 DEF vars, serverVars, lineVars, pageVars
      <3>3. StreamOK(t)' /\ EndOK(t)'
        BY <3>1, <3>2, StreamKept, EndKept DEF BrowserInv
      <3> QED BY <1>7, <3>3 DEF BrowserInv, PageOK, HelloOf, LockOK, TextOK, vars, lineVars, pageVars,
         lockVars
    <2>4. ASSUME NEW t \in Tabs PROVE TellingOK(t)'
      BY <1>7 DEF BrowserInv, TellingOK, Told, Secret, vars, serverVars, lineVars, pageVars, lockVars
    <2>5. ASSUME NEW s \in Ids PROVE UnbornOK(s)'
      BY <1>7 DEF BrowserInv, UnbornOK, Told, Secret, vars, serverVars, lineVars, pageVars, lockVars
    <2> QED BY <2>1, <2>2, <2>3, <2>4, <2>5 DEF BrowserInv
  <1> QED BY <1>1, <1>2, <1>3, <1>4, <1>5, <1>6, <1>7, <1>8 DEF Next

\* The inductive invariant holds of every run of browsers and server: what a page
\* is sent goes on where it is, and that is never outrun but by a RESUME of its own.
THEOREM BrowserCorrect == Spec => [](BrowserInv /\ NotOutrun)
  <1>1. Init => NotOutrun
    BY DEF Init, Server!Init, NotOutrun
  <1>2. BrowserInv /\ NotOutrun /\ [Next]_vars => NotOutrun'
    BY NotOutrunKept
  <1> QED BY <1>1, <1>2, InitOK, StepOK, PTL DEF Spec

\* Every variable has its type.
THEOREM TypeCorrect == Spec => []TypeOK
  <1>1. BrowserInv => TypeOK
    BY DEF BrowserInv
  <1> QED BY <1>1, BrowserCorrect, PTL

\* Where there are Web Locks no two pages use one session (claimSession).
THEOREM OnePage == Spec => []OnePagePerSession
  <1>1. BrowserInv => OnePagePerSession
    <2> SUFFICES ASSUME BrowserInv, Locks, NEW t \in Tabs, NEW u \in Tabs,
                        sessionId[t] = sessionId[u], sessionId[t] # None
                 PROVE  t = u
      BY DEF OnePagePerSession
    <2>1. holder[sessionId[t]] = t /\ holder[sessionId[u]] = u
      BY DEF BrowserInv, LockOK
    <2> QED BY <2>1
  <1> QED BY <1>1, BrowserCorrect, PTL

\* What a page writes next goes on where its text ends, or starts an empty
\* terminal, up to a RESUME that came too soon (onMessage, onSession).
THEOREM TextContinues == Spec => []ScreenContinues
  <1>1. BrowserInv => ScreenContinues
    <2> SUFFICES ASSUME BrowserInv, NEW t \in Tabs, page[t] = "open", wire[ws[t]] # <<>>,
                        Head(wire[ws[t]]).type = "output"
                 PROVE  LET m == Head(wire[ws[t]]) IN
                        /\ m.id = sessionId[t]
                        /\ ~outrun[t] =>
                              /\ m.from = received[t]
                              /\ text[t] = Blank \/ text[t] = TextOf(m.id, m.from)
      BY DEF ScreenContinues
    <2>1. ws[t] # None /\ ws[t] \in Conns
      BY DEF BrowserInv, PageOK, TypeOK
    <2>2. PICK m : m = wire[ws[t]][1] /\ m = Head(wire[ws[t]])
      BY <2>1 DEF BrowserInv, TypeOK
    <2>3. m.type = "output"
      BY <2>2
    <2>4. Continues(m, sessionId[t], received[t], t)
      BY <2>1, <2>2, <2>3 DEF BrowserInv, StreamOK
    <2>5. m.id = sessionId[t] /\ (outrun[t] \/ m.from = received[t])
      BY <2>3, <2>4 DEF Continues
    <2>6. outrun[t] \/ text[t] = Blank \/ text[t] = TextOf(sessionId[t], received[t])
      BY DEF BrowserInv, TextOK
    <2> QED BY <2>2, <2>5, <2>6
  <1> QED BY <1>1, BrowserCorrect, PTL

\* A page that shows the end of its session has received all of its output that
\* was read, up to a RESUME that came too soon (onClose).
THEOREM EndIsWhole == Spec => []EndedShowsAll
  <1>1. BrowserInv => EndedShowsAll
    <2> SUFFICES ASSUME BrowserInv, NEW t \in Tabs, page[t] = "ended"
                 PROVE  /\ sessionId[t] # None
                        /\ phase[sessionId[t]] \notin {"unborn", "running"}
                        /\ outrun[t] \/ received[t] = produced[sessionId[t]]
      BY DEF EndedShowsAll
    <2>1. Over(sessionId[t]) /\ (outrun[t] \/ received[t] = produced[sessionId[t]])
      BY DEF BrowserInv, EndOK, Finished, Complete
    <2> QED BY <2>1, NoneAssumption DEF Over
  <1> QED BY <1>1, BrowserCorrect, PTL

\* A page changes to another session only if the one it had has ended
\* (onSession): it is told of another one only by a server that looked for it.
THEOREM Replaced == Spec => ReplacedOnlyIfEnded
  <1> DEFINE Kept(t) == sessionId[t] # None /\ sessionId'[t] \notin {None, sessionId[t]}
                           => phase[sessionId[t]] \in {"ended", "freed"}
  <1>1. BrowserInv /\ [Next]_vars => \A t \in Tabs : Kept(t)
    <2> SUFFICES ASSUME BrowserInv, [Next]_vars PROVE \A t \in Tabs : Kept(t)
      OBVIOUS
    <2>1. /\ sessionId \in [Tabs -> Ids \cup {None}]
          /\ \A t \in Tabs : /\ sessionId[t] \in {None, stored[t]}
                             /\ page[t] = "none" => stored[t] = None
                             /\ page[t] = "claiming" => sessionId[t] = None
      BY DEF BrowserInv, TypeOK, PageOK
    <2>2. ASSUME UNCHANGED sessionId PROVE \A t \in Tabs : Kept(t)
      BY <2>2
    <2>3. ASSUME NEW t \in Tabs, NEW id, id \in {None, stored[t]},
                 sessionId' = [sessionId EXCEPT ![t] = id] \/ Starts(t, id)
          PROVE  \A u \in Tabs : Kept(u)
      <3>1. \A u \in Tabs : sessionId'[u] \in {None, sessionId[u]} \/ (u = t /\ sessionId'[t] \in {None, stored[t]})
        BY <2>1, <2>3 DEF Starts
      <3> QED BY <2>1, <3>1
    <2>4. ASSUME NEW t \in Tabs, NEW u \in Tabs, Duplicate(t, u) PROVE \A v \in Tabs : Kept(v)
      <3>1. sessionId[u] = None
        BY <2>1, <2>4 DEF Duplicate
      <3>2. \A v \in Tabs : v # u => sessionId'[v] = sessionId[v]
        BY <2>1, <2>4 DEF Duplicate, Starts
      <3> QED BY <3>1, <3>2
    <2>5. ASSUME NEW t \in Tabs, Visit(t) \/ Reload(t) \/ Shut(t) \/ Claimed(t)
          PROVE  \A u \in Tabs : Kept(u)
      BY <2>3, <2>5 DEF Visit, Reload, Shut, Claimed
    <2>6. ASSUME NEW t \in Tabs, ReceiveSession(t) PROVE \A u \in Tabs : Kept(u)
      <3>1. PICK m : m = Head(wire[ws[t]])
        OBVIOUS
      <3>2. /\ page[t] = "open" /\ wire[ws[t]] # <<>> /\ m.type = "session"
            /\ UNCHANGED sessionId \/ sessionId' = [sessionId EXCEPT ![t] = m.id]
        BY <2>6, <3>1 DEF ReceiveSession, NextMessage
      <3>3. ws[t] # None /\ ws[t] \in Conns
        BY <3>2 DEF BrowserInv, PageOK, TypeOK
      <3>4. m.id \in Ids
        <4>1. m \in Messages
          BY <3>1, <3>2, <3>3 DEF BrowserInv, TypeOK
        <4> QED BY <3>2, <4>1 DEF Messages
      <3>5. Told(ws[t], m.id)
        BY <3>1, <3>2 DEF Told
      <3>6. m.id # sessionId[t] /\ sessionId[t] # None => phase[sessionId[t]] \in {"ended", "freed"}
        BY <3>3, <3>4, <3>5 DEF BrowserInv, TellingOK
      <3> QED BY <2>1, <3>2, <3>6
    <2>7. ASSUME UNCHANGED vars PROVE UNCHANGED sessionId
      BY <2>7 DEF vars, pageVars
    <2>8. ASSUME NEW t \in Tabs, Dies(t) \/ PageStep(t) PROVE \A u \in Tabs : Kept(u)
      BY <2>2, <2>5, <2>6, <2>8 DEF Dies, OnClose, PageStep, TimedOut, Fetched, Opened, ReceiveOutput,
         ReceiveEnd, CloseArrives, Reconnect
    <2>9. ASSUME NEW c \in Conns, ServerStep(c) \/ Drop(c) PROVE UNCHANGED sessionId
      BY <2>9 DEF ServerStep, ServeNew, ServeAgain, Greet, SendOutput, ReadOn, SendEnd, SendTaken, Drop,
         pageVars
    <2>11. ASSUME NEW c \in Conns, NEW s \in Ids, ReceiveResume(c, s) PROVE UNCHANGED sessionId
      BY <2>11 DEF ReceiveResume
    <2>10. ASSUME NEW s \in Ids, Grant(s) \/ Produce(s) \/ End(s) PROVE UNCHANGED sessionId
      BY <2>10 DEF Grant, Produce, End, pageVars
    <2> QED BY <2>2, <2>4, <2>5, <2>7, <2>8, <2>9, <2>10, <2>11 DEF Next
  <1>2. BrowserInv /\ [Next]_vars =>
          [\A t \in Tabs : sessionId[t] # None /\ sessionId'[t] \notin {None, sessionId[t]}
              => phase[sessionId[t]] \in {"ended", "freed"}]_vars
    BY <1>1
  <1> QED BY <1>2, BrowserCorrect, PTL DEF Spec, ReplacedOnlyIfEnded
=============================================================================
