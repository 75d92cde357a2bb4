----------------------------- MODULE HttpProofs -----------------------------
(***************************************************************************)
(* Proofs about Http.tla, for any number of connections, any requests and   *)
(* any lengths: nothing of a request is left to the next one, every answer  *)
(* is whole, and who is answered what is right: the pages to those who have *)
(* the session bare, the bare to those who typed the password.  For the *)
(* last two, what auth.c reads in a Cookie header and in a form is shown to *)
(* be what the browser put there.                                           *)
(***************************************************************************)
EXTENDS Http, DataLemmas

\* The types that the proofs need.
HeldTypeOK ==
    /\ phase \in [Conns -> {"closed", "idle", "body", "reply", "file"}]
    /\ wanted \in [Conns -> BOOLEAN]
    /\ loginPost \in [Conns -> BOOLEAN]
    /\ overflow \in [Conns -> BOOLEAN]
    /\ body = [c \in Conns |-> body[c]]
    /\ buffer \in [Conns -> Pages \cup {None}]
    /\ ptr \in [Conns -> Nat]
    /\ length \in [Conns -> Nat]
    /\ received \in [Conns -> Nat]
    /\ overtaken \in [Conns -> BOOLEAN]

\* What a connection holds is the request's that it serves: a body is a login's
\* and there in the phase "body" only, a page while it is written only (which may be
\* while a body arrives that is not a login's) ...
NoBody(c) == ~loginPost[c] /\ body[c] = None /\ ~overflow[c]
HoldsItsOwn(c) ==
    /\ phase[c] # "body" \/ ~loginPost[c] => NoBody(c)
    /\ phase[c] \in {"closed", "idle", "file"} => buffer[c] = None
    /\ loginPost[c] => buffer[c] = None
\* ... of which it has sent what ptr has passed, and owes the rest.
OwesNothing(c) == buffer[c] = None => received[c] = length[c]
\* On a connection that is overtaken, too, there is a page to write if it is asked
\* for, or owed.
OwesTheRest(c) ==
    /\ wanted[c] <=> buffer[c] # None
    /\ received[c] < length[c] =>
          buffer[c] # None /\ received[c] = ptr[c] /\ length[c] = PageSize[buffer[c]]
    /\ ~overtaken[c] /\ buffer[c] # None =>
          received[c] = ptr[c] /\ length[c] = PageSize[buffer[c]]
    /\ buffer[c] # None => ptr[c] <= PageSize[buffer[c]]
    /\ buffer[c] \in CachedPages => buffer[c] \in cached
Held(c) == (~overtaken[c] => HoldsItsOwn(c) /\ OwesNothing(c)) /\ OwesTheRest(c)

HeldInv == HeldTypeOK /\ \A c \in Conns : Held(c)

-----------------------------------------------------------------------------
\* Pages are what has a length.
LEMMA PageLengths ==
    /\ \A page \in Pages : PageSize[page] \in Nat /\ PageSize[page] > 0
    /\ CachedPages \subseteq Pages
    /\ None \notin Pages
  BY PageAssumption DEF Pages, CachedPages

\* At first no connection is there and nothing is held.
LEMMA InitHeld == Init => HeldInv
  <1> SUFFICES ASSUME Init PROVE HeldInv
    OBVIOUS
  <1> QED
    BY PageLengths DEF Init, HeldInv, HeldTypeOK, Held, HoldsItsOwn, OwesNothing, OwesTheRest, NoBody

\* What a connection holds does not depend on the other ones, as pages stay in the
\* cache.
LEMMA OthersHeld ==
    ASSUME HeldInv, NEW d \in Conns, cached \subseteq cached',
           UNCHANGED <<phase[d], wanted[d], loginPost[d], body[d], overflow[d], buffer[d], ptr[d],
               length[d], received[d], overtaken[d]>>
    PROVE  Held(d)'
  BY DEF HeldInv, Held, HoldsItsOwn, OwesNothing, OwesTheRest, NoBody

\* A connection that is closed holds nothing (CLOSED_HTTP).
LEMMA ClosedHeld ==
    ASSUME HeldInv, NEW c \in Conns, Closed(c), cached' = cached
    PROVE  HeldInv'
  <1>1. HeldTypeOK'
    BY PageLengths DEF HeldInv, HeldTypeOK, Closed, BodyFreed, Answers
  <1>2. ASSUME NEW d \in Conns PROVE Held(d)'
    <2>1. CASE d = c
      BY <2>1, PageLengths DEF HeldInv, HeldTypeOK, Closed, BodyFreed, Answers, Held, HoldsItsOwn,
         OwesNothing, OwesTheRest, NoBody
    <2>2. CASE d # c
      BY <2>2, OthersHeld DEF HeldInv, HeldTypeOK, Closed, BodyFreed, Answers
    <2> QED BY <2>1, <2>2
  <1> QED BY <1>1, <1>2 DEF HeldInv

\* A request is answered at once, or has a page or a body to come (HTTP).
LEMMA RequestHeld ==
    ASSUME HeldInv, NEW c \in Conns, ReceiveRequest(c)
    PROVE  HeldInv'
  <1>1. /\ phase[c] = "idle" /\ OwesTheRest(c)
        /\ ~overtaken[c] => NoBody(c) /\ buffer[c] = None /\ ~wanted[c]
    BY DEF ReceiveRequest, HeldInv, Held, HoldsItsOwn, OwesTheRest
  <1>2. CASE Closed(c) /\ UNCHANGED cached
    BY <1>2, ClosedHeld
  <1>3. ASSUME NEW r, NEW to, AnswerAtOnce(c, r, to) PROVE HeldInv'
    <2>1. to \notin Pages
      BY <1>3 DEF AnswerAtOnce, Pages, StaticPages, CachedPages
    <2>2. HeldTypeOK'
      BY <1>3, <2>1 DEF HeldInv, HeldTypeOK, AnswerAtOnce, Answers, CompletedBefore, Completed,
         pssVars
    <2>3. Held(c)'
      <3>1. /\ received'[c] = 0 /\ length'[c] = 0 /\ phase'[c] \in {"idle", "body"}
            /\ UNCHANGED <<cached, wanted, loginPost, body, overflow, buffer, ptr, overtaken>>
        BY <1>3, <2>1 DEF HeldInv, HeldTypeOK, AnswerAtOnce, Answers, CompletedBefore, Completed,
           pssVars
      <3>2. OwesTheRest(c)'
        BY <1>1, <3>1 DEF OwesTheRest
      <3> QED BY <1>1, <3>1, <3>2 DEF Held, HoldsItsOwn, OwesNothing, NoBody
    <2>4. ASSUME NEW d \in Conns, d # c PROVE Held(d)'
      BY <1>3, <2>4, OthersHeld DEF HeldInv, HeldTypeOK, AnswerAtOnce, Answers, CompletedBefore,
         Completed, pssVars
    <2> QED BY <2>2, <2>3, <2>4 DEF HeldInv
  <1>4. ASSUME NEW r, NEW to, AwaitForm(c, r, to) PROVE HeldInv'
    <2>1. HeldTypeOK'
      BY <1>4, PageLengths DEF HeldInv, HeldTypeOK, AwaitForm, Answers
    <2>2. Held(c)'
      BY <1>1, <1>4, PageLengths DEF HeldInv, HeldTypeOK, AwaitForm, Answers, Held, HoldsItsOwn,
         OwesNothing, OwesTheRest, NoBody
    <2>3. ASSUME NEW d \in Conns, d # c PROVE Held(d)'
      BY <1>4, <2>3, OthersHeld DEF HeldInv, HeldTypeOK, AwaitForm, Answers
    <2> QED BY <2>1, <2>2, <2>3 DEF HeldInv
  <1>5. ASSUME NEW r, NEW to, ServePage(c, r, to) PROVE HeldInv'
    <2>1. Page(r, to) \in Pages
      BY <1>5 DEF ServePage, Page, Pages, StaticPages, CachedPages
    <2>2. HeldTypeOK'
      BY <1>5, <2>1, PageLengths DEF HeldInv, HeldTypeOK, ServePage, Answers
    <2>3. Held(c)'
      BY <1>1, <1>5, <2>1, PageLengths DEF HeldInv, HeldTypeOK, ServePage, Answers, Held,
         HoldsItsOwn, OwesNothing, OwesTheRest, NoBody
    <2>4. ASSUME NEW d \in Conns, d # c PROVE Held(d)'
      BY <1>5, <2>4, OthersHeld DEF HeldInv, HeldTypeOK, ServePage, Answers
    <2> QED BY <2>2, <2>3, <2>4 DEF HeldInv
  <1>6. ASSUME NEW r, NEW to, ServeFile(c, r, to) PROVE HeldInv'
    <2>1. "file" \notin Pages
      BY DEF Pages, StaticPages, CachedPages
    <2>2. HeldTypeOK'
      BY <1>6, <2>1 DEF HeldInv, HeldTypeOK, ServeFile, Answers, CompletedBefore, Completed, pssVars
    <2>3. Held(c)'
      BY <1>1, <1>6, <2>1 DEF HeldInv, HeldTypeOK, ServeFile, Answers, CompletedBefore, Completed,
         Held, HoldsItsOwn, OwesNothing, OwesTheRest, NoBody, pssVars
    <2>4. ASSUME NEW d \in Conns, d # c PROVE Held(d)'
      BY <1>6, <2>4, OthersHeld DEF HeldInv, HeldTypeOK, ServeFile, Answers, CompletedBefore,
         Completed, pssVars
    <2> QED BY <2>2, <2>3, <2>4 DEF HeldInv
  <1> QED BY <1>2, <1>3, <1>4, <1>5, <1>6 DEF ReceiveRequest

\* A part of a body is a login's or is ignored (HTTP_BODY).
LEMMA BodyHeld ==
    ASSUME HeldInv, NEW c \in Conns, ReceiveBody(c)
    PROVE  HeldInv'
  <1>1. PICK n \in 1 .. Len(rest[c]) :
            /\ overflow' = [overflow EXCEPT
                  ![c] = @ \/ (loginPost[c] /\ ~BodyFits(c, SubSeq(rest[c], 1, n)))]
            /\ body' = [body EXCEPT ![c] =
                  IF ~loginPost[c] \/ ~BodyFits(c, SubSeq(rest[c], 1, n)) THEN @
                  ELSE IF @ = None THEN SubSeq(rest[c], 1, n) ELSE @ \o SubSeq(rest[c], 1, n)]
    BY DEF ReceiveBody
  <1>2. phase[c] = "body" /\ UNCHANGED
            <<cached, phase, wanted, loginPost, buffer, ptr, length, received, overtaken>>
    BY DEF ReceiveBody, serverVars, clientVars
  <1>3. HeldTypeOK'
    BY <1>1, <1>2 DEF HeldInv, HeldTypeOK
  <1>4. ASSUME NEW d \in Conns PROVE Held(d)'
    BY <1>1, <1>2, <1>4 DEF HeldInv, HeldTypeOK, Held, HoldsItsOwn, OwesNothing, OwesTheRest, NoBody
  <1> QED BY <1>3, <1>4 DEF HeldInv

\* A login is answered without a page, and its body is freed whatever the
\* answer; another body is the end of its request (HTTP_BODY_COMPLETION).
LEMMA CompleteHeld ==
    ASSUME HeldInv, NEW c \in Conns, CompleteBody(c)
    PROVE  HeldInv'
  <1>1. phase[c] = "body" /\ Held(c) /\ cached' = cached
    BY DEF CompleteBody, HeldInv, serverVars
  <1>2. CASE Closed(c)
    BY <1>1, <1>2, ClosedHeld
  <1>3. CASE /\ loginPost[c] /\ HandleLoginPost(c) /\ BodyFreed(c) /\ Completed(c)
             /\ overtaken' = [overtaken EXCEPT ![c] = @ \/ buffer[c] # None]
             /\ UNCHANGED <<wanted, buffer, ptr>>
    <2>1. PICK what, does : what \notin Pages /\ Answers(c, what, does)
      <3>1. {"to index", "to login?error=1"} \cap Pages = {}
        BY DEF Pages, StaticPages, CachedPages
      <3> QED BY <1>3, <3>1 DEF HandleLoginPost
    <2>2. HeldTypeOK'
      BY <1>3, <2>1 DEF HeldInv, HeldTypeOK, BodyFreed, Completed, Answers
    <2>3. Held(c)'
      BY <1>1, <1>3, <2>1 DEF HeldInv, HeldTypeOK, BodyFreed, Completed, Answers, Held, HoldsItsOwn,
         OwesNothing, OwesTheRest, NoBody
    <2>4. ASSUME NEW d \in Conns, d # c PROVE Held(d)'
      BY <1>1, <1>3, <2>1, <2>4, OthersHeld DEF HeldInv, HeldTypeOK, BodyFreed, Completed, Answers
    <2> QED BY <2>2, <2>3, <2>4 DEF HeldInv
  <1>4. CASE /\ ~loginPost[c] /\ Completed(c)
             /\ overtaken' = [overtaken EXCEPT ![c] = @ \/ buffer[c] # None]
             /\ UNCHANGED <<wanted, buffer, ptr, loginPost, body, overflow, clientVars>>
    <2>1. HeldTypeOK'
      BY <1>4 DEF HeldInv, HeldTypeOK, Completed, clientVars
    <2>2. ASSUME NEW d \in Conns PROVE Held(d)'
      BY <1>1, <1>4, <2>2 DEF HeldInv, HeldTypeOK, Completed, Held, HoldsItsOwn, OwesNothing,
         OwesTheRest, NoBody, clientVars
    <2> QED BY <2>1, <2>2 DEF HeldInv
  <1> QED BY <1>2, <1>3, <1>4 DEF CompleteBody

\* A page is written while the connection is in its hands, unless it is overtaken.
LEMMA WhileWritten ==
    ASSUME HeldInv, NEW c \in Conns, buffer[c] # None, phase[c] # "file"
    PROVE  /\ PageSize[buffer[c]] \in Nat /\ ptr[c] \in Nat /\ received[c] \in Nat
           /\ length[c] \in Nat /\ ptr[c] <= PageSize[buffer[c]]
           /\ received[c] < length[c] => received[c] = ptr[c] /\ length[c] = PageSize[buffer[c]]
           /\ ~overtaken[c] =>
                 /\ received[c] = ptr[c] /\ length[c] = PageSize[buffer[c]]
                 /\ phase[c] \in {"reply", "body"} /\ NoBody(c)
  BY PageLengths DEF HeldInv, HeldTypeOK, Held, HoldsItsOwn, OwesTheRest

\* The last round of a callback that writes a page either stops inside it, or
\* has written all of it and gives the buffer back.
LEMMA LastPieceHeld ==
    ASSUME HeldInv, NEW c \in Conns, buffer[c] # None, phase[c] # "file",
           NEW at \in ptr[c] .. PageSize[buffer[c]], NEW n \in 1 .. WriteMax, LastPiece(c, at, n),
           UNCHANGED <<loginPost, body, overflow, length, overtaken>>
    PROVE  HeldInv'
  <1> DEFINE size == PageSize[buffer[c]]
             done == at + n > size
             to == IF done THEN size ELSE at + n
  <1>1. /\ size \in Nat /\ WriteMax \in Nat /\ ptr[c] \in Nat /\ at \in Nat
        /\ received[c] \in Nat /\ length[c] \in Nat
        /\ received[c] < length[c] => received[c] = ptr[c] /\ length[c] = size
        /\ ~overtaken[c] =>
              /\ received[c] = ptr[c] /\ length[c] = size
              /\ phase[c] \in {"reply", "body"} /\ NoBody(c)
    BY PageAssumption, WhileWritten
  <1>2. PICK more \in Nat : /\ to = ptr[c] + more /\ to <= size
                            /\ received' = [received EXCEPT ![c] = @ + more]
    <2>1. n \in Nat /\ to \in Nat /\ to <= size /\ ptr[c] <= to
      BY <1>1
    <2>2. PICK more \in Nat : more = to - ptr[c]
      <3> HIDE DEF to
      <3>1. to - ptr[c] \in Nat
        BY <1>1, <2>1
      <3> QED BY <3>1
    <2>3. received' = [received EXCEPT ![c] = @ + (to - ptr[c])]
      BY DEF LastPiece
    <2>4. to = ptr[c] + more
      <3> HIDE DEF to
      <3> QED BY <1>1, <2>1, <2>2
    <2>5. received' = [received EXCEPT ![c] = @ + more]
      <3> HIDE DEF to
      <3> QED BY <2>2, <2>3
    <2> HIDE DEF to
    <2> QED BY <2>1, <2>4, <2>5
  <1>r. /\ received'[c] \in Nat /\ received'[c] = received[c] + more
        /\ received' \in [Conns -> Nat]
    <2>1. received \in [Conns -> Nat]
      BY DEF HeldInv, HeldTypeOK
    <2> HIDE DEF to
    <2> QED BY <1>1, <1>2, <2>1
  <1>3. CASE ~done /\ to < size
    <2>1. ptr' = [ptr EXCEPT ![c] = to] /\ UNCHANGED <<cached, phase, rest, wanted, buffer>>
      BY <1>3 DEF LastPiece
    <2>p. to \in Nat /\ ptr' \in [Conns -> Nat] /\ ptr'[c] = to
      BY <1>1, <1>2, <2>1 DEF HeldInv, HeldTypeOK
    <2>2. HeldTypeOK'
      BY <1>r, <2>1, <2>p DEF HeldInv, HeldTypeOK
    <2>3. Held(c)'
      <3>1. OwesTheRest(c)'
        <4>1. received'[c] < length[c] => received'[c] = ptr'[c] /\ length[c] = size
          BY <1>1, <1>2, <1>r, <2>p
        <4>2. ~overtaken[c] => received'[c] = ptr'[c] /\ length[c] = size
          BY <1>1, <1>2, <1>r, <2>p
        <4>3. Held(c)
          BY DEF HeldInv
        <4> QED BY <1>2, <2>1, <2>p, <4>1, <4>2, <4>3 DEF Held, OwesTheRest
      <3> QED BY <2>1, <3>1 DEF HeldInv, Held, HoldsItsOwn, OwesNothing, NoBody
    <2>4. ASSUME NEW d \in Conns, d # c PROVE Held(d)'
      BY <1>2, <2>1, <2>4, OthersHeld DEF HeldInv, HeldTypeOK
    <2> QED BY <2>2, <2>3, <2>4 DEF HeldInv
  <1>4. CASE ~(~done /\ to < size)
    <2>1. to = size
      BY <1>1, <1>4
    <2>2. /\ BufferFreed(c) /\ wanted' = [wanted EXCEPT ![c] = FALSE]
          /\ CompletedBefore(c, rest[c])
      BY <1>4 DEF LastPiece
    <2>p. phase' = [phase EXCEPT ![c] = phase'[c]] /\ phase'[c] \in {"idle", "body"}
      BY <2>2 DEF CompletedBefore, Completed, HeldInv, HeldTypeOK
    <2>3. HeldTypeOK'
      BY <1>r, <2>2, <2>p DEF HeldInv, HeldTypeOK, BufferFreed
    <2>4. Held(c)'
      <3>1. wanted'[c] = FALSE /\ buffer'[c] = None
        BY <2>2 DEF BufferFreed, HeldInv, HeldTypeOK
      <3>2. received'[c] >= length[c] /\ (~overtaken[c] => received'[c] = length[c])
        <4> HIDE DEF to, size, done
        <4>1. ptr[c] + more = size
          BY <1>2, <2>1
        <4> QED BY <1>1, <1>r, <4>1
      <3>3. OwesTheRest(c)'
        BY <1>1, <1>r, <3>1, <3>2, PageLengths DEF OwesTheRest
      <3>4. ~overtaken[c] => HoldsItsOwn(c)'
        BY <1>1, <3>1 DEF HoldsItsOwn, NoBody
      <3> QED BY <3>1, <3>2, <3>3, <3>4 DEF Held, OwesNothing
    <2>5. ASSUME NEW d \in Conns, d # c PROVE Held(d)'
      BY <1>2, <2>2, <2>p, <2>5, OthersHeld DEF HeldInv, HeldTypeOK, BufferFreed
    <2> QED BY <2>3, <2>4, <2>5 DEF HeldInv
  <1> QED BY <1>3, <1>4

\* One that may write nothing more has written up to ptr.
LEMMA BlockedHeld ==
    ASSUME HeldInv, NEW c \in Conns, buffer[c] # None, phase[c] # "file",
           NEW at \in ptr[c] .. PageSize[buffer[c]], Blocked(c, at),
           UNCHANGED <<loginPost, body, overflow, length, overtaken>>
    PROVE  HeldInv'
  <1>1. /\ PageSize[buffer[c]] \in Nat /\ ptr[c] \in Nat /\ at \in Nat
        /\ at <= PageSize[buffer[c]] /\ ptr[c] <= at
        /\ received[c] \in Nat /\ length[c] \in Nat
        /\ received[c] < length[c] => received[c] = ptr[c] /\ length[c] = PageSize[buffer[c]]
        /\ ~overtaken[c] => received[c] = ptr[c] /\ length[c] = PageSize[buffer[c]]
    BY WhileWritten
  <1>2. PICK more \in Nat : at = ptr[c] + more /\ received' = [received EXCEPT ![c] = @ + more]
    <2>1. PICK more \in Nat : more = at - ptr[c]
      <3>1. at - ptr[c] \in Nat
        BY <1>1
      <3> QED BY <3>1
    <2>2. at = ptr[c] + more
      BY <1>1, <2>1
    <2>3. received' = [received EXCEPT ![c] = @ + more]
      BY <2>1 DEF Blocked
    <2> QED BY <2>2, <2>3
  <1>3. ptr' = [ptr EXCEPT ![c] = at] /\ UNCHANGED <<cached, phase, wanted, buffer>>
    BY DEF Blocked
  <1>4. /\ received' \in [Conns -> Nat] /\ received'[c] = received[c] + more
        /\ ptr' \in [Conns -> Nat] /\ ptr'[c] = at
    BY <1>1, <1>2, <1>3 DEF HeldInv, HeldTypeOK
  <1>5. HeldTypeOK'
    BY <1>3, <1>4 DEF HeldInv, HeldTypeOK
  <1>6. Held(c)'
    <2>1. received'[c] < length[c] => received'[c] = ptr'[c] /\ length[c] = PageSize[buffer[c]]
      BY <1>1, <1>2, <1>4
    <2>2. ~overtaken[c] => received'[c] = ptr'[c] /\ length[c] = PageSize[buffer[c]]
      BY <1>1, <1>2, <1>4
    <2>3. Held(c)
      BY DEF HeldInv
    <2>4. OwesTheRest(c)'
      BY <1>1, <1>3, <1>4, <2>1, <2>2, <2>3 DEF Held, OwesTheRest
    <2> QED BY <1>3, <2>3, <2>4 DEF Held, HoldsItsOwn, OwesNothing, NoBody
  <1>7. ASSUME NEW d \in Conns, d # c PROVE Held(d)'
    BY <1>2, <1>3, <1>7, OthersHeld DEF HeldInv, HeldTypeOK
  <1> QED BY <1>5, <1>6, <1>7 DEF HeldInv

\* HTTP_WRITEABLE is asked for a page only.
LEMMA WriteableHeld ==
    ASSUME HeldInv, NEW c \in Conns, Writeable(c)
    PROVE  HeldInv'
  <1>1. buffer[c] # None /\ phase[c] # "file"
    BY DEF Writeable, HeldInv, Held, OwesTheRest
  <1>2. UNCHANGED <<loginPost, body, overflow, length, overtaken>>
    BY <1>1 DEF Writeable
  <1>3. PICK at \in ptr[c] .. PageSize[buffer[c]] :
            Blocked(c, at) \/ \E n \in 1 .. WriteMax : LastPiece(c, at, n)
    BY <1>1 DEF Writeable
  <1> QED BY <1>1, <1>2, <1>3, BlockedHeld, LastPieceHeld

\* The connection is idle, and holds nothing, after a file was sent and when it
\* is made.
LEMMA IdleHeld ==
    ASSUME HeldInv, NEW c \in Conns, FileSent(c) \/ Connect(c)
    PROVE  HeldInv'
  <1>1. /\ phase[c] \in {"file", "closed"}
        /\ phase' \in {[phase EXCEPT ![c] = "idle"], [phase EXCEPT ![c] = "body"]}
        /\ UNCHANGED <<cached, wanted, loginPost, body, overflow, buffer, ptr, length, received,
               overtaken>>
    BY DEF FileSent, Connect, CompletedBefore, Completed, serverVars, pssVars, clientVars
  <1>2. HeldTypeOK'
    BY <1>1 DEF HeldInv, HeldTypeOK
  <1>3. ASSUME NEW d \in Conns PROVE Held(d)'
    BY <1>1, <1>3 DEF HeldInv, HeldTypeOK, Held, HoldsItsOwn, OwesNothing, OwesTheRest, NoBody
  <1> QED BY <1>2, <1>3 DEF HeldInv

-----------------------------------------------------------------------------
\* The invariant holds always.
THEOREM AlwaysHeld == Spec => []HeldInv
  <1>1. HeldInv /\ [Next]_vars => HeldInv'
    <2> SUFFICES ASSUME HeldInv, [Next]_vars PROVE HeldInv'
      OBVIOUS
    <2>1. ASSUME NEW c \in Conns, Close(c) PROVE HeldInv'
      BY <2>1, ClosedHeld DEF Close, serverVars
    <2>2. CASE UNCHANGED vars
      BY <2>2 DEF vars, serverVars, lwsVars, pssVars, clientVars, HeldInv, HeldTypeOK, Held,
         HoldsItsOwn, NoBody, OwesNothing, OwesTheRest
    <2> QED BY <2>1, <2>2, IdleHeld, RequestHeld, BodyHeld, CompleteHeld, WriteableHeld DEF Next
  <1> QED BY InitHeld, <1>1, PTL DEF Spec

\* Between requests a connection that is not overtaken holds nothing of the last
\* one: a login starts without another one's body, and without the mark that it
\* was too long (pss_body_free, pss_buffer_free).
THEOREM NothingLeft == Spec => []NothingCarriedOver
  <1>1. HeldInv => NothingCarriedOver
    BY DEF HeldInv, Held, HoldsItsOwn, NoBody, NothingCarriedOver
  <1> QED BY <1>1, AlwaysHeld, PTL

\* A client of a connection that is not overtaken gets as many bytes as
\* Content-Length said, whatever the socket takes at a time; on every connection
\* the page is there until it has, and the pages that connections share stay
\* (HTTP_WRITEABLE).
THEOREM AnswersAreWhole == Spec => []WholeAnswers
  <1>1. HeldInv => WholeAnswers
    BY DEF HeldInv, Held, HoldsItsOwn, OwesNothing, OwesTheRest, WholeAnswers
  <1> QED BY <1>1, AlwaysHeld, PTL

-----------------------------------------------------------------------------
\* The characters of texts (that a string is in STRING is more than the provers know).
Characters == STRING \cup {NUL, ";", " ", "=", "%", "+", "&"}

\* What auth_cookie_matches asks of one cookie.
Matches(part, token) ==
    LET bare == WithoutSpaces(part)
        eq == SelectInSeq(bare, LAMBDA c : c = "=")
    IN  /\ eq # 0
        /\ SubSeq(bare, 1, eq - 1) = CookieName
        /\ TokenMatches(SubSeq(bare, eq + 1, Len(bare)), token)

\* A cookie in a header, after one space or none.
CookiePart(part, lead, name, value) ==
    /\ lead \in 0 .. 1
    /\ Len(part) = lead + Len(name) + 1 + Len(value)
    /\ lead = 1 => part[1] = " "
    /\ \A i \in 1 .. Len(name) : part[lead + i] = name[i] /\ name[i] # "="
    /\ Len(name) > 0 /\ name[1] # " "
    /\ part[lead + Len(name) + 1] = "="
    /\ \A i \in 1 .. Len(value) : part[lead + Len(name) + 1 + i] = value[i]

\* Texts are compared whole.
LEMMA TokenIs ==
    ASSUME NEW S, NEW s \in Seq(S), NEW t \in Seq(S)
    PROVE  TokenMatches(s, t) <=> s = t
  <1>1. ASSUME TokenMatches(s, t) PROVE s = t
    <2>1. Len(s) = Len(t) /\ \A i \in 1 .. Len(s) : s[i] = t[i]
      BY <1>1 DEF TokenMatches
    <2> QED BY <2>1, SeqEqual
  <1> QED BY <1>1 DEF TokenMatches

\* A cookie passes exactly if it has the right name and the right value.
LEMMA OneCookie ==
    ASSUME NEW S, NEW part \in Seq(S), NEW name \in Seq(S), NEW value \in Seq(S), NEW lead \in Nat,
           NEW token \in Seq(S), CookiePart(part, lead, name, value)
    PROVE  Matches(part, token) <=> name = CookieName /\ value = token
  <1>0. PICK n \in Nat, v \in Nat, l \in Nat :
            n = Len(name) /\ v = Len(value) /\ l = Len(part)
    OBVIOUS
  <1>s. PICK space : space = " "
    OBVIOUS
  <1>e. PICK equals : equals = "="
    OBVIOUS
  <1>1. /\ lead \in 0 .. 1 /\ n > 0
        /\ l = lead + n + 1 + v
        /\ lead = 1 => part[1] = space
        /\ \A i \in 1 .. n : part[lead + i] = name[i] /\ name[i] # equals
        /\ name[1] # space
        /\ part[lead + n + 1] = equals
        /\ \A i \in 1 .. v : part[lead + n + 1 + i] = value[i]
    BY <1>0, <1>s, <1>e DEF CookiePart
  <1>2. PICK bare \in Seq(S) : /\ bare = WithoutSpaces(part)
                                 /\ Len(bare) = n + 1 + v
                                 /\ \A i \in 1 .. n + 1 + v : bare[i] = part[lead + i]
    <2> DEFINE found == {i \in 1 .. l : part[i] # space}
    <2>1. {i \in 1 .. Len(part) : part[i] # " "} = found
      BY <1>0, <1>s
    <2>2. found \in SUBSET Int /\ lead + 1 \in found
      <3>1. found \in SUBSET Int
        OBVIOUS
      <3>2. 1 \in 1 .. n /\ lead + 1 \in 1 .. l
        BY <1>1
      <3>3. part[lead + 1] = name[1] /\ name[1] # space
        BY <1>1, <3>2
      <3>4. lead + 1 \in found
        BY <3>2, <3>3
      <3> QED BY <3>1, <3>4
    <2>3. ASSUME NEW i \in found PROVE lead + 1 <= i
      <3>1. i \in 1 .. l /\ part[i] # space
        OBVIOUS
      <3>2. lead \in 0 .. 1 /\ (lead = 1 => part[1] = space)
        BY <1>1
      <3>3. lead = 1 => i # 1
        BY <3>1, <3>2
      <3> QED BY <3>1, <3>2, <3>3
    <2>4. Min(found) = lead + 1
      <3> HIDE DEF found
      <3> QED BY <2>2, <2>3, MinIs
    <2>5. WithoutSpaces(part) = SubSeq(part, lead + 1, l)
      <3>1. SelectInSeq(part, LAMBDA c : c # " ") = lead + 1
        <4> HIDE DEF found
        <4> QED BY <2>1, <2>2, <2>4 DEF SelectInSeq
      <3>2. lead + 1 # 0
        OBVIOUS
      <3> QED BY <1>0, <3>1, <3>2 DEF WithoutSpaces
    <2>6. /\ SubSeq(part, lead + 1, l) \in Seq(S) /\ Len(SubSeq(part, lead + 1, l)) = n + 1 + v
          /\ \A i \in 1 .. n + 1 + v : SubSeq(part, lead + 1, l)[i] = part[lead + i]
      <3>1. PICK a \in Nat, k \in Nat : a = lead + 1 /\ k = n + 1 + v /\ lead + k = Len(part)
        <4>1. lead + 1 \in Nat /\ n + 1 + v \in Nat /\ lead + (n + 1 + v) = Len(part)
          BY <1>0, <1>1
        <4> QED BY <4>1
      <3>2. a = lead + 1 /\ lead + k = Len(part)
        BY <3>1
      <3>3. LeftFrom(S, part, lead, k, SubSeq(part, a, Len(part)))
        BY <3>2, SubSeqFrom
      <3> QED BY <1>0, <3>1, <3>3 DEF LeftFrom
    <2> QED BY <2>5, <2>6
  <1>3. /\ \A i \in 1 .. n : bare[i] = name[i] /\ bare[i] # equals
        /\ bare[n + 1] = equals
        /\ \A i \in 1 .. v : bare[n + 1 + i] = value[i]
    <2>1. ASSUME NEW i \in 1 .. n PROVE bare[i] = name[i] /\ bare[i] # equals
      <3>1. i \in 1 .. n + 1 + v
        OBVIOUS
      <3> QED BY <1>1, <1>2, <3>1
    <2>2. bare[n + 1] = equals
      BY <1>1, <1>2
    <2>3. ASSUME NEW i \in 1 .. v PROVE bare[n + 1 + i] = value[i]
      <3>1. bare[n + 1 + i] = part[lead + (n + 1 + i)]
        BY <1>2
      <3>2. lead + (n + 1 + i) = lead + n + 1 + i
        OBVIOUS
      <3> QED BY <1>1, <3>1, <3>2
    <2> QED BY <2>1, <2>2, <2>3
  <1>4. SelectInSeq(bare, LAMBDA c : c = "=") = n + 1
    <2> DEFINE found == {i \in 1 .. n + 1 + v : bare[i] = equals}
    <2>1. {i \in 1 .. Len(bare) : bare[i] = "="} = found
      BY <1>2, <1>e
    <2>2. found \in SUBSET Int /\ n + 1 \in found
      BY <1>3
    <2>3. \A i \in found : n + 1 <= i
      BY <1>3
    <2>4. Min(found) = n + 1
      <3> HIDE DEF found
      <3> QED BY <2>2, <2>3, MinIs
    <2>5. found # {}
      BY <2>2
    <2> HIDE DEF found
    <2> QED BY <2>1, <2>4, <2>5 DEF SelectInSeq
  <1>5. SubSeq(bare, 1, n) = name
    <2>3. PICK b \in Nat, a \in Nat : b = 0 /\ a = 1
      OBVIOUS
    <2>4. SubSeq(bare, a, n) = name
      <3>1. b + Len(name) <= Len(bare) /\ a = b + 1 /\ n = b + Len(name)
        BY <1>0, <1>2, <2>3
      <3>2. \A i \in 1 .. Len(name) : bare[b + i] = name[i]
        BY <1>0, <1>3, <2>3
      <3> QED BY <3>1, <3>2, SubSeqIs
    <2> QED BY <2>3, <2>4
  <1>6. SubSeq(bare, n + 2, Len(bare)) = value
    <2>1. PICK b \in Nat, a \in Nat, e \in Nat : b = n + 1 /\ a = n + 2 /\ e = Len(bare)
      <3>1. n + 1 \in Nat /\ n + 2 \in Nat /\ Len(bare) \in Nat
        OBVIOUS
      <3> QED BY <3>1
    <2>2. b + Len(value) <= Len(bare) /\ a = b + 1 /\ e = b + Len(value)
      BY <1>0, <1>2, <2>1
    <2>3. \A i \in 1 .. Len(value) : bare[b + i] = value[i]
      BY <1>0, <1>3, <2>1
    <2>4. SubSeq(bare, a, e) = value
      BY <2>2, <2>3, SubSeqIs
    <2> QED BY <2>1, <2>4
  <1>7. Matches(part, token) <=> name = CookieName /\ TokenMatches(value, token)
    <2>2. Matches(part, token) <=>
              LET eq == SelectInSeq(bare, LAMBDA c : c = "=")
              IN  /\ eq # 0
                  /\ SubSeq(bare, 1, eq - 1) = CookieName
                  /\ TokenMatches(SubSeq(bare, eq + 1, Len(bare)), token)
      BY <1>2 DEF Matches
    <2>3. PICK eq : eq = SelectInSeq(bare, LAMBDA c : c = "=")
      OBVIOUS
    <2>4. eq = n + 1
      BY <1>4, <2>3
    <2>5. Matches(part, token) <=>
                  /\ eq # 0
                  /\ SubSeq(bare, 1, eq - 1) = CookieName
                  /\ TokenMatches(SubSeq(bare, eq + 1, Len(bare)), token)
      BY <2>2, <2>3
    <2>6. eq # 0 /\ eq - 1 = n /\ eq + 1 = n + 2
      BY <2>4
    <2> QED BY <1>5, <1>6, <2>5, <2>6
  <1> QED BY <1>7, TokenIs

\* One of the cookies does.
Finds(text, semicolon, token) ==
    \E start \in Starts(text, semicolon) : Matches(PartAt(text, start, semicolon), token)

\* A header of one cookie.
LEMMA FirstCookie ==
    ASSUME NEW S, NEW text \in Seq(S), NEW name \in Seq(S), NEW value \in Seq(S),
           NEW token \in Seq(S), CookiePart(text, 0, name, value), NEW semicolon,
           \A i \in 1 .. Len(text) : text[i] # semicolon
    PROVE  Finds(text, semicolon, token) <=> name = CookieName /\ value = token
  <1>1. Starts(text, semicolon) = {1} /\ PartAt(text, 1, semicolon) = text
    BY OnePart
  <1>2. PICK lead \in Nat : lead = 0
    OBVIOUS
  <1>3. Matches(text, token) <=> name = CookieName /\ value = token
    BY <1>2, OneCookie
  <1> QED BY <1>1, <1>3 DEF Finds

\* One cookie more.
LEMMA NextCookie ==
    ASSUME NEW S, NEW text \in Seq(S), NEW head \in Seq(S), NEW tail \in Seq(S),
           NEW name \in Seq(S), NEW value \in Seq(S),
           NEW token \in Seq(S), CookiePart(tail, 1, name, value), NEW semicolon,
           Joined(text, head, semicolon, tail)
    PROVE  Finds(text, semicolon, token)
               <=> Finds(head, semicolon, token) \/ (name = CookieName /\ value = token)
  <1>1. /\ Starts(text, semicolon) = Starts(head, semicolon) \cup {Len(head) + 2}
        /\ \A start \in Starts(head, semicolon) :
              PartAt(text, start, semicolon) = PartAt(head, start, semicolon)
        /\ PartAt(text, Len(head) + 2, semicolon) = tail
    BY JoinedParts
  <1>2. PICK lead \in Nat : lead = 1
    OBVIOUS
  <1>3. Matches(tail, token) <=> name = CookieName /\ value = token
    BY <1>2, OneCookie
  <1> QED BY <1>1, <1>3 DEF Finds

\* What CookieHeader writes of a cookie, which has no semicolon in it.
Named(jar, i, S) ==
    /\ jar[i].name \in Seq(S) /\ jar[i].value \in Seq(S)
    /\ Len(jar[i].name) > 0 /\ jar[i].name[1] # " "
    /\ \A k \in 1 .. Len(jar[i].name) : jar[i].name[k] # "=" /\ jar[i].name[k] # ";"
    /\ \A k \in 1 .. Len(jar[i].value) : jar[i].value[k] # ";"
Written(bare) == <<>> \o bare.name \o <<"=">> \o bare.value
WrittenNext(bare) == <<";", " ">> \o bare.name \o <<"=">> \o bare.value

\* So it is with every cookie.
LEMMA CookieNamed ==
    ASSUME NEW jar, NEW i \in DOMAIN jar, IsCookie(jar[i])
    PROVE  Named(jar, i, Characters)
  <1> DEFINE name == jar[i].name
             value == jar[i].value
  <1>1. name \in Seq(STRING) /\ value \in Seq(STRING) /\ name # <<>>
    BY DEF IsCookie
  <1>2. STRING \subseteq Characters
    BY DEF Characters
  <1>3. name \in Seq(Characters) /\ value \in Seq(Characters)
    <2> HIDE DEF name, value
    <2> QED BY <1>1, <1>2, SeqWider
  <1>4. Len(name) > 0
    <2> HIDE DEF name
    <2> QED BY <1>1, EmptySeq
  <1>5. name[1] # " " /\ {"=", ";"} \cap Range(name) = {} /\ ";" \notin Range(value)
    BY DEF IsCookie
  <1>6. \A k \in 1 .. Len(name) : name[k] # "=" /\ name[k] # ";"
    <2>1. \A k \in 1 .. Len(name) : name[k] \in Range(name)
      <3> HIDE DEF name
      <3> QED BY <1>1 DEF Range
    <2> HIDE DEF name
    <2> QED BY <1>5, <2>1
  <1>7. \A k \in 1 .. Len(value) : value[k] # ";"
    <2>1. \A k \in 1 .. Len(value) : value[k] \in Range(value)
      <3> HIDE DEF value
      <3> QED BY <1>1 DEF Range
    <2> HIDE DEF value
    <2> QED BY <1>5, <2>1
  <1> QED BY <1>3, <1>4, <1>5, <1>6, <1>7 DEF Named

\* The first one.
LEMMA WrittenIs ==
    ASSUME NEW jar, NEW i, Named(jar, i, Characters)
    PROVE  /\ Written(jar[i]) \in Seq(Characters)
           /\ CookiePart(Written(jar[i]), 0, jar[i].name, jar[i].value)
           /\ \A k \in 1 .. Len(Written(jar[i])) : Written(jar[i])[k] # ";"
  <1>1. PICK S : S = Characters
    OBVIOUS
  <1>2. PICK semicolon : semicolon = ";"
    OBVIOUS
  <1>3. PICK equals \in S : equals = "=" /\ equals # semicolon
    BY <1>1, <1>2 DEF Characters
  <1>4. PICK name \in Seq(S), value \in Seq(S) : name = jar[i].name /\ value = jar[i].value
    BY <1>1 DEF Named
  <1>5. /\ Len(name) > 0
        /\ \A k \in 1 .. Len(name) : name[k] # equals /\ name[k] # semicolon
        /\ \A k \in 1 .. Len(value) : value[k] # semicolon
    BY <1>2, <1>3, <1>4 DEF Named
  <1>6. name[1] # " "
    BY <1>4 DEF Named
  <1>7. PICK p \in Seq(S) : p = <<>> /\ Len(p) = 0
    BY EmptySeq
  <1>s. PICK space : space = " "
    OBVIOUS
  <1>8. PICK text : text = p \o name \o <<equals>> \o value
    OBVIOUS
  <1>9. FourParts(S, text, p, name, equals, value)
    BY <1>8, FourPartsAre
  <1>10. PICK n \in Nat, v \in Nat : n = Len(name) /\ v = Len(value)
    OBVIOUS
  <1>11. /\ text \in Seq(S)
         /\ Len(text) = n + 1 + v
         /\ \A k \in 1 .. n : text[k] = name[k]
         /\ text[n + 1] = equals
         /\ \A k \in 1 .. v : text[n + 1 + k] = value[k]
    BY <1>7, <1>9, <1>10 DEF FourParts
  <1>12. ASSUME NEW k \in 1 .. n + 1 + v PROVE text[k] # semicolon
    <2>1. CASE k \in 1 .. n
      BY <1>5, <1>10, <1>11, <2>1
    <2>2. CASE k = n + 1
      BY <1>3, <1>11, <2>2
    <2>3. CASE k \in n + 2 .. n + 1 + v
      <3>1. PICK m \in 1 .. v : k = n + 1 + m
        <4>1. k - (n + 1) \in 1 .. v /\ k = n + 1 + (k - (n + 1))
          BY <2>3
        <4> QED BY <4>1
      <3> QED BY <1>5, <1>10, <1>11, <3>1
    <2> QED BY <2>1, <2>2, <2>3
  <1>13. text = Written(jar[i])
    BY <1>3, <1>4, <1>7, <1>8 DEF Written
  <1>14. CookiePart(text, 0, name, value)
    <2>1. PICK lead \in Nat : lead = 0
      OBVIOUS
    <2>2. lead \in 0 .. 1 /\ lead # 1 /\ Len(text) = lead + Len(name) + 1 + Len(value)
      BY <1>10, <1>11, <2>1
    <2>3. \A k \in 1 .. Len(name) : text[lead + k] = name[k] /\ name[k] # equals
      BY <1>5, <1>10, <1>11, <2>1
    <2>4. text[lead + Len(name) + 1] = equals
      BY <1>10, <1>11, <2>1
    <2>5. \A k \in 1 .. Len(value) : text[lead + Len(name) + 1 + k] = value[k]
      BY <1>10, <1>11, <2>1
    <2>6. name[1] # space
      BY <1>6, <1>s
    <2>7. CookiePart(text, lead, name, value)
      <3>1. lead = 1 => text[1] = space
        BY <2>2
      <3>2. lead \in 0 .. 1 /\ Len(text) = lead + Len(name) + 1 + Len(value)
        BY <2>2
      <3>3. Len(name) > 0
        BY <1>5
      <3> QED BY <1>s, <1>3, <2>3, <2>4, <2>5, <2>6, <3>1, <3>2, <3>3 DEF CookiePart
    <2> QED BY <2>1, <2>7
  <1>15. \A k \in 1 .. Len(text) : text[k] # ";"
    BY <1>2, <1>11, <1>12
  <1> QED BY <1>1, <1>4, <1>11, <1>13, <1>14, <1>15

\* And the next ones, behind a semicolon.
LEMMA WrittenNextIs ==
    ASSUME NEW jar, NEW i, Named(jar, i, Characters), NEW head \in Seq(Characters),
           NEW text, text = head \o WrittenNext(jar[i])
    PROVE  \E tail \in Seq(Characters) :
               /\ CookiePart(tail, 1, jar[i].name, jar[i].value)
               /\ Joined(text, head, ";", tail)
  <1>1. PICK S : S = Characters
    OBVIOUS
  <1>2. PICK semicolon \in S : semicolon = ";"
    BY <1>1 DEF Characters
  <1>s. PICK space \in S : space = " " /\ space # semicolon
    BY <1>1, <1>2 DEF Characters
  <1>3. PICK equals \in S : equals = "=" /\ equals # semicolon
    BY <1>1, <1>2 DEF Characters
  <1>4. PICK name \in Seq(S), value \in Seq(S) : name = jar[i].name /\ value = jar[i].value
    BY <1>1 DEF Named
  <1>5. /\ Len(name) > 0
        /\ \A k \in 1 .. Len(name) : name[k] # equals /\ name[k] # semicolon
        /\ \A k \in 1 .. Len(value) : value[k] # semicolon
    BY <1>2, <1>3, <1>4 DEF Named
  <1>6. name[1] # " "
    BY <1>4 DEF Named
  <1>7. PICK p \in Seq(S) : p = <<semicolon, space>> /\ Len(p) = 2 /\ p[1] = semicolon /\ p[2] = space
    <2>1. <<semicolon, space>> \in Seq(S) /\ Len(<<semicolon, space>>) = 2
      OBVIOUS
    <2>2. <<semicolon, space>>[1] = semicolon /\ <<semicolon, space>>[2] = space
      OBVIOUS
    <2> QED BY <2>1, <2>2
  <1>8. PICK piece : piece = p \o name \o <<equals>> \o value
    OBVIOUS
  <1>9. FourParts(S, piece, p, name, equals, value)
    BY <1>8, FourPartsAre
  <1>10. PICK n \in Nat, v \in Nat : n = Len(name) /\ v = Len(value)
    OBVIOUS
  <1>11. /\ piece \in Seq(S)
         /\ Len(piece) = 2 + n + 1 + v
         /\ piece[1] = semicolon /\ piece[2] = space
         /\ \A k \in 1 .. n : piece[2 + k] = name[k]
         /\ piece[2 + n + 1] = equals
         /\ \A k \in 1 .. v : piece[2 + n + 1 + k] = value[k]
    BY <1>7, <1>9, <1>10 DEF FourParts
  <1>12. piece = WrittenNext(jar[i])
    BY <1>2, <1>s, <1>3, <1>4, <1>7, <1>8 DEF WrittenNext
  <1>13. PICK tail \in Seq(S) : /\ Len(tail) = 1 + n + 1 + v
                                /\ \A k \in 1 .. 1 + n + 1 + v : tail[k] = piece[1 + k]
    <2>1. PICK one \in Nat, two \in Nat, l \in Nat :
              one = 1 /\ two = one + 1 /\ l = 1 + n + 1 + v /\ one + l = Len(piece)
      <3>1. 1 \in Nat /\ 2 \in Nat /\ 1 + n + 1 + v \in Nat /\ 1 + (1 + n + 1 + v) = Len(piece)
        BY <1>11
      <3> QED BY <3>1
    <2>2. one + l = Len(piece) /\ two = one + 1
      BY <2>1
    <2>3. LeftFrom(S, piece, one, l, SubSeq(piece, two, Len(piece)))
      BY <1>11, <2>2, SubSeqFrom
    <2> QED BY <2>1, <2>3 DEF LeftFrom
  <1>14. /\ tail[1] = space
         /\ \A k \in 1 .. n : tail[1 + k] = name[k]
         /\ tail[1 + n + 1] = equals
         /\ \A k \in 1 .. v : tail[1 + n + 1 + k] = value[k]
    <2>1. tail[1] = space
      BY <1>11, <1>13
    <2>2. ASSUME NEW k \in 1 .. n PROVE tail[1 + k] = name[k]
      <3>1. tail[1 + k] = piece[1 + (1 + k)] /\ 1 + (1 + k) = 2 + k
        BY <1>13
      <3> QED BY <1>11, <3>1
    <2>3. tail[1 + n + 1] = equals
      <3>1. tail[1 + n + 1] = piece[1 + (1 + n + 1)] /\ 1 + (1 + n + 1) = 2 + n + 1
        BY <1>13
      <3> QED BY <1>11, <3>1
    <2>4. ASSUME NEW k \in 1 .. v PROVE tail[1 + n + 1 + k] = value[k]
      <3>1. tail[1 + n + 1 + k] = piece[1 + (1 + n + 1 + k)] /\ 1 + (1 + n + 1 + k) = 2 + n + 1 + k
        BY <1>13
      <3> QED BY <1>11, <3>1
    <2> QED BY <2>1, <2>2, <2>3, <2>4
  <1>15. ASSUME NEW k \in 1 .. 1 + n + 1 + v PROVE tail[k] # semicolon
    <2>1. CASE k = 1
      BY <1>s, <1>14, <2>1
    <2>2. CASE k \in 2 .. n + 1
      <3>1. PICK m \in 1 .. n : k = 1 + m
        <4>1. k - 1 \in 1 .. n /\ k = 1 + (k - 1)
          BY <2>2
        <4> QED BY <4>1
      <3> QED BY <1>5, <1>10, <1>14, <3>1
    <2>3. CASE k = n + 2
      <3>1. k = 1 + n + 1
        BY <2>3
      <3> QED BY <1>3, <1>14, <3>1
    <2>4. CASE k \in n + 3 .. 1 + n + 1 + v
      <3>1. PICK m \in 1 .. v : k = 1 + n + 1 + m
        <4>1. k - (1 + n + 1) \in 1 .. v /\ k = 1 + n + 1 + (k - (1 + n + 1))
          BY <2>4
        <4> QED BY <4>1
      <3> QED BY <1>5, <1>10, <1>14, <3>1
    <2> QED BY <2>1, <2>2, <2>3, <2>4
  <1>16. CookiePart(tail, 1, name, value)
    <2>1. PICK lead \in Nat : lead = 1
      OBVIOUS
    <2>2. /\ lead \in 0 .. 1
          /\ tail[1] = space
          /\ Len(tail) = lead + Len(name) + 1 + Len(value)
          /\ \A k \in 1 .. Len(name) : tail[lead + k] = name[k] /\ name[k] # equals
          /\ tail[lead + Len(name) + 1] = equals
          /\ \A k \in 1 .. Len(value) : tail[lead + Len(name) + 1 + k] = value[k]
      BY <1>5, <1>10, <1>13, <1>14, <2>1
    <2>3. CookiePart(tail, lead, name, value)
      BY <1>s, <1>3, <1>5, <1>6, <2>2 DEF CookiePart
    <2> QED BY <2>1, <2>3
  <1>17. Joined(text, head, semicolon, tail)
    <2>1. PICK h \in Seq(S) : h = head
      BY <1>1
    <2>2. text = h \o piece
      BY <1>12, <2>1
    <2>3. Len(text) = Len(h) + Len(piece)
      BY <1>11, <2>2, ConcatIs
    <2>4. \A k \in 1 .. Len(h) : text[k] = h[k]
      BY <1>11, <2>2, ConcatIs
    <2>5. \A k \in 1 .. Len(piece) : text[Len(h) + k] = piece[k]
      BY <1>11, <2>2, ConcatIs
    <2>6. PICK l \in Nat : l = Len(h)
      OBVIOUS
    <2>7. Len(text) = l + 1 + Len(tail)
      BY <1>11, <1>13, <2>3, <2>6
    <2>8. text[l + 1] = semicolon
      <3>1. 1 \in 1 .. Len(piece)
        BY <1>11
      <3> QED BY <1>11, <2>5, <2>6, <3>1
    <2>9. ASSUME NEW k \in 1 .. Len(tail) PROVE text[l + 1 + k] = tail[k] /\ tail[k] # semicolon
      <3>1. k \in 1 .. 1 + n + 1 + v
        BY <1>13
      <3>2. 1 + k \in 1 .. Len(piece) /\ l + (1 + k) = l + 1 + k
        BY <1>11, <3>1
      <3>3. text[l + 1 + k] = piece[1 + k]
        BY <2>5, <2>6, <3>2
      <3> QED BY <1>13, <1>15, <3>1, <3>3
    <2> QED BY <2>1, <2>4, <2>6, <2>7, <2>8, <2>9 DEF Joined
  <1> QED BY <1>1, <1>2, <1>4, <1>16, <1>17

\* A Cookie header passes exactly if the cookie is one of the client's, wherever it is
\* and whatever the others are called and contain.
THEOREM CookieFound ==
    ASSUME NEW jar \in Seq([name : Seq(STRING), value : Seq(STRING)]),
           \A i \in DOMAIN jar : IsCookie(jar[i]),
           NEW token \in Seq(STRING)
    PROVE  /\ CookieHeader(jar) \in Seq(Characters)
           /\ CookieMatches(CookieHeader(jar), token)
               <=> \E i \in DOMAIN jar : jar[i].name = CookieName /\ jar[i].value = token
  <1>1. PICK S : S = Characters
    OBVIOUS
  <1>2. token \in Seq(S)
    <2>1. STRING \subseteq Characters
      BY DEF Characters
    <2> QED BY <1>1, <2>1, SeqWider
  <1>3. PICK semicolon : semicolon = ";"
    OBVIOUS
  <1>4. PICK n \in Nat : n = Len(jar) /\ DOMAIN jar = 1 .. n
    OBVIOUS
  <1>5. \A i \in 1 .. n : Named(jar, i, Characters)
    BY <1>4, CookieNamed
  <1> DEFINE Right(i) == jar[i].name = CookieName /\ jar[i].value = token
             Found(text) == Finds(text, semicolon, token)
             seqs == [i \in DOMAIN jar |->
                 (IF i = 1 THEN <<>> ELSE <<";", " ">>) \o jar[i].name \o <<"=">> \o jar[i].value]
  <1>6. CookieHeader(jar) = FlattenSeq(seqs)
    BY DEF CookieHeader
  <1>7. \A text : CookieMatches(text, token) <=> Found(text)
    BY <1>3 DEF CookieMatches, Matches, Finds
  <1>8. \A i \in 1 .. n : seqs[i] = IF i = 1 THEN Written(jar[i]) ELSE WrittenNext(jar[i])
    BY <1>4 DEF Written, WrittenNext
  <1>9. Len(seqs) = n
    BY <1>4
  <1>10. CASE n = 0
    <2>1. FlattenSeq(seqs) = <<>>
      <3>1. seqs = <<>>
        <4>1. DOMAIN jar = {}
          BY <1>4, <1>10
        <4> QED BY <4>1
      <3>2. Len(seqs) = 0
        BY <1>9, <1>10
      <3> HIDE DEF seqs
      <3> QED BY <3>1, <3>2 DEF FlattenSeq
    <2>2. ~Found(<<>>)
      <3>1. PICK s \in Seq(S) : s = <<>> /\ Len(s) = 0
        BY EmptySeq
      <3>2. Starts(s, semicolon) = {1} /\ PartAt(s, 1, semicolon) = s
        <4>1. \A i \in 1 .. Len(s) : s[i] # semicolon
          BY <3>1
        <4> QED BY <4>1, OnePart
      <3>3. ~Matches(s, token)
        <4>1. WithoutSpaces(s) = <<>>
          BY <3>1 DEF WithoutSpaces, SelectInSeq
        <4>2. SelectInSeq(s, LAMBDA c : c = "=") = 0
          BY <3>1 DEF SelectInSeq
        <4> QED BY <3>1, <4>1, <4>2 DEF Matches
      <3> HIDE DEF seqs
      <3> QED BY <3>1, <3>2, <3>3 DEF Finds
    <2>3. <<>> \in Seq(S)
      BY EmptySeq
    <2>4. DOMAIN jar = {}
      BY <1>4, <1>10
    <2> HIDE DEF Found, seqs
    <2> QED BY <1>1, <1>6, <1>7, <2>1, <2>2, <2>3, <2>4
  <1>11. CASE n # 0
    <2> HIDE DEF seqs
    <2>1. \A i \in 1 .. n : seqs[i] \in Seq(S)
      <3> SUFFICES ASSUME NEW i \in 1 .. n PROVE seqs[i] \in Seq(S)
        OBVIOUS
      <3>1. Named(jar, i, Characters)
        BY <1>5
      <3>2. Written(jar[i]) \in Seq(S)
        BY <1>1, <3>1, WrittenIs
      <3>3. WrittenNext(jar[i]) \in Seq(S)
        <4>1. PICK semi \in S, space \in S, equals \in S : semi = ";" /\ space = " " /\ equals = "="
          BY <1>1 DEF Characters
        <4>2. PICK name \in Seq(S), value \in Seq(S) : name = jar[i].name /\ value = jar[i].value
          BY <1>1, <3>1 DEF Named
        <4>3. WrittenNext(jar[i]) = <<semi, space>> \o name \o <<equals>> \o value
          BY <4>1, <4>2 DEF WrittenNext
        <4>4. PICK p \in Seq(S) : p = <<semi, space>>
          <5>1. <<semi, space>> \in Seq(S)
            OBVIOUS
          <5> QED BY <5>1
        <4>5. FourParts(S, p \o name \o <<equals>> \o value, p, name, equals, value)
          BY FourPartsAre
        <4> QED BY <4>3, <4>4, <4>5 DEF FourParts
      <3> QED BY <1>8, <3>2, <3>3
    <2>2. PICK f : OneByOne(S, n, seqs, f)
      BY <1>9, <1>11, <2>1, FlattenSteps
    <2>3. /\ \A i \in 1 .. n : f[i] \in Seq(S)
          /\ f[1] = seqs[1]
          /\ \A i \in 1 .. n - 1 : f[i + 1] = f[i] \o seqs[i + 1]
          /\ FlattenSeq(seqs) = f[n]
      BY <2>2 DEF OneByOne
    <2> DEFINE ok == {k \in Nat : k < n => (Found(f[k + 1]) <=> \E i \in 1 .. k + 1 : Right(i))}
    <2>4. 0 \in ok
      <3>1. 1 \in 1 .. n /\ seqs[1] = Written(jar[1])
        BY <1>8, <1>11
      <3>2. PICK name \in Seq(S), value \in Seq(S) : name = jar[1].name /\ value = jar[1].value
        BY <1>1, <1>5, <3>1 DEF Named
      <3>3. Named(jar, 1, Characters)
        BY <1>5, <3>1
      <3>4. PICK text \in Seq(S) : text = f[1]
        BY <2>3, <3>1
      <3>5. CookiePart(text, 0, name, value) /\ \A k \in 1 .. Len(text) : text[k] # semicolon
        BY <1>3, <2>3, <3>1, <3>2, <3>3, <3>4, WrittenIs
      <3>6. Found(text) <=> name = CookieName /\ value = token
        BY <1>2, <3>5, FirstCookie
      <3>7. Found(f[1]) <=> Right(1)
        BY <3>2, <3>4, <3>6
      <3> HIDE DEF Found, Right
      <3> QED BY <3>7
    <2>5. \A k \in Nat : k \in ok => k + 1 \in ok
      <3> HIDE DEF Found, Right
      <3> SUFFICES ASSUME NEW k \in Nat, k \in ok, k + 1 < n
                   PROVE  Found(f[k + 1 + 1]) <=> \E i \in 1 .. k + 1 + 1 : Right(i)
        OBVIOUS
      <3> USE DEF Found, Right
      <3>1. PICK m \in 1 .. n - 1 : m = k + 1
        OBVIOUS
      <3>2. PICK j \in 1 .. n : j = m + 1 /\ m \in 1 .. n
        OBVIOUS
      <3>3. Found(f[m]) <=> \E i \in 1 .. m : Right(i)
        BY <3>1
      <3>4. Named(jar, j, Characters) /\ seqs[j] = WrittenNext(jar[j])
        BY <1>5, <1>8, <3>2
      <3>5. PICK name \in Seq(S), value \in Seq(S) : name = jar[j].name /\ value = jar[j].value
        BY <1>1, <3>4 DEF Named
      <3>6. PICK text \in Seq(S), head \in Seq(S) : text = f[j] /\ head = f[m]
        BY <2>3, <3>2
      <3>7. text = head \o WrittenNext(jar[j])
        BY <2>3, <3>2, <3>4, <3>6
      <3>8. PICK tail \in Seq(S) : CookiePart(tail, 1, name, value) /\ Joined(text, head, semicolon, tail)
        BY <1>1, <1>3, <3>4, <3>5, <3>7, WrittenNextIs
      <3>9. Found(text) <=> Found(head) \/ (name = CookieName /\ value = token)
        BY <1>2, <3>8, NextCookie
      <3>10. Found(f[j]) <=> Found(f[m]) \/ Right(j)
        BY <3>5, <3>6, <3>9
      <3> HIDE DEF Found, Right
      <3>11. (\E i \in 1 .. j : Right(i)) <=> (\E i \in 1 .. m : Right(i)) \/ Right(j)
        BY <3>2
      <3> QED BY <3>1, <3>2, <3>3, <3>10, <3>11
    <2>6. PICK k \in Nat : k + 1 = n /\ k < n
      <3>1. n - 1 \in Nat /\ n - 1 + 1 = n /\ n - 1 < n
        BY <1>11
      <3> QED BY <3>1
    <2>7. k \in ok
      <3> HIDE DEF ok
      <3> QED BY <2>4, <2>5, Inductive
    <2>8. Found(f[n]) <=> \E i \in 1 .. n : Right(i)
      BY <2>6, <2>7
    <2>9. f[n] \in Seq(S)
      BY <1>11, <2>3
    <2> HIDE DEF Found
    <2> QED BY <1>1, <1>4, <1>6, <1>7, <2>3, <2>8, <2>9
  <1> QED BY <1>10, <1>11

-----------------------------------------------------------------------------
\* Where an element of a sequence without repetitions is found.
Place(s, c) == SelectInSeq(s, LAMBDA d : d = c)
LEMMA IndexIs ==
    ASSUME NEW S, NEW s \in Seq(S), IsInjective(s), NEW p \in 1 .. Len(s), NEW c, c = s[p]
    PROVE  Place(s, c) = p
  <1> DEFINE found == {i \in 1 .. Len(s) : s[i] = c}
  <1>1. found \in SUBSET Int /\ p \in found
    OBVIOUS
  <1>2. \A i \in found : p <= i
    <2> SUFFICES ASSUME NEW i \in found PROVE i = p
      OBVIOUS
    <2>1. i \in DOMAIN s /\ p \in DOMAIN s /\ s[i] = s[p]
      OBVIOUS
    <2> QED BY <2>1 DEF IsInjective
  <1>3. Min(found) = p
    <2> HIDE DEF found
    <2> QED BY <1>1, <1>2, MinIs
  <1>4. found # {}
    BY <1>1
  <1> QED BY <1>3, <1>4 DEF SelectInSeq, Place

\* The character of a code of two digits is found again.
LEMMA EscapedIs ==
    ASSUME NEW c \in Range(Codes)
    PROVE  \E h \in Range(HexDigits), l \in Range(HexDigits) :
               /\ Escaped(c) = <<"%", h, l>>
               /\ Codes[HexValue(h) * Len(HexDigits) + HexValue(l) + 1] = c
  <1>1. PICK S : S = STRING
    OBVIOUS
  <1>2. /\ Codes \in Seq(S) /\ HexDigits \in Seq(S)
        /\ Len(Codes) = Len(HexDigits) * Len(HexDigits)
        /\ IsInjective(Codes) /\ IsInjective(HexDigits)
    BY <1>1, CodesAssumption
  <1>3. PICK p \in 1 .. Len(Codes) : Codes[p] = c
    BY <1>2 DEF Range
  <1>4. Place(Codes, c) = p
    BY <1>2, <1>3, IndexIs
  <1>5. PICK base \in Nat : base = Len(HexDigits)
    BY <1>2
  <1>6. PICK code \in Nat : code = p - 1 /\ code < base * base
    <2>1. PICK size \in Nat : size = base * base
      OBVIOUS
    <2>2. p \in 1 .. size
      BY <1>2, <1>3, <1>5, <2>1
    <2>3. p - 1 \in Nat /\ p - 1 < size
      BY <2>2
    <2> QED BY <2>1, <2>3
  <1>7. base # 0
    <2>1. CASE base = 0
      <3>1. base * base = 0
        BY <2>1
      <3> QED BY <1>6, <3>1
    <2> QED BY <2>1
  <1>8. PICK x \in 0 .. base - 1, y \in 0 .. base - 1 :
            x = code \div base /\ y = code % base /\ x * base + y = code
    <2>1. code % base \in 0 .. base - 1
      BY <1>7
    <2>2. code \div base \in 0 .. base - 1
      BY <1>6, <1>7
    <2>3. (code \div base) * base + (code % base) = code
      BY <1>7
    <2> QED BY <2>1, <2>2, <2>3
  <1>9. PICK h, l : h = HexDigits[x + 1] /\ l = HexDigits[y + 1]
    OBVIOUS
  <1>10. x + 1 \in 1 .. Len(HexDigits) /\ y + 1 \in 1 .. Len(HexDigits)
    BY <1>5
  <1>11. h \in Range(HexDigits) /\ l \in Range(HexDigits)
    BY <1>2, <1>9, <1>10 DEF Range
  <1>12. HexValue(h) = x /\ HexValue(l) = y
    <2>1. Place(HexDigits, h) = x + 1
      BY <1>2, <1>9, <1>10, IndexIs
    <2>2. Place(HexDigits, l) = y + 1
      BY <1>2, <1>9, <1>10, IndexIs
    <2>3. x + 1 - 1 = x /\ y + 1 - 1 = y
      OBVIOUS
    <2> QED BY <2>1, <2>2, <2>3 DEF HexValue, Place
  <1>13. Escaped(c) = <<"%", h, l>>
    BY <1>4, <1>5, <1>6, <1>8, <1>9 DEF Escaped, Place
  <1>14. Codes[HexValue(h) * Len(HexDigits) + HexValue(l) + 1] = c
    <2>1. HexValue(h) * Len(HexDigits) + HexValue(l) = code
      BY <1>5, <1>8, <1>12
    <2>2. code + 1 = p
      BY <1>6
    <2> QED BY <1>3, <2>1, <2>2
  <1> QED BY <1>11, <1>13, <1>14

-----------------------------------------------------------------------------
\* One round of the decoding loop, when the rest is decoded.
Decode(value, decoded, j) ==
    IF j > Len(value) THEN <<>>
    ELSE IF value[j] = "+" THEN <<" ">> \o decoded[j + 1]
    ELSE IF value[j] # "%" THEN <<value[j]>> \o decoded[j + 1]
    ELSE IF ~IsEscape(value, j) THEN <<Malformed>>
    ELSE <<Codes[HexValue(value[j + 1]) * Len(HexDigits) + HexValue(value[j + 2]) + 1]>>
            \o decoded[j + 3]

\* It looks at no other places of the rest.
LEMMA DecodeLooks ==
    ASSUME NEW value, NEW N \in Nat, N = Len(value), NEW f, NEW g, NEW j \in Nat,
           \A i \in j + 1 .. N + 1 : f[i] = g[i]
    PROVE  Decode(value, f, j) = Decode(value, g, j)
  <1>1. CASE j > N
    BY <1>1 DEF Decode
  <1>2. CASE j <= N
    <2>1. f[j + 1] = g[j + 1]
      BY <1>2
    <2>2. IsEscape(value, j) => f[j + 3] = g[j + 3]
      <3> SUFFICES ASSUME IsEscape(value, j) PROVE f[j + 3] = g[j + 3]
        OBVIOUS
      <3>1. j + 2 <= N
        BY DEF IsEscape
      <3> QED BY <1>2, <3>1
    <2> QED BY <2>1, <2>2 DEF Decode
  <1> QED BY <1>1, <1>2

\* So the loop is a function of where it is.
LEMMA DecodesFrom ==
    ASSUME NEW value, NEW N \in Nat, N = Len(value)
    PROVE  \E f : f = [j \in 1 .. N + 1 |-> Decode(value, f, j)]
  <1> DEFINE Decodes(f, k) == \A j \in k + 1 .. N + 1 : f[j] = Decode(value, f, j)
             from == {n \in Nat : n <= N => \E f : Decodes(f, N - n)}
  <1>1. 0 \in from
    <2> DEFINE f == [j \in {N + 1} |-> <<>>]
    <2>1. Decodes(f, N)
      <3> SUFFICES ASSUME NEW j \in N + 1 .. N + 1 PROVE f[j] = Decode(value, f, j)
        OBVIOUS
      <3>1. j = N + 1 /\ j > Len(value)
        OBVIOUS
      <3>2. Decode(value, f, j) = <<>>
        BY <3>1 DEF Decode
      <3> QED BY <3>1, <3>2
    <2>2. N - 0 = N
      OBVIOUS
    <2> HIDE DEF Decodes, f
    <2> QED BY <2>1, <2>2
  <1>2. \A n \in Nat : n \in from => n + 1 \in from
    <2> HIDE DEF Decodes
    <2> SUFFICES ASSUME NEW n \in Nat, n \in from, n + 1 <= N PROVE \E f : Decodes(f, N - (n + 1))
      OBVIOUS
    <2> USE DEF Decodes
    <2>1. PICK k \in Nat : k + 1 = N - n /\ k = N - (n + 1) /\ k + 1 \in Nat /\ k < N
      <3>1. N - (n + 1) \in Nat /\ N - (n + 1) + 1 = N - n /\ N - (n + 1) < N
        OBVIOUS
      <3> QED BY <3>1
    <2>2. PICK f : Decodes(f, k + 1)
      <3>1. n <= N
        OBVIOUS
      <3> QED BY <2>1, <3>1
    <2> DEFINE g == [j \in k + 1 .. N + 1 |-> IF j = k + 1 THEN Decode(value, f, j) ELSE f[j]]
    <2>3. \A j \in k + 1 .. N + 1 : g[j] = IF j = k + 1 THEN Decode(value, f, j) ELSE f[j]
      OBVIOUS
    <2> HIDE DEF g
    <2>4. \A i \in k + 1 + 1 .. N + 1 : f[i] = g[i]
      <3> SUFFICES ASSUME NEW i \in k + 1 + 1 .. N + 1 PROVE f[i] = g[i]
        OBVIOUS
      <3>1. i \in k + 1 .. N + 1 /\ i # k + 1
        BY <2>1
      <3> QED BY <2>3, <3>1
    <2>5. Decodes(g, k)
      <3> SUFFICES ASSUME NEW j \in k + 1 .. N + 1 PROVE g[j] = Decode(value, g, j)
        OBVIOUS
      <3>1. Decode(value, f, j) = Decode(value, g, j)
        <4>1. \A i \in j + 1 .. N + 1 : f[i] = g[i]
          <5> SUFFICES ASSUME NEW i \in j + 1 .. N + 1 PROVE f[i] = g[i]
            OBVIOUS
          <5>1. i \in k + 1 + 1 .. N + 1
            BY <2>1
          <5> QED BY <2>4, <5>1
        <4>2. j \in Nat
          BY <2>1
        <4> QED BY <4>1, <4>2, DecodeLooks
      <3>2. CASE j = k + 1
        BY <2>3, <3>1, <3>2
      <3>3. CASE j # k + 1
        <4>1. j \in k + 1 + 1 .. N + 1
          BY <2>1, <3>3
        <4>2. f[j] = Decode(value, f, j)
          BY <2>2, <4>1
        <4> QED BY <2>3, <3>1, <3>3, <4>2
      <3> QED BY <3>2, <3>3
    <2> HIDE DEF Decodes
    <2> QED BY <2>1, <2>5
  <1>3. N \in from
    <2> HIDE DEF from
    <2> QED BY <1>1, <1>2, Inductive
  <1>4. PICK f : Decodes(f, 0)
    <2>1. N <= N /\ N - N = 0
      OBVIOUS
    <2> HIDE DEF Decodes
    <2> QED BY <1>3, <2>1
  <1> DEFINE g == [j \in 1 .. N + 1 |-> f[j]]
  <1>5. \A j \in 1 .. N + 1 : g[j] = f[j]
    OBVIOUS
  <1>6. g = [j \in 1 .. N + 1 |-> g[j]]
    OBVIOUS
  <1> HIDE DEF g
  <1>7. \A j \in 1 .. N + 1 : g[j] = Decode(value, g, j)
    <2> SUFFICES ASSUME NEW j \in 1 .. N + 1 PROVE g[j] = Decode(value, g, j)
      OBVIOUS
    <2>1. g[j] = Decode(value, f, j)
      BY <1>4, <1>5
    <2>2. Decode(value, f, j) = Decode(value, g, j)
      <3>1. j \in Nat /\ \A i \in j + 1 .. N + 1 : f[i] = g[i]
        BY <1>5
      <3> QED BY <3>1, DecodeLooks
    <2> QED BY <2>1, <2>2
  <1>8. [j \in 1 .. N + 1 |-> g[j]] = [j \in 1 .. N + 1 |-> Decode(value, g, j)]
    BY <1>7
  <1> QED BY <1>6, <1>8

-----------------------------------------------------------------------------
\* What Decoded is.
Rounds(value, d) ==
    /\ \A j \in 1 .. Len(value) + 1 : d[j] = Decode(value, d, j)
    /\ Decoded(value) = d[1]
LEMMA DecodedIs ==
    ASSUME NEW value, NEW N \in Nat, N = Len(value)
    PROVE  \E d : Rounds(value, d)
  <1> DEFINE d == CHOOSE f : f = [j \in 1 .. Len(value) + 1 |-> Decode(value, f, j)]
  <1>1. d = [j \in 1 .. Len(value) + 1 |-> Decode(value, d, j)]
    BY DecodesFrom
  <1>2. Decoded(value) = d[1]
    BY DEF Decoded, Decode
  <1> HIDE DEF d
  <1>3. \A j \in 1 .. Len(value) + 1 : d[j] = Decode(value, d, j)
    BY <1>1
  <1> QED BY <1>2, <1>3 DEF Rounds

\* What FormText writes of a character.
Piece(c, everything) ==
    IF everything \/ c \in {NUL, "%", "&", "+"} THEN Escaped(c)
    ELSE IF c = " " THEN <<"+">> ELSE <<c>>
\* Where it is found in a text.
PieceAt(value, j, piece) ==
    /\ j + Len(piece) <= Len(value) + 1
    /\ \A k \in 1 .. Len(piece) : value[j - 1 + k] = piece[k]

\* It is decoded as that character, and the loop goes on behind it.
GoesOn(d, j, c, piece) == Len(piece) \in Nat /\ d[j] = <<c>> \o d[j + Len(piece)]
LEMMA PieceDecoded ==
    ASSUME NEW value, NEW N \in Nat, N = Len(value), NEW d, Rounds(value, d),
           NEW c \in Range(Codes), NEW everything \in BOOLEAN, NEW j \in Nat \ {0},
           PieceAt(value, j, Piece(c, everything))
    PROVE  GoesOn(d, j, c, Piece(c, everything))
  <1>1. CASE everything \/ c \in {NUL, "%", "&", "+"}
    <2>1. PICK h \in Range(HexDigits), l \in Range(HexDigits) :
              /\ Escaped(c) = <<"%", h, l>>
              /\ Codes[HexValue(h) * Len(HexDigits) + HexValue(l) + 1] = c
      BY EscapedIs
    <2>2. PICK piece : piece = <<"%", h, l>> /\ piece = Piece(c, everything)
      BY <1>1, <2>1 DEF Piece
    <2>3. Len(piece) = 3 /\ piece[1] = "%" /\ piece[2] = h /\ piece[3] = l
      BY <2>2
    <2>4. j + 3 <= N + 1 /\ \A k \in 1 .. 3 : value[j - 1 + k] = piece[k]
      BY <2>2, <2>3 DEF PieceAt
    <2>5. j - 1 + 1 = j /\ j - 1 + 2 = j + 1 /\ j - 1 + 3 = j + 2
      OBVIOUS
    <2>6. value[j] = "%" /\ value[j + 1] = h /\ value[j + 2] = l
      <3>1. value[j - 1 + 1] = piece[1] /\ value[j - 1 + 2] = piece[2] /\ value[j - 1 + 3] = piece[3]
        BY <2>4
      <3> QED BY <2>3, <2>5, <3>1
    <2>7. IsEscape(value, j)
      <3>1. j + 2 <= Len(value)
        BY <2>4
      <3>2. \A k \in 1 .. 2 : value[j + k] \in Range(HexDigits)
        BY <2>6
      <3> QED BY <3>1, <3>2 DEF IsEscape
    <2>8. j \in 1 .. Len(value) + 1 /\ ~(j > Len(value))
      BY <2>4
    <2>9. d[j] = Decode(value, d, j)
      BY <2>8 DEF Rounds
    <2>10. Decode(value, d, j) =
              <<Codes[HexValue(value[j + 1]) * Len(HexDigits) + HexValue(value[j + 2]) + 1]>>
                  \o d[j + 3]
      BY <2>6, <2>7, <2>8 DEF Decode
    <2>11. d[j] = <<c>> \o d[j + 3]
      BY <2>1, <2>6, <2>9, <2>10
    <2> QED BY <2>2, <2>3, <2>11 DEF GoesOn
  <1>2. CASE ~everything /\ c \notin {NUL, "%", "&", "+"}
    <2>1. PICK x : x = IF c = " " THEN "+" ELSE c
      OBVIOUS
    <2>2. PICK piece : piece = <<x>> /\ piece = Piece(c, everything)
      BY <1>2, <2>1 DEF Piece
    <2>3. Len(piece) = 1 /\ piece[1] = x
      BY <2>2
    <2>4. j + 1 <= N + 1 /\ value[j - 1 + 1] = x
      BY <2>2, <2>3 DEF PieceAt
    <2>5. value[j] = x
      <3>1. j - 1 + 1 = j
        OBVIOUS
      <3> QED BY <2>4, <3>1
    <2>6. j \in 1 .. Len(value) + 1 /\ ~(j > Len(value))
      BY <2>4
    <2>7. d[j] = Decode(value, d, j)
      BY <2>6 DEF Rounds
    <2>8. d[j] = <<c>> \o d[j + 1]
      <3>1. CASE c = " "
        <4>1. value[j] = "+"
          BY <2>1, <2>5, <3>1
        <4>2. Decode(value, d, j) = <<" ">> \o d[j + 1]
          BY <2>6, <4>1 DEF Decode
        <4> QED BY <2>7, <3>1, <4>2
      <3>2. CASE c # " "
        <4>1. value[j] = c /\ c # "+" /\ c # "%"
          BY <1>2, <2>1, <2>5, <3>2
        <4>2. Decode(value, d, j) = <<value[j]>> \o d[j + 1]
          BY <2>6, <4>1 DEF Decode
        <4> QED BY <2>7, <4>1, <4>2
      <3> QED BY <3>1, <3>2
    <2> QED BY <2>2, <2>3, <2>8 DEF GoesOn
  <1> QED BY <1>1, <1>2

\* Pieces are text without an "&".
Unseparated == Characters \ {"&"}
LEMMA PieceIs ==
    ASSUME NEW c \in Range(Codes), NEW everything \in BOOLEAN
    PROVE  Piece(c, everything) \in Seq(Unseparated)
  <1>1. PICK S : S = Unseparated
    OBVIOUS
  <1>2. c \in STRING /\ Range(HexDigits) \subseteq STRING
    <2>1. PICK T : T = STRING
      OBVIOUS
    <2>2. Codes \in Seq(T) /\ HexDigits \in Seq(T)
      BY <2>1, CodesAssumption
    <2>3. c \in T /\ Range(HexDigits) \subseteq T
      BY <2>2 DEF Range
    <2> QED BY <2>1, <2>3
  <1>3. CASE everything \/ c \in {NUL, "%", "&", "+"}
    <2>1. PICK h \in Range(HexDigits), l \in Range(HexDigits) : Escaped(c) = <<"%", h, l>>
      BY EscapedIs
    <2>2. PICK p \in S : p = "%"
      BY <1>1 DEF Unseparated, Characters
    <2>3. h \in S /\ l \in S
      BY <1>1, <1>2, CodesAssumption DEF Unseparated, Characters
    <2>4. <<p, h, l>> \in Seq(S)
      BY <2>3
    <2> QED BY <1>1, <1>3, <2>1, <2>2, <2>4 DEF Piece
  <1>4. CASE ~everything /\ c \notin {NUL, "%", "&", "+"}
    <2>1. PICK x \in S : x = IF c = " " THEN "+" ELSE c
      BY <1>1, <1>2, <1>4 DEF Unseparated, Characters
    <2>2. <<x>> \in Seq(S)
      OBVIOUS
    <2>3. Piece(c, everything) = <<x>>
      BY <1>4, <2>1 DEF Piece
    <2> QED BY <1>1, <2>2, <2>3
  <1> QED BY <1>3, <1>4

-----------------------------------------------------------------------------
\* A field is decoded as what was typed into it, whatever the browser escaped
\* (auth_form_password's loop).
THEOREM FormTextDecoded ==
    ASSUME NEW typed \in Seq(Range(Codes)), NEW everything \in BOOLEAN
    PROVE  /\ FormText(typed, everything) \in Seq(Unseparated)
           /\ Decoded(FormText(typed, everything)) = typed
  <1>1. PICK C : C = Range(Codes)
    OBVIOUS
  <1>2. PICK n \in Nat : n = Len(typed) /\ DOMAIN typed = 1 .. n
    OBVIOUS
  <1>3. PICK S : S = Unseparated
    OBVIOUS
  <1> DEFINE seqs == [i \in DOMAIN typed |-> Piece(typed[i], everything)]
             value == FormText(typed, everything)
  <1>4. value = FlattenSeq(seqs)
    BY DEF FormText, Piece
  <1>5. Len(seqs) = n /\ \A i \in 1 .. n : seqs[i] = Piece(typed[i], everything)
    BY <1>2
  <1>6. n = 0 => seqs = <<>>
    BY <1>2
  <1> HIDE DEF seqs
  <1>7. \A i \in 1 .. n : seqs[i] \in Seq(S)
    BY <1>2, <1>3, <1>5, PieceIs
  <1>b. \A i \in 1 .. n : Len(seqs[i]) \in Nat
    <2> SUFFICES ASSUME NEW i \in 1 .. n PROVE Len(seqs[i]) \in Nat
      OBVIOUS
    <2>1. PICK piece \in Seq(S) : piece = seqs[i]
      BY <1>7
    <2> QED BY <2>1
  <1>8. PICK at : FlatAt(S, n, seqs, at)
    BY <1>5, <1>6, <1>7, FlattenAt
  <1>9. /\ at \in [0 .. n -> Nat] /\ at[0] = 0
        /\ \A i \in 1 .. n : at[i] = at[i - 1] + Len(seqs[i])
        /\ value \in Seq(S) /\ Len(value) = at[n]
        /\ \A i \in 1 .. n : \A k \in 1 .. Len(seqs[i]) : value[at[i - 1] + k] = seqs[i][k]
    BY <1>4, <1>8 DEF FlatAt
  <1> HIDE DEF value
  <1>10. PICK N \in Nat : N = Len(value)
    BY <1>9
  <1>11. PICK d : Rounds(value, d)
    BY <1>10, DecodedIs
  <1> DEFINE Rest(k) == d[at[k] + 1] = SubSeq(typed, k + 1, n)
             decoded == {m \in Nat : m <= n => Rest(n - m)}
  <1>12. 0 \in decoded
    <2>1. at[n] + 1 \in 1 .. Len(value) + 1 /\ at[n] + 1 > Len(value)
      BY <1>9, <1>10
    <2>2. d[at[n] + 1] = <<>>
      BY <1>11, <2>1 DEF Rounds, Decode
    <2>3. SubSeq(typed, n + 1, n) = <<>>
      OBVIOUS
    <2>4. n - 0 = n
      OBVIOUS
    <2> QED BY <2>2, <2>3, <2>4
  <1>13. \A m \in Nat : m \in decoded => m + 1 \in decoded
    <2> HIDE DEF Rest
    <2> SUFFICES ASSUME NEW m \in Nat, m \in decoded, m + 1 <= n PROVE Rest(n - (m + 1))
      OBVIOUS
    <2>1. PICK i \in 1 .. n, k \in Nat : i = n - m /\ k = i - 1 /\ k = n - (m + 1) /\ k + 1 = i
      <3>1. n - m \in 1 .. n /\ n - (m + 1) \in Nat /\ n - (m + 1) = n - m - 1 /\ n - (m + 1) + 1 = n - m
        OBVIOUS
      <3> QED BY <3>1
    <2>2. Rest(i)
      <3>1. m <= n
        OBVIOUS
      <3> QED BY <2>1, <3>1
    <2>3. PICK j \in Nat \ {0}, c \in Range(Codes) : j = at[k] + 1 /\ c = typed[i]
      <3>1. at[k] + 1 \in Nat \ {0}
        BY <1>9, <2>1
      <3>2. typed[i] \in Range(Codes)
        BY <1>2
      <3> QED BY <3>1, <3>2
    <2>4. PICK piece : piece = Piece(c, everything) /\ piece = seqs[i]
      BY <1>5, <2>3
    <2>5. at[i] \in Nat /\ at[i] <= at[n] /\ at[i] = at[k] + Len(piece)
      <3>1. at[i] \in Nat /\ at[i] = at[k] + Len(piece)
        BY <1>9, <2>1, <2>4
      <3>2. at[i] <= at[n]
        <4>1. i \in 0 .. n
          OBVIOUS
        <4> QED BY <1>8, <1>b, <4>1, FlatGrows
      <3> QED BY <3>1, <3>2
    <2>6. PieceAt(value, j, piece)
      <3>1. PICK l \in Nat : l = Len(piece)
        <4>1. piece \in Seq(S)
          BY <1>7, <2>4
        <4> QED BY <4>1
      <3>2. PICK b \in Nat : b = at[k]
        BY <1>9, <2>1
      <3>3. j + l <= N + 1
        <4>1. at[n] = N /\ at[i] = b + l /\ j = b + 1
          BY <1>9, <1>10, <2>3, <2>5, <3>1, <3>2
        <4> QED BY <2>5, <4>1
      <3>4. \A x \in 1 .. l : value[b + x] = piece[x]
        BY <1>9, <2>1, <2>4, <3>1, <3>2
      <3>5. \A x \in 1 .. l : j - 1 + x = b + x
        BY <2>3, <3>2
      <3> QED BY <1>10, <3>1, <3>3, <3>4, <3>5 DEF PieceAt
    <2>7. d[j] = <<c>> \o d[j + Len(piece)] /\ Len(piece) \in Nat
      <3>1. PieceAt(value, j, Piece(c, everything))
        BY <2>4, <2>6
      <3>2. GoesOn(d, j, c, piece)
        BY <1>10, <1>11, <2>4, <3>1, PieceDecoded
      <3> QED BY <3>2 DEF GoesOn
    <2>8. j + Len(piece) = at[i] + 1
      BY <1>9, <2>1, <2>3, <2>5, <2>7
    <2>9. d[at[k] + 1] = <<c>> \o SubSeq(typed, i + 1, n)
      BY <2>2, <2>3, <2>7, <2>8 DEF Rest
    <2>10. <<c>> \o SubSeq(typed, i + 1, n) = SubSeq(typed, i, n)
      BY <1>1, <1>2, <2>3, HeadAndRest
    <2> QED BY <2>1, <2>9, <2>10 DEF Rest
  <1>14. Rest(0)
    <2>1. n \in decoded
      <3> HIDE DEF decoded
      <3> QED BY <1>12, <1>13, Inductive
    <2>2. n <= n /\ n - n = 0
      OBVIOUS
    <2> HIDE DEF Rest
    <2> QED BY <2>1, <2>2
  <1>15. d[1] = typed
    <2>1. d[1] = SubSeq(typed, 1, n)
      BY <1>9, <1>14
    <2>2. SubSeq(typed, 1, n) = typed
      BY <1>2
    <2> QED BY <2>1, <2>2
  <1> QED BY <1>3, <1>9, <1>11, <1>15 DEF Rounds, value

-----------------------------------------------------------------------------
\* The elements of four sequences put together.
FourTexts(S, text, p, s, x, t) ==
    /\ text \in Seq(S)
    /\ Len(text) = Len(p) + Len(s) + Len(x) + Len(t)
    /\ \A i \in 1 .. Len(p) : text[i] = p[i]
    /\ \A i \in 1 .. Len(s) : text[Len(p) + i] = s[i]
    /\ \A i \in 1 .. Len(x) : text[Len(p) + Len(s) + i] = x[i]
    /\ \A i \in 1 .. Len(t) : text[Len(p) + Len(s) + Len(x) + i] = t[i]
LEMMA FourTextsAre ==
    ASSUME NEW S, NEW p \in Seq(S), NEW s \in Seq(S), NEW x \in Seq(S), NEW t \in Seq(S),
           NEW text, text = p \o s \o x \o t
    PROVE  FourTexts(S, text, p, s, x, t)
  <1>0. PICK n \in Nat, k \in Nat, m \in Nat, l \in Nat :
            n = Len(p) /\ k = Len(s) /\ m = Len(x) /\ l = Len(t)
    OBVIOUS
  <1>1. PICK two \in Seq(S) : two = p \o s
    BY ConcatIs
  <1>2. PICK three \in Seq(S) : three = two \o x
    BY ConcatIs
  <1>3. text = three \o t /\ text \in Seq(S)
    BY <1>1, <1>2, ConcatIs
  <1>4. Len(two) = n + k /\ Len(three) = Len(two) + m /\ Len(text) = Len(three) + l
    BY <1>0, <1>1, <1>2, <1>3, ConcatIs
  <1>5. PICK b \in Nat, c \in Nat : b = n + k /\ c = b + m
    OBVIOUS
  <1>6. Len(two) = b /\ Len(three) = c
    BY <1>4, <1>5
  <1>7. \A i \in 1 .. c : text[i] = three[i]
    BY <1>3, <1>6, ConcatIs
  <1>8. \A i \in 1 .. l : text[c + i] = t[i]
    <2>1. \A i \in 1 .. Len(t) : (three \o t)[Len(three) + i] = t[i]
      BY ConcatIs
    <2> QED BY <1>0, <1>3, <1>6, <2>1
  <1>9. \A i \in 1 .. b : three[i] = two[i]
    BY <1>2, <1>6, ConcatIs
  <1>10. \A i \in 1 .. m : three[b + i] = x[i]
    BY <1>0, <1>2, <1>6, ConcatIs
  <1>11. \A i \in 1 .. n : two[i] = p[i]
    BY <1>0, <1>1, ConcatIs
  <1>12. \A i \in 1 .. k : two[n + i] = s[i]
    BY <1>0, <1>1, ConcatIs
  <1>13. ASSUME NEW i \in 1 .. n PROVE text[i] = p[i]
    <2>1. i \in 1 .. b /\ i \in 1 .. c
      BY <1>5
    <2> QED BY <1>7, <1>9, <1>11, <2>1
  <1>14. ASSUME NEW i \in 1 .. k PROVE text[n + i] = s[i]
    <2>1. n + i \in 1 .. b /\ n + i \in 1 .. c
      BY <1>5
    <2> QED BY <1>7, <1>9, <1>12, <2>1
  <1>15. ASSUME NEW i \in 1 .. m PROVE text[n + k + i] = x[i]
    <2>1. b + i \in 1 .. c
      BY <1>5
    <2> QED BY <1>5, <1>7, <1>10, <2>1
  <1>16. \A i \in 1 .. l : text[n + k + m + i] = t[i]
    BY <1>5, <1>8
  <1>17. Len(text) = n + k + m + l
    BY <1>4
  <1> QED BY <1>0, <1>3, <1>13, <1>14, <1>15, <1>16, <1>17 DEF FourTexts

\* Of a form, whatever other fields it has, the field that is read is the one that
\* was typed into, and it is accepted if it is not too long (auth_form_password).
THEOREM FormPasswordIs ==
    ASSUME NEW form, IsForm(form)
    PROVE  FormPassword(form.text) = [ok |-> Len(form.typed) < PasswordMax, text |-> form.typed]
  <1>1. PICK S : S = Characters
    OBVIOUS
  <1>2. PICK and : and = "&"
    OBVIOUS
  <1>w. STRING \subseteq S
    BY <1>1 DEF Characters
  <1>3. PICK before \in Seq(S), after \in Seq(S), name \in Seq(S), text \in Seq(S) :
            before = form.before /\ after = form.after /\ name = FieldName /\ text = form.text
    <2>1. /\ form.before \in Seq(STRING) /\ form.after \in Seq(STRING) /\ FieldName \in Seq(STRING)
          /\ form.text \in Seq(STRING)
      BY FieldAssumption DEF IsForm
    <2>2. form.before \in Seq(S) /\ form.after \in Seq(S)
      BY <1>w, <2>1, SeqWider
    <2>3. FieldName \in Seq(S) /\ form.text \in Seq(S)
      BY <1>w, <2>1, SeqWider
    <2> QED BY <2>2, <2>3
  <1>c. PICK C : C = Range(Codes)
    OBVIOUS
  <1>4. PICK typed \in Seq(C), everything \in BOOLEAN :
            typed = form.typed /\ everything = form.everything
    <2>1. form.typed \in Seq(Range(Codes) \ {NUL}) /\ form.everything \in BOOLEAN
      BY DEF IsForm
    <2>2. Range(Codes) \ {NUL} \subseteq Range(Codes)
      OBVIOUS
    <2>3. form.typed \in Seq(C)
      BY <1>c, <2>1, <2>2, SeqWider
    <2> QED BY <2>1, <2>3
  <1>5. PICK value \in Seq(S) : /\ value = FormText(typed, everything)
                                /\ Decoded(value) = typed
                                /\ \A i \in 1 .. Len(value) : value[i] # and
    <2>1. typed \in Seq(Range(Codes))
      BY <1>c
    <2>2. FormText(typed, everything) \in Seq(Unseparated)
      BY <2>1, FormTextDecoded
    <2>3. Decoded(FormText(typed, everything)) = typed
      BY <2>1, FormTextDecoded
    <2>4. PICK U : U = Unseparated
      OBVIOUS
    <2>5. PICK v \in Seq(U) : v = FormText(typed, everything)
      BY <2>2, <2>4
    <2>6. and \notin U /\ U \subseteq S
      BY <1>1, <1>2, <2>4 DEF Unseparated
    <2>7. v \in Seq(S)
      BY <2>6, SeqWider
    <2>8. \A i \in 1 .. Len(v) : v[i] # and
      BY <2>6
    <2> QED BY <2>3, <2>5, <2>7, <2>8
  <1>6. FourTexts(S, text, before, name, value, after)
    <2>1. text = before \o name \o value \o after
      BY <1>3, <1>4, <1>5 DEF IsForm
    <2> QED BY <2>1, FourTextsAre
  <1>7. PICK b \in Nat, n \in Nat, v \in Nat, a \in Nat :
            b = Len(before) /\ n = Len(name) /\ v = Len(value) /\ a = Len(after)
    OBVIOUS
  <1>8. /\ Len(text) = b + n + v + a
        /\ \A i \in 1 .. b : text[i] = before[i]
        /\ \A i \in 1 .. n : text[b + i] = name[i]
        /\ \A i \in 1 .. v : text[b + n + i] = value[i]
        /\ \A i \in 1 .. a : text[b + n + v + i] = after[i]
    BY <1>6, <1>7 DEF FourTexts
  <1>9. n > 0 /\ \A i \in 1 .. n : name[i] # and
    <2>1. name # <<>> /\ and \notin Range(name)
      BY <1>2, <1>3, FieldAssumption
    <2>2. n > 0
      BY <1>7, <2>1, EmptySeq
    <2>3. \A i \in 1 .. n : name[i] \in Range(name)
      BY <1>7 DEF Range
    <2> QED BY <2>1, <2>2, <2>3
  <1>10. b > 0 => before[b] = and
    <2>1. form.before # <<>> => form.before[Len(form.before)] = "&"
      BY DEF IsForm
    <2>2. before # <<>> => before[b] = and
      BY <1>2, <1>3, <1>7, <2>1
    <2> QED BY <1>7, <2>2
  <1>11. a > 0 => after[1] = and
    <2>1. form.after # <<>> => form.after[1] = "&"
      BY DEF IsForm
    <2>2. after # <<>> => after[1] = and
      BY <1>2, <1>3, <2>1
    <2> QED BY <1>7, <2>2
  <1>12. \A start \in Starts(before, and) : ~IsPrefix(name, PartAt(before, start, and))
    <2>1. \A start \in Starts(form.before, "&") : ~IsPrefix(FieldName, PartAt(form.before, start, "&"))
      BY DEF IsForm
    <2> QED BY <1>2, <1>3, <2>1
  <1>13. PICK first \in Nat \ {0}, end \in Nat, last \in Nat :
             first = b + 1 /\ end = b + n + v + 1 /\ last = b + n + v
    <2>1. b + 1 \in Nat \ {0} /\ b + n + v + 1 \in Nat /\ b + n + v \in Nat
      OBVIOUS
    <2> QED BY <2>1
  <1>14. first \in Starts(text, and)
    <2>1. CASE b = 0
      BY <1>13, <2>1 DEF Starts
    <2>2. CASE b > 0
      <3>1. b \in DOMAIN text /\ text[b] = and
        BY <1>7, <1>8, <1>10, <2>2
      <3> QED BY <1>13, <3>1 DEF Starts
    <2> QED BY <2>1, <2>2
  <1>15. PICK field \in Seq(S) : /\ field = PartAt(text, first, and)
                                 /\ Len(field) = n + v
                                 /\ \A i \in 1 .. n : field[i] = name[i]
                                 /\ \A i \in 1 .. v : field[n + i] = value[i]
    <2>1. PartEnd(text, first, and, end)
      <3>1. end \in first .. Len(text) + 1
        BY <1>8, <1>13
      <3>2. end = Len(text) + 1 \/ text[end] = and
        <4>1. CASE a = 0
          BY <1>8, <1>13, <4>1
        <4>2. CASE a > 0
          <5>1. text[b + n + v + 1] = after[1]
            BY <1>8, <4>2
          <5> QED BY <1>11, <1>13, <4>2, <5>1
        <4> QED BY <4>1, <4>2
      <3>3. ASSUME NEW i \in first .. end - 1 PROVE text[i] # and
        <4>1. i \in b + 1 .. b + n + v
          BY <1>13
        <4>2. CASE i \in b + 1 .. b + n
          <5>1. PICK k \in 1 .. n : i = b + k
            <6>1. i - b \in 1 .. n /\ i = b + (i - b)
              BY <4>2
            <6> QED BY <6>1
          <5> QED BY <1>8, <1>9, <5>1
        <4>3. CASE i \in b + n + 1 .. b + n + v
          <5>1. PICK k \in 1 .. v : i = b + n + k
            <6>1. i - (b + n) \in 1 .. v /\ i = b + n + (i - (b + n))
              BY <4>3
            <6> QED BY <6>1
          <5> QED BY <1>5, <1>7, <1>8, <5>1
        <4> QED BY <4>1, <4>2, <4>3
      <3> QED BY <3>1, <3>2, <3>3 DEF PartEnd
    <2>2. PartAt(text, first, and) = SubSeq(text, first, end - 1)
      BY <2>1, PartUntil
    <2>3. PICK f \in Seq(S) : f = name \o value
      BY ConcatIs
    <2>4. Len(f) = n + v
      BY <1>7, <2>3, ConcatIs
    <2>5. \A i \in 1 .. n : f[i] = name[i]
      BY <1>7, <2>3, ConcatIs
    <2>6. \A i \in 1 .. v : f[n + i] = value[i]
      BY <1>7, <2>3, ConcatIs
    <2>7. SubSeq(text, first, last) = f
      <3>1. b + Len(f) <= Len(text) /\ first = b + 1 /\ last = b + Len(f)
        BY <1>8, <1>13, <2>4
      <3>2. ASSUME NEW i \in 1 .. Len(f) PROVE text[b + i] = f[i]
        <4>1. i \in 1 .. n + v
          BY <2>4
        <4>2. CASE i \in 1 .. n
          BY <1>8, <2>5, <4>2
        <4>3. CASE i \in n + 1 .. n + v
          <5>1. PICK k \in 1 .. v : i = n + k
            <6>1. i - n \in 1 .. v /\ i = n + (i - n)
              BY <4>3
            <6> QED BY <6>1
          <5>2. b + (n + k) = b + n + k
            OBVIOUS
          <5> QED BY <1>8, <2>6, <5>1, <5>2
        <4> QED BY <4>1, <4>2, <4>3
      <3> QED BY <3>1, <3>2, SubSeqIs
    <2>8. end - 1 = last
      BY <1>13
    <2> QED BY <2>2, <2>4, <2>5, <2>6, <2>7, <2>8
  <1>16. IsPrefix(name, field)
    <2>1. n <= Len(field) /\ \A i \in 1 .. n : name[i] = field[i]
      BY <1>15
    <2>2. PICK one \in Nat \ {0} : one = 1
      OBVIOUS
    <2>3. SubSeq(name, one, n) = SubSeq(field, one, n)
      <3>1. n <= Len(name) /\ \A i \in one .. n : name[i] = field[i]
        BY <1>7, <2>1, <2>2
      <3> QED BY <2>1, <3>1, SameSubSeq
    <2> QED BY <1>7, <2>1, <2>2, <2>3 DEF IsPrefix
  <1>17. ASSUME NEW start \in Starts(text, and), IsPrefix(name, PartAt(text, start, and))
         PROVE  first <= start
    <2>1. start \in Nat \ {0}
      BY DEF Starts
    <2> SUFFICES ASSUME start <= b PROVE FALSE
      BY <1>13, <2>1
    <2>2. start \in Starts(before, and)
      <3>1. CASE start = 1
        BY <3>1 DEF Starts
      <3>2. CASE start # 1
        <4>1. PICK i \in DOMAIN text : text[i] = and /\ start = i + 1
          BY <3>2 DEF Starts
        <4>2. i \in DOMAIN before /\ before[i] = and
          BY <1>7, <1>8, <4>1
        <4> QED BY <4>1, <4>2 DEF Starts
      <3> QED BY <3>1, <3>2
    <2>3. PICK e \in Nat : PartEnd(before, start, and, e)
      <3>1. start <= Len(before) + 1
        BY <1>7, <2>1
      <3> QED BY <2>1, <3>1, PartEnds
    <2>4. /\ e \in start .. b + 1
          /\ e = b + 1 \/ before[e] = and
          /\ \A i \in start .. e - 1 : before[i] # and
      BY <1>7, <2>3 DEF PartEnd
    <2>5. e <= b
      <3>1. CASE e = b + 1
        <4>1. b \in start .. e - 1 /\ b > 0
          BY <2>1, <3>1
        <4> QED BY <1>10, <2>4, <4>1
      <3> QED BY <2>1, <2>4, <3>1
    <2>6. PartEnd(text, start, and, e)
      <3>1. e \in start .. Len(text) + 1 /\ text[e] = and
        BY <1>8, <2>1, <2>4, <2>5
      <3>2. ASSUME NEW i \in start .. e - 1 PROVE text[i] # and
        <4>1. i \in 1 .. b
          BY <2>1, <2>4, <2>5
        <4>2. text[i] = before[i]
          BY <1>8, <4>1
        <4> QED BY <2>4, <4>2
      <3> QED BY <3>1, <3>2 DEF PartEnd
    <2>7. PartAt(text, start, and) = SubSeq(text, start, e - 1)
      BY <2>1, <2>6, PartUntil
    <2>8. PartAt(before, start, and) = SubSeq(before, start, e - 1)
      BY <2>1, <2>3, PartUntil
    <2>9. PICK k \in Nat : k = e - 1 /\ k <= Len(text) /\ k <= Len(before)
      <3>1. e - 1 \in Nat /\ e - 1 <= Len(text) /\ e - 1 <= Len(before)
        BY <1>7, <1>8, <2>1, <2>4, <2>5
      <3> QED BY <3>1
    <2>10. ASSUME NEW i \in start .. k PROVE text[i] = before[i]
      <3>1. i \in 1 .. b
        BY <1>7, <2>1, <2>9
      <3> QED BY <1>8, <3>1
    <2>11. SubSeq(text, start, k) = SubSeq(before, start, k)
      BY <2>1, <2>9, <2>10, SameSubSeq
    <2> QED BY <1>12, <1>17, <2>2, <2>7, <2>8, <2>9, <2>11
  <1> DEFINE fields == {start \in Starts(text, and) : IsPrefix(name, PartAt(text, start, and))}
  <1>18. fields # {} /\ Min(fields) = first
    <2>1. first \in fields
      BY <1>14, <1>15, <1>16
    <2>2. fields \in SUBSET Int
      BY DEF Starts
    <2>3. \A start \in fields : first <= start
      BY <1>17
    <2> HIDE DEF fields
    <2> QED BY <2>1, <2>2, <2>3, MinIs
  <1>19. SubSeq(field, Len(name) + 1, Len(field)) = value
    <2>1. PICK x \in Nat, l \in Nat : x = n + 1 /\ l = Len(field)
      <3>1. n + 1 \in Nat /\ Len(field) \in Nat
        OBVIOUS
      <3> QED BY <3>1
    <2>2. n + Len(value) <= Len(field) /\ l = n + Len(value) /\ x = n + 1
      BY <1>7, <1>15, <2>1
    <2>3. \A i \in 1 .. Len(value) : field[n + i] = value[i]
      BY <1>7, <1>15
    <2>4. SubSeq(field, x, l) = value
      BY <2>2, <2>3, SubSeqIs
    <2> QED BY <1>7, <2>1, <2>4
  <1>20. Malformed \notin Range(typed)
    <2>1. Malformed \notin C
      BY <1>c, CodesAssumption
    <2>2. Range(typed) \subseteq C
      BY DEF Range
    <2> QED BY <2>1, <2>2
  <1>21. FormPassword(text) =
             [ok |-> Malformed \notin Range(typed) /\ Len(typed) < PasswordMax, text |-> typed]
    <2>1. fields = {start \in Starts(text, "&") : IsPrefix(FieldName, PartAt(text, start, "&"))}
      BY <1>2, <1>3
    <2>2. PartAt(text, Min(fields), "&") = field
      BY <1>2, <1>15, <1>18
    <2>3. Decoded(SubSeq(field, Len(FieldName) + 1, Len(field))) = typed
      BY <1>3, <1>5, <1>19
    <2> HIDE DEF fields
    <2> QED BY <1>18, <2>1, <2>2, <2>3 DEF FormPassword
  <1> QED BY <1>3, <1>4, <1>20, <1>21

\* What was typed is compared whole, for it has no NUL.
LEMMA TypedIs ==
    ASSUME NEW form, IsForm(form), NEW password \in Seq(STRING)
    PROVE  TokenMatches(CString(form.typed), password) <=> form.typed = password
  <1>a. PICK S : S = Range(Codes) \ {NUL}
    OBVIOUS
  <1>b. PICK nul : nul = NUL
    OBVIOUS
  <1>1. PICK typed \in Seq(S) : typed = form.typed /\ nul \notin S
    BY <1>a, <1>b DEF IsForm
  <1>2. CString(typed) = typed
    <2>1. {i \in 1 .. Len(typed) : typed[i] = nul} = {}
      BY <1>1
    <2>2. SelectInSeq(typed, LAMBDA c : c = NUL) = 0
      BY <1>b, <2>1 DEF SelectInSeq
    <2> QED BY <2>2 DEF CString
  <1>3. PICK T : T = STRING \cup S
    OBVIOUS
  <1>4. typed \in Seq(T) /\ password \in Seq(T)
    <2>1. S \subseteq T /\ STRING \subseteq T
      BY <1>3
    <2> QED BY <2>1, SeqWider
  <1>5. TokenMatches(typed, password) <=> typed = password
    BY <1>4, TokenIs
  <1> QED BY <1>1, <1>2, <1>5

-----------------------------------------------------------------------------
\* What makes a request one of a logged in client's (Entitled), given what the
\* server asks for; and what it may be answered (RightAnswer).
EntitledBy(mode, r) ==
    CASE mode = "none" -> TRUE
      [] mode = "header" -> r.proxied
      [] mode = "password" ->
            /\ [name |-> CookieName, value |-> Token] \in Range(r.jar)
            /\ Len(r.header) <= CookieMax
RightFor(mode, r, what) ==
    /\ what \in {"index", "index.gz", "token", "file", "404"} => EntitledBy(mode, r)
    /\ EntitledBy(mode, r) /\ r.path \notin {"login", "logout"} =>
          what \notin {"401", "407", "to login"}
Modes == {"password", "none", "header"}

\* An empty Cookie header has no cookie.
LEMMA NoCookie ==
    ASSUME NEW token PROVE ~CookieMatches(<<>>, token)
  <1>1. PICK S : S = Characters
    OBVIOUS
  <1>2. PICK semicolon : semicolon = ";"
    OBVIOUS
  <1>3. PICK s \in Seq(S) : s = <<>> /\ Len(s) = 0
    BY EmptySeq
  <1>4. Starts(s, semicolon) = {1} /\ PartAt(s, 1, semicolon) = s
    <2>1. \A i \in 1 .. Len(s) : s[i] # semicolon
      BY <1>3
    <2> QED BY <2>1, OnePart
  <1>5. ~Matches(s, token)
    <2>1. WithoutSpaces(s) = <<>>
      BY <1>3 DEF WithoutSpaces, SelectInSeq
    <2>2. SelectInSeq(s, LAMBDA c : c = "=") = 0
      BY <1>3 DEF SelectInSeq
    <2> QED BY <1>3, <2>1, <2>2 DEF Matches
  <1>6. CookieMatches(s, token) <=>
            \E start \in Starts(s, semicolon) : Matches(PartAt(s, start, semicolon), token)
    BY <1>2 DEF CookieMatches, Matches
  <1> QED BY <1>3, <1>4, <1>5, <1>6

\* A request carries the session cookie in a header that is read exactly if its
\* client has the cookie (request_authenticated).
LEMMA HeaderRead ==
    ASSUME NEW r \in AllRequests
    PROVE  r.header \in RightHeaders
               <=> /\ [name |-> CookieName, value |-> Token] \in Range(r.jar)
                   /\ Len(r.header) <= CookieMax
  <1>1. PICK names, values : names = Seq(STRING) /\ values = Seq(STRING)
    OBVIOUS
  <1>r. PICK R : R = [name : names, value : values]
    OBVIOUS
  <1>2. PICK jar \in Seq(R) : jar = r.jar
    BY <1>r, <1>1, RequestAssumption
  <1>3. \A i \in DOMAIN jar : IsCookie(jar[i])
    BY <1>2, RequestAssumption
  <1>4. PICK header : header = r.header
    OBVIOUS
  <1>5. header = CookieHeader(jar)
    BY <1>2, <1>4, RequestAssumption
  <1>6. PICK S : S = Characters
    OBVIOUS
  <1>7. /\ header \in Seq(S)
        /\ CookieMatches(header, Token)
            <=> \E i \in DOMAIN jar : jar[i].name = CookieName /\ jar[i].value = Token
    BY <1>1, <1>r, <1>3, <1>5, <1>6, CookieFound, FormAssumption
  <1>8. PICK session : session = [name |-> CookieName, value |-> Token]
    OBVIOUS
  <1>9. (\E i \in DOMAIN jar : jar[i].name = CookieName /\ jar[i].value = Token)
            <=> session \in Range(jar)
    <2>1. ASSUME NEW i \in DOMAIN jar
          PROVE  jar[i].name = CookieName /\ jar[i].value = Token <=> jar[i] = session
      <3>1. PICK one \in R : one = jar[i]
        OBVIOUS
      <3>2. one = [name |-> one.name, value |-> one.value]
        BY <1>r
      <3>3. session.name = CookieName /\ session.value = Token
        BY <1>8
      <3>4. one.name = CookieName /\ one.value = Token => one = session
        BY <1>8, <3>2
      <3> QED BY <3>1, <3>3, <3>4
    <2>2. session \in Range(jar) <=> \E i \in DOMAIN jar : jar[i] = session
      BY DEF Range
    <2> QED BY <2>1, <2>2
  <1>10. CookieMatches(header, Token) => Len(header) \in Nat /\ Len(header) # 0
    <2>1. header = <<>> => ~CookieMatches(header, Token)
      BY NoCookie
    <2> QED BY <1>7, <2>1, EmptySeq
  <1>11. header \in RightHeaders <=> Len(header) \in 1 .. CookieMax /\ CookieMatches(header, Token)
    BY <1>4 DEF RightHeaders
  <1>12. CookieMatches(header, Token) => (Len(header) \in 1 .. CookieMax <=> Len(header) <= CookieMax)
    BY <1>10, PageAssumption
  <1> QED BY <1>2, <1>4, <1>7, <1>8, <1>9, <1>11, <1>12

\* So request_authenticated finds out who is logged in.
LEMMA AuthenticatedIs ==
    ASSUME NEW r \in AllRequests, auth \in Modes
    PROVE  RequestAuthenticated(r) <=> EntitledBy(auth, r)
  <1>1. r.proxied \in BOOLEAN
    BY RequestAssumption
  <1>2. CASE auth = "header"
    BY <1>1, <1>2 DEF RequestAuthenticated, EntitledBy
  <1>3. CASE auth = "none"
    BY <1>3 DEF RequestAuthenticated, EntitledBy
  <1>4. CASE auth = "password"
    <2>1. RequestAuthenticated(r) <=> r.header \in RightHeaders
      BY <1>4 DEF RequestAuthenticated
    <2>2. EntitledBy(auth, r) <=>
            /\ [name |-> CookieName, value |-> Token] \in Range(r.jar)
            /\ Len(r.header) <= CookieMax
      BY <1>4 DEF EntitledBy
    <2> QED BY <2>1, <2>2, HeaderRead
  <1> QED BY <1>2, <1>3, <1>4 DEF Modes

\* Whatever a request is answered at once is right for it, and with a password to
\* log in with, the posted forms are what is not answered at once.
LEMMA RouteRight ==
    ASSUME NEW r \in AllRequests, auth \in Modes
    PROVE  /\ Route(r) \in {"to index", "to login", "401", "404", "407", "file"}
                 => RightFor(auth, r, Route(r))
           /\ Route(r) \in {"login", "index", "token"} => RightFor(auth, r, Page(r, Route(r)))
           /\ auth = "password" /\ r.path = "login" /\ r.post => Route(r) = "form"
           /\ Route(r) = "form" => r.path = "login" /\ r.post /\ r.form # None
  <1>1. PICK yes \in BOOLEAN : (yes <=> EntitledBy(auth, r)) /\ (yes <=> RequestAuthenticated(r))
    <2>1. CASE EntitledBy(auth, r)
      <3>1. TRUE \in BOOLEAN /\ (TRUE <=> EntitledBy(auth, r)) /\ (TRUE <=> RequestAuthenticated(r))
        BY <2>1, AuthenticatedIs
      <3> QED BY <3>1
    <2>2. CASE ~EntitledBy(auth, r)
      <3>1. FALSE \in BOOLEAN /\ (FALSE <=> EntitledBy(auth, r)) /\ (FALSE <=> RequestAuthenticated(r))
        BY <2>2, AuthenticatedIs
      <3> QED BY <3>1
    <2> QED BY <2>1, <2>2
  <1>2. r.path \in Paths /\ r.gzip \in BOOLEAN /\ (r.post => r.form # None)
    BY RequestAssumption
  <1>3. \A what : RightFor(auth, r, what) <=>
           /\ what \in {"index", "index.gz", "token", "file", "404"} => yes
           /\ yes /\ r.path \notin {"login", "logout"} => what \notin {"401", "407", "to login"}
    BY <1>1 DEF RightFor
  <1>4. Route(r) =
          IF r.path = "login" THEN
              IF auth # "password" THEN "to index"
              ELSE IF r.post THEN "form"
              ELSE IF yes THEN "to index" ELSE "login"
          ELSE IF r.path = "logout" THEN IF auth = "password" THEN "to login" ELSE "to index"
          ELSE IF ~yes THEN
              IF auth = "header" THEN "407"
              ELSE IF r.path \in {"index", "parent"} THEN "to login" ELSE "401"
          ELSE IF r.path = "token" THEN "token"
          ELSE IF r.path = "parent" THEN "to index"
          ELSE IF r.path # "index" THEN "404"
          ELSE IF custom THEN "file" ELSE "index"
    BY <1>1 DEF Route
  <1>5. Route(r) \in {"to index", "to login", "401", "404", "407", "file"}
            => RightFor(auth, r, Route(r))
    BY <1>3, <1>4
  <1>6. Route(r) \in {"login", "index", "token"} => RightFor(auth, r, Page(r, Route(r)))
    BY <1>2, <1>3, <1>4 DEF Page
  <1>7. auth = "password" /\ r.path = "login" /\ r.post => Route(r) = "form"
    BY <1>4
  <1>8. Route(r) = "form" => r.path = "login" /\ r.post /\ r.form # None
    BY <1>2, <1>4
  <1> QED BY <1>5, <1>6, <1>7, <1>8

-----------------------------------------------------------------------------
\* The types that the proofs about answers need.
AskedTypeOK ==
    /\ auth \in Modes
    /\ asked = [c \in Conns |-> asked[c]]
    /\ rest = [c \in Conns |-> rest[c]]
    /\ answer = [c \in Conns |-> answer[c]]
    /\ cookie = [c \in Conns |-> cookie[c]]

\* What a connection was answered is right for what it asked, or nothing yet, as
\* a login's body is to come.
AnsweredRight(c) ==
    asked[c] # None =>
        /\ asked[c] \in AllRequests
        /\ \/ RightFor(auth, asked[c], answer[c])
           \/ answer[c] = None /\ asked[c].path = "login"
RightInv == AskedTypeOK /\ \A c \in Conns : AnsweredRight(c)

\* That does not depend on the other connections.
LEMMA OthersRight ==
    ASSUME RightInv, NEW c \in Conns, UNCHANGED auth,
           UNCHANGED <<asked[c], answer[c]>>
    PROVE  AnsweredRight(c)'
  BY DEF RightInv, AnsweredRight

\* A connection that is gone was asked nothing.
LEMMA ClosedRight ==
    ASSUME HeldInv, RightInv, NEW c \in Conns, Closed(c), UNCHANGED auth
    PROVE  RightInv'
  <1>1. AskedTypeOK'
    BY DEF RightInv, AskedTypeOK, Closed, Answers
  <1>2. ASSUME NEW d \in Conns PROVE AnsweredRight(d)'
    <2>1. CASE d = c
      BY <2>1 DEF AnsweredRight, Closed, RightInv, AskedTypeOK
    <2>2. CASE d # c
      <3>1. UNCHANGED <<asked[d], answer[d]>>
        BY <2>2 DEF RightInv, AskedTypeOK, HeldInv, HeldTypeOK, Closed, BodyFreed, Answers
      <3> QED BY <3>1, OthersRight
    <2> QED BY <2>1, <2>2
  <1> QED BY <1>1, <1>2 DEF RightInv

\* A request is answered with what it is entitled to (HTTP).
LEMMA RequestRight ==
    ASSUME HeldInv, RightInv, NEW c \in Conns, ReceiveRequest(c)
    PROVE  RightInv'
  <1>1. UNCHANGED auth
    BY DEF ReceiveRequest
  <1>2. CASE Closed(c)
    BY <1>1, <1>2, ClosedRight
  <1>3. ASSUME NEW r \in Requests[c], asked' = [asked EXCEPT ![c] = r],
               \/ AnswerAtOnce(c, r, Route(r)) \/ AwaitForm(c, r, Route(r))
               \/ ServePage(c, r, Route(r)) \/ ServeFile(c, r, Route(r))
        PROVE  RightInv'
    <2>0. r \in AllRequests
      BY DEF AllRequests
    <2>1. AskedTypeOK'
      BY <1>1, <1>3 DEF RightInv, AskedTypeOK, AnswerAtOnce, AwaitForm, ServePage, ServeFile,
         Answers, CompletedBefore, Completed
    <2>2. ASSUME NEW d \in Conns PROVE AnsweredRight(d)'
      <3>1. CASE d = c
        <4>1. asked'[c] = r
          BY <1>3 DEF RightInv, AskedTypeOK
        <4>2. \/ RightFor(auth, r, answer'[c])
              \/ answer'[c] = None /\ r.path = "login"
          <5>1. auth \in Modes
            BY DEF RightInv, AskedTypeOK
          <5>2. CASE AnswerAtOnce(c, r, Route(r))
            <6>1. answer'[c] = Route(r)
              BY <5>2 DEF AnswerAtOnce, Answers, RightInv, AskedTypeOK
            <6>2. Route(r) \in {"to index", "to login", "401", "404", "407"}
              BY <5>2 DEF AnswerAtOnce
            <6> QED BY <2>0, <5>1, <6>1, <6>2, RouteRight
          <5>3. CASE AwaitForm(c, r, Route(r))
            <6>1. answer'[c] = None /\ Route(r) = "form"
              BY <5>3 DEF AwaitForm, Answers, RightInv, AskedTypeOK
            <6> QED BY <2>0, <5>1, <6>1, RouteRight
          <5>4. CASE ServePage(c, r, Route(r))
            <6>1. answer'[c] = Page(r, Route(r))
              BY <5>4 DEF ServePage, Answers, RightInv, AskedTypeOK
            <6>2. Route(r) \in {"login", "index", "token"}
              BY <5>4 DEF ServePage
            <6> QED BY <2>0, <5>1, <6>1, <6>2, RouteRight
          <5>5. CASE ServeFile(c, r, Route(r))
            <6>1. answer'[c] = "file" /\ Route(r) = "file"
              BY <5>5 DEF ServeFile, Answers, RightInv, AskedTypeOK
            <6> QED BY <2>0, <5>1, <6>1, RouteRight
          <5> QED BY <1>3, <5>2, <5>3, <5>4, <5>5
        <4> QED BY <1>1, <2>0, <3>1, <4>1, <4>2 DEF AnsweredRight
      <3>2. CASE d # c
        <4>1. UNCHANGED <<asked[d], answer[d]>>
          BY <1>3, <3>2 DEF RightInv, AskedTypeOK, HeldInv, HeldTypeOK, AnswerAtOnce, AwaitForm,
             ServePage, ServeFile, Answers, pssVars
        <4> QED BY <1>1, <4>1, OthersRight
      <3> QED BY <3>1, <3>2
    <2> QED BY <2>1, <2>2 DEF RightInv
  <1> QED BY <1>2, <1>3 DEF ReceiveRequest

\* A login is answered with neither a page nor a refusal (HTTP_BODY_COMPLETION).
LEMMA CompleteRight ==
    ASSUME HeldInv, RightInv, NEW c \in Conns, CompleteBody(c)
    PROVE  RightInv'
  <1>1. UNCHANGED auth
    BY DEF CompleteBody, serverVars
  <1>2. CASE Closed(c)
    BY <1>1, <1>2, ClosedRight
  <1>3. CASE HandleLoginPost(c) /\ Completed(c) /\ UNCHANGED asked
    <2>1. PICK what, does : /\ what = "to index" \/ what = "to login?error=1"
                            /\ Answers(c, what, does)
      BY <1>3 DEF HandleLoginPost
    <2>2. AskedTypeOK'
      BY <1>1, <1>3, <2>1 DEF RightInv, AskedTypeOK, Completed, Answers
    <2>3. ASSUME NEW d \in Conns PROVE AnsweredRight(d)'
      <3>1. CASE d = c
        <4>1. answer'[c] = what
          BY <2>1 DEF Answers, RightInv, AskedTypeOK
        <4>2. RightFor(auth, asked[c], what)
          BY <2>1 DEF RightFor
        <4> QED BY <1>1, <1>3, <3>1, <4>1, <4>2 DEF AnsweredRight, RightInv
      <3>2. CASE d # c
        <4>1. UNCHANGED <<asked[d], answer[d]>>
          BY <1>3, <2>1, <3>2 DEF RightInv, AskedTypeOK, HeldInv, HeldTypeOK, BodyFreed, Answers
        <4> QED BY <1>1, <4>1, OthersRight
      <3> QED BY <3>1, <3>2
    <2> QED BY <2>2, <2>3 DEF RightInv
  <1>4. CASE Completed(c) /\ UNCHANGED <<asked, clientVars>>
    <2>1. AskedTypeOK'
      BY <1>1, <1>4 DEF RightInv, AskedTypeOK, Completed, clientVars
    <2>2. ASSUME NEW d \in Conns PROVE AnsweredRight(d)'
      BY <1>1, <1>4, <2>2, OthersRight DEF clientVars
    <2> QED BY <2>1, <2>2 DEF RightInv
  <1> QED BY <1>2, <1>3, <1>4 DEF CompleteBody

\* An answer is right as long as it is not replaced.
LEMMA OtherRight ==
    ASSUME RightInv, UNCHANGED <<auth, asked, answer, cookie>>,
           rest' = [c \in Conns |-> rest'[c]]
    PROVE  RightInv'
  <1>1. AskedTypeOK'
    BY DEF RightInv, AskedTypeOK
  <1>2. ASSUME NEW d \in Conns PROVE AnsweredRight(d)'
    BY <1>2, OthersRight
  <1> QED BY <1>1, <1>2 DEF RightInv

\* Bodies that arrive, pages and files that are sent, and new connections change
\* none of the answers.
LEMMA RestStays ==
    ASSUME RightInv, NEW c \in Conns, ReceiveBody(c) \/ Writeable(c) \/ FileSent(c) \/ Connect(c)
    PROVE  RightInv'
  <1>1. UNCHANGED <<auth, asked, answer, cookie>>
    <2>1. CASE ReceiveBody(c)
      BY <2>1 DEF ReceiveBody, serverVars, clientVars
    <2>2. CASE Writeable(c)
      BY <2>2 DEF Writeable, pssVars
    <2>3. CASE FileSent(c) \/ Connect(c)
      BY <2>3 DEF FileSent, Connect, serverVars, pssVars, clientVars
    <2> QED BY <2>1, <2>2, <2>3
  <1>2. rest' = [d \in Conns |-> rest'[d]]
    <2>1. rest = [d \in Conns |-> rest[d]]
      BY DEF RightInv, AskedTypeOK
    <2>2. CASE ReceiveBody(c)
      BY <2>1, <2>2 DEF ReceiveBody
    <2>3. CASE Writeable(c)
      BY <2>1, <2>3 DEF Writeable, CompletedBefore, Completed, Blocked, LastPiece
    <2>4. CASE FileSent(c) \/ Connect(c)
      BY <2>1, <2>4 DEF FileSent, Connect, CompletedBefore, Completed
    <2> QED BY <2>2, <2>3, <2>4
  <1> QED BY <1>1, <1>2, OtherRight

\* The answers are right at first and after every step.
LEMMA AlwaysRight == Spec => []RightInv
  <1>1. Init => RightInv
    BY DEF Init, RightInv, AskedTypeOK, AnsweredRight, Modes
  <1>2. HeldInv /\ RightInv /\ [Next]_vars => RightInv'
    <2> SUFFICES ASSUME HeldInv, RightInv, [Next]_vars PROVE RightInv'
      OBVIOUS
    <2>1. ASSUME NEW c \in Conns, Close(c) PROVE RightInv'
      BY <2>1, ClosedRight DEF Close, serverVars
    <2>2. CASE UNCHANGED vars
      <3>1. UNCHANGED <<auth, asked, rest, answer, cookie>>
        BY <2>2 DEF vars, serverVars, lwsVars, pssVars, clientVars
      <3>2. rest' = [c \in Conns |-> rest'[c]]
        BY <3>1 DEF RightInv, AskedTypeOK
      <3> QED BY <3>1, <3>2, OtherRight
    <2> QED BY <2>1, <2>2, RestStays, RequestRight, CompleteRight DEF Next
  <1> QED BY <1>1, <1>2, AlwaysHeld, PTL DEF Spec

\* The terminal and its token are answered to those who are logged in and only
\* to them, on a connection that may have carried anything before
\* (request_authenticated, callback_http).
THEOREM AnswersAreRight == Spec => []RightAnswer
  <1>1. RightInv => RightAnswer
    <2> SUFFICES ASSUME RightInv, NEW c \in Conns,
                        phase[c] = "idle", asked[c] # None, auth # "none"
                 PROVE  /\ answer[c] \in {"index", "index.gz", "token", "file", "404"}
                              => Entitled(asked[c])
                        /\ Entitled(asked[c]) /\ asked[c].path \notin {"login", "logout"} =>
                              answer[c] \notin {"401", "407", "to login"}
      BY DEF RightAnswer
    <2>1. \/ RightFor(auth, asked[c], answer[c])
          \/ answer[c] = None /\ asked[c].path = "login"
      BY DEF RightInv, AnsweredRight
    <2>2. None \notin {"index", "index.gz", "token", "file", "404"}
      BY PageAssumption DEF Pages, StaticPages, CachedPages
    <2>3. Entitled(asked[c]) <=> EntitledBy(auth, asked[c])
      BY DEF Entitled, EntitledBy
    <2> QED BY <2>1, <2>2, <2>3 DEF RightFor
  <1> QED BY <1>1, AlwaysRight, PTL

-----------------------------------------------------------------------------
\* While the form arrives: what of it is kept and what is still to come make up the
\* form, unless it was found too long.  Afterwards: LoginExact.
FormArrives(c) ==
    /\ asked[c].path = "login" /\ asked[c].post /\ asked[c].form # None
    /\ rest[c] \in Seq(STRING)
    /\ body[c] # None => body[c] \in Seq(STRING)
    /\ overflow[c] => Len(asked[c].form.text) > BodyMax
    /\ ~overflow[c] =>
          /\ body[c] = None => rest[c] = asked[c].form.text
          /\ body[c] # None => body[c] \o rest[c] = asked[c].form.text /\ Len(body[c]) <= BodyMax
Exact(c) ==
    cookie[c] = "set" <=>
        /\ asked[c].path = "login" /\ asked[c].post /\ answer[c] = "to index"
        /\ asked[c].form.typed = Password
        /\ Len(asked[c].form.text) <= BodyMax
LoginRight(c) ==
    auth = "password" /\ asked[c] # None /\ ~overtaken[c] =>
        IF loginPost[c] THEN FormArrives(c) ELSE Exact(c)
LoginInv == \A c \in Conns : LoginRight(c)

\* A form is not empty.
LEMMA FormThere ==
    ASSUME NEW form, IsForm(form)
    PROVE  form.text \in Seq(STRING) /\ form.text # <<>>
  <1>1. form.text \in Seq(STRING)
    BY DEF IsForm
  <1>2. PICK S : S = Characters
    OBVIOUS
  <1>w. STRING \subseteq S
    BY <1>2 DEF Characters
  <1>3. PICK before \in Seq(S), name \in Seq(S), after \in Seq(S), value \in Seq(S) :
            /\ before = form.before /\ name = FieldName /\ after = form.after
            /\ value = FormText(form.typed, form.everything)
    <2>1. form.before \in Seq(S) /\ form.after \in Seq(S) /\ FieldName \in Seq(S)
      BY <1>w, SeqWider, FieldAssumption DEF IsForm
    <2>2. FormText(form.typed, form.everything) \in Seq(S)
      <3>1. form.typed \in Seq(Range(Codes) \ {NUL}) /\ form.everything \in BOOLEAN
        BY DEF IsForm
      <3>2. form.typed \in Seq(Range(Codes))
        BY <3>1, SeqWider
      <3>3. FormText(form.typed, form.everything) \in Seq(Unseparated)
        BY <3>1, <3>2, FormTextDecoded
      <3>4. Unseparated \subseteq S
        BY <1>2 DEF Unseparated
      <3> QED BY <3>3, <3>4, SeqWider
    <2> QED BY <2>1, <2>2
  <1>4. FourTexts(S, form.text, before, name, value, after)
    <2>1. form.text = before \o name \o value \o after
      BY <1>3 DEF IsForm
    <2> QED BY <2>1, FourTextsAre
  <1>5. Len(name) > 0
    <2>1. name # <<>>
      BY <1>3, FieldAssumption
    <2> QED BY <2>1, EmptySeq
  <1>6. Len(form.text) > 0
    BY <1>4, <1>5 DEF FourTexts
  <1> QED BY <1>1, <1>6

\* Given all of a form, handle_login_post finds out what was typed.
LEMMA FormIsRight ==
    ASSUME NEW form, IsForm(form)
    PROVE  /\ FormPassword(form.text).ok
           /\ TokenMatches(CString(FormPassword(form.text).text), Password)
           <=> form.typed = Password
  <1>1. PICK typed, text : typed = form.typed /\ text = form.text
    OBVIOUS
  <1>2. FormPassword(text) = [ok |-> Len(typed) < PasswordMax, text |-> typed]
    BY <1>1, FormPasswordIs
  <1>3. TokenMatches(CString(typed), Password) <=> typed = Password
    BY <1>1, TypedIs, FormAssumption
  <1>4. Len(Password) < PasswordMax
    BY FormAssumption
  <1>5. FormPassword(text).ok <=> Len(typed) < PasswordMax
    <2>1. PICK short : short = (Len(typed) < PasswordMax)
      OBVIOUS
    <2>2. FormPassword(text) = [ok |-> short, text |-> typed]
      BY <1>2, <2>1, Zenon
    <2>3. FormPassword(text).ok = short
      BY <2>2
    <2> QED BY <2>1, <2>3, Zenon
  <1>6. FormPassword(text).text = typed
    BY <1>2
  <1> QED BY <1>1, <1>3, <1>4, <1>5, <1>6

\* However the network cuts a body, the parts make it up.
CutIn(S, left, part, more) ==
    /\ part \in Seq(S) /\ more \in Seq(S) /\ part \o more = left /\ Len(part) <= Len(left)
    /\ \A head \in Seq(S) :
          /\ head \o part \in Seq(S)
          /\ (head \o part) \o more = head \o left
          /\ Len(head \o part) = Len(part) + Len(head)
          /\ Len(head \o left) >= Len(part) + Len(head)
LEMMA CutAnywhere ==
    ASSUME NEW S, NEW left \in Seq(S), NEW n \in 1 .. Len(left), NEW part, NEW more,
           part = SubSeq(left, 1, n), more = SubSeq(left, n + 1, Len(left))
    PROVE  CutIn(S, left, part, more)
  <1>1. part \in Seq(S) /\ more \in Seq(S)
    OBVIOUS
  <1>2. part \o more = left
    OBVIOUS
  <1>3. Len(part) <= Len(left)
    OBVIOUS
  <1>4. ASSUME NEW head \in Seq(S)
        PROVE  /\ head \o part \in Seq(S)
               /\ (head \o part) \o more = head \o left
               /\ Len(head \o part) = Len(part) + Len(head)
               /\ Len(head \o left) >= Len(part) + Len(head)
    <2>1. PICK p \in Seq(S), m \in Seq(S) : p = part /\ m = more
      BY <1>1
    <2>2. (head \o p) \o m = head \o (p \o m)
      OBVIOUS
    <2>3. head \o p \in Seq(S) /\ Len(head \o p) = Len(head) + Len(p)
      BY ConcatIs
    <2>4. Len(head \o left) = Len(head) + Len(left)
      BY ConcatIs
    <2>5. Len(head) \in Nat /\ Len(p) \in Nat /\ Len(left) \in Nat
      OBVIOUS
    <2>6. Len(head \o p) = Len(p) + Len(head)
      BY <2>3, <2>5
    <2>7. Len(head \o left) >= Len(p) + Len(head)
      BY <1>3, <2>1, <2>4, <2>5
    <2>8. (head \o p) \o m = head \o left
      BY <1>2, <2>1, <2>2
    <2> QED BY <2>1, <2>3, <2>6, <2>7, <2>8
  <1> QED BY <1>1, <1>2, <1>3, <1>4 DEF CutIn

\* That, too, does not depend on the other connections.
LEMMA OthersExact ==
    ASSUME LoginInv, NEW c \in Conns, UNCHANGED auth,
           overtaken[c] => overtaken'[c],
           UNCHANGED <<asked[c], loginPost[c], answer[c], cookie[c]>>,
           loginPost[c] => UNCHANGED <<rest[c], body[c], overflow[c]>>
    PROVE  LoginRight(c)'
  <1>1. CASE loginPost[c]
    BY <1>1 DEF LoginInv, LoginRight, FormArrives
  <1>2. CASE ~loginPost[c]
    BY <1>2 DEF LoginInv, LoginRight, Exact
  <1> QED BY <1>1, <1>2

\* A connection that is gone has no login.
LEMMA ClosedExact ==
    ASSUME HeldInv, RightInv, LoginInv, NEW c \in Conns, Closed(c), UNCHANGED auth
    PROVE  LoginInv'
  <1> SUFFICES ASSUME NEW d \in Conns PROVE LoginRight(d)'
    BY DEF LoginInv
  <1>1. CASE d = c
    BY <1>1 DEF LoginRight, Closed, RightInv, AskedTypeOK
  <1>2. CASE d # c
    <2>1. UNCHANGED <<asked[d], loginPost[d], answer[d], cookie[d], rest[d], body[d], overflow[d],
                      overtaken[d]>>
      BY <1>2 DEF RightInv, AskedTypeOK, HeldInv, HeldTypeOK, Closed, BodyFreed, Answers
    <2> QED BY <2>1, OthersExact
  <1> QED BY <1>1, <1>2

\* Only a posted form is waited for, and nothing else sets the cookie (HTTP).
LEMMA RequestExact ==
    ASSUME HeldInv, RightInv, LoginInv, NEW c \in Conns, ReceiveRequest(c)
    PROVE  LoginInv'
  <1>1. /\ UNCHANGED auth /\ auth \in Modes
        /\ ~overtaken[c] => ~loginPost[c] /\ ~overflow[c] /\ body[c] = None
    BY DEF ReceiveRequest, HeldInv, Held, HoldsItsOwn, NoBody, RightInv, AskedTypeOK
  <1>2. CASE Closed(c)
    BY <1>1, <1>2, ClosedExact
  <1>3. ASSUME NEW r \in Requests[c], asked' = [asked EXCEPT ![c] = r],
               \/ AnswerAtOnce(c, r, Route(r)) \/ AwaitForm(c, r, Route(r))
               \/ ServePage(c, r, Route(r)) \/ ServeFile(c, r, Route(r))
        PROVE  LoginInv'
    <2> SUFFICES ASSUME NEW d \in Conns PROVE LoginRight(d)'
      BY DEF LoginInv
    <2>0. r \in AllRequests /\ UNCHANGED overtaken
      BY <1>3 DEF AllRequests, AnswerAtOnce, AwaitForm, ServePage, ServeFile
    <2>1. CASE d # c
      <3>1. UNCHANGED <<asked[d], loginPost[d], answer[d], cookie[d], body[d], overflow[d]>>
        BY <1>3, <2>1 DEF RightInv, AskedTypeOK, HeldInv, HeldTypeOK, AnswerAtOnce, AwaitForm,
           ServePage, ServeFile, Answers, pssVars
      <3>2. UNCHANGED rest[d]
        BY <1>3, <2>1 DEF RightInv, AskedTypeOK, AnswerAtOnce, AwaitForm, ServePage, ServeFile,
           CompletedBefore, Completed
      <3> QED BY <1>1, <2>0, <3>1, <3>2, OthersExact
    <2>e. CASE d = c /\ overtaken[c]
      BY <2>0, <2>e DEF LoginRight
    <2>2. CASE d = c /\ ~overtaken[c]
      <3>1. asked'[c] = r
        BY <1>3 DEF RightInv, AskedTypeOK
      <3>2. CASE AwaitForm(c, r, Route(r))
        <4>1. Route(r) = "form"
          BY <3>2 DEF AwaitForm
        <4>2. r.path = "login" /\ r.post /\ r.form # None
          BY <1>1, <2>0, <4>1, RouteRight
        <4>3. r.form.text \in Seq(STRING)
          BY <2>0, <4>2, RequestAssumption, FormThere
        <4>4. loginPost'[c] /\ rest'[c] = r.form.text /\ body'[c] = None /\ ~overflow'[c]
          BY <1>1, <2>2, <3>2, <4>2 DEF AwaitForm, BodyOf, RightInv, AskedTypeOK, HeldInv, HeldTypeOK
        <4>5. FormArrives(c)'
          BY <3>1, <4>2, <4>3, <4>4 DEF FormArrives
        <4> QED BY <2>2, <4>4, <4>5 DEF LoginRight
      <3>3. CASE ~AwaitForm(c, r, Route(r))
        <4>1. cookie'[c] # "set" /\ ~loginPost'[c]
          BY <1>1, <1>3, <2>2, <3>3 DEF AnswerAtOnce, ServePage, ServeFile, Answers, RightInv,
             AskedTypeOK, pssVars
        <4>2. Route(r) # "form"
          BY <1>3, <3>3 DEF AnswerAtOnce, ServePage, ServeFile
        <4>3. auth = "password" => ~(r.path = "login" /\ r.post)
          BY <1>1, <2>0, <4>2, RouteRight
        <4> QED BY <1>1, <2>2, <3>1, <4>1, <4>3 DEF LoginRight, Exact
      <3> QED BY <3>2, <3>3
    <2> QED BY <2>1, <2>e, <2>2
  <1> QED BY <1>2, <1>3 DEF ReceiveRequest

\* A part of a form is kept, or the form is too long (HTTP_BODY).
LEMMA BodyExact ==
    ASSUME HeldInv, RightInv, LoginInv, NEW c \in Conns, ReceiveBody(c)
    PROVE  LoginInv'
  <1>1. UNCHANGED <<auth, asked, loginPost, answer, cookie, overtaken>>
    BY DEF ReceiveBody, serverVars, clientVars
  <1>2. PICK n \in 1 .. Len(rest[c]) :
            /\ rest' = [rest EXCEPT ![c] = SubSeq(@, n + 1, Len(@))]
            /\ overflow' = [overflow EXCEPT
                  ![c] = @ \/ (loginPost[c] /\ ~BodyFits(c, SubSeq(rest[c], 1, n)))]
            /\ body' = [body EXCEPT ![c] =
                  IF ~loginPost[c] \/ ~BodyFits(c, SubSeq(rest[c], 1, n)) THEN @
                  ELSE IF @ = None THEN SubSeq(rest[c], 1, n) ELSE @ \o SubSeq(rest[c], 1, n)]
    BY DEF ReceiveBody
  <1> SUFFICES ASSUME NEW d \in Conns PROVE LoginRight(d)'
    BY DEF LoginInv
  <1>3. CASE d # c \/ ~loginPost[c]
    <2>1. loginPost[d] => UNCHANGED <<rest[d], body[d], overflow[d]>>
      BY <1>2, <1>3 DEF RightInv, AskedTypeOK, HeldInv, HeldTypeOK
    <2> QED BY <1>1, <2>1, OthersExact
  <1>4. CASE d = c /\ loginPost[c] /\ ~(auth = "password" /\ asked[c] # None /\ ~overtaken[c])
    BY <1>1, <1>4 DEF LoginRight
  <1>5. CASE d = c /\ loginPost[c] /\ auth = "password" /\ asked[c] # None /\ ~overtaken[c]
    <2>1. FormArrives(c)
      BY <1>5 DEF LoginInv, LoginRight
    <2>a. PICK left \in Seq(STRING) : left = rest[c]
      BY <2>1 DEF FormArrives
    <2>b. PICK part, more, text :
              /\ part = SubSeq(left, 1, n) /\ more = SubSeq(left, n + 1, Len(left))
              /\ text = asked[c].form.text
      OBVIOUS
    <2>2. /\ left = rest[c] /\ part = SubSeq(left, 1, n) /\ more = SubSeq(left, n + 1, Len(left))
          /\ text = asked[c].form.text
      BY <2>a, <2>b
    <2>3. /\ part \in Seq(STRING) /\ more \in Seq(STRING) /\ part \o more = left
          /\ Len(part) <= Len(left)
          /\ \A head \in Seq(STRING) :
                /\ head \o part \in Seq(STRING)
                /\ (head \o part) \o more = head \o left
                /\ Len(head \o part) = Len(part) + Len(head)
                /\ Len(head \o left) >= Len(part) + Len(head)
      <3>1. n \in 1 .. Len(left)
        BY <2>2
      <3>2. PICK S : S = STRING
        OBVIOUS
      <3>3. CutIn(S, left, part, more)
        BY <2>2, <3>1, <3>2, CutAnywhere
      <3> QED BY <3>2, <3>3 DEF CutIn
    <2>4. /\ rest'[c] = more
          /\ overflow'[c] <=> overflow[c] \/ ~BodyFits(c, part)
          /\ body'[c] = IF ~BodyFits(c, part) THEN body[c]
                        ELSE IF body[c] = None THEN part ELSE body[c] \o part
      BY <1>2, <1>5, <2>2 DEF RightInv, AskedTypeOK, HeldInv, HeldTypeOK
    <2>5. None \notin Seq(STRING) /\ BodyMax \in Nat /\ Len(part) \in Nat /\ Len(left) \in Nat
      BY <2>3, PageAssumption
    <2>6. BodyFits(c, part) <=>
              IF body[c] = None THEN Len(part) <= BodyMax ELSE Len(part) + Len(body[c]) <= BodyMax
      BY <2>5 DEF BodyFits
    <2>7. body'[c] # None => body'[c] \in Seq(STRING)
      BY <2>1, <2>3, <2>4 DEF FormArrives
    <2>8. overflow'[c] => Len(text) > BodyMax
      <3>1. CASE overflow[c]
        BY <2>1, <2>2, <3>1 DEF FormArrives
      <3>2. CASE ~overflow[c] /\ ~BodyFits(c, part) /\ body[c] = None
        <4>1. text = left
          BY <2>1, <2>2, <3>2 DEF FormArrives
        <4> QED BY <2>3, <2>5, <2>6, <3>2, <4>1
      <3>3. CASE ~overflow[c] /\ ~BodyFits(c, part) /\ body[c] # None
        <4>1. PICK head \in Seq(STRING) : head = body[c] /\ head \o left = text
          BY <2>1, <2>2, <3>3 DEF FormArrives
        <4>2. Len(text) >= Len(part) + Len(head) /\ Len(part) + Len(head) > BodyMax
          BY <2>3, <2>5, <2>6, <3>3, <4>1
        <4>3. Len(text) \in Nat /\ Len(head) \in Nat
          BY <4>1
        <4> QED BY <2>5, <4>2, <4>3
      <3> QED BY <2>4, <3>1, <3>2, <3>3
    <2>9. ASSUME ~overflow'[c]
          PROVE  body'[c] # None /\ body'[c] \o more = text /\ Len(body'[c]) <= BodyMax
      <3>1. ~overflow[c] /\ BodyFits(c, part)
        BY <2>4, <2>9
      <3>2. CASE body[c] = None
        <4>1. text = left
          BY <2>1, <2>2, <3>1, <3>2 DEF FormArrives
        <4> QED BY <2>3, <2>4, <2>5, <2>6, <3>1, <3>2, <4>1
      <3>3. CASE body[c] # None
        <4>1. PICK head \in Seq(STRING) : head = body[c] /\ head \o left = text
          BY <2>1, <2>2, <3>1, <3>3 DEF FormArrives
        <4>2. body'[c] = head \o part
          BY <2>4, <3>1, <3>3, <4>1
        <4>3. Len(part) + Len(head) <= BodyMax
          BY <2>6, <3>1, <3>3, <4>1
        <4> QED BY <2>3, <2>5, <4>1, <4>2, <4>3
      <3> QED BY <3>2, <3>3
    <2>10. FormArrives(c)'
      <3>1. /\ asked'[c] = asked[c]
            /\ asked[c].path = "login" /\ asked[c].post /\ asked[c].form # None
        BY <1>1, <2>1 DEF FormArrives
      <3>2. rest'[c] \in Seq(STRING)
        BY <2>3, <2>4
      <3> QED BY <2>2, <2>4, <2>7, <2>8, <2>9, <3>1, <3>2 DEF FormArrives
    <2> QED BY <1>1, <1>5, <2>10 DEF LoginRight
  <1> QED BY <1>3, <1>4, <1>5

\* The login is answered with the cookie if the form is whole and right
\* (HTTP_BODY_COMPLETION).
LEMMA CompleteExact ==
    ASSUME HeldInv, RightInv, LoginInv, NEW c \in Conns, CompleteBody(c)
    PROVE  LoginInv'
  <1>1. UNCHANGED auth /\ rest[c] = <<>>
    BY DEF CompleteBody, serverVars
  <1>2. CASE Closed(c)
    BY <1>1, <1>2, ClosedExact
  <1>o. ASSUME ~Closed(c) PROVE overtaken' = [overtaken EXCEPT ![c] = @ \/ buffer[c] # None]
    BY <1>o DEF CompleteBody
  <1>p. ASSUME ~Closed(c), NEW d \in Conns
        PROVE  (overtaken[d] => overtaken'[d]) /\ (d # c => overtaken'[d] = overtaken[d])
    BY <1>o, <1>p DEF HeldInv, HeldTypeOK
  <1>3. CASE /\ ~Closed(c) /\ ~loginPost[c] /\ Completed(c)
             /\ UNCHANGED <<asked, loginPost, body, overflow, clientVars>>
    <2> SUFFICES ASSUME NEW d \in Conns PROVE LoginRight(d)'
      BY DEF LoginInv
    <2>1. loginPost[d] => UNCHANGED rest[d]
      BY <1>3 DEF Completed, RightInv, AskedTypeOK
    <2> QED BY <1>1, <1>p, <1>3, <2>1, OthersExact DEF clientVars
  <1>4. CASE /\ ~Closed(c) /\ loginPost[c] /\ HandleLoginPost(c) /\ BodyFreed(c) /\ Completed(c)
             /\ UNCHANGED asked
    <2> SUFFICES ASSUME NEW d \in Conns PROVE LoginRight(d)'
      BY DEF LoginInv
    <2>1. CASE d # c
      <3>1. UNCHANGED <<asked[d], loginPost[d], body[d], overflow[d], rest[d]>>
        BY <1>4, <2>1 DEF RightInv, AskedTypeOK, HeldInv, HeldTypeOK, BodyFreed, Completed
      <3>2. UNCHANGED <<answer[d], cookie[d]>>
        BY <1>4, <2>1 DEF RightInv, AskedTypeOK, HandleLoginPost, Answers
      <3> QED BY <1>1, <1>p, <1>4, <3>1, <3>2, OthersExact
    <2>2. CASE d = c /\ ~(auth = "password" /\ asked[c] # None /\ ~overtaken[c])
      BY <1>1, <1>p, <1>4, <2>2 DEF LoginRight
    <2>3. CASE d = c /\ auth = "password" /\ asked[c] # None /\ ~overtaken[c]
      <3>1. FormArrives(c)
        BY <1>4, <2>3 DEF LoginInv, LoginRight
      <3>2. asked[c].form # None /\ IsForm(asked[c].form)
        <4>1. asked[c] \in AllRequests
          BY <2>3 DEF RightInv, AnsweredRight
        <4> QED BY <3>1, <4>1, RequestAssumption DEF FormArrives
      <3>l. asked[c].path = "login" /\ asked[c].post
        BY <3>1 DEF FormArrives
      <3>3. PICK form : form = asked[c].form
        OBVIOUS
      <3>4. form.text \in Seq(STRING) /\ form.text # <<>>
        BY <3>2, <3>3, FormThere
      <3>5. LoginIsRight(c) <=> form.typed = Password /\ Len(form.text) <= BodyMax
        <4>1. CASE overflow[c]
          <5>1. Len(form.text) > BodyMax /\ Len(form.text) \in Nat /\ BodyMax \in Nat
            BY <3>1, <3>3, <3>4, <4>1, PageAssumption DEF FormArrives
          <5> QED BY <4>1, <5>1 DEF LoginIsRight
        <4>2. CASE ~overflow[c]
          <5>1. body[c] # None
            BY <1>1, <3>1, <3>3, <3>4, <4>2 DEF FormArrives
          <5>2. PICK head \in Seq(STRING) : head = body[c] /\ head \o rest[c] = form.text
            BY <3>1, <3>3, <4>2, <5>1 DEF FormArrives
          <5>3. head \o <<>> = head
            OBVIOUS
          <5>4. body[c] = form.text
            BY <1>1, <5>2, <5>3
          <5>5. Len(form.text) <= BodyMax
            BY <3>1, <4>2, <5>1, <5>4 DEF FormArrives
          <5>6. LoginIsRight(c) <=>
                   /\ FormPassword(form.text).ok
                   /\ TokenMatches(CString(FormPassword(form.text).text), Password)
            BY <4>2, <5>1, <5>4 DEF LoginIsRight
          <5> QED BY <3>2, <3>3, <5>5, <5>6, FormIsRight
        <4> QED BY <4>1, <4>2
      <3>6. IF LoginIsRight(c) THEN answer'[c] = "to index" /\ cookie'[c] = "set"
            ELSE answer'[c] = "to login?error=1" /\ cookie'[c] = "kept"
        BY <1>4, <2>3 DEF HandleLoginPost, Answers, RightInv, AskedTypeOK
      <3>7. ~loginPost'[c] /\ asked'[c] = asked[c]
        BY <1>4 DEF BodyFreed, HeldInv, HeldTypeOK
      <3>8. Exact(c)'
        BY <3>l, <3>3, <3>5, <3>6, <3>7 DEF Exact
      <3> QED BY <2>3, <3>7, <3>8 DEF LoginRight
    <2> QED BY <2>1, <2>2, <2>3
  <1> QED BY <1>2, <1>3, <1>4 DEF CompleteBody

\* Nothing else has to do with a login.
LEMMA RestExact ==
    ASSUME HeldInv, RightInv, LoginInv, NEW c \in Conns,
           Writeable(c) \/ FileSent(c) \/ Connect(c)
    PROVE  LoginInv'
  <1>1. UNCHANGED <<auth, asked, loginPost, body, overflow, answer, cookie>>
    <2>1. CASE Writeable(c)
      BY <2>1 DEF Writeable, pssVars
    <2>2. CASE FileSent(c) \/ Connect(c)
      BY <2>2 DEF FileSent, Connect, serverVars, pssVars, clientVars
    <2> QED BY <2>1, <2>2
  <1>2. ~overtaken[c] => ~loginPost[c]
    BY DEF Writeable, FileSent, Connect, HeldInv, Held, HoldsItsOwn, OwesTheRest, NoBody
  <1> SUFFICES ASSUME NEW d \in Conns PROVE LoginRight(d)'
    BY DEF LoginInv
  <1>3. UNCHANGED overtaken
    BY DEF Writeable, FileSent, Connect
  <1>4. CASE d = c /\ overtaken[c]
    BY <1>3, <1>4 DEF LoginRight
  <1>5. CASE ~(d = c /\ overtaken[c])
    <2>1. loginPost[d] => UNCHANGED rest[d]
      BY <1>2, <1>5 DEF Writeable, FileSent, Connect, CompletedBefore, Completed, Blocked, LastPiece,
         RightInv, AskedTypeOK
    <2> QED BY <1>1, <1>3, <2>1, OthersExact
  <1> QED BY <1>4, <1>5

\* A posted form gets the session cookie exactly if the password typed into it is
\* the server's and the form is not too long, however it was encoded, whatever
\* other fields it has and however the network cut it (handle_login_post,
\* auth_form_password, HTTP_BODY).
THEOREM LoginIsExact == Spec => []LoginExact
  <1>1. Init => LoginInv
    BY DEF Init, LoginInv, LoginRight
  <1>2. HeldInv /\ RightInv /\ LoginInv /\ [Next]_vars => LoginInv'
    <2> SUFFICES ASSUME HeldInv, RightInv, LoginInv, [Next]_vars PROVE LoginInv'
      OBVIOUS
    <2>1. ASSUME NEW c \in Conns, Close(c) PROVE LoginInv'
      BY <2>1, ClosedExact DEF Close, serverVars
    <2>2. CASE UNCHANGED vars
      <3> SUFFICES ASSUME NEW d \in Conns PROVE LoginRight(d)'
        BY DEF LoginInv
      <3> QED BY <2>2, OthersExact DEF vars, serverVars, lwsVars, pssVars, clientVars
    <2> QED BY <2>1, <2>2, RestExact, RequestExact, BodyExact, CompleteExact DEF Next
  <1>3. HeldInv /\ LoginInv => LoginExact
    BY DEF HeldInv, Held, HoldsItsOwn, NoBody, LoginInv, LoginRight, Exact, LoginExact
  <1> QED BY <1>1, <1>2, <1>3, AlwaysHeld, AlwaysRight, PTL DEF Spec
=============================================================================
