---------------------------- MODULE SessionProofs ----------------------------
(***************************************************************************)
(* Proofs about Session.tla, for any number of connections and sessions,    *)
(* any buffer sizes and every combination of options: its types; how        *)
(* connections and sessions hang together; and clients coming and going.    *)
(***************************************************************************)
EXTENDS Session, OffsetLemmas, FiniteSetTheorems

\* The stream offset a client is sent from and the length of what it is sent
\* are natural numbers, and end inside the stream (wsi_output).
LEMMA OutputRange ==
    ASSUME NEW size \in {0, Capacity},
           NEW end \in Nat, NEW position \in Nat, position < end,
           NEW from \in IF position < Oldest(size, end)
                        THEN ResumeOffsets(size, Limit, end, position)
                        ELSE {position}
    PROVE  /\ from \in Nat /\ from \in Oldest(size, end) .. end
           /\ ReadLength(size, end, from, Chunk) \in Nat
           /\ ReadLength(size, end, from, Chunk) \in 0 .. (end - from)
           /\ size # 0 /\ from < end => ReadLength(size, end, from, Chunk) > 0
  <1>1. size \in Nat /\ Limit \in Nat /\ Chunk \in Nat \ {0}
    BY BufferAssumption
  <1>2. Oldest(size, end) \in Nat
    BY <1>1, EarliestRange
  <1>3. from \in Oldest(size, end) .. end
    <2>1. CASE position < Oldest(size, end)
      <3>1. from \in ResumeOffsets(size, Limit, end, position)
        BY <2>1
      <3>2. from \in Earliest(size, Limit, end) .. end
        BY <1>1, <3>1, ResumeRange
      <3> QED BY <1>1, <1>2, <3>2, EarliestRange
    <2>2. CASE ~(position < Oldest(size, end))
      BY <1>2, <2>2
    <2> QED BY <2>1, <2>2
  <1>4. from \in Nat
    BY <1>2, <1>3
  <1>5. /\ ReadLength(size, end, from, Chunk) \in 0 .. (end - from)
        /\ size # 0 /\ from < end => ReadLength(size, end, from, Chunk) > 0
    BY <1>1, <1>3, ReadRange
  <1> QED BY <1>3, <1>4, <1>5

\* session_attach leaves everything it changes of the right type.
LEMMA AttachTypes ==
    ASSUME TypeOK, NEW s \in Ids, NEW c \in Conns, NEW requested \in Nat,
           SessionAttach(s, c, requested)
    PROVE  /\ attached' \in [Ids -> Conns \cup {None}]
           /\ session' \in [Conns -> Ids \cup {None}]
           /\ closeStatus' \in [Conns -> {"none", "normal", "takenOver"}]
           /\ timer' \in [Ids -> BOOLEAN]
           /\ sent' \in [Conns -> Nat]
  <1>1. total[s] \in Nat /\ capacity[s] \in Nat /\ Limit \in Nat
    BY BufferAssumption DEF TypeOK
  <1>2. PICK offset \in ResumeOffsets(capacity[s], Limit, total[s], requested) :
            sent' = [sent EXCEPT ![c] = offset]
    BY DEF SessionAttach
  <1>3. offset \in Nat
    BY <1>1, ResumeRange
  <1>4. sent' \in [Conns -> Nat]
    BY <1>2, <1>3 DEF TypeOK
  <1> QED BY <1>4 DEF SessionAttach, HandedOver, TimerStopped, TypeOK

\* So does session_free.
LEMMA FreeTypes ==
    ASSUME TypeOK, NEW s \in Ids, SessionFree(s)
    PROVE  /\ life' \in [Ids -> {"unborn", "live", "freed"}]
           /\ sessions' \in SUBSET Ids
           /\ timer' \in [Ids -> BOOLEAN]
  <1>1. sessions' \in SUBSET Ids
    BY DEF TypeOK, SessionFree, Unlinked
  <1> QED BY <1>1 DEF TypeOK, SessionFree, TimerStopped

\* ... and pty_resume.
LEMMA ResumedType ==
    ASSUME TypeOK, NEW s \in Ids
    PROVE  Resumed(s) \in [Ids -> BOOLEAN]
  BY DEF TypeOK, Resumed

-----------------------------------------------------------------------------
\* Type correctness, action by action.
LEMMA TypeStep == TypeOK /\ [Next]_vars => TypeOK'
  <1> SUFFICES ASSUME TypeOK, [Next]_vars PROVE TypeOK'
    OBVIOUS
  <1> USE DEF TypeOK, connVars, linkVars, streamVars, commandVars, serverVars
  <1>1. ASSUME NEW c \in Conns, Connect(c) PROVE TypeOK'
    <2>1. PICK cookie \in {FALSE, Password} : authed' = [authed EXCEPT ![c] = cookie]
      BY <1>1 DEF Connect
    <2>2. cookie \in BOOLEAN
      BY OptionAssumption
    <2> QED BY <1>1, <2>1, <2>2 DEF Connect
  <1>2. ASSUME NEW c \in Conns, ReceiveUnauthorised(c) PROVE TypeOK'
    BY <1>2 DEF ReceiveUnauthorised
  <1>3. ASSUME NEW c \in Conns, ReceiveInput(c) PROVE TypeOK'
    BY <1>3 DEF ReceiveInput
  <1>4. ASSUME NEW c \in Conns, ReceiveResume(c) PROVE TypeOK'
    <2>1. reading' \in [Ids -> BOOLEAN]
      BY <1>4, ResumedType DEF ReceiveResume, HasProcess
    <2>2. outrun' \in [Conns -> BOOLEAN]
      BY <1>4 DEF ReceiveResume
    <2> QED BY <1>4, <2>1, <2>2 DEF ReceiveResume
  <1>5. ASSUME NEW c \in Conns, NEW s \in Ids, Spawn(c, s) PROVE TypeOK'
    <2>1. SessionAttach(s, c, 0)
      BY <1>5 DEF Spawn
    <2>2. /\ attached' \in [Ids -> Conns \cup {None}]
          /\ session' \in [Conns -> Ids \cup {None}]
          /\ closeStatus' \in [Conns -> {"none", "normal", "takenOver"}]
          /\ timer' \in [Ids -> BOOLEAN]
          /\ sent' \in [Conns -> Nat]
      BY <2>1, AttachTypes
    <2>3. capacity' \in [Ids -> {0, Capacity}]
      BY <1>5 DEF Spawn
    <2> QED BY <1>5, <2>2, <2>3 DEF Spawn, Hello, Authenticated, WokenBoth
  <1>6. ASSUME NEW c \in Conns, NEW s \in Ids, NEW requested \in 0 .. MaxWritten,
               Resume(c, s, requested)
        PROVE TypeOK'
    <2>1. SessionAttach(s, c, requested)
      BY <1>6 DEF Resume
    <2>2. /\ attached' \in [Ids -> Conns \cup {None}]
          /\ session' \in [Conns -> Ids \cup {None}]
          /\ closeStatus' \in [Conns -> {"none", "normal", "takenOver"}]
          /\ timer' \in [Ids -> BOOLEAN]
          /\ sent' \in [Conns -> Nat]
      BY <2>1, AttachTypes, BoundAssumption
    <2> QED BY <1>6, <2>2 DEF Resume, Hello, Authenticated, WokenBoth
  <1>7. ASSUME NEW c \in Conns, SpawnFails(c) PROVE TypeOK'
    BY <1>7 DEF SpawnFails, Hello, Authenticated
  <1>8. ASSUME NEW c \in Conns, SendInitial(c) PROVE TypeOK'
    BY <1>8, InitialAssumption DEF SendInitial, NotInitialized
  <1>9. ASSUME NEW c \in Conns, SendOutput(c) PROVE TypeOK'
    <2> DEFINE end == total[session[c]]
    <2> DEFINE size == capacity[session[c]]
    <2>1. end \in Nat /\ sent[c] \in Nat /\ sent[c] < end /\ size \in {0, Capacity}
      BY <1>9 DEF SendOutput, HasOutput
    <2>2. PICK from \in IF sent[c] < Oldest(size, end)
                        THEN ResumeOffsets(size, Limit, end, sent[c])
                        ELSE {sent[c]} :
            LET length == ReadLength(size, end, from, Chunk)
            IN  /\ sent' = [sent EXCEPT ![c] = from + length]
                /\ received' = [received EXCEPT ![c] = @ + length]
      BY <1>9 DEF SendOutput
    <2> HIDE DEF end, size
    <2>3. from \in Nat /\ ReadLength(size, end, from, Chunk) \in Nat
      BY <2>1, <2>2, OutputRange
    <2>4. sent' \in [Conns -> Nat] /\ received' \in [Conns -> Nat]
      BY <2>2, <2>3
    <2> QED BY <1>9, <2>4 DEF SendOutput
  <1>10. ASSUME NEW c \in Conns, SendSessionEnd(c) PROVE TypeOK'
    BY <1>10 DEF SendSessionEnd
  <1>11. ASSUME NEW c \in Conns, CloseEnded(c) PROVE TypeOK'
    BY <1>11 DEF CloseEnded
  <1>12. ASSUME NEW c \in Conns, ReadOn(c) PROVE TypeOK'
    BY <1>12 DEF ReadOn, Resumed
  <1>13. ASSUME NEW c \in Conns, Closed(c) PROVE TypeOK'
    <2>1. ReleaseSession(c)
      BY <1>13 DEF Closed
    <2>2. /\ life' \in [Ids -> {"unborn", "live", "freed"}]
          /\ sessions' \in SUBSET Ids
          /\ timer' \in [Ids -> BOOLEAN]
          /\ attached' \in [Ids -> Conns \cup {None}]
          /\ reading' \in [Ids -> BOOLEAN]
          /\ signalled' \in [Ids -> BOOLEAN]
      <3>1. CASE session[c] = None
        BY <2>1, <3>1 DEF ReleaseSession
      <3>2. CASE session[c] # None /\ ~process[session[c]]
        <4>1. SessionFree(session[c]) /\ session[c] \in Ids
          BY <2>1, <3>2 DEF ReleaseSession
        <4>2. /\ life' \in [Ids -> {"unborn", "live", "freed"}]
              /\ sessions' \in SUBSET Ids
              /\ timer' \in [Ids -> BOOLEAN]
          BY <4>1, FreeTypes
        <4> QED BY <2>1, <3>2, <4>2 DEF ReleaseSession
      <3>3. CASE session[c] # None /\ process[session[c]] /\ KeepsDetached
        <4>1. Resumed(session[c]) \in [Ids -> BOOLEAN]
          BY <3>3, ResumedType
        <4> QED BY <2>1, <3>3, <4>1 DEF ReleaseSession, TimerStarted
      <3>4. CASE session[c] # None /\ process[session[c]] /\ ~KeepsDetached
        <4>1. /\ attached' = [attached EXCEPT ![session[c]] = None]
              /\ signalled' = signalled \/ signalled' = Killed(session[c])
              /\ UNCHANGED <<life, sessions, timer, reading>>
          BY <2>1, <3>4 DEF ReleaseSession
        <4>2. Killed(session[c]) \in [Ids -> BOOLEAN]
          BY DEF Killed
        <4> QED BY <4>1, <4>2
      <3> QED BY <3>1, <3>2, <3>3, <3>4
    <2>3. forceExit' \in BOOLEAN /\ up' \in BOOLEAN
      <3> DEFINE running == session[c] # None /\ Running(session[c])
      <3>1. /\ forceExit' = (forceExit \/ (LastClientLeft /\ running))
            /\ up' = ~(LastClientLeft /\ ~running)
        BY <1>13 DEF Closed, ExitIfLast
      <3>2. forceExit' \in BOOLEAN
        BY <3>1, Zenon
      <3>3. up' \in BOOLEAN
        BY <3>1, Zenon
      <3> QED BY <3>2, <3>3
    <2>4. /\ cstate' \in [Conns -> {"unused", "open", "closing", "closed"}]
          /\ authed' \in [Conns -> BOOLEAN]
          /\ cmdIndex' \in [Conns -> 0 .. InitialMessages]
          /\ closeStatus' \in [Conns -> {"none", "normal", "takenOver"}]
          /\ endSent' \in [Conns -> BOOLEAN]
          /\ wakeup' \in [Conns -> BOOLEAN]
      BY <1>13, InitialAssumption DEF Closed
    <2>5. /\ session' \in [Conns -> Ids \cup {None}]
          /\ sent' \in [Conns -> Nat]
          /\ received' \in [Conns -> Nat]
          /\ outrun' \in [Conns -> BOOLEAN]
          /\ clientCount' \in Int
      BY <1>13 DEF Closed
    <2>6. UNCHANGED <<process, total, capacity, eof, command, written, hungUp>>
      BY <1>13 DEF Closed
    <2> QED BY <2>2, <2>3, <2>4, <2>5, <2>6
  <1>14. ASSUME NEW s \in Ids, ReadData(s) PROVE TypeOK'
    BY <1>14 DEF ReadData, Woken
  <1>15. ASSUME NEW s \in Ids, ReadEof(s) PROVE TypeOK'
    BY <1>15 DEF ReadEof, Woken
  <1>16. ASSUME NEW s \in Ids, ReadNothing(s) PROVE TypeOK'
    BY <1>16 DEF ReadNothing
  <1>17. ASSUME NEW s \in Ids, AsyncCb(s) PROVE TypeOK'
    <2>1. /\ life' \in [Ids -> {"unborn", "live", "freed"}]
          /\ sessions' \in SUBSET Ids
          /\ timer' \in [Ids -> BOOLEAN]
          /\ closeStatus' \in [Conns -> {"none", "normal", "takenOver"}]
          /\ wakeup' \in [Conns -> BOOLEAN]
      <3>1. CASE attached[s] = None
        <4>1. SessionFree(s) /\ UNCHANGED <<closeStatus, wakeup>>
          BY <1>17, <3>1 DEF AsyncCb
        <4>2. /\ life' \in [Ids -> {"unborn", "live", "freed"}]
              /\ sessions' \in SUBSET Ids
              /\ timer' \in [Ids -> BOOLEAN]
          BY <4>1, FreeTypes
        <4> QED BY <4>1, <4>2
      <3>2. CASE attached[s] # None
        <4>1. sessions' \in SUBSET Ids
          BY <1>17, <3>2 DEF AsyncCb, Unlinked
        <4>2. UNCHANGED <<life, timer>>
          BY <1>17, <3>2 DEF AsyncCb
        <4>3. closeStatus' \in [Conns -> {"none", "normal", "takenOver"}]
          BY <1>17, <3>2 DEF AsyncCb
        <4>4. wakeup' \in [Conns -> BOOLEAN]
          <5>1. wakeup' = Woken(s)
            BY <1>17, <3>2 DEF AsyncCb
          <5> QED BY <5>1 DEF Woken
        <4> QED BY <4>1, <4>2, <4>3, <4>4
      <3> QED BY <3>1, <3>2
    <2>2. up' \in BOOLEAN
      BY <1>17, Zenon DEF AsyncCb
    <2> QED BY <1>17, <2>1, <2>2 DEF AsyncCb
  <1>18. ASSUME NEW s \in Ids, ReapTimer(s) PROVE TypeOK'
    BY <1>18 DEF ReapTimer, Killed
  <1>19. ASSUME NEW s \in Ids, WaitThread(s) PROVE TypeOK'
    BY <1>19 DEF WaitThread
  <1>20. ASSUME NEW s \in Ids, CommandWrites(s) PROVE TypeOK'
    BY <1>20 DEF CommandWrites
  <1>21. ASSUME NEW s \in Ids, CommandHangsUp(s) PROVE TypeOK'
    BY <1>21 DEF CommandHangsUp
  <1>22. ASSUME NEW s \in Ids, CommandExits(s) PROVE TypeOK'
    BY <1>22 DEF CommandExits
  <1>23. CASE UNCHANGED vars
    BY <1>23 DEF vars
  <1> QED
    BY <1>1, <1>2, <1>3, <1>4, <1>5, <1>6, <1>7, <1>8, <1>9, <1>10, <1>11, <1>12,
       <1>13, <1>14, <1>15, <1>16, <1>17, <1>18, <1>19, <1>20, <1>21, <1>22, <1>23
       DEF Next, Receive, ServerWriteable, Read, Command

\* It starts that way.
LEMMA InitTypes == Init => TypeOK
  <1> SUFFICES ASSUME Init PROVE TypeOK
    OBVIOUS
  <1>1. /\ cstate \in [Conns -> {"unused", "open", "closing", "closed"}]
        /\ authed \in [Conns -> BOOLEAN]
        /\ cmdIndex \in [Conns -> 0 .. InitialMessages]
        /\ closeStatus \in [Conns -> {"none", "normal", "takenOver"}]
    BY InitialAssumption DEF Init
  <1>2. /\ endSent \in [Conns -> BOOLEAN]
        /\ wakeup \in [Conns -> BOOLEAN]
        /\ session \in [Conns -> Ids \cup {None}]
        /\ sent \in [Conns -> Nat]
        /\ received \in [Conns -> Nat]
        /\ outrun \in [Conns -> BOOLEAN]
    BY DEF Init
  <1>3. /\ life \in [Ids -> {"unborn", "live", "freed"}]
        /\ process \in [Ids -> BOOLEAN]
        /\ attached \in [Ids -> Conns \cup {None}]
        /\ timer \in [Ids -> BOOLEAN]
        /\ total \in [Ids -> Nat]
        /\ capacity \in [Ids -> {0, Capacity}]
        /\ eof \in [Ids -> BOOLEAN]
    BY DEF Init
  <1>4. sessions \in SUBSET Ids
    BY DEF Init
  <1>5. /\ command \in [Ids -> {"none", "running", "zombie", "reaped", "gone"}]
        /\ reading \in [Ids -> BOOLEAN]
        /\ written \in [Ids -> Nat]
        /\ hungUp \in [Ids -> BOOLEAN]
        /\ signalled \in [Ids -> BOOLEAN]
    BY DEF Init
  <1>6. clientCount \in Int
    BY DEF Init
  <1>7. forceExit \in BOOLEAN /\ up \in BOOLEAN
    BY Zenon DEF Init
  <1> QED BY <1>1, <1>2, <1>3, <1>4, <1>5, <1>6, <1>7 DEF TypeOK

\* Every variable keeps its type, whatever the clients, the commands and the
\* options: in particular stream offsets stay natural numbers, and no more
\* initial messages are sent than there are (WRITEABLE).
THEOREM TypeCorrect == Spec => []TypeOK
  <1>1. Init => TypeOK
    BY InitTypes
  <1>2. TypeOK /\ [Next]_vars => TypeOK'
    BY TypeStep
  <1> QED BY <1>1, <1>2, PTL DEF Spec

-----------------------------------------------------------------------------
(***************************************************************************)
(* How connections and sessions hang together: the inductive invariant      *)
(* behind LinksMutual, TimerSafe, ListedAreResumable, NoOrphan and          *)
(* NothingBeforeAuth, and behind the action properties SupersededStaysOut   *)
(* and KilledOnlyWhenAlone.                                                 *)
(***************************************************************************)

\* The pointers of a connection, against its close status and its progress.
ConnLinked(c) ==
    /\ session[c] # None =>
          /\ Connected(c)
          /\ life[session[c]] = "live"
          /\ attached[session[c]] = c
    /\ closeStatus[c] = "takenOver" => session[c] = None
    /\ closeStatus[c] = "normal" /\ session[c] # None => ~process[session[c]]
    /\ ~Connected(c) => cmdIndex[c] = 0 /\ closeStatus[c] = "none"
    /\ Unauthorised(c) => session[c] = None /\ cmdIndex[c] = 0 /\ closeStatus[c] = "none"

\* The pointers, the timer and the list entry of a session, against its process.
SessionLinked(s) ==
    /\ attached[s] # None => session[attached[s]] = s
    /\ timer[s] => attached[s] = None
    /\ timer[s] => process[s]
    /\ process[s] => life[s] = "live"
    /\ life[s] = "live" /\ ~process[s] => attached[s] # None
    /\ s \in sessions <=> process[s]
    /\ process[s] <=> command[s] \in {"running", "zombie", "reaped"}

Linked ==
    /\ \A c \in Conns : ConnLinked(c)
    /\ \A s \in Ids : SessionLinked(s)
-----------------------------------------------------------------------------
\* Nothing is linked at first.
LEMMA InitLinked == Init => Linked
  <1> SUFFICES ASSUME Init PROVE Linked
    OBVIOUS
  <1>1. ASSUME NEW c \in Conns PROVE ConnLinked(c)
    BY PointerAssumption DEF Init, ConnLinked, Connected, Unauthorised
  <1>2. ASSUME NEW s \in Ids PROVE SessionLinked(s)
    BY DEF Init, SessionLinked
  <1> QED BY <1>1, <1>2 DEF Linked

\* Most steps leave the links alone, keep connections connected and take no
\* authentication back.
LEMMA LinksUntouched ==
    ASSUME TypeOK, Linked,
           UNCHANGED <<linkVars, closeStatus, cmdIndex, command>>,
           \A c \in Conns : Connected(c)' <=> Connected(c),
           \A c \in Conns : authed[c] => authed'[c]
    PROVE  Linked'
  <1>1. ASSUME NEW c \in Conns PROVE ConnLinked(c)'
    <2>1. ConnLinked(c) /\ (Unauthorised(c)' => Unauthorised(c))
      BY DEF Linked, Unauthorised
    <2>2. Connected(c)' <=> Connected(c)
      OBVIOUS
    <2> QED BY <2>1, <2>2 DEF ConnLinked, linkVars
  <1>2. ASSUME NEW s \in Ids PROVE SessionLinked(s)'
    BY DEF Linked, SessionLinked, linkVars
  <1> QED BY <1>1, <1>2 DEF Linked

\* A new connection has no session yet.
LEMMA ConnectLinked ==
    ASSUME TypeOK, Linked, NEW c \in Conns, Connect(c) PROVE Linked'
  <1>1. ASSUME NEW d \in Conns PROVE ConnLinked(d)'
    <2>1. ConnLinked(d)
      BY DEF Linked
    <2>2. UNCHANGED <<cmdIndex, closeStatus, linkVars>>
      BY DEF Connect
    <2>3. CASE d = c
      <3>1. cstate[c] = "unused" /\ cstate'[c] = "open"
        BY DEF Connect, TypeOK
      <3> QED BY <2>1, <2>2, <2>3, <3>1 DEF ConnLinked, Connected, linkVars
    <2>4. CASE d # c
      <3>1. cstate'[d] = cstate[d] /\ authed'[d] = authed[d]
        BY <2>4 DEF Connect, TypeOK
      <3> QED BY <2>1, <2>2, <3>1 DEF ConnLinked, Connected, Unauthorised, linkVars
    <2> QED BY <2>3, <2>4
  <1>2. ASSUME NEW s \in Ids PROVE SessionLinked(s)'
    BY DEF Linked, SessionLinked, Connect, linkVars, commandVars
  <1> QED BY <1>1, <1>2 DEF Linked

\* Connections, after session_attach gave session s to connection c: the one it
\* was taken from is out, the new one holds it, the others are as they were.
LEMMA AttachLinksConns ==
    ASSUME TypeOK, Linked, NEW c \in Conns, NEW s \in Ids, NEW requested \in Nat,
           Hello(c), SessionAttach(s, c, requested),
           UNCHANGED <<cstate, cmdIndex>>,
           \A t \in Ids : t # s => life'[t] = life[t] /\ process'[t] = process[t],
           life'[s] = "live", process'[s]
    PROVE  \A d \in Conns : ConnLinked(d)'
  <1> SUFFICES ASSUME NEW d \in Conns PROVE ConnLinked(d)'
    OBVIOUS
  <1>1. /\ ConnLinked(d) /\ ConnLinked(c) /\ SessionLinked(s)
        /\ session' = HandedOver(s, c)
        /\ closeStatus' = [e \in Conns |-> IF e = attached[s] THEN "takenOver"
                                          ELSE closeStatus[e]]
        /\ attached' = [attached EXCEPT ![s] = c]
        /\ authed' = [authed EXCEPT ![c] = @ \/ Password]
    BY DEF Linked, SessionAttach, Hello, Authenticated
  <1>2. Connected(c) /\ session[c] = None /\ closeStatus[c] = "none"
    BY DEF Hello, Fresh, Connected
  <1>3. (Connected(d)' <=> Connected(d)) /\ cmdIndex'[d] = cmdIndex[d]
    BY DEF Connected
  <1>4. c # attached[s] /\ s # None
    BY <1>1, <1>2, PointerAssumption DEF SessionLinked
  <1>5. CASE d = c
    <2>1. session'[d] = s /\ closeStatus'[d] = "none" /\ attached'[s] = c
      BY <1>1, <1>2, <1>4, <1>5 DEF HandedOver, TypeOK
    <2>2. ~Unauthorised(d)'
      <3>1. authed'[c] = (authed[c] \/ Password)
        BY <1>1 DEF TypeOK
      <3> QED BY <3>1, <1>5, Zenon DEF Unauthorised
    <2> QED BY <1>2, <1>3, <1>4, <1>5, <2>1, <2>2 DEF ConnLinked
  <1>6. CASE d # c /\ d = attached[s]
    <2>1. session[d] = s
      BY <1>1, <1>6, PointerAssumption DEF SessionLinked
    <2>2. session'[d] = None /\ closeStatus'[d] = "takenOver" /\ authed'[d] = authed[d]
      BY <1>1, <1>6 DEF HandedOver, TypeOK
    <2>3. Connected(d) /\ ~Unauthorised(d)
      BY <1>1, <1>4, <2>1 DEF ConnLinked
    <2>4. ~Unauthorised(d)' /\ Connected(d)'
      BY <1>3, <2>2, <2>3 DEF Unauthorised
    <2> QED BY <2>2, <2>4 DEF ConnLinked
  <1>7. CASE d # c /\ d # attached[s]
    <2>1. session'[d] = session[d] /\ closeStatus'[d] = closeStatus[d]
          /\ authed'[d] = authed[d]
      BY <1>1, <1>7 DEF HandedOver, TypeOK
    <2>2. session[d] # None => session[d] \in Ids /\ session[d] # s
      BY <1>1, <1>7 DEF ConnLinked, TypeOK
    <2>3. session[d] # None =>
            /\ attached'[session[d]] = attached[session[d]]
            /\ life'[session[d]] = life[session[d]]
            /\ process'[session[d]] = process[session[d]]
      BY <1>1, <2>2 DEF TypeOK
    <2>4. Unauthorised(d)' <=> Unauthorised(d)
      BY <2>1 DEF Unauthorised
    <2> QED BY <1>1, <1>3, <2>1, <2>3, <2>4 DEF ConnLinked
  <1> QED BY <1>5, <1>6, <1>7

\* ... and sessions.
LEMMA AttachLinksSessions ==
    ASSUME TypeOK, Linked, NEW c \in Conns, NEW s \in Ids, NEW requested \in Nat,
           Hello(c), SessionAttach(s, c, requested),
           \A t \in Ids : t # s =>
              /\ life'[t] = life[t] /\ process'[t] = process[t]
              /\ command'[t] = command[t] /\ (t \in sessions' <=> t \in sessions),
           life'[s] = "live", process'[s], s \in sessions',
           command'[s] \in {"running", "zombie", "reaped"}
    PROVE  \A t \in Ids : SessionLinked(t)'
  <1> SUFFICES ASSUME NEW t \in Ids PROVE SessionLinked(t)'
    OBVIOUS
  <1>1. /\ SessionLinked(t) /\ SessionLinked(s)
        /\ session' = HandedOver(s, c)
        /\ attached' = [attached EXCEPT ![s] = c]
        /\ timer' = [timer EXCEPT ![s] = FALSE]
    BY DEF Linked, SessionAttach, TimerStopped
  <1>2. session[c] = None /\ None \notin Ids /\ None \notin Conns
    BY PointerAssumption DEF Hello, Fresh
  <1>3. CASE t = s
    <2>1. session'[c] = s /\ attached'[s] = c /\ ~timer'[s]
      BY <1>1 DEF HandedOver, TypeOK
    <2> QED BY <1>3, <2>1 DEF SessionLinked
  <1>4. CASE t # s
    <2>1. attached'[t] = attached[t] /\ timer'[t] = timer[t]
      BY <1>1, <1>4 DEF TypeOK
    <2>2. attached[t] # None => session'[attached[t]] = t
      <3> SUFFICES ASSUME attached[t] # None PROVE session'[attached[t]] = t
        OBVIOUS
      <3>1. attached[t] \in Conns /\ session[attached[t]] = t
        BY <1>1 DEF SessionLinked, TypeOK
      <3>2. attached[t] # c
        BY <1>2, <3>1
      <3>3. attached[t] # attached[s]
        BY <1>1, <1>4, <3>1 DEF SessionLinked
      <3> QED BY <1>1, <3>1, <3>2, <3>3 DEF HandedOver
    <2> QED BY <1>1, <1>4, <2>1, <2>2 DEF SessionLinked
  <1> QED BY <1>3, <1>4

\* A session that starts gets the pointer to its connection with the one from it.
LEMMA SpawnLinked ==
    ASSUME TypeOK, Linked, NEW c \in Conns, NEW s \in Ids, Spawn(c, s)
    PROVE  Linked'
  <1>1. Hello(c) /\ SessionAttach(s, c, 0)
    BY DEF Spawn
  <1>2. /\ \A t \in Ids : t # s =>
              /\ life'[t] = life[t] /\ process'[t] = process[t]
              /\ command'[t] = command[t] /\ (t \in sessions' <=> t \in sessions)
        /\ life'[s] = "live" /\ process'[s] /\ s \in sessions'
        /\ command'[s] \in {"running", "zombie", "reaped"}
    BY DEF Spawn, TypeOK
  <1>3. UNCHANGED <<cstate, cmdIndex>>
    BY DEF Spawn
  <1>4. \A d \in Conns : ConnLinked(d)'
    BY <1>1, <1>2, <1>3, AttachLinksConns
  <1>5. \A t \in Ids : SessionLinked(t)'
    BY <1>1, <1>2, AttachLinksSessions
  <1> QED BY <1>4, <1>5 DEF Linked

\* So does a session that is resumed, and the one it is taken from loses both.
LEMMA ResumeLinked ==
    ASSUME TypeOK, Linked, NEW c \in Conns, NEW s \in Ids, NEW requested \in Nat,
           Resume(c, s, requested)
    PROVE  Linked'
  <1>1. Hello(c) /\ SessionAttach(s, c, requested) /\ process[s] /\ s \in sessions
    BY DEF Resume
  <1>2. UNCHANGED <<cstate, cmdIndex, life, process, sessions, command>>
    BY DEF Resume, commandVars
  <1>3. life[s] = "live" /\ command[s] \in {"running", "zombie", "reaped"}
    BY <1>1 DEF Linked, SessionLinked
  <1>4. \A d \in Conns : ConnLinked(d)'
    BY <1>1, <1>2, <1>3, AttachLinksConns
  <1>5. \A t \in Ids : SessionLinked(t)'
    BY <1>1, <1>2, <1>3, AttachLinksSessions
  <1> QED BY <1>4, <1>5 DEF Linked

\* Initial messages go only to authenticated connections, which have a session.
LEMMA SendInitialLinked ==
    ASSUME TypeOK, Linked, NEW c \in Conns, SendInitial(c) PROVE Linked'
  <1>1. /\ cstate[c] = "open" /\ ~Unauthorised(c)
        /\ cmdIndex' = [cmdIndex EXCEPT ![c] = @ + 1]
        /\ UNCHANGED <<cstate, authed, closeStatus, linkVars, commandVars>>
    BY DEF SendInitial, Writeable
  <1>2. ASSUME NEW d \in Conns PROVE ConnLinked(d)'
    <2>1. ConnLinked(d)
      BY DEF Linked
    <2>2. CASE d = c
      BY <1>1, <2>1, <2>2 DEF ConnLinked, Connected, Unauthorised, linkVars
    <2>3. CASE d # c
      <3>1. cmdIndex'[d] = cmdIndex[d]
        BY <1>1, <2>3 DEF TypeOK
      <3> QED BY <1>1, <2>1, <3>1 DEF ConnLinked, Connected, Unauthorised, linkVars
    <2> QED BY <2>2, <2>3
  <1>3. ASSUME NEW s \in Ids PROVE SessionLinked(s)'
    BY <1>1 DEF Linked, SessionLinked, linkVars, commandVars
  <1> QED BY <1>2, <1>3 DEF Linked

\* A connection that is closed holds nothing, and its session, if it had one, is
\* freed, kept for the timer, or left with a command that is to be ended.
LEMMA ClosedLinked ==
    ASSUME TypeOK, Linked, NEW c \in Conns, Closed(c) PROVE Linked'
  <1>1. /\ cstate' = [cstate EXCEPT ![c] = "closed"]
        /\ authed' = [authed EXCEPT ![c] = FALSE]
        /\ cmdIndex' = [cmdIndex EXCEPT ![c] = 0]
        /\ closeStatus' = [closeStatus EXCEPT ![c] = "none"]
        /\ session' = [session EXCEPT ![c] = None]
        /\ UNCHANGED <<process, command>>
    BY DEF Closed
  <1>2. ReleaseSession(c) /\ ConnLinked(c) /\ None \notin Ids /\ None \notin Conns
    BY PointerAssumption DEF Closed, Linked
  <1>3. \A s \in Ids : s # session[c] =>
           /\ life'[s] = life[s] /\ attached'[s] = attached[s]
           /\ timer'[s] = timer[s] /\ (s \in sessions' <=> s \in sessions)
    <2>1. CASE session[c] = None
      BY <1>2, <2>1 DEF ReleaseSession
    <2>2. CASE session[c] # None
      <3>1. \A s \in Ids : s # session[c] => attached'[s] = attached[s]
        BY <1>2, <2>2 DEF ReleaseSession, TypeOK
      <3>2. CASE ~process[session[c]]
        BY <1>2, <2>2, <3>1, <3>2
           DEF ReleaseSession, SessionFree, Unlinked, TimerStopped, TypeOK
      <3>3. CASE process[session[c]] /\ KeepsDetached
        BY <1>2, <2>2, <3>1, <3>3 DEF ReleaseSession, TimerStarted, TypeOK
      <3>4. CASE process[session[c]] /\ ~KeepsDetached
        BY <1>2, <2>2, <3>1, <3>4 DEF ReleaseSession
      <3> QED BY <3>2, <3>3, <3>4
    <2> QED BY <2>1, <2>2
  <1>4. ASSUME NEW d \in Conns PROVE ConnLinked(d)'
    <2>1. ConnLinked(d)
      BY DEF Linked
    <2>2. CASE d = c
      BY <1>1, <2>2 DEF ConnLinked, Connected, TypeOK
    <2>3. CASE d # c
      <3>1. /\ cstate'[d] = cstate[d] /\ authed'[d] = authed[d]
            /\ cmdIndex'[d] = cmdIndex[d] /\ closeStatus'[d] = closeStatus[d]
            /\ session'[d] = session[d]
        BY <1>1, <2>3 DEF TypeOK
      <3>2. session[d] # None => session[d] \in Ids /\ session[d] # session[c]
        BY <1>2, <2>1, <2>3 DEF ConnLinked, TypeOK
      <3>3. (Unauthorised(d)' <=> Unauthorised(d)) /\ (Connected(d)' <=> Connected(d))
        BY <3>1 DEF Unauthorised, Connected
      <3> QED BY <1>1, <1>3, <2>1, <3>1, <3>2, <3>3 DEF ConnLinked
    <2> QED BY <2>2, <2>3
  <1>5. ASSUME NEW s \in Ids PROVE SessionLinked(s)'
    <2>1. SessionLinked(s)
      BY DEF Linked
    <2>2. CASE s # session[c]
      <3>1. attached[s] # None => attached[s] \in Conns /\ attached[s] # c
        BY <2>1, <2>2 DEF SessionLinked, TypeOK
      <3>2. attached[s] # None => session'[attached[s]] = session[attached[s]]
        BY <1>1, <3>1 DEF TypeOK
      <3> QED BY <1>1, <1>3, <2>1, <2>2, <3>2 DEF SessionLinked
    <2>3. CASE s = session[c]
      <3>1. attached'[s] = None
        BY <1>2, <2>3 DEF ReleaseSession, TypeOK
      <3>2. CASE ~process[s]
        <4>1. SessionFree(s)
          BY <1>2, <2>3, <3>2 DEF ReleaseSession
        <4>2. life'[s] = "freed" /\ ~timer'[s] /\ s \notin sessions'
          BY <4>1 DEF SessionFree, Unlinked, TimerStopped, TypeOK
        <4> QED BY <1>1, <2>1, <3>1, <3>2, <4>2 DEF SessionLinked
      <3>3. CASE process[s]
        <4>1. life' = life /\ sessions' = sessions
          BY <1>2, <2>3, <3>3 DEF ReleaseSession
        <4> QED BY <1>1, <2>1, <3>1, <3>3, <4>1 DEF SessionLinked
      <3> QED BY <3>2, <3>3
    <2> QED BY <2>2, <2>3
  <1> QED BY <1>4, <1>5 DEF Linked

\* The process is gone: a session with a client is left to that client's CLOSED,
\* one without is freed here.
LEMMA AsyncCbLinked ==
    ASSUME TypeOK, Linked, NEW s \in Ids, AsyncCb(s) PROVE Linked'
  <1>1. /\ command[s] = "reaped"
        /\ command' = [command EXCEPT ![s] = "gone"]
        /\ process' = [process EXCEPT ![s] = FALSE]
        /\ UNCHANGED <<cstate, authed, cmdIndex, session, attached>>
    BY DEF AsyncCb
  <1>2. SessionLinked(s) /\ process[s] /\ life[s] = "live"
    BY <1>1 DEF Linked, SessionLinked
  <1>3. None \notin Ids /\ None \notin Conns
    BY PointerAssumption
  <1>4. sessions' = sessions \ {s}
    BY DEF AsyncCb, SessionFree, Unlinked
  <1>5. CASE attached[s] = None
    <2>1. /\ life' = [life EXCEPT ![s] = "freed"]
          /\ timer' = [timer EXCEPT ![s] = FALSE]
          /\ closeStatus' = closeStatus
      BY <1>3, <1>5 DEF AsyncCb, SessionFree, TimerStopped
    <2>2. ASSUME NEW d \in Conns PROVE ConnLinked(d)'
      <3>1. ConnLinked(d) /\ session[d] # s
        BY <1>3, <1>5 DEF Linked, ConnLinked
      <3>2. session[d] # None => /\ life'[session[d]] = life[session[d]]
                                 /\ process'[session[d]] = process[session[d]]
        BY <1>1, <2>1, <3>1 DEF TypeOK
      <3> QED BY <1>1, <2>1, <3>1, <3>2 DEF ConnLinked, Connected, Unauthorised
    <2>3. ASSUME NEW t \in Ids PROVE SessionLinked(t)'
      <3>1. SessionLinked(t)
        BY DEF Linked
      <3>2. CASE t = s
        <4>1. ~process'[s] /\ command'[s] = "gone" /\ life'[s] = "freed" /\ ~timer'[s]
          BY <1>1, <2>1 DEF TypeOK
        <4>2. s \notin sessions' /\ attached'[s] = None
          BY <1>1, <1>4, <1>5
        <4> QED BY <3>2, <4>1, <4>2 DEF SessionLinked
      <3>3. CASE t # s
        <4>1. /\ process'[t] = process[t] /\ command'[t] = command[t]
              /\ life'[t] = life[t] /\ timer'[t] = timer[t]
              /\ (t \in sessions' <=> t \in sessions)
          BY <1>1, <1>4, <2>1, <3>3 DEF TypeOK
        <4> QED BY <1>1, <3>1, <4>1 DEF SessionLinked
      <3> QED BY <3>2, <3>3
    <2> QED BY <2>2, <2>3 DEF Linked
  <1>6. CASE attached[s] # None
    <2>1. /\ closeStatus' = [closeStatus EXCEPT ![attached[s]] = "normal"]
          /\ UNCHANGED <<life, timer>>
      BY <1>6 DEF AsyncCb
    <2>2. attached[s] \in Conns /\ session[attached[s]] = s
      BY <1>2, <1>6 DEF SessionLinked, TypeOK
    <2>3. ASSUME NEW d \in Conns PROVE ConnLinked(d)'
      <3>1. ConnLinked(d)
        BY DEF Linked
      <3>2. CASE d = attached[s]
        <4>1. session'[d] = s /\ closeStatus'[d] = "normal" /\ ~process'[s]
          BY <1>1, <2>1, <2>2, <3>2 DEF TypeOK
        <4> QED BY <1>1, <1>3, <2>1, <2>2, <3>1, <3>2, <4>1
                DEF ConnLinked, Connected, Unauthorised
      <3>3. CASE d # attached[s]
        <4>1. closeStatus'[d] = closeStatus[d] /\ session[d] # s
          BY <1>3, <2>1, <3>1, <3>3 DEF ConnLinked, TypeOK
        <4>2. session[d] # None => process'[session[d]] = process[session[d]]
          BY <1>1, <4>1 DEF TypeOK
        <4> QED BY <1>1, <2>1, <3>1, <4>1, <4>2 DEF ConnLinked, Connected, Unauthorised
      <3> QED BY <3>2, <3>3
    <2>4. ASSUME NEW t \in Ids PROVE SessionLinked(t)'
      <3>1. SessionLinked(t)
        BY DEF Linked
      <3>2. CASE t = s
        BY <1>1, <1>4, <1>6, <2>1, <3>1, <3>2 DEF SessionLinked, TypeOK
      <3>3. CASE t # s
        <4>1. /\ process'[t] = process[t] /\ command'[t] = command[t]
              /\ (t \in sessions' <=> t \in sessions)
          BY <1>1, <1>4, <3>3 DEF TypeOK
        <4> QED BY <1>1, <2>1, <3>1, <4>1 DEF SessionLinked
      <3> QED BY <3>2, <3>3
    <2> QED BY <2>3, <2>4 DEF Linked
  <1> QED BY <1>5, <1>6

\* A step of a command or its waiting thread that keeps it among those async_cb
\* has yet to be called for.
LEMMA CommandLinked ==
    ASSUME TypeOK, Linked, NEW s \in Ids,
           command[s] \in {"running", "zombie"},
           NEW next \in {"zombie", "reaped"},
           command' = [command EXCEPT ![s] = next],
           UNCHANGED <<connVars, linkVars>>
    PROVE  Linked'
  <1>1. ASSUME NEW c \in Conns PROVE ConnLinked(c)'
    BY DEF Linked, ConnLinked, Connected, Unauthorised, connVars, linkVars
  <1>2. ASSUME NEW t \in Ids PROVE SessionLinked(t)'
    <2>1. SessionLinked(t)
      BY DEF Linked
    <2>2. command'[t] \in {"running", "zombie", "reaped"}
             <=> command[t] \in {"running", "zombie", "reaped"}
      BY DEF TypeOK
    <2> QED BY <2>1, <2>2 DEF SessionLinked, linkVars
  <1> QED BY <1>1, <1>2 DEF Linked

\* The timer that fires is of a session without a client, and stops.
LEMMA ReapTimerLinked ==
    ASSUME TypeOK, Linked, NEW s \in Ids, ReapTimer(s) PROVE Linked'
  <1>1. /\ timer' = [timer EXCEPT ![s] = FALSE]
        /\ UNCHANGED <<session, life, process, attached, sessions, command, connVars>>
    BY DEF ReapTimer
  <1>2. ASSUME NEW c \in Conns PROVE ConnLinked(c)'
    BY <1>1 DEF Linked, ConnLinked, Connected, Unauthorised, connVars
  <1>3. ASSUME NEW t \in Ids PROVE SessionLinked(t)'
    <2>1. SessionLinked(t) /\ (timer'[t] => timer[t])
      BY <1>1 DEF Linked, TypeOK
    <2> QED BY <1>1, <2>1 DEF SessionLinked
  <1> QED BY <1>2, <1>3 DEF Linked

-----------------------------------------------------------------------------
\* Every step keeps the invariant.
LEMMA LinkedStep == TypeOK /\ Linked /\ [Next]_vars => Linked'
  <1> SUFFICES ASSUME TypeOK, Linked, [Next]_vars PROVE Linked'
    OBVIOUS
  <1> USE DEF connVars, streamVars, commandVars, serverVars
  <1>1. ASSUME NEW c \in Conns, Connect(c) PROVE Linked'
    BY <1>1, ConnectLinked
  <1>2. ASSUME NEW c \in Conns, ReceiveUnauthorised(c) PROVE Linked'
    BY <1>2, LinksUntouched DEF ReceiveUnauthorised, Connected, TypeOK
  <1>3. ASSUME NEW c \in Conns, ReceiveInput(c) PROVE Linked'
    BY <1>3, LinksUntouched DEF ReceiveInput, Connected, TypeOK
  <1>4. ASSUME NEW c \in Conns, ReceiveResume(c) PROVE Linked'
    BY <1>4, LinksUntouched DEF ReceiveResume, Connected
  <1>5. ASSUME NEW c \in Conns, NEW s \in Ids, Spawn(c, s) PROVE Linked'
    BY <1>5, SpawnLinked
  <1>6. ASSUME NEW c \in Conns, NEW s \in Ids, NEW requested \in 0 .. MaxWritten,
               Resume(c, s, requested)
        PROVE Linked'
    BY <1>6, ResumeLinked, BoundAssumption
  <1>7. ASSUME NEW c \in Conns, SpawnFails(c) PROVE Linked'
    <2>1. /\ cstate[c] = "open" /\ cstate' = [cstate EXCEPT ![c] = "closing"]
          /\ authed' = [authed EXCEPT ![c] = @ \/ Password]
          /\ UNCHANGED <<linkVars, closeStatus, cmdIndex, command>>
      BY <1>7 DEF SpawnFails, Hello, Authenticated
    <2>2. \A d \in Conns : Connected(d)' <=> Connected(d)
      BY <2>1 DEF Connected, TypeOK
    <2>3. ASSUME NEW d \in Conns, authed[d] PROVE authed'[d]
      <3>1. authed'[d] = IF d = c THEN authed[c] \/ Password ELSE authed[d]
        BY <2>1 DEF TypeOK
      <3> QED BY <2>3, <3>1, Zenon
    <2> QED BY <2>1, <2>2, <2>3, LinksUntouched
  <1>8. ASSUME NEW c \in Conns, SendInitial(c) PROVE Linked'
    BY <1>8, SendInitialLinked
  <1>9. ASSUME NEW c \in Conns, SendOutput(c) PROVE Linked'
    BY <1>9, LinksUntouched DEF SendOutput, Connected
  <1>10. ASSUME NEW c \in Conns, SendSessionEnd(c) PROVE Linked'
    BY <1>10, LinksUntouched DEF SendSessionEnd, Connected
  <1>11. ASSUME NEW c \in Conns, CloseEnded(c) PROVE Linked'
    BY <1>11, LinksUntouched DEF CloseEnded, Writeable, Connected, TypeOK
  <1>12. ASSUME NEW c \in Conns, ReadOn(c) PROVE Linked'
    BY <1>12, LinksUntouched DEF ReadOn, Connected
  <1>13. ASSUME NEW c \in Conns, Closed(c) PROVE Linked'
    BY <1>13, ClosedLinked
  <1>14. ASSUME NEW s \in Ids, ReadData(s) PROVE Linked'
    BY <1>14, LinksUntouched DEF ReadData, Connected
  <1>15. ASSUME NEW s \in Ids, ReadEof(s) PROVE Linked'
    BY <1>15, LinksUntouched DEF ReadEof, Connected
  <1>16. ASSUME NEW s \in Ids, ReadNothing(s) PROVE Linked'
    BY <1>16, LinksUntouched DEF ReadNothing, Connected
  <1>17. ASSUME NEW s \in Ids, AsyncCb(s) PROVE Linked'
    BY <1>17, AsyncCbLinked
  <1>18. ASSUME NEW s \in Ids, ReapTimer(s) PROVE Linked'
    BY <1>18, ReapTimerLinked
  <1>19. ASSUME NEW s \in Ids, WaitThread(s) PROVE Linked'
    BY <1>19, CommandLinked DEF WaitThread
  <1>20. ASSUME NEW s \in Ids, CommandWrites(s) PROVE Linked'
    BY <1>20, LinksUntouched DEF CommandWrites, Connected
  <1>21. ASSUME NEW s \in Ids, CommandHangsUp(s) PROVE Linked'
    BY <1>21, LinksUntouched DEF CommandHangsUp, Connected
  <1>22. ASSUME NEW s \in Ids, CommandExits(s) PROVE Linked'
    BY <1>22, CommandLinked DEF CommandExits
  <1>23. CASE UNCHANGED vars
    BY <1>23, LinksUntouched DEF vars, Connected
  <1> QED
    BY <1>1, <1>2, <1>3, <1>4, <1>5, <1>6, <1>7, <1>8, <1>9, <1>10, <1>11, <1>12,
       <1>13, <1>14, <1>15, <1>16, <1>17, <1>18, <1>19, <1>20, <1>21, <1>22, <1>23
       DEF Next, Receive, ServerWriteable, Read, Command

\* The links hold in every reachable state.
LEMMA AlwaysLinked == Spec => [](TypeOK /\ Linked)
  <1>1. Init => TypeOK /\ Linked
    BY InitTypes, InitLinked
  <1>2. TypeOK /\ Linked /\ [Next]_vars => TypeOK' /\ Linked'
    BY TypeStep, LinkedStep
  <1> QED BY <1>1, <1>2, PTL DEF Spec

\* No pointer between a connection and a session ever dangles or is one-sided,
\* whoever takes over, leaves or exits (session_attach, CLOSED,
\* process_exit_cb).
THEOREM LinksCorrect == Spec => []LinksMutual
  <1>1. TypeOK /\ Linked => LinksMutual
    BY DEF Linked, ConnLinked, SessionLinked, LinksMutual
  <1> QED BY <1>1, AlwaysLinked, PTL

\* The reap timer only ever fires for a live session with a process and without
\* a client (session_reap_cb).
THEOREM TimerCorrect == Spec => []TimerSafe
  <1>1. TypeOK /\ Linked => TimerSafe
    BY DEF Linked, SessionLinked, TimerSafe
  <1> QED BY <1>1, AlwaysLinked, PTL

\* The list a client's session id is looked up in holds exactly the live sessions
\* whose process is there (session_unlink).
THEOREM ListCorrect == Spec => []ListedAreResumable
  <1>1. TypeOK /\ Linked => ListedAreResumable
    BY DEF Linked, SessionLinked, ListedAreResumable, TypeOK
  <1> QED BY <1>1, AlwaysLinked, PTL

\* All three together, as the runs check them.
THEOREM PointersCorrect == Spec => []LinksConsistent
<1>1. LinksMutual /\ TimerSafe /\ ListedAreResumable => LinksConsistent
    BY DEF LinksConsistent
<1>. QED  BY <1>1, LinksCorrect, TimerCorrect, ListCorrect, PTL

\* No session is leaked and no process object outlives its async_cb
\* (session_free, process_free).
THEOREM NothingLeaked == Spec => []NoOrphan
  <1>1. TypeOK /\ Linked => NoOrphan
    BY DEF Linked, SessionLinked, NoOrphan
  <1> QED BY <1>1, AlwaysLinked, PTL

\* With a password set, a connection that has not authenticated holds nothing
\* and was sent nothing (RECEIVE's token check).
THEOREM AuthenticationFirst == Spec => []NothingBeforeAuth
  <1>1. TypeOK /\ Linked => NothingBeforeAuth
    BY DEF Linked, ConnLinked, NothingBeforeAuth
  <1> QED BY <1>1, AlwaysLinked, PTL

-----------------------------------------------------------------------------
\* What session_attach does to a connection other than the one it is for: if it
\* has a close status it is not the session's, and left alone.
LEMMA AttachSparesOut ==
    ASSUME TypeOK, Linked, NEW c \in Conns, NEW s \in Ids, NEW requested \in Nat,
           Hello(c), SessionAttach(s, c, requested),
           attached[s] # None => process[s],
           NEW d \in Conns, closeStatus[d] # "none"
    PROVE  closeStatus'[d] = closeStatus[d] /\ session'[d] = session[d] /\ sent'[d] = sent[d]
  <1>1. d # c
    BY DEF Hello, Fresh
  <1>2. d # attached[s]
    <2> SUFFICES ASSUME d = attached[s] PROVE FALSE
      OBVIOUS
    <2>1. session[d] = s /\ s # None /\ d # None
      BY PointerAssumption DEF Linked, SessionLinked
    <2>2. closeStatus[d] = "normal"
      BY <2>1 DEF Linked, ConnLinked, TypeOK
    <2> QED BY <2>1, <2>2 DEF Linked, ConnLinked
  <1>3. closeStatus'[d] = closeStatus[d]
    BY <1>2 DEF SessionAttach
  <1>4. session'[d] = session[d]
    BY <1>1, <1>2 DEF SessionAttach, HandedOver
  <1>5. sent'[d] = sent[d]
    BY <1>1 DEF SessionAttach, TypeOK
  <1> QED BY <1>3, <1>4, <1>5

\* A connection that lost its session, or whose session has ended, never gets
\* another, keeps the reason until it closes and, superseded, is sent no more
\* output (JSON_DATA's check of session and lws_close_status).
THEOREM SupersededIsOut == Spec => SupersededStaysOut
  <1> DEFINE Spared(c) ==
        /\ closeStatus'[c] = closeStatus[c]
        /\ session'[c] = session[c]
        /\ closeStatus[c] = "takenOver" => sent'[c] = sent[c]
  <1> DEFINE AllSpared ==
        \A c \in Conns : closeStatus[c] # "none" /\ cstate'[c] # "closed" => Spared(c)
  <1>1. ASSUME TypeOK, Linked, [Next]_vars PROVE AllSpared
    <2> SUFFICES ASSUME NEW d \in Conns, closeStatus[d] # "none", cstate'[d] # "closed"
                 PROVE  Spared(d)
      OBVIOUS
    <2> USE <1>1
    <2> USE DEF linkVars, streamVars, commandVars, serverVars
    <2>1. CASE UNCHANGED <<closeStatus, session, sent>>
      BY <2>1
    <2>2. ASSUME NEW c \in Conns, NEW s \in Ids, Spawn(c, s) PROVE Spared(d)
      <3>1. Hello(c) /\ SessionAttach(s, c, 0) /\ life[s] = "unborn"
        BY <2>2 DEF Spawn
      <3>2. attached[s] = None
        BY <3>1, PointerAssumption DEF Linked, ConnLinked, SessionLinked, TypeOK
      <3> QED BY <3>1, <3>2, AttachSparesOut
    <2>3. ASSUME NEW c \in Conns, NEW s \in Ids, NEW requested \in 0 .. MaxWritten,
                 Resume(c, s, requested)
          PROVE Spared(d)
      <3>1. Hello(c) /\ SessionAttach(s, c, requested) /\ process[s] /\ requested \in Nat
        BY <2>3, BoundAssumption DEF Resume
      <3> QED BY <3>1, AttachSparesOut
    <2>4. ASSUME NEW c \in Conns, SendOutput(c) PROVE Spared(d)
      <3>1. UNCHANGED <<closeStatus, session>>
        BY <2>4 DEF SendOutput, connVars
      <3>2. session[c] # None /\ \E n : sent' = [sent EXCEPT ![c] = n]
        BY <2>4 DEF SendOutput, HasOutput
      <3>3. closeStatus[c] # "takenOver"
        BY <3>2 DEF Linked, ConnLinked
      <3> QED BY <3>1, <3>2, <3>3 DEF TypeOK
    <2>5. ASSUME NEW c \in Conns, Closed(c) PROVE Spared(d)
      <3>1. /\ cstate' = [cstate EXCEPT ![c] = "closed"]
            /\ closeStatus' = [closeStatus EXCEPT ![c] = "none"]
            /\ session' = [session EXCEPT ![c] = None]
            /\ sent' = [sent EXCEPT ![c] = 0]
        BY <2>5 DEF Closed
      <3>2. d # c
        BY <3>1 DEF TypeOK
      <3> QED BY <3>1, <3>2 DEF TypeOK
    <2>6. ASSUME NEW s \in Ids, AsyncCb(s) PROVE Spared(d)
      <3>1. UNCHANGED <<session, sent>> /\ process[s]
        BY <2>6 DEF AsyncCb, Linked, SessionLinked
      <3>2. CASE attached[s] = None
        BY <2>6, <3>1, <3>2 DEF AsyncCb
      <3>3. CASE attached[s] # None
        <4>1. closeStatus' = [closeStatus EXCEPT ![attached[s]] = "normal"]
          BY <2>6, <3>3 DEF AsyncCb
        <4>2. session[attached[s]] = s /\ attached[s] \in Conns /\ s # None
          BY <3>3, PointerAssumption DEF Linked, SessionLinked, TypeOK
        <4>3. closeStatus[attached[s]] = "none"
          BY <3>1, <4>2 DEF Linked, ConnLinked, TypeOK
        <4> QED BY <3>1, <4>1, <4>3 DEF TypeOK
      <3> QED BY <3>2, <3>3
    <2>7. ASSUME NEW c \in Conns,
                 \/ Connect(c) \/ ReceiveUnauthorised(c) \/ ReceiveInput(c)
                 \/ ReceiveResume(c) \/ SpawnFails(c)
          PROVE UNCHANGED <<closeStatus, session, sent>>
      BY <2>7 DEF Connect, ReceiveUnauthorised, ReceiveInput, ReceiveResume, SpawnFails,
                  connVars
    <2>8. ASSUME NEW c \in Conns,
                 SendInitial(c) \/ SendSessionEnd(c) \/ CloseEnded(c) \/ ReadOn(c)
          PROVE UNCHANGED <<closeStatus, session, sent>>
      BY <2>8 DEF SendInitial, SendSessionEnd, CloseEnded, ReadOn
    <2>9. ASSUME NEW s \in Ids,
                 ReadData(s) \/ ReadEof(s) \/ ReadNothing(s) \/ ReapTimer(s)
          PROVE UNCHANGED <<closeStatus, session, sent>>
      BY <2>9 DEF ReadData, ReadEof, ReadNothing, ReapTimer, connVars
    <2>10. ASSUME NEW s \in Ids,
                  WaitThread(s) \/ CommandWrites(s) \/ CommandHangsUp(s) \/ CommandExits(s)
           PROVE UNCHANGED <<closeStatus, session, sent>>
      BY <2>10 DEF WaitThread, CommandWrites, CommandHangsUp, CommandExits, connVars
    <2>11. CASE UNCHANGED vars
      BY <2>11, <2>1 DEF vars, connVars
    <2> HIDE DEF Spared
    <2> QED
      BY <2>1, <2>2, <2>3, <2>4, <2>5, <2>6, <2>7, <2>8, <2>9, <2>10, <2>11
         DEF Next, Receive, ServerWriteable, Read, Command
  <1>2. TypeOK /\ Linked /\ [Next]_vars => [AllSpared]_vars
    BY <1>1
  <1>3. Spec => [][AllSpared]_vars
    BY <1>2, AlwaysLinked, PTL DEF Spec
  <1> QED BY <1>3 DEF SupersededStaysOut

\* A command is only ever sent its close signal when no client is attached to it
\* (session_reap_cb, CLOSED).
THEOREM KilledWhenAlone == Spec => KilledOnlyWhenAlone
  <1> DEFINE Alone == \A s \in Ids : signalled'[s] /\ ~signalled[s] => attached'[s] = None
  <1>1. ASSUME TypeOK, Linked, [Next]_vars PROVE Alone
    <2> USE <1>1
    <2> USE DEF linkVars, streamVars, commandVars, serverVars
    <2>1. CASE UNCHANGED signalled
      BY <2>1
    <2>2. ASSUME NEW c \in Conns, Closed(c) PROVE Alone
      <3>1. ReleaseSession(c)
        BY <2>2 DEF Closed
      <3>2. CASE UNCHANGED signalled
        BY <3>2
      <3>3. CASE signalled' # signalled
        <4>1. /\ session[c] # None
              /\ attached' = [attached EXCEPT ![session[c]] = None]
              /\ signalled' = Killed(session[c])
          BY <3>1, <3>3 DEF ReleaseSession
        <4> QED BY <4>1 DEF Killed, TypeOK
      <3> QED BY <3>2, <3>3
    <2>3. ASSUME NEW s \in Ids, ReapTimer(s) PROVE Alone
      <3>1. attached[s] = None /\ attached' = attached /\ signalled' = Killed(s)
        BY <2>3 DEF ReapTimer, Linked, SessionLinked
      <3> QED BY <3>1 DEF Killed, TypeOK
    <2>4. ASSUME NEW c \in Conns,
                 \/ Connect(c) \/ ReceiveUnauthorised(c) \/ ReceiveInput(c)
                 \/ ReceiveResume(c) \/ SpawnFails(c)
                 \/ \E s \in Ids : Spawn(c, s)
                 \/ \E s \in Ids, requested \in 0 .. MaxWritten : Resume(c, s, requested)
          PROVE UNCHANGED signalled
      BY <2>4 DEF Connect, ReceiveUnauthorised, ReceiveInput, ReceiveResume, SpawnFails,
                  Spawn, Resume
    <2>5. ASSUME NEW c \in Conns, ServerWriteable(c) PROVE UNCHANGED signalled
      BY <2>5 DEF ServerWriteable, SendInitial, SendOutput, SendSessionEnd, CloseEnded, ReadOn
    <2>6. ASSUME NEW s \in Ids, Read(s) \/ ReadNothing(s) \/ AsyncCb(s)
          PROVE UNCHANGED signalled
      BY <2>6 DEF Read, ReadData, ReadEof, ReadNothing, AsyncCb
    <2>7. ASSUME NEW s \in Ids, WaitThread(s) \/ Command(s) PROVE UNCHANGED signalled
      BY <2>7 DEF WaitThread, Command, CommandWrites, CommandHangsUp, CommandExits
    <2>8. CASE UNCHANGED vars
      BY <2>8 DEF vars
    <2> HIDE DEF Alone
    <2> QED BY <2>1, <2>2, <2>3, <2>4, <2>5, <2>6, <2>7, <2>8 DEF Next, Receive
  <1>2. TypeOK /\ Linked /\ [Next]_vars => [Alone]_vars
    BY <1>1
  <1>3. Spec => [][Alone]_vars
    BY <1>2, AlwaysLinked, PTL DEF Spec
  <1> QED BY <1>3 DEF KilledOnlyWhenAlone

-----------------------------------------------------------------------------
(***************************************************************************)
(* Clients coming and going: server->client_count, which --max-clients      *)
(* compares with ==, is the number of connections at all times; a server to *)
(* exit with its last client does; and a read-only server tells clients why *)
(* it closes.                                                               *)
(***************************************************************************)

ConnectedConns == {c \in Conns : Connected(c)}

\* The connected connections can be counted.
LEMMA CountedFinite == IsFiniteSet(ConnectedConns) /\ Cardinality(ConnectedConns) \in Nat
  <1>1. IsFiniteSet(ConnectedConns)
    BY FiniteAssumption, FS_Subset DEF ConnectedConns
  <1> QED BY <1>1, FS_CardinalityType

\* At the start there is none.
LEMMA InitCounted == Init => ClientsCounted
  <1> SUFFICES ASSUME Init PROVE ClientsCounted
    OBVIOUS
  <1>1. ConnectedConns = {}
    BY DEF Init, ConnectedConns, Connected
  <1>2. Cardinality(ConnectedConns) = 0 /\ clientCount = 0
    BY <1>1, FS_EmptySet DEF Init
  <1> QED BY <1>2, BoundAssumption DEF ClientsCounted, ConnectedConns

\* Most steps connect and disconnect nobody.
LEMMA CountUntouched ==
    ASSUME ClientsCounted, clientCount' = clientCount,
           \A c \in Conns : Connected(c)' <=> Connected(c)
    PROVE  ClientsCounted'
  <1>1. {c \in Conns : Connected(c)}' = {c \in Conns : Connected(c)}
    OBVIOUS
  <1> QED BY <1>1 DEF ClientsCounted

\* A connection that is let in is counted, unless --max-clients or --once forbid it.
LEMMA ConnectCounted ==
    ASSUME TypeOK, ClientsCounted, NEW c \in Conns, Connect(c) PROVE ClientsCounted'
  <1>1. /\ cstate[c] = "unused" /\ cstate' = [cstate EXCEPT ![c] = "open"]
        /\ clientCount' = clientCount + 1
        /\ ~(Once /\ clientCount > 0)
        /\ ~(MaxClients > 0 /\ clientCount = MaxClients)
    BY DEF Connect, Full
  <1>2. ConnectedConns' = ConnectedConns \cup {c} /\ c \notin ConnectedConns
    BY <1>1 DEF ConnectedConns, Connected, TypeOK
  <1>3. Cardinality(ConnectedConns \cup {c}) = Cardinality(ConnectedConns) + 1
    BY <1>2, CountedFinite, FS_AddElement
  <1>4. /\ clientCount = Cardinality(ConnectedConns) /\ clientCount \in Nat
        /\ MaxClients > 0 => clientCount <= MaxClients
    BY CountedFinite DEF ClientsCounted, ConnectedConns
  <1>5. clientCount' = Cardinality(ConnectedConns')
    BY <1>1, <1>2, <1>3, <1>4
  <1>6. MaxClients > 0 => clientCount' <= MaxClients
    BY <1>1, <1>4, BoundAssumption
  <1>7. Once => clientCount' <= 1
    BY <1>1, <1>4
  <1> QED BY <1>5, <1>6, <1>7 DEF ClientsCounted, ConnectedConns

\* One that closes is taken off the count.
LEMMA ClosedCounted ==
    ASSUME TypeOK, ClientsCounted, NEW c \in Conns, Closed(c) PROVE ClientsCounted'
  <1>1. /\ Connected(c) /\ cstate' = [cstate EXCEPT ![c] = "closed"]
        /\ clientCount' = clientCount - 1
    BY DEF Closed, Connected
  <1>2. ConnectedConns' = ConnectedConns \ {c} /\ c \in ConnectedConns
    BY <1>1 DEF ConnectedConns, Connected, TypeOK
  <1>3. Cardinality(ConnectedConns \ {c}) = Cardinality(ConnectedConns) - 1
    BY <1>2, CountedFinite, FS_RemoveElement
  <1>4. /\ clientCount = Cardinality(ConnectedConns) /\ clientCount \in Nat
        /\ MaxClients > 0 => clientCount <= MaxClients
        /\ Once => clientCount <= 1
    BY CountedFinite DEF ClientsCounted, ConnectedConns
  <1>5. clientCount' = Cardinality(ConnectedConns')
    BY <1>1, <1>2, <1>3, <1>4
  <1> QED BY <1>1, <1>4, <1>5, BoundAssumption DEF ClientsCounted, ConnectedConns

\* Every step keeps the count right.
LEMMA CountStep == TypeOK /\ ClientsCounted /\ [Next]_vars => ClientsCounted'
  <1> SUFFICES ASSUME TypeOK, ClientsCounted, [Next]_vars PROVE ClientsCounted'
    OBVIOUS
  <1> USE DEF connVars, serverVars
  <1>1. ASSUME NEW c \in Conns, Connect(c) PROVE ClientsCounted'
    BY <1>1, ConnectCounted
  <1>2. ASSUME NEW c \in Conns, Closed(c) PROVE ClientsCounted'
    BY <1>2, ClosedCounted
  <1>3. ASSUME NEW c \in Conns,
               \/ ReceiveUnauthorised(c) \/ ReceiveInput(c) \/ SpawnFails(c) \/ CloseEnded(c)
        PROVE ClientsCounted'
    <2>1. /\ cstate[c] = "open" /\ cstate' = [cstate EXCEPT ![c] = "closing"]
          /\ clientCount' = clientCount
      BY <1>3 DEF ReceiveUnauthorised, ReceiveInput, SpawnFails, Hello, CloseEnded, Writeable
    <2>2. \A d \in Conns : Connected(d)' <=> Connected(d)
      BY <2>1 DEF Connected, TypeOK
    <2> QED BY <2>1, <2>2, CountUntouched
  <1>4. CASE UNCHANGED <<cstate, clientCount>>
    BY <1>4, CountUntouched DEF Connected
  <1>5. ASSUME NEW c \in Conns,
               \/ ReceiveResume(c)
               \/ \E s \in Ids : Spawn(c, s)
               \/ \E s \in Ids, requested \in 0 .. MaxWritten : Resume(c, s, requested)
               \/ SendInitial(c) \/ SendOutput(c) \/ SendSessionEnd(c) \/ ReadOn(c)
        PROVE UNCHANGED <<cstate, clientCount>>
    BY <1>5 DEF ReceiveResume, Spawn, Resume, SendInitial, SendOutput, SendSessionEnd, ReadOn
  <1>6. ASSUME NEW s \in Ids, Read(s) \/ ReadNothing(s) \/ AsyncCb(s) \/ ReapTimer(s)
        PROVE UNCHANGED <<cstate, clientCount>>
    BY <1>6 DEF Read, ReadData, ReadEof, ReadNothing, AsyncCb, ReapTimer
  <1>7. ASSUME NEW s \in Ids, WaitThread(s) \/ Command(s)
        PROVE UNCHANGED <<cstate, clientCount>>
    BY <1>7 DEF WaitThread, Command, CommandWrites, CommandHangsUp, CommandExits
  <1>8. CASE UNCHANGED vars
    BY <1>4, <1>8 DEF vars
  <1> QED
    BY <1>1, <1>2, <1>3, <1>4, <1>5, <1>6, <1>7, <1>8 DEF Next, Receive, ServerWriteable

\* client_count is the number of connected clients, however their connections
\* end, and so --max-clients and --once hold at every moment
\* (FILTER_PROTOCOL_CONNECTION, ESTABLISHED, CLOSED).
THEOREM ClientCountCorrect == Spec => []ClientsCounted
  <1>1. Init => TypeOK /\ ClientsCounted
    BY InitTypes, InitCounted
  <1>2. TypeOK /\ ClientsCounted /\ [Next]_vars => TypeOK' /\ ClientsCounted'
    BY TypeStep, CountStep
  <1> QED BY <1>1, <1>2, PTL DEF Spec

-----------------------------------------------------------------------------
\* A step that neither connects nor disconnects, ends no process, and changes
\* nothing about the exit.
LEMMA ExitUntouched ==
    ASSUME ExitIsPending, UNCHANGED <<clientCount, forceExit>>, up' => up,
           \A s \in Ids : process[s] => process'[s],
           \A c \in Conns : cstate[c] = "unused" => cstate'[c] = "unused"
    PROVE  ExitIsPending'
  BY DEF ExitIsPending

\* The last client that leaves exits the server or leaves it a command to wait for.
LEMMA ClosedExit ==
    ASSUME TypeOK, ExitIsPending, NEW c \in Conns, Closed(c) PROVE ExitIsPending'
  <1> DEFINE running == session[c] # None /\ Running(session[c])
  <1>1. /\ up /\ process' = process
        /\ forceExit' = (forceExit \/ (LastClientLeft /\ running))
        /\ up' = ~(LastClientLeft /\ ~running)
    BY DEF Closed, ExitIfLast
  <1>2. running => session[c] \in Ids /\ process[session[c]]
    BY DEF Running, TypeOK
  <1>3. forceExit' => forceExit \/ running
    BY <1>1, Zenon
  <1>4. forceExit' /\ up' => \E s \in Ids : process'[s]
    <2>1. CASE running
      BY <1>1, <1>2, <2>1
    <2>2. CASE ~running
      BY <1>1, <1>3, <2>2 DEF ExitIsPending
    <2> QED BY <2>1, <2>2
  <1>5. LastClientLeft /\ up' => forceExit'
    BY <1>1, Zenon
  <1> QED BY <1>4, <1>5 DEF ExitIsPending, LastClientLeft

\* Every step keeps the pending exit pending.
LEMMA ExitStep ==
    TypeOK /\ ClientsCounted /\ ExitIsPending /\ [Next]_vars => ExitIsPending'
  <1> SUFFICES ASSUME TypeOK, ClientsCounted, ExitIsPending, [Next]_vars PROVE ExitIsPending'
    OBVIOUS
  <1> USE DEF connVars, linkVars, streamVars, commandVars, serverVars
  <1>1. ASSUME NEW c \in Conns, Connect(c) PROVE ExitIsPending'
    <2>1. clientCount \in Nat /\ clientCount' = clientCount + 1
          /\ UNCHANGED <<forceExit, up, process>>
      BY <1>1, CountedFinite DEF Connect, ClientsCounted, ConnectedConns
    <2> QED BY <2>1 DEF ExitIsPending
  <1>2. ASSUME NEW c \in Conns, Closed(c) PROVE ExitIsPending'
    BY <1>2, ClosedExit
  <1>3. ASSUME NEW s \in Ids, AsyncCb(s) PROVE ExitIsPending'
    <2>1. up /\ up' = ~forceExit /\ UNCHANGED <<forceExit, clientCount, cstate>>
      BY <1>3 DEF AsyncCb
    <2>2. ~(forceExit /\ up')
      BY <2>1, Zenon
    <2> QED BY <2>1, <2>2 DEF ExitIsPending
  <1>4. ASSUME NEW c \in Conns,
               \/ ReceiveUnauthorised(c) \/ ReceiveInput(c) \/ SpawnFails(c) \/ CloseEnded(c)
        PROVE ExitIsPending'
    <2>1. /\ up /\ cstate[c] = "open" /\ cstate' = [cstate EXCEPT ![c] = "closing"]
          /\ UNCHANGED <<clientCount, forceExit, process>>
      BY <1>4 DEF ReceiveUnauthorised, ReceiveInput, SpawnFails, Hello, CloseEnded, Writeable
    <2>2. \A d \in Conns : cstate[d] = "unused" => cstate'[d] = "unused"
      BY <2>1 DEF TypeOK
    <2> QED BY <2>1, <2>2, ExitUntouched
  <1>5. ASSUME NEW c \in Conns,
               \/ ReceiveResume(c)
               \/ \E s \in Ids : Spawn(c, s)
               \/ \E s \in Ids, requested \in 0 .. MaxWritten : Resume(c, s, requested)
               \/ SendInitial(c) \/ SendOutput(c) \/ SendSessionEnd(c) \/ ReadOn(c)
        PROVE ExitIsPending'
    <2>1. UNCHANGED <<cstate, clientCount, forceExit, up>>
      BY <1>5 DEF ReceiveResume, Spawn, Resume, SendInitial, SendOutput, SendSessionEnd, ReadOn
    <2>2. \A s \in Ids : process[s] => process'[s]
      BY <1>5 DEF ReceiveResume, Spawn, Resume, SendInitial, SendOutput, SendSessionEnd,
                  ReadOn, TypeOK
    <2> QED BY <2>1, <2>2, ExitUntouched
  <1>6. ASSUME NEW s \in Ids,
               \/ Read(s) \/ ReadNothing(s) \/ ReapTimer(s) \/ WaitThread(s) \/ Command(s)
        PROVE ExitIsPending'
    <2>1. UNCHANGED <<cstate, clientCount, forceExit, up, process>>
      BY <1>6 DEF Read, ReadData, ReadEof, ReadNothing, ReapTimer, WaitThread, Command,
                  CommandWrites, CommandHangsUp, CommandExits
    <2> QED BY <2>1, ExitUntouched
  <1>7. CASE UNCHANGED vars
    BY <1>7, ExitUntouched DEF vars
  <1> QED
    BY <1>1, <1>2, <1>3, <1>4, <1>5, <1>6, <1>7 DEF Next, Receive, ServerWriteable

\* A server started with --once or --exit-no-conn that its last client has left
\* has exited, or will with a command that is still there (CLOSED,
\* process_exit_cb).
THEOREM ExitComes == Spec => []ExitIsPending
  <1>1. Init => ExitIsPending
    <2>1. Init => ~forceExit
      BY DEF Init
    <2>2. Init => \A c \in Conns : cstate[c] = "unused"
      BY DEF Init
    <2> QED BY <2>1, <2>2 DEF ExitIsPending
  <1>2. TypeOK /\ ClientsCounted /\ ExitIsPending /\ [Next]_vars => ExitIsPending'
    BY ExitStep
  <1>3. Spec => []TypeOK
    BY TypeCorrect
  <1> QED BY <1>1, <1>2, <1>3, ClientCountCorrect, PTL DEF Spec

-----------------------------------------------------------------------------
\* A server that takes no input only closes a connection that lost its session,
\* or whose command has exited, after having told it so (WRITEABLE).
THEOREM ReadOnlyTells ==
    ASSUME ~Writable
    PROVE  Spec => ToldWhyClosed
  <1> DEFINE Told == \A c \in Conns :
          cstate[c] = "open" /\ cstate'[c] = "closing" /\ closeStatus[c] # "none"
              => endSent[c]
  <1>1. ASSUME TypeOK, Linked, [Next]_vars PROVE Told
    <2> USE <1>1
    <2> USE DEF connVars
    <2>1. CASE UNCHANGED cstate
      BY <2>1
    <2>2. ASSUME NEW c \in Conns, Connect(c) PROVE Told
      <3>1. cstate' = [cstate EXCEPT ![c] = "open"]
        BY <2>2 DEF Connect
      <3> QED BY <3>1 DEF TypeOK
    <2>3. ASSUME NEW c \in Conns, Closed(c) PROVE Told
      <3>1. cstate' = [cstate EXCEPT ![c] = "closed"]
        BY <2>3 DEF Closed
      <3> QED BY <3>1 DEF TypeOK
    <2>4. ASSUME NEW c \in Conns, ReceiveUnauthorised(c) \/ SpawnFails(c) PROVE Told
      <3>1. cstate' = [cstate EXCEPT ![c] = "closing"] /\ closeStatus[c] = "none"
        BY <2>4 DEF ReceiveUnauthorised, SpawnFails, Hello, Fresh, Linked, ConnLinked
      <3> QED BY <3>1 DEF TypeOK
    <2>5. ASSUME NEW c \in Conns, ReceiveInput(c) PROVE FALSE
      BY <2>5 DEF ReceiveInput, FailingInput
    <2>6. ASSUME NEW c \in Conns, CloseEnded(c) PROVE Told
      <3>1. cstate' = [cstate EXCEPT ![c] = "closing"] /\ endSent[c]
        BY <2>6 DEF CloseEnded
      <3> QED BY <3>1 DEF TypeOK
    <2>7. ASSUME NEW c \in Conns,
                 \/ ReceiveResume(c)
                 \/ \E s \in Ids : Spawn(c, s)
                 \/ \E s \in Ids, requested \in 0 .. MaxWritten : Resume(c, s, requested)
                 \/ SendInitial(c) \/ SendOutput(c) \/ SendSessionEnd(c) \/ ReadOn(c)
          PROVE UNCHANGED cstate
      BY <2>7 DEF ReceiveResume, Spawn, Resume, SendInitial, SendOutput, SendSessionEnd,
                  ReadOn
    <2>8. ASSUME NEW s \in Ids,
                 \/ Read(s) \/ ReadNothing(s) \/ AsyncCb(s) \/ ReapTimer(s)
                 \/ WaitThread(s) \/ Command(s)
          PROVE UNCHANGED cstate
      BY <2>8 DEF Read, ReadData, ReadEof, ReadNothing, AsyncCb, ReapTimer, WaitThread,
                  Command, CommandWrites, CommandHangsUp, CommandExits
    <2>9. CASE UNCHANGED vars
      BY <2>9, <2>1 DEF vars
    <2> HIDE DEF Told
    <2> QED
      BY <2>1, <2>2, <2>3, <2>4, <2>5, <2>6, <2>7, <2>8, <2>9
         DEF Next, Receive, ServerWriteable
  <1>2. TypeOK /\ Linked /\ [Next]_vars => [Told]_vars
    BY <1>1
  <1>3. Spec => [][Told]_vars
    BY <1>2, AlwaysLinked, PTL DEF Spec
  <1> QED BY <1>3 DEF ToldWhyClosed

-----------------------------------------------------------------------------
(***************************************************************************)
(* How output flows: that every connection with something to be told is     *)
(* scheduled, that the end comes last, and, until a RESUME comes while its  *)
(* client is more than REPLAY_LIMIT behind, that nothing is overwritten     *)
(* before it is sent and that clients know their offset.  Then, that the    *)
(* sessions are those of ShellSession.tla: every callback maps to one of    *)
(* its actions or to nothing.                                               *)
(***************************************************************************)


\* A connection's place in the stream, and what it has been told.
Flowing(c) ==
    /\ session[c] # None => sent[c] <= total[session[c]]
    /\ closeStatus[c] = "normal" => session[c] # None
    /\ endSent[c] => closeStatus[c] # "none"
    /\ endSent[c] /\ closeStatus[c] = "normal" => sent[c] = total[session[c]]
    /\ Fresh(c) => cmdIndex[c] = 0
    /\ cstate[c] = "open" /\ (NotInitialized(c) \/ HasOutput(c) \/ closeStatus[c] # "none")
          => wakeup[c]

AllFlowing == \A c \in Conns : Flowing(c)

\* While the PTY is being read, its client is at most Limit behind; one read
\* later, at most Capacity.
Unbroken(c) == Covers(c) =>
    /\ total[session[c]] - sent[c] <= Capacity
    /\ reading[session[c]] => total[session[c]] - sent[c] <= Limit
    /\ cmdIndex[c] = InitialMessages => received[c] = sent[c]

AllUnbroken == \A c \in Conns : Unbroken(c)

-----------------------------------------------------------------------------
\* A step that leaves a connection and its session's output alone, but may ask
\* for it to be served, or close it.
LEMMA FlowUntouched ==
    ASSUME TypeOK, NEW d \in Conns, Flowing(d),
           session'[d] = session[d], sent'[d] = sent[d], cmdIndex'[d] = cmdIndex[d],
           closeStatus'[d] = closeStatus[d], endSent'[d] = endSent[d],
           session[d] # None => total'[session[d]] = total[session[d]],
           wakeup[d] => wakeup'[d],
           cstate'[d] = "open" => cstate[d] = "open"
    PROVE  Flowing(d)'
  BY DEF Flowing, Fresh, NotInitialized, HasOutput

\* At the start there is nothing to send.
LEMMA InitFlowing == Init => AllFlowing
  BY PointerAssumption DEF Init, AllFlowing, Flowing, Fresh

\* Nobody else has the session of a connection.
LEMMA SoleHolder ==
    ASSUME Linked, NEW c \in Conns, NEW d \in Conns, c # d, session[c] # None
    PROVE  session[d] # session[c]
  BY DEF Linked, ConnLinked

\* A connection that gets a session is told to write.
LEMMA AttachFlowing ==
    ASSUME TypeOK, Linked, AllFlowing,
           NEW c \in Conns, NEW s \in Ids, NEW requested \in Nat,
           Hello(c), SessionAttach(s, c, requested), wakeup' = WokenBoth(s, c),
           UNCHANGED <<cstate, cmdIndex, endSent, total>>
    PROVE  AllFlowing'
  <1> SUFFICES ASSUME NEW d \in Conns PROVE Flowing(d)'
    BY DEF AllFlowing
  <1>1. Flowing(c) /\ Flowing(d) /\ s # None /\ c # attached[s]
    BY PointerAssumption DEF AllFlowing, Hello, Fresh, Linked, SessionLinked
  <1>2. /\ session' = HandedOver(s, c)
        /\ closeStatus' = [e \in Conns |-> IF e = attached[s] THEN "takenOver"
                                          ELSE closeStatus[e]]
    BY DEF SessionAttach
  <1>3. wakeup'[d] <=> (wakeup[d] \/ d = attached[s] \/ d = c)
    BY DEF WokenBoth
  <1>4. CASE d = c
    <2>1. session'[d] = s /\ closeStatus'[d] = "none" /\ ~endSent[d]
      BY <1>1, <1>2, <1>4 DEF HandedOver, Hello, Fresh, Flowing
    <2>2. sent'[d] <= total[s]
      <3>1. PICK offset \in ResumeOffsets(capacity[s], Limit, total[s], requested) :
                sent' = [sent EXCEPT ![c] = offset]
        BY DEF SessionAttach
      <3>2. total[s] \in Nat /\ capacity[s] \in Nat /\ Limit \in Nat
        BY BufferAssumption DEF TypeOK
      <3>3. offset \in Earliest(capacity[s], Limit, total[s]) .. total[s]
        BY <3>1, <3>2, ResumeRange
      <3>4. Earliest(capacity[s], Limit, total[s]) \in Nat
        BY <3>2, EarliestRange
      <3> QED BY <1>4, <3>1, <3>2, <3>3, <3>4 DEF TypeOK
    <2> QED BY <1>1, <1>3, <1>4, <2>1, <2>2 DEF Flowing, Fresh
  <1>5. CASE d # c /\ d = attached[s]
    <2>1. session'[d] = None /\ closeStatus'[d] = "takenOver"
      BY <1>2, <1>5 DEF HandedOver
    <2> QED BY <1>3, <1>5, <2>1 DEF Flowing, Fresh
  <1>6. CASE d # c /\ d # attached[s]
    <2>1. session'[d] = session[d] /\ closeStatus'[d] = closeStatus[d]
      BY <1>2, <1>6 DEF HandedOver
    <2>2. sent'[d] = sent[d]
      BY <1>6 DEF SessionAttach, TypeOK
    <2> QED BY <1>1, <1>3, <2>1, <2>2, FlowUntouched
  <1> QED BY <1>4, <1>5, <1>6

\* A new connection has nothing to be sent.
LEMMA ConnectFlowing ==
    ASSUME TypeOK, Linked, AllFlowing, NEW c \in Conns, Connect(c) PROVE AllFlowing'
  <1> SUFFICES ASSUME NEW d \in Conns PROVE Flowing(d)'
    BY DEF AllFlowing
  <1>1. Flowing(d) /\ ConnLinked(d)
    BY DEF AllFlowing, Linked
  <1>2. /\ cstate[c] = "unused" /\ cstate' = [cstate EXCEPT ![c] = "open"]
        /\ UNCHANGED <<cmdIndex, closeStatus, endSent, wakeup, session, sent, total>>
    BY DEF Connect, linkVars, streamVars
  <1>3. CASE d = c
    <2>1. session[d] = None /\ closeStatus[d] = "none"
      BY <1>1, <1>2, <1>3 DEF ConnLinked, Connected
    <2> QED BY <1>1, <1>2, <2>1 DEF Flowing, Fresh, NotInitialized, HasOutput
  <1>4. CASE d # c
    BY <1>1, <1>2, <1>4, FlowUntouched DEF TypeOK
  <1> QED BY <1>3, <1>4

\* A WRITEABLE callback that leaves anything to be sent asks for the next.
LEMMA WriteableFlowing ==
    ASSUME TypeOK, Linked, AllFlowing, NEW c \in Conns, ServerWriteable(c)
    PROVE  AllFlowing'
  <1> SUFFICES ASSUME NEW d \in Conns PROVE Flowing(d)'
    BY DEF AllFlowing
  <1>1. Flowing(d) /\ Flowing(c) /\ ConnLinked(d)
    BY DEF AllFlowing, Linked
  <1>2. ASSUME SendInitial(c) PROVE Flowing(d)'
    <2>1. /\ wakeup[c] /\ session[c] # None
          /\ cmdIndex' = [cmdIndex EXCEPT ![c] = @ + 1]
          /\ UNCHANGED <<cstate, closeStatus, endSent, wakeup, session, sent, total>>
      BY <1>2 DEF SendInitial, Writeable, NotInitialized, linkVars
    <2>2. CASE d = c
      BY <1>1, <2>1, <2>2 DEF Flowing, Fresh
    <2>3. CASE d # c
      BY <1>1, <2>1, <2>3, FlowUntouched DEF TypeOK
    <2> QED BY <2>2, <2>3
  <1>3. ASSUME SendOutput(c) PROVE Flowing(d)'
    <2> DEFINE end == total[session[c]]
    <2> DEFINE size == capacity[session[c]]
    <2>1. /\ wakeup[c] /\ session[c] # None /\ sent[c] < end
          /\ UNCHANGED <<total, connVars, session>>
      BY <1>3 DEF SendOutput, Writeable, HasOutput, linkVars
    <2>2. PICK from \in IF sent[c] < Oldest(size, end)
                        THEN ResumeOffsets(size, Limit, end, sent[c])
                        ELSE {sent[c]} :
            sent' = [sent EXCEPT ![c] = from + ReadLength(size, end, from, Chunk)]
      BY <1>3 DEF SendOutput
    <2>3. end \in Nat /\ sent[c] \in Nat /\ size \in {0, Capacity}
      BY <2>1 DEF TypeOK
    <2>4. CASE d = c
      <3>1. from \in Nat /\ ReadLength(size, end, from, Chunk) \in 0 .. (end - from)
        <4> HIDE DEF end, size
        <4> QED BY <2>1, <2>2, <2>3, OutputRange
      <3>2. sent'[d] = from + ReadLength(size, end, from, Chunk)
        BY <2>2, <2>4 DEF TypeOK
      <3>3. sent'[d] <= end
        <4> HIDE DEF end, size
        <4> QED BY <2>3, <3>1, <3>2
      <3>4. ~(endSent[d] /\ closeStatus[d] = "normal")
        BY <1>1, <2>1, <2>3, <2>4 DEF Flowing
      <3> QED BY <1>1, <2>1, <2>4, <3>3, <3>4 DEF Flowing, Fresh, connVars
    <2>5. CASE d # c
      <3>1. sent'[d] = sent[d]
        BY <2>2, <2>5 DEF TypeOK
      <3> QED BY <1>1, <2>1, <3>1, FlowUntouched DEF connVars
    <2> QED BY <2>4, <2>5
  <1>4. ASSUME SendSessionEnd(c) PROVE Flowing(d)'
    <2>1. /\ wakeup[c] /\ closeStatus[c] # "none" /\ ~HasOutput(c)
          /\ endSent' = [endSent EXCEPT ![c] = TRUE]
          /\ UNCHANGED <<cstate, cmdIndex, closeStatus, wakeup, session, sent, total>>
      BY <1>4 DEF SendSessionEnd, Writeable, linkVars, streamVars
    <2>2. CASE d = c
      <3>1. session[c] # None => sent[c] = total[session[c]]
        BY <1>1, <2>1 DEF HasOutput, Flowing, TypeOK
      <3> QED BY <1>1, <2>1, <2>2, <3>1 DEF Flowing, Fresh
    <2>3. CASE d # c
      BY <1>1, <2>1, <2>3, FlowUntouched DEF TypeOK
    <2> QED BY <2>2, <2>3
  <1>5. ASSUME CloseEnded(c) PROVE Flowing(d)'
    <2>1. /\ cstate' = [cstate EXCEPT ![c] = "closing"]
          /\ wakeup' = [wakeup EXCEPT ![c] = FALSE]
          /\ UNCHANGED <<cmdIndex, closeStatus, endSent, session, sent, total>>
      BY <1>5 DEF CloseEnded, linkVars, streamVars
    <2>2. CASE d = c
      <3>1. cstate'[d] = "closing"
        BY <2>1, <2>2 DEF TypeOK
      <3> QED BY <1>1, <2>1, <3>1 DEF Flowing, Fresh
    <2>3. CASE d # c
      BY <1>1, <2>1, <2>3, FlowUntouched DEF TypeOK
    <2> QED BY <2>2, <2>3
  <1>6. ASSUME ReadOn(c) PROVE Flowing(d)'
    <2>1. /\ ~NotInitialized(c) /\ ~HasOutput(c) /\ closeStatus[c] = "none"
          /\ wakeup' = [wakeup EXCEPT ![c] = FALSE]
          /\ UNCHANGED <<cstate, cmdIndex, closeStatus, endSent, session, sent, total>>
      BY <1>6 DEF ReadOn, linkVars
    <2>2. CASE d = c
      BY <1>1, <2>1, <2>2 DEF Flowing, Fresh, NotInitialized, HasOutput
    <2>3. CASE d # c
      BY <1>1, <2>1, <2>3, FlowUntouched DEF TypeOK
    <2> QED BY <2>2, <2>3
  <1> QED BY <1>2, <1>3, <1>4, <1>5, <1>6 DEF ServerWriteable

\* A connection that closes has nothing more to be sent.
LEMMA ClosedFlowing ==
    ASSUME TypeOK, Linked, AllFlowing, NEW c \in Conns, Closed(c) PROVE AllFlowing'
  <1> SUFFICES ASSUME NEW d \in Conns PROVE Flowing(d)'
    BY DEF AllFlowing
  <1>1. Flowing(d)
    BY DEF AllFlowing
  <1>2. /\ cstate' = [cstate EXCEPT ![c] = "closed"]
        /\ cmdIndex' = [cmdIndex EXCEPT ![c] = 0]
        /\ closeStatus' = [closeStatus EXCEPT ![c] = "none"]
        /\ endSent' = [endSent EXCEPT ![c] = FALSE]
        /\ wakeup' = [wakeup EXCEPT ![c] = FALSE]
        /\ session' = [session EXCEPT ![c] = None]
        /\ sent' = [sent EXCEPT ![c] = 0]
        /\ total' = total
    BY DEF Closed
  <1>3. CASE d = c
    <2>1. /\ cstate'[d] = "closed" /\ cmdIndex'[d] = 0 /\ closeStatus'[d] = "none"
          /\ ~endSent'[d] /\ session'[d] = None
      BY <1>2, <1>3 DEF TypeOK
    <2> QED BY <2>1 DEF Flowing
  <1>4. CASE d # c
    BY <1>1, <1>2, <1>4, FlowUntouched DEF TypeOK
  <1> QED BY <1>3, <1>4

\* Output that was read is announced to the client.
LEMMA ReadDataFlowing ==
    ASSUME TypeOK, Linked, AllFlowing, NEW s \in Ids, ReadData(s) PROVE AllFlowing'
  <1> SUFFICES ASSUME NEW d \in Conns PROVE Flowing(d)'
    BY DEF AllFlowing
  <1>1. Flowing(d) /\ ConnLinked(d)
    BY DEF AllFlowing, Linked
  <1>2. PICK n \in 1 .. ReadMax : total' = [total EXCEPT ![s] = @ + n]
    BY DEF ReadData
  <1>3. /\ process[s] /\ wakeup' = Woken(s)
        /\ UNCHANGED <<cstate, cmdIndex, closeStatus, endSent, session, sent>>
    BY DEF ReadData, linkVars
  <1>4. CASE session[d] = s
    <2>1. attached[s] = d /\ wakeup'[d] /\ closeStatus[d] # "normal"
      BY <1>1, <1>3, <1>4, PointerAssumption DEF ConnLinked, Woken
    <2>2. sent[d] <= total'[s]
      <3>1. total'[s] = total[s] + n /\ total[s] \in Nat /\ sent[d] \in Nat /\ n \in Nat
        BY <1>2, BufferAssumption DEF TypeOK
      <3>2. sent[d] <= total[s]
        BY <1>1, <1>4, PointerAssumption DEF Flowing
      <3> QED BY <3>1, <3>2
    <2> QED BY <1>1, <1>3, <1>4, <2>1, <2>2 DEF Flowing, Fresh
  <1>5. CASE session[d] # s
    <2>1. session[d] # None => total'[session[d]] = total[session[d]]
      BY <1>2, <1>5 DEF TypeOK
    <2>2. wakeup[d] => wakeup'[d]
      BY <1>3 DEF Woken
    <2> QED BY <1>1, <1>3, <2>1, <2>2, FlowUntouched
  <1> QED BY <1>4, <1>5

\* So is the end of the command.
LEMMA AsyncCbFlowing ==
    ASSUME TypeOK, Linked, AllFlowing, NEW s \in Ids, AsyncCb(s) PROVE AllFlowing'
  <1> SUFFICES ASSUME NEW d \in Conns PROVE Flowing(d)'
    BY DEF AllFlowing
  <1>1. Flowing(d) /\ ConnLinked(d) /\ SessionLinked(s)
    BY DEF AllFlowing, Linked
  <1>2. /\ command[s] = "reaped"
        /\ UNCHANGED <<cstate, cmdIndex, endSent, session, sent, total>>
    BY DEF AsyncCb
  <1>3. process[s]
    BY <1>1, <1>2 DEF SessionLinked
  <1>4. CASE d # attached[s]
    <2>1. closeStatus'[d] = closeStatus[d] /\ (wakeup[d] => wakeup'[d])
      <3>1. CASE attached[s] = None
        BY <3>1 DEF AsyncCb
      <3>2. CASE attached[s] # None
        <4>1. /\ closeStatus' = [closeStatus EXCEPT ![attached[s]] = "normal"]
              /\ wakeup' = Woken(s)
          BY <3>2 DEF AsyncCb
        <4> QED BY <1>4, <4>1 DEF Woken, TypeOK
      <3> QED BY <3>1, <3>2
    <2> QED BY <1>1, <1>2, <2>1, FlowUntouched
  <1>5. CASE d = attached[s]
    <2>1. /\ closeStatus' = [closeStatus EXCEPT ![d] = "normal"]
          /\ wakeup' = Woken(s)
      BY <1>5, PointerAssumption DEF AsyncCb
    <2>2. session[d] = s /\ s # None
      BY <1>1, <1>5, PointerAssumption DEF SessionLinked
    <2>3. closeStatus[d] = "none"
      BY <1>1, <1>3, <2>2 DEF ConnLinked, TypeOK
    <2>4. ~endSent[d] /\ closeStatus'[d] = "normal" /\ wakeup'[d]
      BY <1>1, <1>5, <2>1, <2>3 DEF Flowing, Woken, TypeOK
    <2> QED BY <1>1, <1>2, <2>2, <2>4 DEF Flowing, Fresh
  <1> QED BY <1>4, <1>5

\* Every step keeps the invariant.
LEMMA FlowStep == TypeOK /\ Linked /\ AllFlowing /\ [Next]_vars => AllFlowing'
  <1> SUFFICES ASSUME TypeOK, Linked, AllFlowing, [Next]_vars PROVE AllFlowing'
    OBVIOUS
  <1> USE DEF connVars, linkVars, streamVars, commandVars, serverVars
  <1>1. ASSUME UNCHANGED <<session, sent, cmdIndex, closeStatus, endSent, total>>,
               \A d \in Conns : wakeup[d] => wakeup'[d],
               \A d \in Conns : cstate'[d] = "open" => cstate[d] = "open"
        PROVE AllFlowing'
    <2> SUFFICES ASSUME NEW d \in Conns PROVE Flowing(d)'
      BY DEF AllFlowing
    <2>1. Flowing(d)
      BY DEF AllFlowing
    <2> QED BY <1>1, <2>1, FlowUntouched
  <1>2. ASSUME NEW c \in Conns, Connect(c) PROVE AllFlowing'
    BY <1>2, ConnectFlowing
  <1>3. ASSUME NEW c \in Conns,
               ReceiveUnauthorised(c) \/ ReceiveInput(c) \/ SpawnFails(c)
        PROVE AllFlowing'
    <2>1. /\ cstate' = [cstate EXCEPT ![c] = "closing"]
          /\ UNCHANGED <<session, sent, cmdIndex, closeStatus, endSent, total, wakeup>>
      BY <1>3 DEF ReceiveUnauthorised, ReceiveInput, SpawnFails
    <2> QED BY <1>1, <2>1 DEF TypeOK
  <1>4. ASSUME NEW c \in Conns, ReceiveResume(c) PROVE AllFlowing'
    BY <1>1, <1>4 DEF ReceiveResume
  <1>5. ASSUME NEW c \in Conns, NEW s \in Ids, Spawn(c, s) PROVE AllFlowing'
    BY <1>5, AttachFlowing DEF Spawn
  <1>6. ASSUME NEW c \in Conns, NEW s \in Ids, NEW requested \in 0 .. MaxWritten,
               Resume(c, s, requested)
        PROVE AllFlowing'
    BY <1>6, AttachFlowing, BoundAssumption DEF Resume
  <1>7. ASSUME NEW c \in Conns, ServerWriteable(c) PROVE AllFlowing'
    BY <1>7, WriteableFlowing
  <1>8. ASSUME NEW c \in Conns, Closed(c) PROVE AllFlowing'
    BY <1>8, ClosedFlowing
  <1>9. ASSUME NEW s \in Ids, ReadData(s) PROVE AllFlowing'
    BY <1>9, ReadDataFlowing
  <1>10. ASSUME NEW s \in Ids, ReadEof(s) PROVE AllFlowing'
    BY <1>1, <1>10 DEF ReadEof, Woken
  <1>11. ASSUME NEW s \in Ids, AsyncCb(s) PROVE AllFlowing'
    BY <1>11, AsyncCbFlowing
  <1>12. ASSUME NEW s \in Ids, ReadNothing(s) \/ ReapTimer(s) \/ WaitThread(s) \/ Command(s)
         PROVE AllFlowing'
    BY <1>1, <1>12
       DEF ReadNothing, ReapTimer, WaitThread, Command, CommandWrites, CommandHangsUp,
           CommandExits
  <1>13. CASE UNCHANGED vars
    BY <1>1, <1>13 DEF vars
  <1> QED
    BY <1>2, <1>3, <1>4, <1>5, <1>6, <1>7, <1>8, <1>9, <1>10, <1>11, <1>12, <1>13
       DEF Next, Receive, Read

\* The stream holds together in every reachable state.
LEMMA AlwaysFlowing == Spec => [](TypeOK /\ Linked /\ AllFlowing)
  <1>1. TypeOK /\ Linked /\ AllFlowing /\ [Next]_vars => AllFlowing'
    BY FlowStep
  <1> QED BY <1>1, InitFlowing, AlwaysLinked, PTL DEF Spec

\* Whoever is still to be told something has a WRITEABLE callback coming
\* (lws_callback_on_writable in session_attach, spawn_process,
\* process_read_cb, process_exit_cb and WRITEABLE itself).
THEOREM NobodyForgotten == Spec => []PendingIsScheduled
  <1>1. TypeOK /\ Linked /\ AllFlowing => PendingIsScheduled
    BY DEF AllFlowing, Flowing, PendingIsScheduled
  <1> QED BY <1>1, AlwaysFlowing, PTL

\* A client told that its command has ended was sent all output that was read
\* (WRITEABLE, process_exit_cb).
THEOREM EndIsLast == Spec => []EndComesLast
  <1>1. TypeOK /\ Linked /\ AllFlowing => EndComesLast
    BY DEF AllFlowing, Flowing, EndComesLast
  <1> QED BY <1>1, AlwaysFlowing, PTL

-----------------------------------------------------------------------------
\* A step that leaves alone what a connection has and how much of its session's
\* output there is, and does not start reading it, unless what it reads may
\* outrun the connection's client.
LEMMA UnbrokenUntouched ==
    ASSUME NEW d \in Conns, Unbroken(d),
           session'[d] = session[d], sent'[d] = sent[d], received'[d] = received[d],
           cmdIndex'[d] = cmdIndex[d], outrun[d] => outrun'[d],
           session[d] # None =>
              /\ total'[session[d]] = total[session[d]]
              /\ capacity'[session[d]] = capacity[session[d]]
              /\ reading'[session[d]] =>
                    \/ reading[session[d]]
                    \/ total[session[d]] - sent[d] <= Limit
                    \/ outrun'[d]
    PROVE  Unbroken(d)'
  BY DEF Unbroken, Covers

\* At the start nothing was read.
LEMMA InitUnbroken == Init => AllUnbroken
  BY DEF Init, AllUnbroken, Unbroken, Covers

\* The connection a session is handed to has sent nothing yet, and starts at
\* most Limit behind.
LEMMA AttachUnbroken ==
    ASSUME TypeOK, Linked, AllFlowing, AllUnbroken,
           NEW c \in Conns, NEW s \in Ids, NEW requested \in Nat,
           Hello(c), SessionAttach(s, c, requested),
           UNCHANGED <<cmdIndex, received, outrun, total, reading>>,
           \A r \in Ids \ {s} : capacity'[r] = capacity[r]
    PROVE  AllUnbroken'
  <1> SUFFICES ASSUME NEW d \in Conns PROVE Unbroken(d)'
    BY DEF AllUnbroken
  <1>1. Unbroken(d) /\ cmdIndex[c] = 0
    BY DEF AllUnbroken, AllFlowing, Flowing, Hello
  <1>2. session' = HandedOver(s, c)
    BY DEF SessionAttach
  <1>3. PICK offset \in ResumeOffsets(capacity[s], Limit, total[s], requested) :
            sent' = [sent EXCEPT ![c] = offset]
    BY DEF SessionAttach
  <1>4. CASE d = c
    <2>1. session'[d] = s /\ sent'[d] = offset /\ cmdIndex'[d] # InitialMessages
      BY <1>1, <1>2, <1>3, <1>4, InitialAssumption DEF HandedOver, TypeOK
    <2>2. /\ total[s] \in Nat /\ capacity[s] \in Nat /\ Capacity \in Nat
          /\ Limit \in Nat /\ Limit <= Capacity
      BY BufferAssumption DEF TypeOK
    <2>3. offset \in Earliest(capacity[s], Limit, total[s]) .. total[s]
      BY <2>2, ResumeRange
    <2>4. /\ Earliest(capacity[s], Limit, total[s]) \in Nat
          /\ total[s] - Earliest(capacity[s], Limit, total[s]) <= Limit
      BY <2>2, EarliestRange
    <2>5. total[s] - offset <= Limit /\ total[s] - offset <= Capacity
      BY <2>2, <2>3, <2>4
    <2> QED BY <1>4, <2>1, <2>5 DEF Unbroken, Covers
  <1>5. CASE d # c /\ d = attached[s]
    BY <1>2, <1>5 DEF HandedOver, Unbroken, Covers
  <1>6. CASE d # c /\ d # attached[s]
    <2>1. session'[d] = session[d] /\ sent'[d] = sent[d]
      BY <1>2, <1>3, <1>6 DEF HandedOver, TypeOK
    <2>2. session[d] # None => session[d] \in Ids \ {s}
      BY <1>6 DEF Linked, ConnLinked, TypeOK
    <2> QED BY <1>1, <2>1, <2>2, UnbrokenUntouched
  <1> QED BY <1>4, <1>5, <1>6

\* Sending takes output off what is to be sent, and reads on only when none is left.
LEMMA WriteableUnbroken ==
    ASSUME TypeOK, Linked, AllFlowing, AllUnbroken, NEW c \in Conns, ServerWriteable(c)
    PROVE  AllUnbroken'
  <1> SUFFICES ASSUME NEW d \in Conns PROVE Unbroken(d)'
    BY DEF AllUnbroken
  <1>1. Unbroken(d) /\ Unbroken(c) /\ Flowing(c)
    BY DEF AllUnbroken, AllFlowing
  <1>2. ASSUME SendInitial(c) PROVE Unbroken(d)'
    <2>1. /\ cmdIndex' = [cmdIndex EXCEPT ![c] = @ + 1]
          /\ received' = IF cmdIndex[c] = InitialMessages - 1
                         THEN [received EXCEPT ![c] = sent[c]] ELSE received
          /\ UNCHANGED <<session, sent, outrun, total, capacity, reading>>
      BY <1>2 DEF SendInitial, linkVars
    <2>2. CASE d = c
      <3>1. cmdIndex'[d] = InitialMessages => received'[d] = sent[d]
        BY <2>1, <2>2, InitialAssumption DEF TypeOK
      <3> QED BY <1>1, <2>1, <2>2, <3>1 DEF Unbroken, Covers
    <2>3. CASE d # c
      <3>1. cmdIndex'[d] = cmdIndex[d] /\ received'[d] = received[d]
        BY <2>1, <2>3 DEF TypeOK
      <3> QED BY <1>1, <2>1, <3>1, UnbrokenUntouched
    <2> QED BY <2>2, <2>3
  <1>3. ASSUME SendOutput(c) PROVE Unbroken(d)'
    <2> DEFINE end == total[session[c]]
    <2> DEFINE size == capacity[session[c]]
    <2>1. /\ session[c] # None /\ sent[c] < end
          /\ UNCHANGED <<total, capacity, outrun, reading, cmdIndex, session>>
      BY <1>3 DEF SendOutput, HasOutput, linkVars, connVars
    <2>2. PICK from \in IF sent[c] < Oldest(size, end)
                        THEN ResumeOffsets(size, Limit, end, sent[c])
                        ELSE {sent[c]} :
            LET length == ReadLength(size, end, from, Chunk)
            IN  /\ sent' = [sent EXCEPT ![c] = from + length]
                /\ received' = [received EXCEPT ![c] = @ + length]
      BY <1>3 DEF SendOutput
    <2>3. end \in Nat /\ sent[c] \in Nat /\ Capacity \in Nat /\ Limit \in Nat
          /\ size \in {0, Capacity}
      BY <2>1, BufferAssumption DEF TypeOK
    <2>4. CASE d = c /\ ~Covers(c)
      BY <2>1, <2>4 DEF Unbroken, Covers
    <2>5. CASE d = c /\ Covers(c)
      <3> DEFINE length == ReadLength(size, end, from, Chunk)
      <3>1. size = Capacity /\ end - sent[c] <= Capacity
        BY <1>1, <2>3, <2>5 DEF Unbroken, Covers
      <3>2. from = sent[c] /\ length \in 0 .. (end - from)
        <4> HIDE DEF end, size
        <4>1. ~(sent[c] < Oldest(size, end))
          BY <2>3, <3>1 DEF Oldest, Larger
        <4> QED BY <2>1, <2>2, <2>3, <3>1, <4>1, OutputRange
      <3>3. sent'[d] = from + length /\ received'[d] = received[d] + length
        BY <2>2, <2>5 DEF TypeOK
      <3> HIDE DEF length
      <3>4. end - sent'[d] <= end - sent[d] /\ sent'[d] = sent[d] + length /\ length \in Nat
            /\ sent'[d] \in Nat /\ received[d] \in Nat
        <4>1. received[d] \in Nat
          BY DEF TypeOK
        <4> HIDE DEF end, size
        <4> QED BY <2>3, <2>5, <3>2, <3>3, <4>1
      <3>5. end - sent'[d] <= Capacity
            /\ (end - sent[d] <= Limit => end - sent'[d] <= Limit)
        <4> HIDE DEF end, size
        <4> QED BY <2>3, <2>5, <3>1, <3>4
      <3>6. received[d] = sent[d] => received'[d] = sent'[d]
        BY <3>3, <3>4
      <3> QED BY <1>1, <2>1, <2>5, <3>5, <3>6 DEF Unbroken, Covers
    <2>6. CASE d # c
      <3>2. sent'[d] = sent[d] /\ received'[d] = received[d]
        BY <2>2, <2>6 DEF TypeOK
      <3> QED BY <1>1, <2>1, <3>2, UnbrokenUntouched
    <2> QED BY <2>4, <2>5, <2>6
  <1>4. ASSUME ReadOn(c) PROVE Unbroken(d)'
    <2>1. /\ ~HasOutput(c)
          /\ reading' = IF session[c] # None /\ ~eof[session[c]]
                        THEN Resumed(session[c]) ELSE reading
          /\ UNCHANGED <<session, sent, received, outrun, cmdIndex, total, capacity>>
      BY <1>4 DEF ReadOn, linkVars
    <2>2. CASE session[d] = None
      BY <2>1, <2>2 DEF Unbroken, Covers
    <2>3. CASE session[d] # None /\ d = c
      <3>1. total[session[d]] - sent[d] <= Limit
        BY <2>1, <2>3, BufferAssumption DEF HasOutput, TypeOK
      <3> QED BY <1>1, <2>1, <2>3, <3>1 DEF Unbroken, Covers
    <2>4. CASE session[d] # None /\ d # c
      <3>1. session[d] \in Ids /\ session[d] # session[c]
        BY <2>4, SoleHolder DEF TypeOK
      <3>2. reading'[session[d]] = reading[session[d]]
        BY <2>1, <3>1 DEF Resumed, TypeOK
      <3> QED BY <1>1, <2>1, <3>2, UnbrokenUntouched
    <2> QED BY <2>2, <2>3, <2>4
  <1>5. ASSUME SendSessionEnd(c) \/ CloseEnded(c) PROVE Unbroken(d)'
    BY <1>1, <1>5, UnbrokenUntouched DEF SendSessionEnd, CloseEnded, linkVars, streamVars
  <1> QED BY <1>2, <1>3, <1>4, <1>5 DEF ServerWriteable

\* CLOSED reads on only in the session that has just lost its client.
LEMMA ClosedUnbroken ==
    ASSUME TypeOK, Linked, AllUnbroken, NEW c \in Conns, Closed(c) PROVE AllUnbroken'
  <1> SUFFICES ASSUME NEW d \in Conns PROVE Unbroken(d)'
    BY DEF AllUnbroken
  <1>1. /\ session' = [session EXCEPT ![c] = None]
        /\ sent' = [sent EXCEPT ![c] = 0]
        /\ received' = [received EXCEPT ![c] = 0]
        /\ cmdIndex' = [cmdIndex EXCEPT ![c] = 0]
        /\ outrun' = [outrun EXCEPT ![c] = FALSE]
        /\ UNCHANGED <<total, capacity>>
        /\ ReleaseSession(c)
    BY DEF Closed
  <1>2. CASE d = c
    BY <1>1, <1>2 DEF Unbroken, Covers, TypeOK
  <1>3. CASE d # c
    <2>1. /\ session'[d] = session[d] /\ sent'[d] = sent[d] /\ received'[d] = received[d]
          /\ cmdIndex'[d] = cmdIndex[d] /\ outrun'[d] = outrun[d]
      BY <1>1, <1>3 DEF TypeOK
    <2>2. session[d] # None => reading'[session[d]] = reading[session[d]]
      <3> SUFFICES ASSUME session[d] # None PROVE reading'[session[d]] = reading[session[d]]
        OBVIOUS
      <3>1. session[d] \in Ids /\ session[d] # session[c]
        BY <1>3, SoleHolder DEF TypeOK
      <3>2. reading' = reading \/ reading' = Resumed(session[c])
        BY <1>1 DEF ReleaseSession
      <3> QED BY <3>1, <3>2 DEF Resumed, TypeOK
    <2>3. Unbroken(d)
      BY DEF AllUnbroken
    <2> QED BY <1>1, <2>1, <2>2, <2>3, UnbrokenUntouched
  <1> QED BY <1>2, <1>3

\* A read finds the client at most Limit behind, and stops further ones.
LEMMA ReadDataUnbroken ==
    ASSUME TypeOK, Linked, AllUnbroken, NEW s \in Ids, ReadData(s) PROVE AllUnbroken'
  <1> SUFFICES ASSUME NEW d \in Conns PROVE Unbroken(d)'
    BY DEF AllUnbroken
  <1>1. Unbroken(d) /\ ConnLinked(d)
    BY DEF AllUnbroken, Linked
  <1>2. PICK n \in 1 .. ReadMax : total' = [total EXCEPT ![s] = @ + n]
    BY DEF ReadData
  <1>3. /\ reading[s] /\ reading' = [reading EXCEPT ![s] = attached[s] = None]
        /\ UNCHANGED <<session, sent, received, outrun, capacity, cmdIndex>>
    BY DEF ReadData, linkVars
  <1>4. CASE session[d] = s
    <2>1. attached[s] = d /\ d # None /\ s # None
      BY <1>1, <1>4, PointerAssumption DEF ConnLinked
    <2>2. ~reading'[s]
      BY <1>3, <2>1 DEF TypeOK
    <2>3. Covers(d) => total[s] - sent[d] <= Limit
      BY <1>1, <1>3, <1>4, <2>1 DEF Unbroken
    <2>4. Covers(d) => total'[s] - sent[d] <= Capacity
      <3>1. total'[s] = total[s] + n /\ total[s] \in Nat /\ sent[d] \in Nat
        BY <1>2 DEF TypeOK
      <3> QED BY <2>3, <3>1, BufferAssumption
    <2> QED BY <1>1, <1>3, <1>4, <2>2, <2>4 DEF Unbroken, Covers
  <1>5. CASE session[d] # s
    <2>1. session[d] # None => /\ total'[session[d]] = total[session[d]]
                               /\ reading'[session[d]] = reading[session[d]]
      BY <1>2, <1>3, <1>5 DEF TypeOK
    <2> QED BY <1>1, <1>3, <2>1, UnbrokenUntouched
  <1> QED BY <1>4, <1>5

\* Every step keeps what is to be sent in the ring.
LEMMA UnbrokenStep ==
    ASSUME TypeOK, Linked, AllFlowing, AllUnbroken, [Next]_vars
    PROVE  AllUnbroken'
  <1> USE DEF connVars, linkVars, streamVars, commandVars, serverVars
  <1>1. ASSUME UNCHANGED <<session, sent, received, outrun, cmdIndex, total, capacity>>,
               \A s \in Ids : reading'[s] => reading[s]
        PROVE AllUnbroken'
    <2> SUFFICES ASSUME NEW d \in Conns PROVE Unbroken(d)'
      BY DEF AllUnbroken
    <2>1. Unbroken(d) /\ (session[d] # None => session[d] \in Ids)
      BY DEF AllUnbroken, TypeOK
    <2> QED BY <1>1, <2>1, UnbrokenUntouched
  <1>2. ASSUME NEW c \in Conns,
               Connect(c) \/ ReceiveUnauthorised(c) \/ ReceiveInput(c) \/ SpawnFails(c)
        PROVE AllUnbroken'
    BY <1>1, <1>2 DEF Connect, ReceiveUnauthorised, ReceiveInput, SpawnFails
  <1>3. ASSUME NEW c \in Conns, ReceiveResume(c) PROVE AllUnbroken'
    <2> SUFFICES ASSUME NEW d \in Conns PROVE Unbroken(d)'
      BY DEF AllUnbroken
    <2>1. /\ session[c] # None
          /\ reading' = Resumed(session[c])
          /\ outrun' = [outrun EXCEPT ![c] = @ \/ total[session[c]] - sent[c] > Limit]
          /\ UNCHANGED <<session, sent, received, cmdIndex, total, capacity>>
      BY <1>3 DEF ReceiveResume, HasProcess
    <2>2. Unbroken(d)
      BY DEF AllUnbroken
    <2>3. CASE d = c
      <3>1. outrun'[d] = (outrun[d] \/ total[session[d]] - sent[d] > Limit)
        BY <2>1, <2>3 DEF TypeOK
      <3>2. session[d] \in Ids /\ total[session[d]] \in Nat /\ sent[d] \in Nat /\ Limit \in Nat
        BY <2>1, <2>3, BufferAssumption DEF TypeOK
      <3>3. total[session[d]] - sent[d] <= Limit \/ total[session[d]] - sent[d] > Limit
        BY <3>2
      <3>4. total[session[d]] - sent[d] <= Limit \/ outrun'[d]
        BY <3>1, <3>3, Zenon
      <3> QED BY <2>1, <2>2, <3>1, <3>4, UnbrokenUntouched
    <2>4. CASE d # c
      <3>1. outrun'[d] = outrun[d]
        BY <2>1, <2>4 DEF TypeOK
      <3>2. session[d] # None => reading'[session[d]] = reading[session[d]]
        BY <2>1, <2>4, SoleHolder DEF Resumed, TypeOK
      <3> QED BY <2>1, <2>2, <3>1, <3>2, UnbrokenUntouched
    <2> QED BY <2>3, <2>4
  <1>4. ASSUME NEW c \in Conns, NEW s \in Ids, Spawn(c, s) PROVE AllUnbroken'
    <2>1. \A r \in Ids \ {s} : capacity'[r] = capacity[r]
      BY <1>4 DEF Spawn, TypeOK
    <2> QED BY <1>4, <2>1, AttachUnbroken DEF Spawn
  <1>5. ASSUME NEW c \in Conns, NEW s \in Ids, NEW requested \in 0 .. MaxWritten,
               Resume(c, s, requested)
        PROVE AllUnbroken'
    BY <1>5, AttachUnbroken, BoundAssumption DEF Resume
  <1>6. ASSUME NEW c \in Conns, ServerWriteable(c) PROVE AllUnbroken'
    BY <1>6, WriteableUnbroken
  <1>7. ASSUME NEW c \in Conns, Closed(c) PROVE AllUnbroken'
    BY <1>7, ClosedUnbroken
  <1>8. ASSUME NEW s \in Ids, ReadData(s) PROVE AllUnbroken'
    BY <1>8, ReadDataUnbroken
  <1>9. ASSUME NEW s \in Ids, ReadEof(s) \/ ReadNothing(s) \/ AsyncCb(s)
        PROVE AllUnbroken'
    <2>1. /\ UNCHANGED <<session, sent, received, outrun, cmdIndex, total, capacity>>
          /\ reading' = [reading EXCEPT ![s] = FALSE]
      BY <1>9 DEF ReadEof, ReadNothing, AsyncCb
    <2> QED BY <1>1, <2>1 DEF TypeOK
  <1>10. ASSUME NEW s \in Ids, ReapTimer(s) \/ WaitThread(s) \/ Command(s)
         PROVE AllUnbroken'
    BY <1>1, <1>10
       DEF ReapTimer, WaitThread, Command, CommandWrites, CommandHangsUp, CommandExits
  <1>11. CASE UNCHANGED vars
    BY <1>1, <1>11 DEF vars
  <1> QED
    BY <1>2, <1>3, <1>4, <1>5, <1>6, <1>7, <1>8, <1>9, <1>10, <1>11
       DEF Next, Receive, Read

\* And so it stays.
LEMMA AlwaysUnbroken == Spec => [](TypeOK /\ AllFlowing /\ AllUnbroken)
  <1>1. TypeOK /\ Linked /\ AllFlowing /\ AllUnbroken /\ [Next]_vars => AllUnbroken'
    BY UnbrokenStep
  <1> QED BY <1>1, InitUnbroken, AlwaysFlowing, PTL DEF Spec

\* REPLAY_LIMIT keeps its promise, whatever clients come, go and send: what a
\* client has yet to be sent is never overwritten (wsi_output, read_cb), until a
\* RESUME of its own comes while it is more than REPLAY_LIMIT behind, and if the
\* session's buffer could be allocated.
THEOREM NothingOverwritten == Spec => []OutputNotOverwritten
  <1>1. TypeOK /\ AllFlowing /\ AllUnbroken => OutputNotOverwritten
    <2> SUFFICES ASSUME TypeOK, AllFlowing, AllUnbroken,
                        NEW c \in Conns, Covers(c)
                 PROVE  /\ sent[c] <= total[session[c]]
                        /\ sent[c] >= Oldest(Capacity, total[session[c]])
      BY DEF OutputNotOverwritten
    <2>1. /\ sent[c] <= total[session[c]]
          /\ total[session[c]] - sent[c] <= Capacity
      BY DEF AllFlowing, Flowing, AllUnbroken, Unbroken, Covers
    <2>2. sent[c] \in Nat /\ total[session[c]] \in Nat /\ Capacity \in Nat
      BY BufferAssumption DEF TypeOK, Covers
    <2> QED BY <2>1, <2>2 DEF Oldest, Larger
  <1> QED BY <1>1, AlwaysUnbroken, PTL

\* ... and a client that counts the bytes after the offset it was told knows
\* where in the stream it is (send_initial_message), with the same two
\* exceptions.
THEOREM OffsetKnown == Spec => []ClientKnowsOffset
  <1>1. TypeOK /\ AllFlowing /\ AllUnbroken => ClientKnowsOffset
    BY DEF AllUnbroken, Unbroken, ClientKnowsOffset
  <1> QED BY <1>1, AlwaysUnbroken, PTL

-----------------------------------------------------------------------------
\* A session's command can go on writing: its PTY is read, or will be.
ReadingAssured(s) ==
    Running(s) /\ ~eof[s] /\ ~reading[s] /\ ~signalled[s] =>
        attached[s] # None /\ (wakeup[attached[s]] \/ cstate[attached[s]] = "closing")

\* A step that leaves the client of a session in place, and does not stop the
\* reading or forget to serve it.
LEMMA ReadingUntouched ==
    ASSUME NEW t \in Ids, ReadingAssured(t),
           attached'[t] = attached[t],
           Running(t)' => Running(t),
           eof[t] => eof'[t], reading[t] => reading'[t], signalled[t] => signalled'[t],
           attached[t] # None =>
              /\ wakeup[attached[t]] =>
                    wakeup'[attached[t]] \/ cstate'[attached[t]] = "closing"
              /\ cstate[attached[t]] = "closing" => cstate'[attached[t]] = "closing"
    PROVE  ReadingAssured(t)'
  BY DEF ReadingAssured

\* A session that is handed over is read on, or its new client will see to it.
LEMMA AttachReading ==
    ASSUME TypeOK, ReadingGoesOn, NEW c \in Conns, NEW s \in Ids, NEW requested \in Nat,
           SessionAttach(s, c, requested), wakeup' = WokenBoth(s, c),
           UNCHANGED <<cstate, eof, reading, signalled>>,
           \A t \in Ids : t # s => process'[t] = process[t] /\ command'[t] = command[t]
    PROVE  ReadingGoesOn'
  <1> SUFFICES ASSUME NEW t \in Ids PROVE ReadingAssured(t)'
    BY DEF ReadingGoesOn, ReadingAssured
  <1>1. attached' = [attached EXCEPT ![s] = c] /\ ReadingAssured(t)
    BY DEF SessionAttach, ReadingGoesOn, ReadingAssured
  <1>2. wakeup'[c] /\ \A d \in Conns : wakeup[d] => wakeup'[d]
    BY DEF WokenBoth
  <1>3. CASE t = s
    <2>1. attached'[t] = c /\ c # None
      BY <1>1, <1>3, PointerAssumption DEF TypeOK
    <2> QED BY <1>2, <2>1 DEF ReadingAssured
  <1>4. CASE t # s
    <2>1. attached'[t] = attached[t] /\ (Running(t)' => Running(t))
      BY <1>1, <1>4 DEF Running, TypeOK
    <2>2. attached[t] # None => attached[t] \in Conns
      BY DEF TypeOK
    <2> QED BY <1>1, <1>2, <2>1, <2>2, ReadingUntouched
  <1> QED BY <1>3, <1>4

\* pty_resume reads a session's PTY, if there is one.
LEMMA ResumedReads ==
    ASSUME TypeOK, NEW s \in Ids, process[s] PROVE Resumed(s)[s]
  <1>1. Resumed(s)[s] = (reading[s] \/ process[s])
    BY DEF Resumed, TypeOK
  <1> QED BY <1>1, Zenon

\* WRITEABLE with nothing to send reads on; a client's leaving does, or signals
\* the command.
LEMMA ReadOnReading ==
    ASSUME TypeOK, Linked, ReadingGoesOn, NEW c \in Conns, ReadOn(c) PROVE ReadingGoesOn'
  <1> SUFFICES ASSUME NEW t \in Ids PROVE ReadingAssured(t)'
    BY DEF ReadingGoesOn, ReadingAssured
  <1>1. ReadingAssured(t) /\ SessionLinked(t)
    BY DEF ReadingGoesOn, ReadingAssured, Linked
  <1>2. /\ reading' = IF session[c] # None /\ ~eof[session[c]]
                      THEN Resumed(session[c]) ELSE reading
        /\ wakeup' = [wakeup EXCEPT ![c] = FALSE]
        /\ UNCHANGED <<cstate, attached, process, command, eof, signalled>>
    BY DEF ReadOn, linkVars, commandVars
  <1>3. reading[t] => reading'[t]
    BY <1>2 DEF Resumed, TypeOK
  <1>4. Running(t)' <=> Running(t)
    BY <1>2 DEF Running
  <1>5. CASE attached[t] = c
    <2>1. session[c] = t /\ t # None
      BY <1>1, <1>5, PointerAssumption DEF SessionLinked
    <2>2. process[t] /\ ~eof[t] => reading'[t]
      BY <1>2, <2>1, ResumedReads
    <2> QED BY <1>2, <1>4, <2>2 DEF ReadingAssured, Running
  <1>6. CASE attached[t] # c
    <2>1. attached[t] # None => wakeup'[attached[t]] = wakeup[attached[t]]
      BY <1>2, <1>6 DEF TypeOK
    <2> QED BY <1>1, <1>2, <1>3, <1>4, <2>1, ReadingUntouched
  <1> QED BY <1>5, <1>6

\* A session whose client leaves is read on.
LEMMA ClosedReading ==
    ASSUME TypeOK, Linked, ReadingGoesOn, NEW c \in Conns, Closed(c) PROVE ReadingGoesOn'
  <1> SUFFICES ASSUME NEW t \in Ids PROVE ReadingAssured(t)'
    BY DEF ReadingGoesOn, ReadingAssured
  <1>1. ReadingAssured(t) /\ SessionLinked(t) /\ ConnLinked(c)
    BY DEF ReadingGoesOn, ReadingAssured, Linked
  <1>2. /\ cstate' = [cstate EXCEPT ![c] = "closed"]
        /\ wakeup' = [wakeup EXCEPT ![c] = FALSE]
        /\ UNCHANGED <<process, command, eof>>
        /\ ReleaseSession(c)
    BY DEF Closed
  <1>3. Running(t)' <=> Running(t)
    BY <1>2 DEF Running
  <1>4. CASE session[c] # None /\ t = session[c]
    <2>1. CASE ~process[t]
      BY <1>3, <2>1 DEF ReadingAssured, Running
    <2>2. CASE process[t] /\ KeepsDetached
      <3>1. reading' = IF ~eof[t] THEN Resumed(t) ELSE reading
        BY <1>2, <1>4, <2>2 DEF ReleaseSession
      <3>2. ~eof[t] => reading'[t]
        BY <2>2, <3>1, ResumedReads
      <3> QED BY <1>2, <3>2 DEF ReadingAssured
    <2>3. CASE process[t] /\ ~KeepsDetached
      <3>1. Running(t) => signalled' = Killed(t)
        BY <1>2, <1>4, <2>3 DEF ReleaseSession
      <3>2. Running(t) => signalled'[t]
        BY <3>1 DEF Killed, TypeOK
      <3> QED BY <1>3, <3>2 DEF ReadingAssured
    <2> QED BY <2>1, <2>2, <2>3
  <1>5. CASE session[c] = None \/ t # session[c]
    <2>1. attached[t] # None => attached[t] \in Conns /\ attached[t] # c
      BY <1>1, <1>5, PointerAssumption DEF SessionLinked, TypeOK
    <2>2. attached[t] # None => /\ wakeup'[attached[t]] = wakeup[attached[t]]
                                /\ cstate'[attached[t]] = cstate[attached[t]]
      BY <1>2, <2>1 DEF TypeOK
    <2>3. attached'[t] = attached[t]
      BY <1>2, <1>5 DEF ReleaseSession, TypeOK
    <2>4. signalled[t] => signalled'[t]
      BY <1>2 DEF ReleaseSession, Killed, TypeOK
    <2>5. reading[t] => reading'[t]
      <3>1. reading' = reading \/ reading' = Resumed(session[c])
        BY <1>2 DEF ReleaseSession
      <3> QED BY <3>1 DEF Resumed, TypeOK
    <2> QED BY <1>1, <1>2, <1>3, <2>2, <2>3, <2>4, <2>5, ReadingUntouched
  <1> QED BY <1>4, <1>5

\* A read that stopped reading has a client to resume it.
LEMMA PtyReading ==
    ASSUME TypeOK, Linked, ReadingGoesOn, NEW s \in Ids,
           ReadData(s) \/ ReadEof(s) \/ AsyncCb(s)
    PROVE  ReadingGoesOn'
  <1> SUFFICES ASSUME NEW t \in Ids PROVE ReadingAssured(t)'
    BY DEF ReadingGoesOn, ReadingAssured
  <1>1. ReadingAssured(t) /\ (attached[t] # None => attached[t] \in Conns)
    BY DEF ReadingGoesOn, ReadingAssured, TypeOK
  <1>2. UNCHANGED <<cstate, attached, signalled>>
    BY DEF ReadData, ReadEof, AsyncCb, linkVars, commandVars
  <1>3. \A d \in Conns : wakeup[d] => wakeup'[d]
    <2>1. wakeup' = wakeup \/ wakeup' = Woken(s)
      BY DEF ReadData, ReadEof, AsyncCb
    <2> QED BY <2>1 DEF Woken
  <1>4. CASE t # s
    <2>1. /\ process'[t] = process[t] /\ command'[t] = command[t]
          /\ eof'[t] = eof[t] /\ reading'[t] = reading[t]
      <3>1. CASE ReadData(s)
        BY <1>4, <3>1 DEF ReadData, linkVars, commandVars, TypeOK
      <3>2. CASE ReadEof(s)
        BY <1>4, <3>2 DEF ReadEof, linkVars, commandVars, TypeOK
      <3>3. CASE AsyncCb(s)
        BY <1>4, <3>3 DEF AsyncCb, TypeOK
      <3> QED BY <3>1, <3>2, <3>3
    <2> QED BY <1>1, <1>2, <1>3, <2>1, ReadingUntouched DEF Running
  <1>5. CASE t = s
    <2>1. CASE ReadData(s)
      <3>1. reading' = [reading EXCEPT ![s] = attached[s] = None] /\ wakeup' = Woken(s)
        BY <2>1 DEF ReadData
      <3>2. CASE attached[s] = None
        BY <1>5, <3>1, <3>2 DEF ReadingAssured, TypeOK
      <3>3. CASE attached[s] # None
        <4>1. wakeup'[attached[s]]
          BY <1>1, <1>5, <3>1, <3>3 DEF Woken
        <4> QED BY <1>2, <1>5, <3>3, <4>1 DEF ReadingAssured
      <3> QED BY <3>2, <3>3
    <2>2. CASE ReadEof(s)
      <3>1. eof'[s]
        BY <2>2 DEF ReadEof, TypeOK
      <3> QED BY <1>5, <3>1 DEF ReadingAssured
    <2>3. CASE AsyncCb(s)
      <3>1. ~process'[s]
        BY <2>3 DEF AsyncCb, TypeOK
      <3> QED BY <1>5, <3>1 DEF ReadingAssured, Running
    <2> QED BY <2>1, <2>2, <2>3
  <1> QED BY <1>4, <1>5

\* Every step keeps what will resume a stopped PTY.
LEMMA ReadingStep ==
    ASSUME ~SpuriousReads, TypeOK, Linked, ReadingGoesOn, [Next]_vars
    PROVE  ReadingGoesOn'
  <1> USE DEF connVars, linkVars, streamVars, commandVars, serverVars
  <1>1. ASSUME UNCHANGED <<attached, process, eof>>,
               \A t \in Ids : Running(t)' => Running(t),
               \A t \in Ids : reading[t] => reading'[t],
               \A t \in Ids : signalled[t] => signalled'[t],
               \A d \in Conns : wakeup[d] => wakeup'[d] \/ cstate'[d] = "closing",
               \A d \in Conns : Connected(d) /\ cstate[d] = "closing" => cstate'[d] = "closing"
        PROVE ReadingGoesOn'
    <2> SUFFICES ASSUME NEW t \in Ids PROVE ReadingAssured(t)'
      BY DEF ReadingGoesOn, ReadingAssured
    <2>1. ReadingAssured(t) /\ (attached[t] # None => attached[t] \in Conns)
      BY DEF ReadingGoesOn, ReadingAssured, TypeOK
    <2> QED BY <1>1, <2>1, ReadingUntouched DEF Connected
  <1>2. ASSUME NEW c \in Conns, Connect(c) PROVE ReadingGoesOn'
    <2>1. /\ cstate[c] = "unused" /\ cstate' = [cstate EXCEPT ![c] = "open"]
          /\ UNCHANGED <<wakeup, attached, process, command, eof, reading, signalled>>
      BY <1>2 DEF Connect
    <2>2. \A d \in Conns : cstate[d] = "closing" => cstate'[d] = "closing"
      BY <2>1 DEF TypeOK
    <2> QED BY <1>1, <2>1, <2>2 DEF Running
  <1>3. ASSUME NEW c \in Conns,
               \/ ReceiveUnauthorised(c) \/ ReceiveInput(c) \/ SpawnFails(c)
        PROVE ReadingGoesOn'
    <2>1. /\ cstate' = [cstate EXCEPT ![c] = "closing"]
          /\ UNCHANGED <<wakeup, attached, process, command, eof, reading, signalled>>
      BY <1>3 DEF ReceiveUnauthorised, ReceiveInput, SpawnFails
    <2>2. \A d \in Conns : cstate[d] = "closing" => cstate'[d] = "closing"
      BY <2>1 DEF TypeOK
    <2> QED BY <1>1, <2>1, <2>2 DEF Running
  <1>4. ASSUME NEW c \in Conns, ReceiveResume(c) PROVE ReadingGoesOn'
    <2>1. /\ reading' = Resumed(session[c])
          /\ UNCHANGED <<cstate, wakeup, attached, process, command, eof, signalled>>
      BY <1>4 DEF ReceiveResume
    <2>2. \A t \in Ids : reading[t] => reading'[t]
      BY <2>1 DEF Resumed, TypeOK
    <2> QED BY <1>1, <2>1, <2>2 DEF Running
  <1>5. ASSUME NEW c \in Conns, NEW s \in Ids, Spawn(c, s) PROVE ReadingGoesOn'
    <2>1. /\ SessionAttach(s, c, 0) /\ wakeup' = WokenBoth(s, c)
          /\ UNCHANGED <<cstate, eof, reading, signalled>>
          /\ process' = [process EXCEPT ![s] = TRUE]
          /\ command' = [command EXCEPT ![s] = "running"]
      BY <1>5 DEF Spawn
    <2>2. \A t \in Ids : t # s => process'[t] = process[t] /\ command'[t] = command[t]
      BY <2>1 DEF TypeOK
    <2> QED BY <2>1, <2>2, AttachReading
  <1>6. ASSUME NEW c \in Conns, NEW s \in Ids, NEW requested \in 0 .. MaxWritten,
               Resume(c, s, requested)
        PROVE ReadingGoesOn'
    BY <1>6, AttachReading, BoundAssumption DEF Resume
  <1>7. ASSUME NEW c \in Conns, SendInitial(c) \/ SendOutput(c) \/ SendSessionEnd(c)
        PROVE ReadingGoesOn'
    BY <1>1, <1>7 DEF SendInitial, SendOutput, SendSessionEnd, Running
  <1>8. ASSUME NEW c \in Conns, CloseEnded(c) PROVE ReadingGoesOn'
    <2>1. /\ cstate' = [cstate EXCEPT ![c] = "closing"]
          /\ wakeup' = [wakeup EXCEPT ![c] = FALSE]
          /\ UNCHANGED <<attached, process, command, eof, reading, signalled>>
      BY <1>8 DEF CloseEnded
    <2>2. \A d \in Conns : /\ wakeup[d] => wakeup'[d] \/ cstate'[d] = "closing"
                           /\ cstate[d] = "closing" => cstate'[d] = "closing"
      BY <2>1 DEF TypeOK
    <2> QED BY <1>1, <2>1, <2>2 DEF Running
  <1>9. ASSUME NEW c \in Conns, ReadOn(c) PROVE ReadingGoesOn'
    BY <1>9, ReadOnReading
  <1>10. ASSUME NEW c \in Conns, Closed(c) PROVE ReadingGoesOn'
    BY <1>10, ClosedReading
  <1>11. ASSUME NEW s \in Ids, Read(s) \/ AsyncCb(s) PROVE ReadingGoesOn'
    BY <1>11, PtyReading DEF Read
  <1>12. ASSUME NEW s \in Ids, ReadNothing(s) PROVE FALSE
    BY <1>12 DEF ReadNothing
  <1>13. ASSUME NEW s \in Ids, ReapTimer(s) PROVE ReadingGoesOn'
    <2>1. \A t \in Ids : signalled[t] => signalled'[t]
      BY <1>13 DEF ReapTimer, Killed, TypeOK
    <2> QED BY <1>1, <1>13, <2>1 DEF ReapTimer, Running
  <1>14. ASSUME NEW s \in Ids, WaitThread(s) \/ Command(s) PROVE ReadingGoesOn'
    <2>1. \A t \in Ids : Running(t)' => Running(t)
      BY <1>14 DEF WaitThread, Command, CommandWrites, CommandHangsUp, CommandExits,
                   Running, TypeOK
    <2> QED BY <1>1, <1>14, <2>1
            DEF WaitThread, Command, CommandWrites, CommandHangsUp, CommandExits
  <1>15. CASE UNCHANGED vars
    BY <1>1, <1>15 DEF vars, Running
  <1> QED
    BY <1>2, <1>3, <1>4, <1>5, <1>6, <1>7, <1>8, <1>9, <1>10, <1>11, <1>12, <1>13, <1>14, <1>15
       DEF Next, Receive, ServerWriteable

\* The flow control between PTY and client does not seize up, as long as no PTY
\* read comes back empty (read_cb, WRITEABLE, CLOSED).
THEOREM ReadingIsAssured ==
    ASSUME ~SpuriousReads
    PROVE  Spec => []ReadingGoesOn
  <1>1. Init => ReadingGoesOn
    BY DEF Init, ReadingGoesOn, Running
  <1>2. TypeOK /\ Linked /\ ReadingGoesOn /\ [Next]_vars => ReadingGoesOn'
    BY ReadingStep
  <1> QED BY <1>1, <1>2, AlwaysLinked, PTL DEF Spec

-----------------------------------------------------------------------------
\* A session that has not been started has no output.
UnbornSilent == \A s \in Ids : life[s] = "unborn" => total[s] = 0

\* A session that has not started has no output.
LEMMA UnbornStep == TypeOK /\ Linked /\ UnbornSilent /\ [Next]_vars => UnbornSilent'
  <1> SUFFICES ASSUME TypeOK, Linked, UnbornSilent, [Next]_vars PROVE UnbornSilent'
    OBVIOUS
  <1> USE DEF connVars, linkVars, streamVars, commandVars, serverVars
  <1>1. CASE UNCHANGED <<life, total>>
    BY <1>1 DEF UnbornSilent
  <1>2. ASSUME NEW s \in Ids, ReadData(s) PROVE UnbornSilent'
    <2>1. life[s] = "live" /\ life' = life /\ \E n : total' = [total EXCEPT ![s] = @ + n]
      BY <1>2 DEF ReadData, Linked, SessionLinked
    <2> QED BY <2>1 DEF UnbornSilent, TypeOK
  <1>3. ASSUME NEW c \in Conns, NEW s \in Ids, Spawn(c, s) PROVE UnbornSilent'
    <2>1. life' = [life EXCEPT ![s] = "live"] /\ total' = total
      BY <1>3 DEF Spawn
    <2> QED BY <2>1 DEF UnbornSilent, TypeOK
  <1>4. ASSUME life' = life \/ \E s \in Ids : life' = [life EXCEPT ![s] = "freed"],
               total' = total
        PROVE UnbornSilent'
    BY <1>4 DEF UnbornSilent, TypeOK
  <1>5. ASSUME NEW c \in Conns, Closed(c) PROVE UnbornSilent'
    <2>1. ReleaseSession(c) /\ total' = total
      BY <1>5 DEF Closed
    <2>2. life' = life \/ (session[c] # None /\ life' = [life EXCEPT ![session[c]] = "freed"])
      BY <2>1 DEF ReleaseSession, SessionFree
    <2>3. session[c] # None => session[c] \in Ids
      BY DEF TypeOK
    <2> QED BY <1>4, <2>1, <2>2, <2>3
  <1>6. ASSUME NEW s \in Ids, AsyncCb(s) PROVE UnbornSilent'
    BY <1>4, <1>6 DEF AsyncCb, SessionFree
  <1>7. ASSUME NEW c \in Conns,
               \/ Connect(c) \/ ReceiveUnauthorised(c) \/ ReceiveInput(c)
               \/ ReceiveResume(c) \/ SpawnFails(c)
               \/ \E s \in Ids, requested \in 0 .. MaxWritten : Resume(c, s, requested)
        PROVE UNCHANGED <<life, total>>
    BY <1>7 DEF Connect, ReceiveUnauthorised, ReceiveInput, ReceiveResume, SpawnFails, Resume
  <1>8. ASSUME NEW c \in Conns, ServerWriteable(c) PROVE UNCHANGED <<life, total>>
    BY <1>8 DEF ServerWriteable, SendInitial, SendOutput, SendSessionEnd, CloseEnded, ReadOn
  <1>9. ASSUME NEW s \in Ids,
               ReadEof(s) \/ ReadNothing(s) \/ ReapTimer(s) \/ WaitThread(s) \/ Command(s)
        PROVE UNCHANGED <<life, total>>
    BY <1>9 DEF ReadEof, ReadNothing, ReapTimer, WaitThread, Command, CommandWrites,
                CommandHangsUp, CommandExits
  <1>10. CASE UNCHANGED vars
    BY <1>1, <1>10 DEF vars
  <1> QED
    BY <1>1, <1>2, <1>3, <1>5, <1>6, <1>7, <1>8, <1>9, <1>10 DEF Next, Receive, Read

-----------------------------------------------------------------------------
\* The server starts as the abstract sessions do.
LEMMA InitShell == Init => Shell!Init
  BY DEF Init, Shell!Init, ShellPhase, ShellShown

\* A connection without a session owns nothing.
LEMMA NothingOwned ==
    ASSUME Linked, NEW c \in Conns, session[c] = None PROVE Shell!OwnsNothing(c)
  BY PointerAssumption DEF Shell!OwnsNothing, Linked, SessionLinked

\* A step that changes nothing the mapping looks at is a stutter.
LEMMA ShellUntouched ==
    ASSUME UNCHANGED <<life, process, attached, total>>,
           \A s \in Ids : attached[s] # None => sent'[attached[s]] = sent[attached[s]]
    PROVE  UNCHANGED Shell!vars
  <1>1. ShellPhase' = ShellPhase
    BY DEF ShellPhase
  <1>2. ShellShown' = ShellShown
    BY DEF ShellShown
  <1> QED BY <1>1, <1>2 DEF Shell!vars

\* What session_attach does to the sessions: it changes owner and place of one.
LEMMA AttachShell ==
    ASSUME TypeOK, Linked, NEW c \in Conns, NEW s \in Ids, NEW offset \in Nat,
           session[c] = None,
           attached' = [attached EXCEPT ![s] = c],
           sent' = [sent EXCEPT ![c] = offset]
    PROVE  ShellShown' = [ShellShown EXCEPT ![s] = offset]
  <1>1. attached' = [attached EXCEPT ![s] = c] /\ session[c] = None /\ c # None
    BY PointerAssumption
  <1>2. ASSUME NEW t \in Ids PROVE ShellShown'[t] = [ShellShown EXCEPT ![s] = offset][t]
    <2>1. CASE t = s
      BY <1>1, <2>1 DEF ShellShown, TypeOK
    <2>2. CASE t # s
      <3>1. attached'[t] = attached[t] /\ attached[t] # c
        BY <1>1, <2>2, PointerAssumption DEF Linked, SessionLinked, TypeOK
      <3>2. attached[t] # None => sent'[attached[t]] = sent[attached[t]]
        BY <3>1 DEF TypeOK
      <3> QED BY <2>2, <3>1, <3>2 DEF ShellShown
    <2> QED BY <2>1, <2>2
  <1> QED BY <1>2 DEF ShellShown

\* Spawn is Start.
LEMMA SpawnShell ==
    ASSUME TypeOK, Linked, UnbornSilent, NEW c \in Conns, NEW s \in Ids, Spawn(c, s)
    PROVE  Shell!Start(s, c)
  <1>1. /\ Hello(c) /\ SessionAttach(s, c, 0) /\ life[s] = "unborn"
        /\ life' = [life EXCEPT ![s] = "live"]
        /\ process' = [process EXCEPT ![s] = TRUE]
        /\ total' = total
    BY DEF Spawn
  <1>2. PICK offset \in ResumeOffsets(capacity[s], Limit, total[s], 0) :
            sent' = [sent EXCEPT ![c] = offset]
    BY <1>1 DEF SessionAttach
  <1>3. offset = 0
    <2>1. total[s] = 0 /\ capacity[s] \in Nat /\ Limit \in Nat
      BY <1>1, BufferAssumption DEF UnbornSilent, TypeOK
    <2> QED BY <1>2, <2>1, ResumeEmpty
  <1>4. /\ attached' = [attached EXCEPT ![s] = c]
        /\ ShellShown' = [ShellShown EXCEPT ![s] = 0]
    <2>1. attached' = [attached EXCEPT ![s] = c] /\ session[c] = None
      BY <1>1 DEF SessionAttach, Hello, Fresh
    <2>2. sent' = [sent EXCEPT ![c] = 0] /\ 0 \in Nat
      BY <1>2, <1>3
    <2> QED BY <2>1, <2>2, AttachShell
  <1>5. attached[s] = None
    BY <1>1, PointerAssumption DEF Linked, ConnLinked, SessionLinked, TypeOK
  <1>6. ShellShown' = ShellShown
    BY <1>4, <1>5 DEF ShellShown
  <1>7. ShellPhase[s] = "unborn" /\ ShellPhase' = [ShellPhase EXCEPT ![s] = "running"]
    BY <1>1 DEF ShellPhase, TypeOK
  <1>8. Shell!OwnsNothing(c)
    BY <1>1, NothingOwned DEF Hello, Fresh
  <1> QED BY <1>1, <1>4, <1>6, <1>7, <1>8 DEF Shell!Start

\* Resume is Take.
LEMMA ResumeShell ==
    ASSUME TypeOK, Linked, NEW c \in Conns, NEW s \in Ids, NEW requested \in Nat,
           Resume(c, s, requested)
    PROVE  Shell!Take(s, c)
  <1>1. /\ Hello(c) /\ SessionAttach(s, c, requested) /\ process[s]
        /\ UNCHANGED <<life, process, total>>
    BY DEF Resume
  <1>2. PICK offset \in ResumeOffsets(capacity[s], Limit, total[s], requested) :
            sent' = [sent EXCEPT ![c] = offset]
    BY <1>1 DEF SessionAttach
  <1>3. offset \in Nat /\ offset \in Earliest(Capacity, Limit, total[s]) .. total[s]
    <2>1. /\ total[s] \in Nat /\ Capacity \in Nat /\ Limit \in Nat
          /\ capacity[s] \in {0, Capacity} /\ capacity[s] \in Nat
      BY BufferAssumption DEF TypeOK
    <2>2. offset \in Nat /\ offset \in Earliest(capacity[s], Limit, total[s]) .. total[s]
      BY <1>2, <2>1, ResumeRange
    <2>3. Earliest(Capacity, Limit, total[s]) <= Earliest(capacity[s], Limit, total[s])
      BY <2>1 DEF Earliest, Oldest, Larger
    <2>4. /\ Earliest(Capacity, Limit, total[s]) \in Nat
          /\ Earliest(capacity[s], Limit, total[s]) \in Nat
      BY <2>1, EarliestRange
    <2> QED BY <2>1, <2>2, <2>3, <2>4
  <1>4. /\ attached' = [attached EXCEPT ![s] = c]
        /\ ShellShown' = [ShellShown EXCEPT ![s] = offset]
    <2>1. attached' = [attached EXCEPT ![s] = c] /\ session[c] = None
      BY <1>1 DEF SessionAttach, Hello, Fresh
    <2>2. sent' = [sent EXCEPT ![c] = offset] /\ offset \in Nat
      BY <1>2, <1>3
    <2> QED BY <2>1, <2>2, AttachShell
  <1>5. ShellPhase[s] = "running" /\ ShellPhase' = ShellPhase
    BY <1>1 DEF ShellPhase, Linked, SessionLinked
  <1>6. Shell!OwnsNothing(c)
    BY <1>1, NothingOwned DEF Hello, Fresh
  <1>7. Shell!Earliest(Capacity, Limit, total[s]) = Earliest(Capacity, Limit, total[s])
    BY DEF Shell!Earliest, Shell!Oldest, Shell!Larger, Earliest, Oldest, Larger
  <1> QED BY <1>1, <1>3, <1>4, <1>5, <1>6, <1>7 DEF Shell!Take

\* SendOutput is Show.
LEMMA SendOutputShell ==
    ASSUME TypeOK, Linked, NEW c \in Conns, SendOutput(c)
    PROVE  Shell!Show(session[c])
  <1> DEFINE s == session[c]
  <1> DEFINE end == total[s]
  <1> DEFINE size == capacity[s]
  <1>1. /\ s \in Ids /\ attached[s] = c /\ c # None /\ sent[c] < end
        /\ UNCHANGED <<life, process, attached, total>>
    BY PointerAssumption DEF SendOutput, HasOutput, linkVars, Linked, ConnLinked, TypeOK
  <1>2. PICK from \in IF sent[c] < Oldest(size, end)
                      THEN ResumeOffsets(size, Limit, end, sent[c])
                      ELSE {sent[c]} :
          sent' = [sent EXCEPT ![c] = from + ReadLength(size, end, from, Chunk)]
    BY DEF SendOutput
  <1>3. /\ end \in Nat /\ sent[c] \in Nat /\ size \in {0, Capacity}
        /\ Capacity \in Nat \ {0}
    BY <1>1, BufferAssumption DEF TypeOK
  <1> DEFINE to == from + ReadLength(size, end, from, Chunk)
  <1>4. to \in (IF sent[c] < Oldest(Capacity, end) THEN Oldest(Capacity, end) ELSE sent[c] + 1)
                .. end
    <2> HIDE DEF end, size
    <2>1. /\ from \in Oldest(size, end) .. end /\ from \in Nat
          /\ ReadLength(size, end, from, Chunk) \in 0 .. (end - from)
          /\ size # 0 /\ from < end => ReadLength(size, end, from, Chunk) > 0
      BY <1>1, <1>2, <1>3, OutputRange
    <2>2. Oldest(size, end) \in Int /\ Oldest(Capacity, end) \in Int
      BY <1>3 DEF Oldest, Larger
    <2>3. CASE size = 0
      <3>1. Oldest(size, end) = end /\ Oldest(Capacity, end) <= end
        BY <1>3, <2>3 DEF Oldest, Larger
      <3>2. to = end
        BY <1>3, <2>1, <3>1
      <3> QED BY <1>1, <1>3, <2>2, <3>1, <3>2
    <2>4. CASE size = Capacity /\ sent[c] < Oldest(Capacity, end)
      BY <1>3, <2>1, <2>2, <2>4
    <2>5. CASE size = Capacity /\ ~(sent[c] < Oldest(Capacity, end))
      <3>1. from = sent[c]
        BY <1>2, <2>5
      <3> QED BY <1>1, <1>3, <2>1, <2>5, <3>1
    <2> QED BY <1>3, <2>3, <2>4, <2>5
  <1> HIDE DEF to
  <1>5. ShellShown[s] = sent[c] /\ ShellPhase' = ShellPhase
    BY <1>1 DEF ShellShown, ShellPhase
  <1>6. ASSUME NEW t \in Ids PROVE ShellShown'[t] = [ShellShown EXCEPT ![s] = to][t]
    <2>1. sent' = [sent EXCEPT ![c] = to]
      BY <1>2 DEF to
    <2>2. CASE t = s
      BY <1>1, <2>1, <2>2 DEF ShellShown, TypeOK
    <2>3. CASE t # s
      <3>1. attached[t] # c
        BY <2>3, PointerAssumption DEF Linked, SessionLinked
      <3> QED BY <1>1, <2>1, <2>3, <3>1 DEF ShellShown, TypeOK
    <2> QED BY <2>2, <2>3
  <1>7. ShellShown' = [ShellShown EXCEPT ![s] = to]
    BY <1>6 DEF ShellShown
  <1>8. Shell!Oldest(Capacity, end) = Oldest(Capacity, end)
    BY DEF Shell!Oldest, Shell!Larger, Oldest, Larger
  <1> QED BY <1>1, <1>4, <1>5, <1>7, <1>8 DEF Shell!Show

\* Closed is Leave, or nothing if the connection had no session.
LEMMA ClosedShell ==
    ASSUME TypeOK, Linked, NEW c \in Conns, Closed(c)
    PROVE  UNCHANGED Shell!vars \/ Shell!Leave(session[c])
  <1> DEFINE s == session[c]
  <1>1. /\ ReleaseSession(c) /\ sent' = [sent EXCEPT ![c] = 0]
        /\ UNCHANGED <<process, total>>
    BY DEF Closed
  <1>2. \A t \in Ids : t # s => attached[t] # c
    BY PointerAssumption DEF Linked, SessionLinked
  <1>3. CASE s = None
    <2>1. UNCHANGED <<life, attached>>
      BY <1>1, <1>3 DEF ReleaseSession
    <2>2. \A t \in Ids : attached[t] # None => sent'[attached[t]] = sent[attached[t]]
      BY <1>1, <1>2, <1>3, PointerAssumption DEF TypeOK
    <2> QED BY <1>1, <2>1, <2>2, ShellUntouched
  <1>4. CASE s # None
    <2>1. s \in Ids /\ attached[s] = c /\ c # None /\ life[s] = "live"
      BY <1>4, PointerAssumption DEF Linked, ConnLinked, TypeOK
    <2>2. attached' = [attached EXCEPT ![s] = None]
      BY <1>1, <1>4 DEF ReleaseSession
    <2>3. ASSUME NEW t \in Ids PROVE ShellShown'[t] = [ShellShown EXCEPT ![s] = 0][t]
      BY <1>1, <1>2, <2>1, <2>2 DEF ShellShown, TypeOK
    <2>4. ShellShown' = [ShellShown EXCEPT ![s] = 0]
      BY <2>3 DEF ShellShown
    <2>5. ShellPhase' = [ShellPhase EXCEPT ![s] = IF @ = "ended" THEN "freed" ELSE @]
      <3>1. CASE process[s]
        <4>1. life' = life
          BY <1>1, <1>4, <3>1 DEF ReleaseSession
        <4> QED BY <1>1, <2>1, <3>1, <4>1 DEF ShellPhase
      <3>2. CASE ~process[s]
        <4>1. life' = [life EXCEPT ![s] = "freed"]
          BY <1>1, <1>4, <3>2 DEF ReleaseSession, SessionFree
        <4> QED BY <1>1, <2>1, <3>2, <4>1 DEF ShellPhase, TypeOK
      <3> QED BY <3>1, <3>2
    <2> QED BY <1>1, <2>1, <2>2, <2>4, <2>5 DEF Shell!Leave
  <1> QED BY <1>3, <1>4

\* ReadData is Produce.
LEMMA ReadDataShell ==
    ASSUME TypeOK, Linked, NEW s \in Ids, ReadData(s) PROVE Shell!Produce(s)
  <1>1. /\ process[s] /\ life[s] = "live"
        /\ UNCHANGED <<life, process, attached, sent>>
        /\ \E n \in 1 .. ReadMax : total' = [total EXCEPT ![s] = @ + n]
    BY DEF ReadData, linkVars, Linked, SessionLinked
  <1>2. ShellPhase[s] = "running" /\ UNCHANGED <<ShellPhase, ShellShown>>
    BY <1>1 DEF ShellPhase, ShellShown
  <1> QED BY <1>1, <1>2 DEF Shell!Produce

\* AsyncCb is End.
LEMMA AsyncCbShell ==
    ASSUME TypeOK, Linked, NEW s \in Ids, AsyncCb(s) PROVE Shell!End(s)
  <1>1. /\ process[s] /\ life[s] = "live" /\ process' = [process EXCEPT ![s] = FALSE]
        /\ UNCHANGED <<attached, sent, total>>
        /\ life' = IF attached[s] = None THEN [life EXCEPT ![s] = "freed"] ELSE life
    BY DEF AsyncCb, SessionFree, Linked, SessionLinked
  <1>2. ShellPhase[s] = "running" /\ ShellShown' = ShellShown
    BY <1>1 DEF ShellPhase, ShellShown
  <1>3. ShellPhase' = [ShellPhase EXCEPT ![s] = IF attached[s] = None THEN "freed" ELSE "ended"]
    BY <1>1 DEF ShellPhase, TypeOK
  <1> QED BY <1>1, <1>2, <1>3 DEF Shell!End

\* Every step is one of the abstract sessions or a stutter.
LEMMA ShellStep ==
    TypeOK /\ Linked /\ UnbornSilent /\ [Next]_vars => [Shell!Next]_(Shell!vars)
  <1> SUFFICES ASSUME TypeOK, Linked, UnbornSilent, [Next]_vars
               PROVE  Shell!Next \/ UNCHANGED Shell!vars
    OBVIOUS
  <1> USE DEF connVars, linkVars, streamVars, commandVars, serverVars
  <1>1. CASE UNCHANGED <<life, process, attached, total, sent>>
    BY <1>1, ShellUntouched
  <1>2. ASSUME NEW c \in Conns, NEW s \in Ids, Spawn(c, s) PROVE Shell!Next
    BY <1>2, SpawnShell DEF Shell!Next
  <1>3. ASSUME NEW c \in Conns, NEW s \in Ids, NEW requested \in 0 .. MaxWritten,
               Resume(c, s, requested)
        PROVE Shell!Next
    <2>1. requested \in Nat
      BY BoundAssumption
    <2> QED BY <1>3, <2>1, ResumeShell DEF Shell!Next
  <1>4. ASSUME NEW c \in Conns, SendOutput(c) PROVE Shell!Next
    <2>1. session[c] \in Ids
      BY <1>4 DEF SendOutput, HasOutput, TypeOK
    <2> QED BY <1>4, <2>1, SendOutputShell DEF Shell!Next
  <1>5. ASSUME NEW c \in Conns, Closed(c) PROVE Shell!Next \/ UNCHANGED Shell!vars
    <2>1. CASE session[c] \in Ids
      BY <1>5, <2>1, ClosedShell DEF Shell!Next
    <2>2. CASE session[c] = None
      <3>1. UNCHANGED <<life, process, attached, total>> /\ sent' = [sent EXCEPT ![c] = 0]
        BY <1>5, <2>2 DEF Closed, ReleaseSession
      <3>2. \A t \in Ids : attached[t] # None => sent'[attached[t]] = sent[attached[t]]
        BY <2>2, <3>1, PointerAssumption DEF Linked, SessionLinked, TypeOK
      <3> QED BY <3>1, <3>2, ShellUntouched
    <2> QED BY <2>1, <2>2 DEF TypeOK
  <1>6. ASSUME NEW s \in Ids, ReadData(s) PROVE Shell!Next
    BY <1>6, ReadDataShell DEF Shell!Next
  <1>7. ASSUME NEW s \in Ids, AsyncCb(s) PROVE Shell!Next
    BY <1>7, AsyncCbShell DEF Shell!Next
  <1>8. ASSUME NEW c \in Conns,
               \/ Connect(c) \/ ReceiveUnauthorised(c) \/ ReceiveInput(c)
               \/ ReceiveResume(c) \/ SpawnFails(c)
        PROVE UNCHANGED <<life, process, attached, total, sent>>
    BY <1>8 DEF Connect, ReceiveUnauthorised, ReceiveInput, ReceiveResume, SpawnFails
  <1>9. ASSUME NEW c \in Conns,
               SendInitial(c) \/ SendSessionEnd(c) \/ CloseEnded(c) \/ ReadOn(c)
        PROVE UNCHANGED <<life, process, attached, total, sent>>
    BY <1>9 DEF SendInitial, SendSessionEnd, CloseEnded, ReadOn
  <1>10. ASSUME NEW s \in Ids,
                ReadEof(s) \/ ReadNothing(s) \/ ReapTimer(s) \/ WaitThread(s) \/ Command(s)
         PROVE UNCHANGED <<life, process, attached, total, sent>>
    BY <1>10 DEF ReadEof, ReadNothing, ReapTimer, WaitThread, Command, CommandWrites,
                 CommandHangsUp, CommandExits
  <1>11. CASE UNCHANGED vars
    BY <1>1, <1>11 DEF vars
  <1> QED
    BY <1>1, <1>2, <1>3, <1>4, <1>5, <1>6, <1>7, <1>8, <1>9, <1>10, <1>11
       DEF Next, Receive, ServerWriteable, Read

\* The server implements the sessions of ShellSession: whatever the callbacks do
\* to pointers, timers and lists, what users see is a session that one client
\* at a time owns, whose output only grows, and that ends once
\* (protocol.c as a whole).
THEOREM Implementation == Spec => ImplementsShell
  <1>1. Init => Shell!Init /\ UnbornSilent
    BY InitShell DEF Init, UnbornSilent
  <1>2. TypeOK /\ Linked /\ UnbornSilent /\ [Next]_vars => UnbornSilent'
    BY UnbornStep
  <1>3. TypeOK /\ Linked /\ UnbornSilent /\ [Next]_vars => [Shell!Next]_(Shell!vars)
    BY ShellStep
  <1> QED BY <1>1, <1>2, <1>3, AlwaysLinked, PTL DEF Spec, ImplementsShell, Shell!Spec
=============================================================================
