------------------------------- MODULE Session -------------------------------
(***************************************************************************)
(* The terminal server's sessions: src/src/protocol.c, the WebSocket        *)
(* callback that binds connections to sessions, together with the pty side  *)
(* of src/src/pty.c it drives.                                              *)
(*                                                                          *)
(* All of this runs on one libuv loop, so a callback is one atomic step;    *)
(* what interleaves is the order of callbacks, and two actors of their own: *)
(* the command, and the thread that waits for it to exit.                   *)
(*                                                                          *)
(* A connection is one struct pss_tty, a session one session_t with its     *)
(* pty_process.  Output is counted, not represented: a stream offset stands *)
(* for the bytes before it, and Replay.tla shows that the buffer behind the *)
(* offsets holds the right bytes.                                           *)
(***************************************************************************)
EXTENDS ReplayOffsets, FiniteSets

CONSTANTS
    Conns,           \* the connections ever made (bound)
    Ids,             \* the sessions ever started (bound)
    None,            \* the null pointer
    Capacity,        \* REPLAY_CAPACITY
    Limit,           \* REPLAY_LIMIT
    ReadMax,         \* the most one PTY read returns
    Chunk,           \* OUTPUT_CHUNK
    InitialMessages, \* sizeof(initial_cmds); the last one announces the offset
    PtyBuffer,       \* bound: unread bytes the kernel holds for the PTY
    MaxWritten,      \* bound: bytes a command writes
    MaxClients,      \* server->max_clients, 0 for no limit
    SessionTimeout,  \* server->session_timeout > 0
    Once,            \* server->once
    ExitNoConn,      \* server->exit_no_conn
    Writable,        \* server->writable
    Password,        \* server->session_token # NULL
    MallocFails,     \* replay_init may get no buffer
    SpuriousReads    \* a PTY read may come back empty

ASSUME PointerAssumption == None \notin Conns /\ None \notin Ids
ASSUME FiniteAssumption == IsFiniteSet(Conns)
\* REPLAY_LIMIT leaves room for one more PTY read.
ASSUME BufferAssumption ==
    /\ Limit \in Nat /\ ReadMax \in Nat \ {0} /\ Chunk \in Nat \ {0}
    /\ Capacity = Limit + ReadMax
    /\ ReadMax <= Limit
ASSUME InitialAssumption == InitialMessages \in Nat \ {0}
ASSUME BoundAssumption ==
    PtyBuffer \in Nat /\ MaxWritten \in Nat /\ MaxClients \in Nat
ASSUME OptionAssumption ==
    /\ SessionTimeout \in BOOLEAN /\ Once \in BOOLEAN /\ ExitNoConn \in BOOLEAN
    /\ Writable \in BOOLEAN /\ Password \in BOOLEAN
    /\ MallocFails \in BOOLEAN /\ SpuriousReads \in BOOLEAN

VARIABLES
    \* struct pss_tty, per connection
    cstate,       \* unused, open, closing (the callback asked lws to close), closed
    authed,       \* authenticated
    cmdIndex,     \* initial_cmd_index; InitialMessages once they are all out
    closeStatus,  \* lws_close_status: none, normal, takenOver
    endSent,      \* end_sent
    wakeup,       \* lws_callback_on_writable was called for it
    session,      \* session
    sent,         \* sent
    received,     \* history: where its client is by the messages sent to it
    outrun,       \* history: its RESUME had output read on while it was too far behind
    \* session_t, per session
    life,         \* unborn, live, freed
    process,      \* process # NULL
    attached,     \* pss
    timer,        \* reap_timer is armed
    total,        \* replay.total
    capacity,     \* replay.capacity
    eof,          \* eof
    sessions,     \* the list "sessions"
    \* pty_process and the command behind it, per session
    command,      \* none, running, zombie, reaped (uv_async_send done), gone
    reading,      \* uv_read_start is in effect on process->out
    written,      \* bytes the command wrote to its terminal
    hungUp,       \* nobody has the terminal's other side open
    signalled,    \* pty_kill was called
    \* struct server and the process itself
    clientCount,  \* server->client_count
    forceExit,    \* force_exit
    up            \* the server has not exited

connVars    == <<cstate, authed, cmdIndex, closeStatus, endSent, wakeup>>
linkVars    == <<session, life, process, attached, timer, sessions>>
streamVars  == <<sent, received, outrun, total, capacity, eof, reading>>
commandVars == <<command, written, hungUp, signalled>>
serverVars  == <<clientCount, forceExit, up>>
vars == <<connVars, linkVars, streamVars, commandVars, serverVars>>

Init ==
    /\ cstate = [c \in Conns |-> "unused"]
    /\ authed = [c \in Conns |-> FALSE]
    /\ cmdIndex = [c \in Conns |-> 0]
    /\ closeStatus = [c \in Conns |-> "none"]
    /\ endSent = [c \in Conns |-> FALSE]
    /\ wakeup = [c \in Conns |-> FALSE]
    /\ session = [c \in Conns |-> None]
    /\ sent = [c \in Conns |-> 0]
    /\ received = [c \in Conns |-> 0]
    /\ outrun = [c \in Conns |-> FALSE]
    /\ life = [s \in Ids |-> "unborn"]
    /\ process = [s \in Ids |-> FALSE]
    /\ attached = [s \in Ids |-> None]
    /\ timer = [s \in Ids |-> FALSE]
    /\ total = [s \in Ids |-> 0]
    /\ capacity = [s \in Ids |-> 0]
    /\ eof = [s \in Ids |-> FALSE]
    /\ sessions = {}
    /\ command = [s \in Ids |-> "none"]
    /\ reading = [s \in Ids |-> FALSE]
    /\ written = [s \in Ids |-> 0]
    /\ hungUp = [s \in Ids |-> FALSE]
    /\ signalled = [s \in Ids |-> FALSE]
    /\ clientCount = 0
    /\ forceExit = FALSE
    /\ up = TRUE

-----------------------------------------------------------------------------
\* pss_process(pss) # NULL.
HasProcess(c) == session[c] # None /\ process[session[c]]

\* process_running: uv_kill(pid, 0) finds the pid until waitpid returned it.
Running(s) == process[s] /\ command[s] \in {"running", "zombie"}

\* The token check of a WebSocket message: password auth, not passed yet.
Unauthorised(c) == Password /\ ~authed[c]

\* pty_resume on a session's process; paused is set once and for all by
\* pty_spawn, so it always comes to uv_read_start.
ResumedNever(s) == reading  \* mutant: does nothing
Resumed(s) == [reading EXCEPT ![s] = @ \/ process[s]]

\* lws_callback_on_writable for a session's client, if it has one.
WokenNobody(s) == wakeup  \* mutant: asks for no callback
Woken(s) == [c \in Conns |-> wakeup[c] \/ c = attached[s]]

\* pty_kill on a session's process.
KilledNot(s) == signalled  \* mutant: sends nothing
Killed(s) == [signalled EXCEPT ![s] = TRUE]

\* uv_timer_start and uv_timer_stop on a session's reap timer.
TimerNotStarted(s) == timer  \* mutant: does not arm it
TimerStarted(s) == [timer EXCEPT ![s] = TRUE]
TimerLeftArmed(s) == timer  \* mutant: does not stop it
TimerStopped(s) == [timer EXCEPT ![s] = FALSE]

\* session_unlink.
Unlinked(s) == sessions \ {s}

\* The session pointers after session s went to connection c.
HandedOverTwice(s, c) == [session EXCEPT ![c] = s]  \* mutant: old one keeps it
HandedOver(s, c) ==
    [d \in Conns |-> IF d = c THEN s ELSE IF d = attached[s] THEN None ELSE session[d]]

\* session_attach: hand session s over to connection c, which resumes its
\* output at the requested offset, and note it down for one that had it.
SessionAttach(s, c, requested) ==
    /\ attached' = [attached EXCEPT ![s] = c]
    /\ session' = HandedOver(s, c)
    /\ closeStatus' = [d \in Conns |-> IF d = attached[s] THEN "takenOver"
                                       ELSE closeStatus[d]]
    /\ timer' = TimerStopped(s)
    /\ \E offset \in ResumeOffsets(capacity[s], Limit, total[s], requested) :
          sent' = [sent EXCEPT ![c] = offset]

\* Both have a message coming: the one taken over and the new one.
WokenNew(s, c) == [wakeup EXCEPT ![c] = TRUE]  \* mutant: forgets the old one
WokenBoth(s, c) == [d \in Conns |-> wakeup[d] \/ d = attached[s] \/ d = c]

-----------------------------------------------------------------------------
\* The --max-clients check.
Full == MaxClients > 0 /\ clientCount = MaxClients

\* LWS_CALLBACK_FILTER_PROTOCOL_CONNECTION and _ESTABLISHED, which libwebsockets
\* calls in one go; a refused client changes nothing.  With a password set the
\* session cookie may authenticate the connection.
Connect(c) ==
    /\ up
    /\ cstate[c] = "unused"
    /\ ~(Once /\ clientCount > 0)
    /\ ~Full
    /\ cstate' = [cstate EXCEPT ![c] = "open"]
    /\ \E cookie \in {FALSE, Password} : authed' = [authed EXCEPT ![c] = cookie]
    /\ clientCount' = clientCount + 1
    /\ UNCHANGED <<cmdIndex, closeStatus, endSent, wakeup, forceExit, up>>
    /\ UNCHANGED <<linkVars, streamVars, commandVars>>

\* LWS_CALLBACK_RECEIVE, a message other than JSON_DATA before authentication,
\* or JSON_DATA with a wrong or missing AuthToken.
ReceiveUnauthorised(c) ==
    /\ up
    /\ cstate[c] = "open"
    /\ Unauthorised(c)
    /\ cstate' = [cstate EXCEPT ![c] = "closing"]
    /\ UNCHANGED <<authed, cmdIndex, closeStatus, endSent, wakeup>>
    /\ UNCHANGED <<linkVars, streamVars, commandVars, serverVars>>

\* Input that gets through to pty_write, and fails there.
FailingEvenReadOnly(c) == ~HasProcess(c)  \* mutant: writable is not checked
FailingInput(c) == Writable /\ ~HasProcess(c)

\* RECEIVE, INPUT: written to the command's terminal, which changes nothing
\* here; without a process pty_write fails and the connection is closed.
ReceiveInput(c) ==
    /\ up
    /\ cstate[c] = "open"
    /\ ~Unauthorised(c)
    /\ FailingInput(c)
    /\ cstate' = [cstate EXCEPT ![c] = "closing"]
    /\ UNCHANGED <<authed, cmdIndex, closeStatus, endSent, wakeup>>
    /\ UNCHANGED <<linkVars, streamVars, commandVars, serverVars>>

\* RECEIVE, RESUME, which the page sends whenever its terminal has drawn what it
\* got: the PTY is read on although this client may not have been sent yet what
\* was read before.  (PAUSE changes nothing: pty_pause returns when paused is
\* set, and it always is.)
ReceiveResume(c) ==
    /\ up
    /\ cstate[c] = "open"
    /\ ~Unauthorised(c)
    /\ HasProcess(c)
    /\ reading' = Resumed(session[c])
    /\ outrun' = [outrun EXCEPT ![c] = @ \/ total[session[c]] - sent[c] > Limit]
    /\ UNCHANGED <<sent, received, total, capacity, eof>>
    /\ UNCHANGED <<connVars, linkVars, commandVars, serverVars>>

\* RECEIVE, JSON_DATA, the part before the session is looked up: a connection
\* that has a session, or had one, is left alone; a token that matches
\* authenticates the connection.
FreshIfNoSession(c) == session[c] = None  \* mutant: also one that was taken over
Fresh(c) == session[c] = None /\ closeStatus[c] = "none"
AuthenticatedNot(c) == authed  \* mutant: the result is not kept
Authenticated(c) == [authed EXCEPT ![c] = @ \/ Password]

Hello(c) ==
    /\ up
    /\ cstate[c] = "open"
    /\ Fresh(c)
    /\ authed' = Authenticated(c)

\* JSON_DATA with the id of a listed session, resume_session.
Resume(c, s, requested) ==
    /\ Hello(c)
    /\ s \in sessions
    /\ process[s]
    /\ SessionAttach(s, c, requested)
    /\ wakeup' = WokenBoth(s, c)
    /\ UNCHANGED <<cstate, cmdIndex, endSent, life, process, sessions>>
    /\ UNCHANGED <<received, outrun, total, capacity, eof, reading, commandVars, serverVars>>

\* JSON_DATA without the id of a listed session, spawn_process.  Without memory
\* for its replay buffer the session gets one of capacity 0.
Spawn(c, s) ==
    /\ Hello(c)
    /\ life[s] = "unborn"
    /\ life' = [life EXCEPT ![s] = "live"]
    /\ process' = [process EXCEPT ![s] = TRUE]
    /\ sessions' = sessions \cup {s}
    /\ command' = [command EXCEPT ![s] = "running"]
    /\ \E size \in {Capacity} \cup (IF MallocFails THEN {0} ELSE {}) :
          capacity' = [capacity EXCEPT ![s] = size]
    /\ SessionAttach(s, c, 0)
    /\ wakeup' = WokenBoth(s, c)
    /\ UNCHANGED <<cstate, cmdIndex, endSent, received, outrun, total, eof, reading>>
    /\ UNCHANGED <<written, hungUp, signalled, serverVars>>

\* spawn_process fails.  After a failed pty_spawn, process_free joins a thread
\* that was never created: undefined, it may take the server down.
SpawnFails(c) ==
    /\ Hello(c)
    /\ cstate' = [cstate EXCEPT ![c] = "closing"]
    /\ up' \in BOOLEAN
    /\ UNCHANGED <<cmdIndex, closeStatus, endSent, wakeup, clientCount, forceExit>>
    /\ UNCHANGED <<linkVars, streamVars, commandVars>>

-----------------------------------------------------------------------------
\* LWS_CALLBACK_SERVER_WRITEABLE sends at most one message per call, in this
\* order, and asks to be called again after each.
Writeable(c) ==
    /\ up
    /\ cstate[c] = "open"
    /\ wakeup[c]

\* pss->sent < pss->session->replay.total
HasMoreOutput(c) ==  \* mutant: the last byte does not count
    session[c] # None /\ sent[c] + 1 < total[session[c]]
HasOutput(c) == session[c] # None /\ sent[c] < total[session[c]]

\* pss->session != NULL && !pss->initialized
NotInitializedYet(c) ==  \* mutant: off by one
    session[c] # None /\ cmdIndex[c] <= InitialMessages
NotInitialized(c) == session[c] # None /\ cmdIndex[c] < InitialMessages

\* The initial messages; the last one tells the client its stream offset.
SendInitial(c) ==
    /\ Writeable(c)
    /\ NotInitialized(c)
    /\ ~Unauthorised(c)
    /\ cmdIndex' = [cmdIndex EXCEPT ![c] = @ + 1]
    /\ received' = IF cmdIndex[c] = InitialMessages - 1
                   THEN [received EXCEPT ![c] = sent[c]] ELSE received
    /\ UNCHANGED <<cstate, authed, closeStatus, endSent, wakeup>>
    /\ UNCHANGED <<sent, outrun, total, capacity, eof, reading>>
    /\ UNCHANGED <<linkVars, commandVars, serverVars>>

\* wsi_output: the next chunk of output, after moving on to what the buffer
\* still holds if output outran the client.  There may be none left then.
SendOutput(c) ==
    /\ Writeable(c)
    /\ ~NotInitialized(c)
    /\ HasOutput(c)
    /\ LET end == total[session[c]]
           size == capacity[session[c]]
       IN \E from \in IF sent[c] < Oldest(size, end)
                      THEN ResumeOffsets(size, Limit, end, sent[c])
                      ELSE {sent[c]} :
          LET length == ReadLength(size, end, from, Chunk) IN
          /\ sent' = [sent EXCEPT ![c] = from + length]
          /\ received' = [received EXCEPT ![c] = @ + length]
    /\ UNCHANGED <<outrun, total, capacity, eof, reading>>
    /\ UNCHANGED <<connVars, linkVars, commandVars, serverVars>>

\* SESSION_END, once there is no output left.
SendSessionEnd(c) ==
    /\ Writeable(c)
    /\ ~NotInitialized(c)
    /\ ~HasOutput(c)
    /\ closeStatus[c] # "none"
    /\ ~endSent[c]
    /\ endSent' = [endSent EXCEPT ![c] = TRUE]
    /\ UNCHANGED <<cstate, authed, cmdIndex, closeStatus, wakeup>>
    /\ UNCHANGED <<linkVars, streamVars, commandVars, serverVars>>

\* ... and at the next call the connection is closed.
CloseEnded(c) ==
    /\ Writeable(c)
    /\ ~NotInitialized(c)
    /\ ~HasOutput(c)
    /\ closeStatus[c] # "none"
    /\ endSent[c]
    /\ cstate' = [cstate EXCEPT ![c] = "closing"]
    /\ wakeup' = [wakeup EXCEPT ![c] = FALSE]
    /\ UNCHANGED <<authed, cmdIndex, closeStatus, endSent>>
    /\ UNCHANGED <<linkVars, streamVars, commandVars, serverVars>>

\* Nothing to send: read on from the PTY.
ReadOn(c) ==
    /\ Writeable(c)
    /\ ~NotInitialized(c)
    /\ ~HasOutput(c)
    /\ closeStatus[c] = "none"
    /\ reading' = IF session[c] # None /\ ~eof[session[c]]
                  THEN Resumed(session[c]) ELSE reading
    /\ wakeup' = [wakeup EXCEPT ![c] = FALSE]
    /\ UNCHANGED <<cstate, authed, cmdIndex, closeStatus, endSent>>
    /\ UNCHANGED <<sent, received, outrun, total, capacity, eof>>
    /\ UNCHANGED <<linkVars, commandVars, serverVars>>

ServerWriteable(c) ==
    SendInitial(c) \/ SendOutput(c) \/ SendSessionEnd(c) \/ CloseEnded(c) \/ ReadOn(c)

-----------------------------------------------------------------------------
\* The command is kept running when its client goes.
KeepsDetached == SessionTimeout /\ ~Once /\ ~ExitNoConn

\* session_free: unlink, stop the timer, free.
SessionUnlinkOnly(s) ==  \* mutant: does not free
    life' = life /\ sessions' = Unlinked(s) /\ timer' = TimerStopped(s)
SessionFree(s) ==
    /\ life' = [life EXCEPT ![s] = "freed"]
    /\ sessions' = Unlinked(s)
    /\ timer' = TimerStopped(s)

\* The last client left a server that is to exit then.
LastClientLeaving == (Once \/ ExitNoConn) /\ clientCount = 0  \* mutant: too early
LastClientLeft == (Once \/ ExitNoConn) /\ clientCount' = 0

\* LWS_CALLBACK_CLOSED for the connection's session: freed if the command has
\* exited, else kept for the reap timer to end, else its command is killed.
ReleaseSession(c) ==
    LET s == session[c] IN
    \/ /\ s = None
       /\ UNCHANGED <<life, sessions, timer, attached, reading, signalled>>
    \/ /\ s # None
       /\ attached' = [attached EXCEPT ![s] = None]
       /\ \/ /\ ~process[s]
             /\ SessionFree(s)
             /\ UNCHANGED <<reading, signalled>>
          \/ /\ process[s]
             /\ KeepsDetached
             /\ timer' = TimerStarted(s)
             /\ reading' = IF ~eof[s] THEN Resumed(s) ELSE reading
             /\ UNCHANGED <<life, sessions, signalled>>
          \/ /\ process[s]
             /\ ~KeepsDetached
             /\ signalled' = IF Running(s) THEN Killed(s) ELSE signalled
             /\ UNCHANGED <<life, sessions, timer, reading>>

\* The end of a server started with --once or --exit-no-conn: when its last
\* client goes, now or, if that client's command is still there, once it exits.
ExitIfLast(c) ==
    LET running == session[c] # None /\ Running(session[c]) IN
    /\ forceExit' = (forceExit \/ (LastClientLeft /\ running))
    /\ up' = ~(LastClientLeft /\ ~running)

\* LWS_CALLBACK_CLOSED, after the server asked for it, or because the client
\* went away or the connection died.
Closed(c) ==
    /\ up
    /\ cstate[c] \in {"open", "closing"}
    /\ cstate' = [cstate EXCEPT ![c] = "closed"]
    /\ authed' = [authed EXCEPT ![c] = FALSE]
    /\ cmdIndex' = [cmdIndex EXCEPT ![c] = 0]
    /\ closeStatus' = [closeStatus EXCEPT ![c] = "none"]
    /\ endSent' = [endSent EXCEPT ![c] = FALSE]
    /\ wakeup' = [wakeup EXCEPT ![c] = FALSE]
    /\ session' = [session EXCEPT ![c] = None]
    /\ sent' = [sent EXCEPT ![c] = 0]
    /\ received' = [received EXCEPT ![c] = 0]
    /\ outrun' = [outrun EXCEPT ![c] = FALSE]
    /\ clientCount' = clientCount - 1
    /\ ReleaseSession(c)
    /\ ExitIfLast(c)
    /\ UNCHANGED <<process, total, capacity, eof, command, written, hungUp>>

-----------------------------------------------------------------------------
\* read_cb with data, then process_read_cb: reading stops, the data goes to the
\* replay buffer, and either the client is woken, and reading resumes when it
\* has been sent everything, or with no client reading resumes at once.
ReadData(s) ==
    /\ up
    /\ process[s]
    /\ reading[s]
    /\ \E n \in 1 .. ReadMax :
          /\ n <= written[s] - total[s]
          /\ total' = [total EXCEPT ![s] = @ + n]
    /\ wakeup' = Woken(s)
    /\ reading' = [reading EXCEPT ![s] = attached[s] = None]
    /\ UNCHANGED <<cstate, authed, cmdIndex, closeStatus, endSent>>
    /\ UNCHANGED <<sent, received, outrun, capacity, eof>>
    /\ UNCHANGED <<linkVars, commandVars, serverVars>>

\* read_cb with an error, which is what the end of a PTY reads as.
ReadEof(s) ==
    /\ up
    /\ process[s]
    /\ reading[s]
    /\ hungUp[s]
    /\ total[s] = written[s]
    /\ eof' = [eof EXCEPT ![s] = TRUE]
    /\ wakeup' = Woken(s)
    /\ reading' = [reading EXCEPT ![s] = FALSE]
    /\ UNCHANGED <<cstate, authed, cmdIndex, closeStatus, endSent>>
    /\ UNCHANGED <<sent, received, outrun, total, capacity>>
    /\ UNCHANGED <<linkVars, commandVars, serverVars>>

\* read_cb with nothing to read: it returns with reading stopped.
ReadNothing(s) ==
    /\ up
    /\ SpuriousReads
    /\ process[s]
    /\ reading[s]
    /\ reading' = [reading EXCEPT ![s] = FALSE]
    /\ UNCHANGED <<sent, received, outrun, total, capacity, eof>>
    /\ UNCHANGED <<connVars, linkVars, commandVars, serverVars>>

\* async_cb on the loop, some time after waitpid returned on its thread: it runs
\* process_exit_cb and frees the process, and with it what was left to read.
AsyncCb(s) ==
    LET c == attached[s] IN
    /\ up
    /\ command[s] = "reaped"
    /\ command' = [command EXCEPT ![s] = "gone"]
    /\ process' = [process EXCEPT ![s] = FALSE]
    /\ reading' = [reading EXCEPT ![s] = FALSE]
    /\ \/ /\ c = None
          /\ SessionFree(s)
          /\ UNCHANGED <<closeStatus, wakeup>>
       \/ /\ c # None
          /\ sessions' = Unlinked(s)
          /\ closeStatus' = [closeStatus EXCEPT ![c] = "normal"]
          /\ wakeup' = Woken(s)
          /\ UNCHANGED <<life, timer>>
    /\ up' = ~forceExit
    /\ UNCHANGED <<cstate, authed, cmdIndex, endSent, session, attached>>
    /\ UNCHANGED <<sent, received, outrun, total, capacity, eof>>
    /\ UNCHANGED <<written, hungUp, signalled, clientCount, forceExit>>

\* session_reap_cb: nobody came back within session_timeout seconds.
ReapTimer(s) ==
    /\ up
    /\ timer[s]
    /\ timer' = [timer EXCEPT ![s] = FALSE]
    /\ signalled' = Killed(s)
    /\ UNCHANGED <<session, life, process, attached, sessions>>
    /\ UNCHANGED <<command, written, hungUp, connVars, streamVars, serverVars>>

-----------------------------------------------------------------------------
\* The waiting thread: waitpid returned, uv_async_send.
WaitThread(s) ==
    /\ up
    /\ command[s] = "zombie"
    /\ command' = [command EXCEPT ![s] = "reaped"]
    /\ UNCHANGED <<written, hungUp, signalled>>
    /\ UNCHANGED <<connVars, linkVars, streamVars, serverVars>>

\* The command writes to its terminal, as long as the kernel takes it.
CommandWrites(s) ==
    /\ up
    /\ command[s] = "running"
    /\ ~hungUp[s]
    /\ written[s] < MaxWritten
    /\ written[s] - total[s] < PtyBuffer
    /\ written' = [written EXCEPT ![s] = @ + 1]
    /\ UNCHANGED <<command, hungUp, signalled>>
    /\ UNCHANGED <<connVars, linkVars, streamVars, serverVars>>

\* The command closes its terminal and runs on.
CommandHangsUp(s) ==
    /\ up
    /\ command[s] = "running"
    /\ ~hungUp[s]
    /\ hungUp' = [hungUp EXCEPT ![s] = TRUE]
    /\ UNCHANGED <<command, written, signalled>>
    /\ UNCHANGED <<connVars, linkVars, streamVars, serverVars>>

\* The command exits, on its own or because of a signal (which it may ignore);
\* the terminal of a session leader that exits is hung up.
CommandExits(s) ==
    /\ up
    /\ command[s] = "running"
    /\ command' = [command EXCEPT ![s] = "zombie"]
    /\ hungUp' = [hungUp EXCEPT ![s] = TRUE]
    /\ UNCHANGED <<written, signalled>>
    /\ UNCHANGED <<connVars, linkVars, streamVars, serverVars>>

-----------------------------------------------------------------------------
Receive(c) ==
    \/ ReceiveUnauthorised(c)
    \/ ReceiveInput(c)
    \/ ReceiveResume(c)
    \/ \E s \in Ids : Spawn(c, s)
    \/ \E s \in Ids, requested \in 0 .. MaxWritten : Resume(c, s, requested)
    \/ SpawnFails(c)

Read(s) == ReadData(s) \/ ReadEof(s)

Command(s) == CommandWrites(s) \/ CommandHangsUp(s) \/ CommandExits(s)

Next ==
    \/ \E c \in Conns : Connect(c) \/ Receive(c) \/ ServerWriteable(c) \/ Closed(c)
    \/ \E s \in Ids : \/ Read(s) \/ ReadNothing(s)
                      \/ AsyncCb(s) \/ ReapTimer(s) \/ WaitThread(s)
                      \/ Command(s)

Spec == Init /\ [][Next]_vars

\* What the loop gives: a connection that asked to be written to is served or,
\* if its client is gone, dropped by the idle policy of server.c; a PTY with
\* something to read is read; timers fire; waitpid returns.  Nothing makes a
\* client send, a command write, or a command exit.
Serve(c) ==
    /\ wakeup[c] \/ cstate[c] = "closing"
    /\ ServerWriteable(c) \/ Closed(c)

Fairness ==
    /\ \A c \in Conns : WF_vars(Serve(c))
    /\ \A s \in Ids : /\ WF_vars(Read(s)) /\ WF_vars(AsyncCb(s))
                      /\ WF_vars(ReapTimer(s)) /\ WF_vars(WaitThread(s))

FairSpec == Spec /\ Fairness

-----------------------------------------------------------------------------
TypeOK ==
    /\ cstate \in [Conns -> {"unused", "open", "closing", "closed"}]
    /\ authed \in [Conns -> BOOLEAN]
    /\ cmdIndex \in [Conns -> 0 .. InitialMessages]
    /\ closeStatus \in [Conns -> {"none", "normal", "takenOver"}]
    /\ endSent \in [Conns -> BOOLEAN]
    /\ wakeup \in [Conns -> BOOLEAN]
    /\ session \in [Conns -> Ids \cup {None}]
    /\ sent \in [Conns -> Nat]
    /\ received \in [Conns -> Nat]
    /\ outrun \in [Conns -> BOOLEAN]
    /\ life \in [Ids -> {"unborn", "live", "freed"}]
    /\ process \in [Ids -> BOOLEAN]
    /\ attached \in [Ids -> Conns \cup {None}]
    /\ timer \in [Ids -> BOOLEAN]
    /\ total \in [Ids -> Nat]
    /\ capacity \in [Ids -> {0, Capacity}]
    /\ eof \in [Ids -> BOOLEAN]
    /\ sessions \in SUBSET Ids
    /\ command \in [Ids -> {"none", "running", "zombie", "reaped", "gone"}]
    /\ reading \in [Ids -> BOOLEAN]
    /\ written \in [Ids -> Nat]
    /\ hungUp \in [Ids -> BOOLEAN]
    /\ signalled \in [Ids -> BOOLEAN]
    /\ clientCount \in Int
    /\ forceExit \in BOOLEAN
    /\ up \in BOOLEAN

Connected(c) == cstate[c] \in {"open", "closing"}

\* No pointer between a connection and a session dangles or is one-sided, through
\* every takeover, disconnect and exit: each points to the other, the
\* connection is still connected and the session not freed (session_attach,
\* CLOSED and process_exit_cb each update only some of these fields).
LinksMutual ==
    /\ \A c \in Conns : session[c] # None =>
          Connected(c) /\ life[session[c]] = "live" /\ attached[session[c]] = c
    /\ \A s \in Ids : attached[s] # None => session[attached[s]] = s

\* session_reap_cb dereferences s->process without a check, and session_attach
\* and process_exit_cb rely on the timer being theirs to stop: an armed timer
\* belongs to a live session with a process and without a client.
TimerSafe ==
    \A s \in Ids : timer[s] => life[s] = "live" /\ process[s] /\ attached[s] = None

\* Exactly the sessions that can be resumed are in the list a client's id is
\* looked up in: none that was freed, none whose command has exited, and none
\* is missing (session_unlink is called from two places).
ListedAreResumable ==
    sessions = {s \in Ids : life[s] = "live" /\ process[s]}

\* The four things that four callbacks keep in step, each a part of them
\* (session_attach, process_exit_cb, CLOSED, session_reap_cb): the two pointers,
\* the timer, the list and the process.
LinksConsistent == LinksMutual /\ TimerSafe /\ ListedAreResumable

\* Nobody leaks a session: one whose command has exited still has a client,
\* whose CLOSED will free it; and a process object is there as long as
\* async_cb has yet to be called for it.
NoOrphan ==
    \A s \in Ids :
        /\ life[s] = "live" /\ ~process[s] => attached[s] # None
        /\ process[s] <=> command[s] \in {"running", "zombie", "reaped"}

\* With a password set, a connection that has not shown the token has no
\* session and was sent nothing, and no message of it started or took one.
NothingBeforeAuth ==
    \A c \in Conns : Unauthorised(c) =>
        session[c] = None /\ cmdIndex[c] = 0 /\ closeStatus[c] = "none"

\* Each connection with something left to be told, output, an initial message
\* or why it ends, has been scheduled for a WRITEABLE callback: no order of
\* callbacks leaves a client waiting for one nobody asked for.
PendingIsScheduled ==
    \A c \in Conns :
        cstate[c] = "open" /\ (NotInitialized(c) \/ HasOutput(c) \/ closeStatus[c] # "none")
            => wakeup[c]

\* The flow control between the PTY and the client never seizes up: while
\* a command may still produce output, either the PTY is being read, or its
\* client's next WRITEABLE callback or CLOSED will go on reading.
ReadingGoesOn ==
    \A s \in Ids :
        Running(s) /\ ~eof[s] /\ ~reading[s] /\ ~signalled[s] =>
            attached[s] # None /\ (wakeup[attached[s]] \/ cstate[attached[s]] = "closing")

\* A client told of the end of its command has been sent everything that was
\* read of its output (process_exit_cb: "once the client has been sent the
\* rest of the output"), as far as the replay buffer still had it.
EndComesLast ==
    \A c \in Conns :
        endSent[c] /\ closeStatus[c] = "normal" => sent[c] = total[session[c]]

\* The replay buffer covers what this client is sent: the session has one, and
\* no RESUME had the PTY read on while the client was more than REPLAY_LIMIT
\* behind, which is when wsi_output's "output outran a client still being
\* caught up" comes true.
Covers(c) == session[c] # None /\ capacity[session[c]] # 0 /\ ~outrun[c]

\* The bytes a client is still to be sent are in the replay buffer, so that it
\* gets them without a gap (REPLAY_LIMIT's comment: "without overwriting output
\* it hasn't been sent yet").  Except where no buffer could be allocated, and
\* after a RESUME while more than REPLAY_LIMIT was still to be sent.
OutputNotOverwritten ==
    \A c \in Conns : Covers(c) =>
        /\ sent[c] <= total[session[c]]
        /\ sent[c] >= Oldest(Capacity, total[session[c]])

\* Counting the bytes that follow the offset announced to it tells a client
\* where in the stream it is (send_initial_message: "so a resuming client can
\* tell whether it picks up exactly where it left off"), whatever RESUMEs it
\* sends, as long as none comes while it is more than REPLAY_LIMIT behind, and
\* if the session has a replay buffer.
ClientKnowsOffset ==
    \A c \in Conns :
        Covers(c) /\ cmdIndex[c] = InitialMessages => received[c] = sent[c]

\* The same without the exceptions, as send_initial_message's comment has it.
\* It does not hold: LostOffset.cfg shows a RESUME that comes too early.
OffsetAlwaysKnown ==
    \A c \in Conns :
        session[c] # None /\ cmdIndex[c] = InitialMessages => received[c] = sent[c]

\* client_count is what it says, so --max-clients and --once count right
\* whatever way connections end.
ClientsCounted ==
    /\ clientCount = Cardinality({c \in Conns : Connected(c)})
    /\ MaxClients > 0 => clientCount <= MaxClients
    /\ Once => clientCount <= 1

\* Between the last client's leaving and the exit of a server started with --once
\* or --exit-no-conn there is always a command whose exit will end it: the
\* server never stays behind, or waits for a command that is already gone.
ExitIsPending ==
    /\ forceExit /\ up => \E s \in Ids : process[s]
    /\ (Once \/ ExitNoConn) /\ up /\ clientCount = 0
          => forceExit \/ \A c \in Conns : cstate[c] = "unused"

\* A connection whose session was taken over, or has ended, is out: it never gets
\* a session again, and one that was taken over is sent no more output and
\* leaves the session it lost alone.
SupersededStaysOut ==
    [][\A c \in Conns : closeStatus[c] # "none" /\ cstate'[c] # "closed" =>
          /\ closeStatus'[c] = closeStatus[c]
          /\ session'[c] = session[c]
          /\ closeStatus[c] = "takenOver" => sent'[c] = sent[c]]_vars

\* Only two things ever end a command's run from this side, the timeout of a
\* session nobody is attached to and a client's leaving where sessions are not
\* kept; a takeover or a reconnect never does.
KilledOnlyWhenAlone ==
    [][\A s \in Ids : signalled'[s] /\ ~signalled[s] => attached'[s] = None]_vars

\* A server that closes a connection which lost its session or whose command
\* has exited has told it why (WRITEABLE: "Say why in a plain message before
\* closing").
ToldWhyClosed ==
    [][\A c \in Conns :
          cstate[c] = "open" /\ cstate'[c] = "closing" /\ closeStatus[c] # "none"
              => endSent[c]]_vars

\* "so a command that exits has all of its output delivered before the close"
\* (WRITEABLE): all the command wrote, when its client is told of its end.
AllOutputDelivered ==
    \A c \in Conns :
        endSent[c] /\ closeStatus[c] = "normal" => sent[c] = written[session[c]]

\* "accept only one client and exit on disconnection" (option --once): over
\* the whole run of the server.
OnceMeansOne ==
    Once => Cardinality({c \in Conns : cstate[c] # "unused"}) <= 1

\* A session whose command has exited is freed in the end, its client having
\* been told and closed.
EndedIsFreed ==
    \A s \in Ids : (life[s] = "live" /\ ~process[s]) ~> (life[s] = "freed" \/ ~up)

\* A command without a client does not run forever, however its client was lost:
\* someone comes back to it, it ends by itself, or it is sent the close signal
\* (CLOSED must arm the reap timer or kill, and nothing but session_attach and
\* the end of the session may disarm it).
DetachedIsReaped ==
    \A s \in Ids :
        (process[s] /\ attached[s] = None)
            ~> (attached[s] # None \/ signalled[s] \/ ~process[s] \/ ~up)

\* Output does not get stuck in the terminal while the command runs: it is
\* read, whoever is or is not attached.
OutputIsRead ==
    \A s \in Ids :
        (process[s] /\ total[s] < written[s])
            ~> (total[s] = written[s] \/ ~process[s] \/ ~up)

\* A client that lost its session is told so, or goes away before.
SupersededIsTold ==
    \A c \in Conns :
        (closeStatus[c] = "takenOver") ~> (endSent[c] \/ cstate[c] = "closed" \/ ~up)

-----------------------------------------------------------------------------
\* Refinement: the callbacks, pointers and timers implement the sessions of
\* module ShellSession.  Its "missed" output is what wsi_output skips.
ShellPhase ==
    [s \in Ids |-> IF life[s] # "live" THEN life[s]
                   ELSE IF process[s] THEN "running" ELSE "ended"]
ShellShown == [s \in Ids |-> IF attached[s] = None THEN 0 ELSE sent[attached[s]]]

Shell == INSTANCE ShellSession WITH
    phase <- ShellPhase, owner <- attached, produced <- total, shown <- ShellShown

ImplementsShell == Shell!Spec
=============================================================================
