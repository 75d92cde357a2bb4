# wettyd in TLA+

A model of wettyd, a server that shares a terminal over the web: of what keeps a
terminal session alive when the browser in front of it disconnects, reloads or is
duplicated; of the pages it serves and the login in front of them; of how it
starts, with a configuration file that it makes and that its user edits; and of
what a page makes of the output it gets.  The modules are checked with TLC; the
theorems are proved with TLAPS for every number of connections, sessions, tabs and
processes, every buffer size, and every text in a file, a form or a header.

Paths below are relative to `src/`, the repository.

## 1. The system

wettyd is one C program (`src/src/`) with one libuv loop, plus one thread per
command that waits for it to exit, and a browser application (`src/frontend/`)
served by it.

| component | state it keeps | operations | it talks to |
|---|---|---|---|
| session server, `protocol.c` | per connection (`struct pss_tty`): authenticated, which initial message is next, session pointer, how far its output has been sent, close status; per session (`session_t`): process, client, replay buffer, reap timer, end of output; the list of resumable sessions; `client_count`, `force_exit` | connect, authenticate, start, resume or take over a session, input, pause and resume, initial messages, output, session end, close, detach, reap | libwebsockets callbacks in, `pty.c` calls out, `pty.c` callbacks back |
| pty, `pty.c` | per command (`pty_process`): pid, pipes to its terminal, whether it is being read | spawn, read, pause, resume, write, resize, kill, exit notice | the kernel; the waiting thread (`waitpid`, then `uv_async_send`) |
| replay buffer, `replay.c` | a ring: bytes, capacity, bytes ever written | append, read from an offset, where a resuming client starts | called by `protocol.c` |
| HTTP, `http.c` | per connection (`struct pss_http`), kept from one request to the next: is it a login, its body so far and whether it is too long, the page being written and how far; two pages uncompressed once for all | route a request, collect a body, handle a login, write a page piece by piece, send a file, close | libwebsockets callbacks in; `auth.c`; shares the listening socket with the sessions |
| auth, `auth.c` | none | compare tokens, parse cookies and forms, build cookies | called by `http.c` and `protocol.c` |
| configuration, `config.c` | the file, which outlives the process; the parsed file | parse, generate a password, write | called at start-up; the user edits the file |
| `sha256.c`, `utils.c`, `homedir.c` | none | hashing, allocation, strings, home directory | |
| start-up and shutdown, `server.c` | where the command begins, options, `force_exit`, loop | two passes over the command line, setting up authentication, signals, idle policy, exits | creates everything |
| browser transport, `ttydSocket.ts` | socket, session id, offset received, back-off, close code | connect, reconnect, claim a stored session, decode messages | the session server, over a connection that may die |
| browser terminal, `wetty.ts`, `outputDecoder.ts` | bytes not yet drawn, partial character | flow control (PAUSE, RESUME), output | the transport |
| downloads and clipboard, `download.ts`, `osc52*.ts` | partial marker or file | find escape sequences and files in the output | the terminal |
| options editor, pages | forms | | |

### What is hard about it

* **One session, several connections.**  A browser whose connection died comes
  back on a new one before the server has noticed.  `session_attach` then hands
  the session over.  The two pointers (`pss->session`, `s->pss`), the close
  status, the timer and the list are updated by four different callbacks
  (`session_attach`, `process_exit_cb`, CLOSED, `session_reap_cb`), each a part
  of them.  Correct means: no pointer dangles, exactly one of two callbacks
  frees a session, a connection that lost its session stays out.
* **Flow control by hand.**  Each PTY read stops reading; WRITEABLE, CLOSED or
  the read callback must resume it.  WRITEABLE sends one message per call and
  must ask for the next call each time.  Correct means: nothing is ever left
  waiting for a callback nobody asked for, and output is not overwritten before
  the client has been sent it.
* **The end of a command** is noticed twice and independently: end of file on
  its terminal, and `waitpid` on another thread.
* **Ends that race:** a client leaves while its command exits, with `--once` or
  `--exit-no-conn` hanging on which came first.
* **The ring's arithmetic:** an append or read in two copies, an append longer
  than the ring, a replay that must not start inside a UTF-8 character.
* **One struct, several requests.**  A `pss_http` serves every request of a
  kept-alive connection.  Whatever a request leaves in it is found by the next:
  the start of a body, the mark that one was too long, a page half written to a
  client that was promised all of it.  A body and a page both go over the network
  in pieces that neither side chooses.
* **A file with several writers.**  The configuration file is read by a server,
  written by one that finds none, and edited by a user; a write is three steps,
  any of which may be the last, and its result is what the next server trusts.
  Correct means: never open because a file was cut short or misread, never a
  password that nobody can look up.
* **The command line is read twice,** by a pass that looks for the command and by
  one that takes the options before it.  Where they disagree, a word of the command
  becomes an option of the server.
* **State that outlives a message.**  In the page a character, a marker and a count
  of writes are carried from one message to the next, and some of it from one
  connection, or one session, to the next.

`PROJECT.json` lists each of these hazards at its line with the properties that
would catch it.

## 2. The modules

| module | what it is |
|---|---|
| `ReplayOffsets` | the offset arithmetic of `replay.c`, shared by the two modules below |
| `Replay` | the ring of `replay.c`, byte for byte |
| `RecentOutput` | what a replay buffer promises: the newest bytes of a stream |
| `Session` | `protocol.c` and the pty side of `pty.c`: the core |
| `ShellSession` | what a terminal session promises, without callbacks, pointers or timers |
| `Browser` | `ttydSocket.ts` in tabs that share sessions, over connections that die, in front of `ShellSession` |
| `Text`, `Auth` | characters; the pure part of logging in, `auth.c` |
| `Http` | `http.c`: requests over connections that are kept alive |
| `Config`, `Options` | what `config.c` reads and writes; `server.c`'s option tables and where the command begins |
| `Startup` | `main` of `server.c`: processes that start, share a configuration file and end |
| `Terminal` | `outputDecoder.ts`, `download.ts` and the flow control of `wetty.ts` |
| `MCSession`, `MCBrowser`, `MCHttp`, `MCStartup`, `MCTerminal` | these for TLC: symmetry sets, requests, command lines, files, streams |
| `OffsetLemmas` | lemmas about `ReplayOffsets` |
| `DataLemmas` | induction over numbers, sequences, the parts of a text, sequences put together |
| `ReplayProofs` | that the ring is right, and implements `RecentOutput` |
| `SessionProofs` | of `Session`: type correctness; pointers, list and timer; the client count, exits and closes; that output flows, that nothing is overwritten; that `Session` implements `ShellSession` |
| `BrowserProofs` | that pages keep out of each other's sessions, and that what they show is their session's stream |
| `HttpProofs` | that `Http` leaves nothing of one request to the next, sends answers whole, and to the right clients |
| `StartupProofs` | that the configuration file is nobody's but its user's, what a server makes of it, and of its command line |
| `TerminalProofs` | that a page shows its session's stream, however it was cut, without the files in it |

`Session` uses `ReplayOffsets` only: its streams are lengths and offsets.  That
the bytes behind those offsets are the right ones is `Replay`'s subject.  The two
agree on every operation `Session` uses, because both take it from
`ReplayOffsets`.

### Replay and RecentOutput

`vars` is `replay_buf_t` (`data`, `capacity`, `total`) with a history of the
stream written so far.  Bytes are represented by their own stream offsets, and
which of them are UTF-8 continuation bytes is chosen at the start, at most three
in a row.  `AppendOutput` is `replay_append` with its early parts: what does not
fit is skipped first (`Skipped`), then `FirstPart` bytes up to the end of the
ring, then the rest at its start.  `malloc` failing in `replay_init` is the
initial state with capacity 0.  `ResumeOffset` and `Read` are
`replay_resume_offset` and `replay_read`, evaluated by the invariants at every
offset in every state.  `KeepsRecentOutput` maps the ring to `RecentOutput`.

### Session

A connection is one element of `Conns`, used once; a session one of `Ids`.  Each
field of `struct pss_tty`, `session_t`, `pty_process` and `struct server` that
decides anything is a variable; they are grouped as `connVars`, `linkVars`,
`streamVars`, `commandVars` and `serverVars`.

All callbacks run on one loop, so each is one atomic action, with everything it
calls.  What interleaves is their order, and two actors that are not on the loop:
the command (`CommandWrites`, `CommandHangsUp`, `CommandExits`) and the waiting
thread (`WaitThread`).

| code | action |
|---|---|
| FILTER_PROTOCOL_CONNECTION, ESTABLISHED | `Connect` |
| RECEIVE before authentication, or with a wrong token | `ReceiveUnauthorised` |
| RECEIVE, INPUT, that `pty_write` refuses | `ReceiveInput` |
| RECEIVE, RESUME | `ReceiveResume` |
| RECEIVE, JSON_DATA | `Spawn`, `Resume`, `SpawnFails`; their common part is `Hello` |
| SERVER_WRITEABLE, one action per message it may send | `SendInitial`, `SendOutput`, `SendSessionEnd`, `CloseEnded`, `ReadOn` |
| CLOSED | `Closed`, with `ReleaseSession` and `ExitIfLast` |
| `read_cb` and `process_read_cb` | `ReadData`, `ReadEof`, `ReadNothing` |
| `async_cb`, `process_exit_cb`, `process_free` | `AsyncCb` |
| `session_reap_cb` | `ReapTimer` |
| `wait_cb` | `WaitThread` |

Things a reader of the code may trip over:

* `pty_pause` does nothing: it returns if `process->paused` is set, `pty_spawn`
  sets it and nothing clears it.  For the same reason `pty_resume` always
  starts reading.  So PAUSE has no action and RESUME has an unconditional one.
* `closing` is a connection whose callback returned non-zero: CLOSED will follow,
  nothing else will be called for it, but other callbacks still see it attached.
* `cmdIndex = InitialMessages` stands for `initialized` as well: the code sets it
  in the same call that finds the index at its end, before anything reads it.
* `received` is not in the code.  It is the offset a client has by the
  rule of `ttydSocket.ts`: what SET_SESSION says, then plus the length of every
  OUTPUT message.
* The page sends RESUME whenever it has drawn enough (`wetty.ts:76`), which the server
  honours whatever it has still to send.  So in the model an attached client may send
  it at any time, in every run.  `outrun`, which is not in the code, remembers that a
  client did so while more than `Limit` was still to be sent to it: from then on
  output may be overwritten that it was not sent.
* `malloc` of a session's replay buffer may fail (`MallocFails`): its `capacity` is 0
  then, it has nothing to show, and the properties about offsets except it.
* `process_free` after a failed `pty_spawn` joins a thread that was never
  created.  That is undefined; `SpawnFails` may take the server down.

### Browser

A tab is one element of `Tabs`: its sessionStorage (`stored`), and the page in it,
which is a `TtydSocket`.  `page` says where its code is: awaiting the lock
(`claiming`) or the token (`fetching`), with a WebSocket (`connecting`, `open`),
with a back-off timer (`waiting`), or over (`ended`, `takenOver`, `refused`).  Users
open, duplicate, reload and close tabs.  A reload or a dying connection leaves the
server's end of it up, until `Drop`, and a JSON_DATA message sent on it may still be
read.

| code | action |
|---|---|
| `connect` and `claimSession` | `Starts`, in `Visit`, `Duplicate` and `Reload`; then `Claimed` or `TimedOut`, with `Grant` for the browser's lock manager |
| `open` | `Fetched` |
| `onOpen` | `Opened` |
| `onMessage`, by message | `ReceiveOutput`, `ReceiveEnd`, `ReceiveSession` (`onSession`) |
| `onClose` | `OnClose`, in `CloseArrives` and `Dies` |
| `reconnectNow` | `Reconnect` |

The server is `ShellSession`, instantiated on the same variables, plus what a
connection adds to it: `role` (nothing yet, attached, told its session, lost it)
and the messages it is sent.  So `Browser` stands on the theorem that `Session`
implements `ShellSession`.  `ShellSession` leaves open when output appears and which of
it is shown; here both are `protocol.c`'s.  `reading` is whether the terminal is being
read: after each read only once WRITEABLE finds nothing left to send (`ReadOn`), or
when the page's RESUME comes (`ReceiveResume`), which may be at any time.  `NextOutput`
is where `wsi_output` goes on, which is further on if output was overwritten.  `outrun` is as
in `Session`, for a page.  The server sends SESSION_END and closes in one action,
because a connection that dies in between is the same to the page as one that dies
before the close arrives.  Sessions have their replay buffer here.

`text` is not in the code: it is where in which stream the terminal's text ends.
A lock that is free is taken to be granted within the 500 ms of `claimSession`;
`TimedOut` is for a lock somebody else has.

### Auth and Http

A connection of `Conns` is one of libwebsockets' with its `struct pss_http`
(`pssVars`); `lwsVars` is what libwebsockets does with it: whether a request's body
is arriving (`rest` is what is still to come), a page is being written, a file
sent.  `clientVars` is what the client was answered last, for the properties.
`path` and `authenticated` of the struct are set and used in one callback and have
no variable.

Requests are inputs: `Requests[c]` is what the client of `c` may ask for, each a path
(one of six kinds), what it accepts, the cookies it holds with the header they make,
its method (`post`) and its body, if it has one, which is a form: what was typed with
the text it makes.  A body may be sent to any page.  `Auth` works on these
characters one by one, as `auth.c` does, and also has the browser's side
(`FormText`, `CookieHeader`; `IsForm` and `IsCookie` say what it may make of a form and
keep as a cookie): the properties compare what the server decides with what
the client typed and holds, not with what the server parsed.  A page is its name and
its length.

| code | action |
|---|---|
| HTTP | `ReceiveRequest`, whose outcome is `Route`: `AnswerAtOnce`, `AwaitForm`, `ServePage`, `ServeFile`, or any call that fails |
| HTTP_BODY | `ReceiveBody`, of any part of what is to come |
| HTTP_BODY_COMPLETION, `handle_login_post` | `CompleteBody`, `HandleLoginPost` |
| HTTP_WRITEABLE | `Writeable`: full rounds of its loop, then `Blocked` or `LastPiece` |
| HTTP_FILE_COMPLETION | `FileSent` |
| CLOSED_HTTP, and a callback that returns an error | `Close`, `Closed` |
| `pss_body_free`, `pss_buffer_free` | `BodyFreed`, `BufferFreed` |

A loop of HTTP_WRITEABLE that writes several pieces is one step, since the callback
returns to nobody in between; where it may stop is chosen freely.  What
libwebsockets does with a body the callback did not wait for is not in this
repository: `CompletedBefore` allows both.  If a page that was asked for with a body is
not written when the body ends, HTTP_BODY_COMPLETION completes the request, and the
rest of the page stays in the struct (`src/http.c:342`).  `overtaken`, which is not in the code,
remembers such a connection.  `LaterRequests` bounds what is asked for on it: without
a bound every request would be explored behind every part of every page.

### Config, Options and Startup

`config` is the file's text, which processes leave behind; everything else is of a
process of `Procs` and is gone with it (`Exit`).  A key, `password` and `none` are one
character each in the text, so that cutting it short is cutting between characters
that matter.  `Parsed` is `config_parse` line by line; `Says`, which is not in the
code, is what the text says to someone who reads all of it.

A command line is its words, each the text with what `getopt_long` takes it for, and
next to them what the user meant (`line.options` with the words they begin at,
`line.begins`, and `line.command` with `line.at`), which only `CommandAsGiven` reads.
`CommandStart` is the first pass, `ParseOption` one round of the second, with its own
idea of what a word is.

`LineAssumption` says what belongs together: an option is a word with the argument the
tables give it, what is between options is unknown, and the command is the rest.  On
three kinds of such lines the code does something else than was meant.  The command is
looked up by the text of its first word, and if that occurs before, in
`wettyd -T bash bash`, it is found there; what follows `-t` is left to be read as the next
option, if it looks like one; and a second base path is put before the first.
Such lines are in the run, where the code does what it does with them; `CommandAsGiven`
is about the others, which are `Unambiguous`.  No line has the word `--`.

| code | action |
|---|---|
| `calc_command_start` | `Launch`, `CommandStart` |
| the loop over `getopt_long` | `TakeOption` with `ClientOption` for case `t`, `SkipWord`, `EndOptions` |
| `setup_auth` | `SetupAuth`: `TrustHeader`, `ReadConfig`, `GeneratePassword`, `RefuseConfig` |
| `config_write` | `OpenConfig` (the file is empty now), `FlushConfig` (its text, or as much as fits), `ChmodConfig` |
| the rest of `main` until `lws_service` | `Listen` |
| `signal_cb` | `Signal` |
| CLOSED with `--once` or `--exit-no-conn`, then `process_exit_cb` | `LastClientGone`, `CommandExits` |
| the end of `main` | `LeaveLoop`, `ServerFree` |

`config_write` does not look at what `fclose` returns, so a full disk cuts the text
without anybody noticing; `Kill` may come between any two steps, after which an empty
file may be left that no server accepts; `Edit` is the user, at any time, who may
write into the file that a server has open, delete it or put another in its place
(phase `flush elsewhere`).  `changed`, which is not in the code, remembers that the file is not the
one a process read or wrote.

### Terminal

One page and the session it is attached to, whose output is one of `Streams`.  A
byte is a character, except that `lead` and `continuation` make one of two bytes;
the markers of a file are any two texts, of which the begin marker has its first character
nowhere else (`MarkerAssumption`: in `download.ts` it is ESC `[5i`).  The server cuts the stream into messages anywhere.

| code | action |
|---|---|
| `onMessage` OUTPUT, `OutputDecoder`, `FileDownloader.buffer`, `socket.on("data")` | `ReceiveOutput`: `Decoded` (by `Decode`) and `Kept`, `Buffered` with `BufferCharacter`, `Write` |
| the callback of `term.write` | `Drawn` |
| `onSession` after a reconnection | `Reconnect` (it goes on, or was skipped ahead: `Reset`), `Replaced` |
| `onClose` | `Disconnect` |

`drawing` is the terminal's own count of writes whose callback is to come; `told` the
last flow control message, which a new connection starts over; `shown` and `base`
what the terminal was given since it was reset and where that was.  A stream that
was skipped ahead goes on at the start of a character: that is `StartsOnCharacter`
of `Replay`.  `ShowsStream` says what is shown with `Split`, which reads the whole text at
once and looks for markers in it.  `PausedWhileDrawing` relates the last message of the
flow control to the terminal's count, not to the page's.  `clean` is false once the page was reset in the middle of a file, which
`FileDownloader` goes on with, and `Apart` says that no begin of a marker is cut short by
another one, which `FileDownloader` does not see: see section 4.

## 3. What is checked

Each run is one question.  Mutants of the code, listed in `PROJECT.json` and
defined beside what they mutate (marked `mutant` in the modules), show that each
property notices a plausible bug.

| run | question | bounds |
|---|---|---|
| `replay_ring` | Does the ring keep, return and resume at exactly the right bytes? | capacity 5 (or 0), limit 4, appends up to 7, 10 bytes in all: every wrap position, appends shorter than, equal to and longer than the ring, every split of the stream |
| `session_handover` | Do pointers, list and timer survive takeovers, leaving and exits?  Is a command killed under a client? | 3 connections and 2 sessions: a takeover while a third connection is opening, a second session beside it; one byte of output and one initial message, so that every phase of sending is there |
| `session_exit` | Does anything happen before authentication?  Is the exit of `--exit-no-conn` on its way, are closes explained? | 3 connections with `--max-clients 2`: one too many; 2 sessions; password, read-only server, all 3 initial messages, empty reads |
| `session_live` | Does a client get the stream with the right offsets, the end last?  Does all this implement the sessions of `ShellSession`?  What must happen in the end? | 2 connections, 1 session with a ring of 2 or none, limit 1, reads of 1, 3 bytes, 1 initial message: the ring goes round, a client that resumes may be as far behind as the limit allows, or further, and a RESUME may have output overwritten that was not sent; no symmetry |
| `browser_tabs` | Do tabs keep out of each other's sessions, and a page with its own?  Is what a terminal shows one piece of the stream, and at the end all of it? | 2 tabs, 2 connections, 2 sessions, 3 acts of users (enough for a duplicated tab to wait for the lock of one that is then closed or reloaded), 1 failing connection, 3 bytes in all sessions together with a ring of 2 and a limit of 1: a page can fall behind far enough to have to start over with text on its screen, and a RESUME can have output overwritten |
| `browser_live` | Does a page come to rest, with its session or knowing why not? | 2 tabs, 2 connections, 2 acts, 1 failure, 1 byte, 3 sessions: enough for every start |
| `http` | Does every request get the answer its client is entitled to, whole, and nothing of the one before? | 2 connections, because two share a cached page; one asks for everything, with four sets of cookies (none, the right one behind a look-alike, a prefix of it, too long a header) and six forms (escaped or not, behind a trap, wrong, too long a password, too long a form that is right when cut), and a body on the terminal's page, the token, the logout and a login page that is asked for by GET; on an overtaken connection a token or a login with a body; a password of three characters that all mean something in a form; a longest body of 11, which is what the longest password takes when all of it is escaped; pages of 2 to 4 pieces of 1, written 1 or 2 at a time |
| `startup` | Is a server open only if told so, its password to be read in the file, the user's file left alone, the command the one given?  Does a start end? | 2 processes: one that finds no file and one that makes it in the meantime; 10 command lines, with every way to take, repeat, refuse or misplace an option, commands that look like options, and the three kinds of line that mislead a pass; 8 states of the file: comments, quotes, keys that are repeated, in error, unknown, without a value; 2 places where a full disk cuts what is written |
| `terminal` | Does the terminal show the stream, without the files, however it is cut?  Is a server that was told to pause told to go on? | 3 streams of 10 to 19 bytes, cut anywhere, with wide characters, two files, half markers in and out of them and a file that does not end; 2 losses: a reset, and another connection after it; a write with a callback from 2 characters on, PAUSE from 3 |
| `lost_output`, `own_ghost`, `startup_joined` | Three statements of the code's own comments and help text that the code does not keep, section 4 | |

Constants that are bounds of the model and not of the code: `Conns`, `Ids`,
`PtyBuffer` (unread bytes the kernel takes), `MaxWritten` (bytes a command
writes), `MaxAppend` and `MaxTotal` of `Replay`; `Tabs`, `MaxOutput` (bytes of all
sessions together), `MaxActs` and `MaxFaults` of `Browser`; `Procs`, `Lines`, `Edits` and
`Cuts` of `Startup`; `Streams` and `MaxLosses` of `Terminal`; `Requests` and `LaterRequests`
of `Http`.  `InitialMessages`, 3 in the code, is a constant because only the last of
them, which announces the offset, differs from the others; `session_exit` has all three.
The ratio the code depends on,
`REPLAY_CAPACITY = REPLAY_LIMIT + one read` with a read no longer than the limit
(64 KB, 256 KB), is the assumption `BufferAssumption`; the numbers are not.

In `Session` connections and sessions are interchangeable, and in `Browser` tabs
and connections are, so the safety runs use symmetry; the runs with liveness,
`session_live` and `browser_live`, do not.  `Browser`'s sessions are numbered in the
order they start, which leaves nothing to permute.  Deadlock is not checked for
`Session`, whose connections and output are used up and whose server may exit, nor
for `Browser`, where acts and faults are used up, nor for `Replay`, which stops
at `MaxTotal`, nor for `Terminal`, whose output ends.  It is for `Http` and `Startup`,
where connections and processes come back.

`session_live` has no empty reads.  An empty read (`ReadNothing`) would leave reading
stopped with nobody to resume it; libuv reports one only for a wake-up without data, and
the run does not claim anything for that case.

Some properties name a case in which they say nothing, because the code does
something else there, and knowingly so in the model: `RightAnswer` and `LoginExact`
take a Cookie header longer than the buffer of `request_authenticated`, and a form
longer than `LOGIN_BODY_MAX`, for what the code takes them for, nothing;
`ClientKnowsOffset`, `ScreenContinues` and `EndedShowsAll` say nothing of offsets behind
a RESUME that came too soon (`outrun`), and the first nothing of a session without a
replay buffer; `NothingCarriedOver`, `WholeAnswers` and `LoginExact` except a connection
whose page was overtaken by the body of its request (`overtaken`); `CommandAsGiven` is
about unambiguous command lines;
`PasswordInFile` excepts a file changed since it was read or written, two servers
that start at once and a full disk among it; `ShowsStream` excepts a reset in the
middle of a file and a marker cut short by another one.

### The fairness assumed

`FairSpec` adds weak fairness for what the loop does by itself:

* `Serve(c)`: a connection that asked for a WRITEABLE callback, or was told to
  close, gets it or is dropped.  libwebsockets serves a writable socket; a client
  that neither reads nor answers is pinged after 5 and dropped after 10 seconds
  (`src/server.c:44-54`), which is `Closed`.
* `Read(s)`: the loop polls a PTY that has data or was hung up.
* `AsyncCb(s)`, `ReapTimer(s)`: the loop runs async callbacks and timers.
* `WaitThread(s)`: `waitpid` returns for a zombie.

In `Browser`, `FairSpec` is fair to every step of a page (timers fire, messages that
were not lost arrive, a fetch and a handshake end, a lock is granted or given up
on), to the server's callbacks, and to its noticing a client that has gone.  Acts
and faults are bounded, so "when nothing goes wrong any more" needs no assumption.

In `Http`, the service loop serves a connection that asked to write or is being sent
a file, whose client takes something in the end or is dropped, and a client goes on with a body it has begun to send, because
libwebsockets closes one that does not.  In `Startup`, a process that can take a step
does (`Step`), because `main` waits for nothing before `lws_service`; signals, exits
and edits are not fair.  In `Terminal`, the emulator draws what it was given; output
need not come, and connections need not be made again.

Nothing is assumed of clients or commands: no client has to connect, send or
leave, and no command has to write, obey a signal or exit.  So `DetachedIsReaped`, which
begins with a command that has no client, however it lost it,
ends with the signal being sent, and `OutputIsRead` excepts the command's exit.

## 4. Where the code and its own words differ

As runs:

* **Output lost at exit** (`lost_output`).  `waitpid` may return, and `async_cb`
  run, before the last output was read from the PTY; `process_free` then closes
  it.  The client is told of the end without that output, while the comment in
  WRITEABLE says that all of it is delivered before the close.  (What had been
  read is delivered: `EndComesLast` holds.)
* **Taken over by itself** (`own_ghost`).  JSON_DATA sent on a connection that then
  dies may be read after the page has resumed on the next one.  The server hands
  the session to the dead connection, and the live page is told that its session
  was resumed in another tab and stops, with no other tab.
* **A start that never ends** (`startup_joined`).  Case `t` of the options steps
  back by one word to its argument (`src/server.c:563`).  In `-tkey=value` or
  `--client-option=key=value` that word is the option itself, which `getopt_long` is
  given again, for ever.  The help text (`src/server.c:112`) and the manual
  (`man/wettyd.1`) rule out neither form.

Further disagreements are properties of `Session` with a configuration that shows
each, by `tlc -config SilentClose.cfg MCSession` and so on:

* **A close without a reason** (`SilentClose.cfg`).  INPUT from a connection whose
  session was just taken over, or whose command just exited, fails in `pty_write`
  and closes it before SESSION_END is sent.  A browser sees 1006 and reconnects,
  in the first case taking the session back.
* **Wrong offsets after RESUME** (`LostOffset.cfg`).  RESUME reads on whatever the
  client has still to be sent.  Output can overwrite it, `wsi_output` then skips
  ahead, and the client, who counts bytes, has the wrong offset.  The comment of
  `REPLAY_LIMIT` (`src/protocol.c:21-23`) says that nothing is overwritten that was not sent
  yet, and the one of SET_SESSION (45-47) that a client can tell whether it picks up
  where it left off.  `OffsetAlwaysKnown` is `ClientKnowsOffset` without its exceptions.
* **A second client with `--once`** (`OnceTwice.cfg`).  While the server waits for
  the command of its only client to exit, `client_count` is 0 and
  `lws_cancel_service` refuses nobody.

What properties except, section 3, is of the same kind, but nothing in the
repository says otherwise:

* A page that is reset in the middle of a download goes on with it: the rest of the
  file, or a replay that starts over, is appended to what was there, and a new
  session's output disappears into it until an end marker comes (`clean`).
* A file whose marker begins where the rest of one was expected, as in ESC ESC `[5i`, is
  written to the terminal instead: `bufferCharacter` returns both ESC and forgets the
  second one may be a begin (`Apart`).  This came to light in the proof of `ShowsStream`,
  where the step for that character fails; no stream of the run has it.
* A page asked for with a body is not sent whole if the body ends first: the client waits
  for the rest of what Content-Length promised, and takes the next answer for it.  What
  was left of the page is written behind the next request (`overtaken`).
* The three kinds of command lines of section 2: another command is run than the one
  given, or under other options (`Unambiguous`).
* Of two servers that start at once without a file, the one that is slower takes
  over the file, and the other one serves with a password nobody can read
  (`changed`).
* A logged in client whose other cookies make the header too long is sent to log in.

## 5. What is proved

There are theorems about every component that is modelled.  Each is about every value of
the constants that the named ASSUMEs of its module allow; TLC evaluates these in every
run.  Two things are common to the proofs.

* Hardly any property below is inductive by itself.  For each module there is an invariant that
  is, and most of the work is one lemma per action, or per group of actions that have
  to do with the same parts, that says that the action keeps it.
* What code computes by a loop over data is proved by induction as well.  The library's
  induction theorems take an operator as a parameter, which the provers cannot
  instantiate.  `Inductive` (`DataLemmas`) is stated with a set instead: one that has 0
  and with every number the next has all numbers.  Its proof is by the pigeonhole
  principle for finite sets, which the library has without such a parameter.  A loop that
  the model writes as a recursive function is unfolded with it once (`ReadUpTo`,
  `DecodesFrom`, `SplitsFrom`, `RunsFrom`, `FlattenIs`) and then argued about step by step.

### Replay (`ReplayProofs`)

For any capacity, limit, stream and way to cut it into appends (`CapacityAssumption`,
`LimitAssumption`, `BoundsAssumption`).

* `ReplayCorrect`: `ReplayInv`, of which `RingOK` is the part that matters: every byte of
  the window is in the slot that is its offset modulo the capacity.  `WrittenSlots` is
  about the two copies of `replay_append`: they write all of the input, in order, and over
  no more of the window than it moves on.  `SlotAfter` is the arithmetic: what is j after
  a byte in the ring, before and behind its end.
* `ReadsExactly`: `ReadExact`, by `ReadIs`, which is the same about `replay_read`.
* `ResumesCorrectly`: `ResumesRight`.  The loop of `replay_resume_offset` looks for the
  first byte that is no continuation; `SearchEnds` shows that it finds one or the end,
  using that there are at most three in a row.
* `WindowImplemented`: `Spec => KeepsRecentOutput`, with an append as the abstract `Grow`.

### Session (`SessionProofs`)

About `Spec` of `Session`, for any `Conns` (finite), `Ids`, buffer sizes with
`BufferAssumption`, and options (`PointerAssumption`: the null pointer is neither a
connection nor a session; `FiniteAssumption`; `BoundAssumption`; `OptionAssumption`).

* `TypeCorrect` (`SessionProofs`): `[]TypeOK`.  By induction, one step per
  action.  The work is in the stream offsets: `OffsetLemmas` shows from
  `ReplayOffsets` that an offset a replay starts at lies in the stream and that a
  read is never longer than what is there.
* `LinksCorrect`, `TimerCorrect`, `ListCorrect`, `NothingLeaked`,
  `AuthenticationFirst` (`SessionProofs`): `LinksMutual`, `TimerSafe`,
  `ListedAreResumable`, `NoOrphan` and `NothingBeforeAuth` hold always;
  `PointersCorrect` puts the first three together as `LinksConsistent`.  None of
  them is inductive alone.  That a timer belongs to a live session, for
  instance, needs the process's presence to mirror the command's state, since
  `async_cb` frees on the word of `waitpid`; that a takeover leaves no one-sided
  pointer needs the pointers to be mutual before; that an unauthenticated
  connection is left alone by a takeover needs the holder of a session to be
  authenticated.  `Linked` is the conjunction that is inductive: `ConnLinked` for
  every connection, `SessionLinked` for every session.  One lemma per action
  that touches a link (`ConnectLinked`, `SpawnLinked`, `ResumeLinked`,
  `SendInitialLinked`, `ClosedLinked`, `AsyncCbLinked`, `ReapTimerLinked`,
  `CommandLinked`); the others fall under `LinksUntouched`.
* `SupersededIsOut`, `KilledWhenAlone` (`SessionProofs`): the action properties
  `SupersededStaysOut` and `KilledOnlyWhenAlone`, from the same invariant.
* `ClientCountCorrect` (`SessionProofs`): `[]ClientsCounted`; the cardinality of
  the set of connected connections changes with `client_count`.
* `ExitComes` (`SessionProofs`): `[]ExitIsPending`.  The command that keeps a
  server with `--once` or `--exit-no-conn` alive after its last client cannot
  disappear without `async_cb` setting `force_exit`; the proof needs the count to
  be right.
* `ReadOnlyTells` (`SessionProofs`): without `--writable`, `ToldWhyClosed`.  The
  hypothesis is exactly what `SilentClose.cfg` lacks: only a refused
  INPUT closes a connection without a word.
* `NobodyForgotten`, `EndIsLast` (`SessionProofs`): `PendingIsScheduled` and
  `EndComesLast`, from the invariant `AllFlowing`: a client with anything to be
  sent has asked for a callback, and one that was sent SESSION_END is level with
  its stream.
* `NothingOverwritten`, `OffsetKnown` (`SessionProofs`): `OutputNotOverwritten` and
  `ClientKnowsOffset`, of every client that `Covers` is true of: its session has a
  buffer, and no RESUME of its own came while it was more than `Limit` behind.  The
  invariant `AllUnbroken` carries the argument for `REPLAY_CAPACITY`: while a PTY is
  being read, such a client has at most `Limit` bytes to be sent; one read adds at
  most `Capacity - Limit` and stops reading; reading goes on when the client is level,
  or by a RESUME, and then it is either no more than `Limit` behind or covered no more.
* `ReadingIsAssured` (`SessionProofs`): without empty reads, `ReadingGoesOn`.  It is
  inductive together with `Linked`.
* `Implementation` (`SessionProofs`): `Spec => ImplementsShell`.  The initial
  states map to initial states; `Spawn` is `Start`, `Resume` is `Take`, `SendOutput`
  is `Show`, `Closed` is `Leave` or nothing, `ReadData` is `Produce`, `AsyncCb` is
  `End`, everything else is a stutter.  `Linked` gives the owner's uniqueness, and
  `UnbornSilent` (a session not started has no output) that a first client starts
  at offset 0.

### Browser (`BrowserProofs`)

For any tabs, connections and sessions and any number of acts and faults
(`NoneAssumption`, `SizeAssumption`, `LimitsAssumption`).  The invariant
is `BrowserInv`, in parts that each carry one argument:

* A page that uses a session holds its lock, and an id that a page has not been told is
  `Secret`: in no storage, page or hello, with a lock nobody has or waits for, and told
  on one connection at most (`Told`, `TellingOK`).  So a page that is told a new session can take its lock at once
  and is alone with it.  From these, `OnePage`: `OnePagePerSession`.
* `StreamOK`: of what is on its way to a page, the first message goes on where the page
  is, each other one where the one before ends (`Chained`), and the server's next one
  where the last one ends.  From it, `TextContinues`: `ScreenContinues`.
  Both except a page that is `outrun`; and `NotOutrun`, which is part of `BrowserCorrect`,
  says that no output was overwritten that a page was not sent unless it is: while a
  terminal is read, its page is at most `Limit` behind.
* `EndOK`: a page that believes its session is over is at the end of a stream that is
  complete.  From it, `EndIsWhole`: `EndedShowsAll`.
* `Replaced`: the action property `ReplacedOnlyIfEnded`.  A hello names the session a page
  has (`PageOK`), and the server starts a new one only if it does not find that one, and
  it finds those that have not ended.

`TypeCorrect` is the type invariant, `BrowserCorrect` all of this.

### Http and Auth (`HttpProofs`)

For any connections, requests, cookies, forms, passwords, pages and pieces
(`PageAssumption`, `RequestAssumption`, `CodesAssumption`, `FieldAssumption`,
`FormAssumption`).

* `NothingLeft`, `AnswersAreWhole` (`HttpProofs`): `NothingCarriedOver` and `WholeAnswers`.
  Neither is inductive, since the struct is full in the middle of a request.
  `HeldInv` says, phase by phase, what it may be full of: `HoldsItsOwn` (a body is
  there only in the phase `body` of a login, a page in no phase that it is not written in)
  and `OwesTheRest` (what was sent is what `ptr` has passed, which is at most the length
  that was promised, and WRITEABLE was asked for exactly if there is a page).  Of a
  connection that is overtaken, which holds another request's page, it says that
  WRITEABLE has a page and that what is owed is of it.  So the case of HTTP_WRITEABLE
  that finds no page (`src/http.c:350-352`) is never taken.  One lemma per callback; the
  arithmetic is in `LastPieceHeld`, where a round that was cut short at the page's end
  and one that ends there by chance must come to the same.
* `CookieFound`: the header that a browser writes for a jar of cookies passes
  `auth_cookie_matches` exactly if the session cookie is one of them, by induction over
  the jar; one cookie more is one part more behind the last semicolon (`NextCookie`).
  It is used that a name has neither "=" nor ";" in it and does not begin with a space,
  and a value no ";".
* `FormTextDecoded`: decoding gives back what was typed, by induction over its
  characters, backwards: from where a character's piece begins, the loop goes on where
  the piece ends (`PieceDecoded`), and a code of two digits is found again (`EscapedIs`).
  `FormPasswordIs`: of all fields, the first one with the right name is the one that was
  typed into.
* `AnswersAreRight`: `RightAnswer`.  `RouteRight` is the case distinction of the HTTP
  callback; `RightInv` keeps its outcome until the next request, except for a login to
  come.
* `LoginIsExact`: `LoginExact`.  While a form arrives, what of it is kept and what is
  still to come make it up, or it is known to be too long, and is (`FormArrives`); that
  nothing is left of the form before is `HeldInv`.

### Config and Startup (`StartupProofs`)

For any processes, command lines, edits, and places where a full disk cuts
(`LineAssumption`, `NoneAssumption`, `FileAssumption`, `GeneratedAssumption`).

* `OnlyUsersOverwrite`: the action property `NeverOverwritten`.  `FileInv` says that a
  process which is about to make the file has found none, and one that has made it has an
  empty one, unless it was overtaken (`MakesItsOwn`).
* `ParsedAsSaid`: for a text of any length, `config_parse` returns what the last lines on
  a key say, or fails.  By induction over the lines: what it has read of the first ones is
  what these say (`AsSaid`).
* `ParsedWritten`: `config_parse` reads back what `config_write` wrote.  The text is two
  lines, each of a shape (`LineShape`) of which `Trim`, the colon and `Unquote` are known;
  a generated password has no character that means something in a line
  (`GeneratedAssumption`: `config_generate_password` uses letters and digits).
* `KnownCorrect`: what a process knows of the file in each of its phases.  One that writes
  has emptied it, one that has written has its text there or a part of it, one that goes
  on has read it or would read what it wrote (`ParsedWritten`); unless the file has been
  changed.  From it, `FileHasPassword`: `PasswordInFile`, and, with `ParsedAsSaid`,
  `NeverOpenUntold`: `OpenOnlyIfSaid`.
* `RunsAsGiven`: `CommandAsGiven`, of lines that are `Unambiguous`.  A pass over the words is always at a `Boundary`: where
  an option begins, at an unknown word, or where the command begins, since an option and
  an unknown word each end at one (`PastOption`, `PastUnknown`).  So the first pass, whose
  result is followed backwards from the command, finds it (`CommandStartIs`, where no
  word before has the same text), and what the
  second has set at a word is what the options before it say (`Agrees`), of which the next
  one is the last of its kind (`GivenNext`).  `CommandInv` is this for every process; of one
  with another line it says only what it needs to be kept.

### Terminal (`TerminalProofs`)

For any streams of whole characters, of which the last may be cut (`StreamAssumption`), any
markers (`MarkerAssumption`), any limits (`FlowAssumption`) and number of losses.

* `TerminalShowsStream`: `ShowsStream`.  The invariant `TerminalInv` says that the decoder
  has kept what is left of the bytes since the last reset (`CarriedInv`), and that what the
  downloader has made of their text, with what is shown, is right (`ParsedInv`).
* `DecodedMore` is the decoder's part: decoding what it kept and the next bytes, behind what
  it decoded before, is decoding all bytes at once.  A place in the stream where it stops is
  one where no character is cut, or it has kept the first byte; from there on both agree, by
  induction from the end backwards, and before it, too (`DecodedParts`).
* `Parsed` is the downloader's part, as an invariant of its loop: everything before a place
  k of the text is split for good, whatever comes (`Reached`); and from k on either no
  marker begins that could still be one, but for what is in `partialFileBegin` (`Scanning`),
  or one has begun and the file's end has not come (`InFile`).  One character more keeps it
  so (`ParsedNext`, by `ScanNext` and `FileNext`), and so do many that cannot begin a marker
  (`ParsedAtOnce`, the short cut of `buffer`).  That the first character of the begin
  marker is not in the rest of it is what makes one place to hold enough.
  `ParsedIsSplit`: it is then the text split as a whole.
* `TerminalPausesWhileDrawing`: `PausedWhileDrawing`.  In `PauseInv` the page's count is the
  terminal's, so that taking one off is never cut at 0, and a server is told to pause only
  while there is a connection, which a RESUME that is due needs.  It is used that the low
  mark is at most one above the high one (`FlowAssumption`; 4 and 10 in the code).

### What is only model-checked

* The liveness properties `EndedIsFreed`, `DetachedIsReaped`, `OutputIsRead` and
  `SupersededIsTold` (`Session`), `PageSettles`, `RequestsEnd`, `StartEnds` and
  `PauseIsLifted`: the provers here have no rules for fairness and ENABLED.

`ClientsCounted`, `OutputNotOverwritten` and the three parts of `LinksConsistent` are
in no run of their own: the theorems cover them for every instance.

## 6. What is not modelled, and why

* Inside the components modelled: window sizes and `pty_resize` (no other state
  depends on them); URL arguments, path and Origin checks (a refused upgrade
  changes nothing); authentication by a proxy's header (decided before the
  connection exists); fragments of a message (collected before anything is
  decided, except the token check, which sees the first); input, beyond whether
  it is refused; the Windows half of `pty.c`.
* A failing `uv_random` when a session id is made is one of the cases of
  `SpawnFails`.  Session ids are taken to be distinct (128 random bits).
* Of `ttydSocket.ts`: the length of the back-off, window sizes, what `emit` sends but for
  RESUME, the token, beyond that it may be
  refused; a browser that keeps a page alive in its history.
* Of `http.c`: TLS client
  certificates, headers' wording, libwebsockets' stream compression.  A page that
  cannot be uncompressed is one of the calls of `ReceiveRequest` that fail.
* Of `auth.c`: how the session token is made of the password (a hash).  Timing of
  the comparison.
* Of `config.c`: where the file is looked for (environment and home directory), a
  file longer than 64 KB, how random a password is.
* Of `server.c`: several short options in one word, `--`, how long a base path is, what
  an option does to the listening socket, the file of a UNIX socket, which names
  `get_sig` knows (`SignalNames`).  Words in `getopt_long`'s order only: no
  POSIXLY_CORRECT.
* Of the page: the clipboard escapes, which the emulator finds; naming and saving a
  file; keyboard, resizing and the emulator itself; the line that says that a new
  session was started.
* SHA-256, the home directory, allocation wrappers, the options editor and the
  build: no state, or a fixed function with published test vectors.

## 7. Plan

What is left:

* `pty_spawn` step by step, with what each failing step leaves behind; the word `--` and
  several options in one word.
