------------------------------- MODULE Browser --------------------------------
(***************************************************************************)
(* The browser's side of a terminal session: tabs whose pages run           *)
(* ttydSocket.ts, over connections that may die without the server knowing, *)
(* in front of a server that does what ShellSession.tla says.  What a page  *)
(* remembers of its session is its id, in the tab's sessionStorage too, and *)
(* how much of its output it has received; a Web Lock named after the       *)
(* session keeps a duplicated tab from using the same one.                  *)
(*                                                                          *)
(* Sessions here have the replay buffer they ask for: one that gets none    *)
(* (Session's MallocFails) shows its page nothing.                          *)
(*                                                                          *)
(* A connection of Conns can be used again when both its ends are gone.     *)
(* acts and faults count what users and the network do, up to MaxActs and   *)
(* MaxFaults, and MaxOutput bounds the output of all sessions together:     *)
(* bounds of the model.                                                     *)
(***************************************************************************)
EXTENDS ReplayOffsets, Sequences
LOCAL INSTANCE Functions

CONSTANTS
    Tabs,       \* browser tabs
    Conns,      \* WebSocket connections
    Ids,        \* sessions and their ids, which are random: here, in the order they start
    None,
    Capacity, Limit, ReadMax,   \* as in Session
    Locks,      \* navigator.locks exists (a secure context)
    MaxOutput, MaxActs, MaxFaults

ASSUME NoneAssumption == None \notin Tabs /\ None \notin Conns /\ None \notin Ids
ASSUME IdAssumption == Ids \subseteq Nat
ASSUME SizeAssumption ==
    /\ Limit \in Nat /\ ReadMax \in Nat \ {0} /\ ReadMax <= Limit
    /\ Capacity = Limit + ReadMax
ASSUME LimitsAssumption ==
    /\ Locks \in BOOLEAN
    /\ MaxOutput \in Nat /\ MaxActs \in Nat /\ MaxFaults \in Nat

VARIABLES
    \* the sessions of the server
    phase, owner, produced, shown,
    reading,    \* the session's terminal is being read
    \* the connections
    line,       \* the server's end: down, opening, up
    hello,      \* the client's JSON_DATA message, on its way or None
    role,       \* what the server made of it: fresh, attached, greeted, taken
    code,       \* the code the server closed it with
    wire,       \* messages on their way to the client
    \* the tabs
    page,       \* none, claiming, fetching, connecting, open, waiting, or over:
                \* ended, takenOver, refused
    stored,     \* the id in the tab's sessionStorage, or None
    sessionId, received, everOpened, endCode, ws,   \* fields of TtydSocket
    text,       \* where in which stream the terminal's text ends
    outrun,     \* history: a RESUME had output read on while more than Limit of it was
                \* still to be sent to this page
    \* the Web Locks
    holder,     \* the tab that has the lock of a session, or None
    waiters,    \* the tabs that wait for it
    acts, faults

serverVars == <<phase, owner, produced, shown, reading>>
lineVars == <<line, hello, role, code, wire>>
pageVars == <<page, stored, sessionId, received, everOpened, endCode, ws, text, outrun>>
lockVars == <<holder, waiters>>
boundVars == <<acts, faults>>
vars == <<serverVars, lineVars, pageVars, lockVars, boundVars>>

\* The server: module ShellSession, which Session implements.
Server == INSTANCE ShellSession

\* A terminal without text, just opened or reset.
Blank == [id |-> None, to |-> 0]
TextOf(s, to) == [id |-> s, to |-> to]

SetSession(s, offset) == [type |-> "session", id |-> s, offset |-> offset]
Output(s, from, to) == [type |-> "output", id |-> s, from |-> from, to |-> to]
SessionEnd(why) == [type |-> "end", code |-> why]

Init ==
    /\ Server!Init
    /\ reading = [s \in Ids |-> FALSE]
    /\ line = [c \in Conns |-> "down"]
    /\ hello = [c \in Conns |-> None]
    /\ role = [c \in Conns |-> "fresh"]
    /\ code = [c \in Conns |-> "dropped"]
    /\ wire = [c \in Conns |-> <<>>]
    /\ page = [t \in Tabs |-> "none"]
    /\ stored = [t \in Tabs |-> None]
    /\ sessionId = [t \in Tabs |-> None]
    /\ received = [t \in Tabs |-> 0]
    /\ everOpened = [t \in Tabs |-> FALSE]
    /\ endCode = [t \in Tabs |-> None]
    /\ ws = [t \in Tabs |-> None]
    /\ text = [t \in Tabs |-> Blank]
    /\ outrun = [t \in Tabs |-> FALSE]
    /\ holder = [s \in Ids |-> None]
    /\ waiters = [s \in Ids |-> {}]
    /\ acts = 0
    /\ faults = 0

-----------------------------------------------------------------------------
Listening(c) == \E t \in Tabs : ws[t] = c

\* One of the things a user may do a bounded number of times ...
Act == acts < MaxActs /\ acts' = acts + 1 /\ UNCHANGED faults
\* ... and one of those that may go wrong.
Fault == faults < MaxFaults /\ faults' = faults + 1 /\ UNCHANGED acts

\* A page that goes gives back its locks.
HolderWithout(t) == [s \in Ids |-> IF holder[s] = t THEN None ELSE holder[s]]
WaitersWithout(t) == [s \in Ids |-> waiters[s] \ {t}]

\* claimSession: ask for a session's lock, which is given at once if it is free.
ClaimShared(s, t, held, queued) ==  \* mutant: a lock that does not exclude
    /\ holder' = IF Locks THEN [held EXCEPT ![s] = t] ELSE held
    /\ waiters' = queued
Claim(s, t, held, queued) ==
    LET free == held[s] = None /\ queued[s] = {} IN
    /\ holder' = IF Locks /\ free THEN [held EXCEPT ![s] = t] ELSE held
    /\ waiters' = IF Locks /\ ~free THEN [queued EXCEPT ![s] = @ \cup {t}] ELSE queued

\* A new page in tab t, with an id in its storage or None, after the tab's last
\* page is gone: the first part of connect.
Starts(t, id) ==
    /\ stored' = [stored EXCEPT ![t] = id]
    /\ page' = [page EXCEPT ![t] = IF id # None /\ Locks THEN "claiming" ELSE "fetching"]
    /\ sessionId' = [sessionId EXCEPT ![t] = IF Locks THEN None ELSE id]
    /\ received' = [received EXCEPT ![t] = 0]
    /\ everOpened' = [everOpened EXCEPT ![t] = FALSE]
    /\ endCode' = [endCode EXCEPT ![t] = None]
    /\ text' = [text EXCEPT ![t] = Blank]
    /\ outrun' = [outrun EXCEPT ![t] = FALSE]

\* The old page's connection as the page goes: a handshake is given up, but the
\* server does not know yet that an open connection has lost its client.
Abandons(t) ==
    LET c == ws[t] IN
    /\ ws' = [ws EXCEPT ![t] = None]
    /\ IF c = None THEN UNCHANGED <<line, wire>>
       ELSE /\ line' = [line EXCEPT ![c] = IF @ = "opening" THEN "down" ELSE @]
            /\ wire' = [wire EXCEPT ![c] = <<>>]
    /\ UNCHANGED <<hello, role, code>>

\* A user opens the page in a new tab ...
Visit(t) ==
    /\ page[t] = "none"
    /\ Act
    /\ Starts(t, None)
    /\ UNCHANGED <<ws, serverVars, lineVars, lockVars>>

\* ... duplicates a tab, sessionStorage and all ...
Duplicate(t, u) ==
    /\ page[t] # "none" /\ page[u] = "none"
    /\ Act
    /\ Starts(u, stored[t])
    /\ IF stored[t] = None THEN UNCHANGED lockVars ELSE Claim(stored[t], u, holder, waiters)
    /\ UNCHANGED <<ws, serverVars, lineVars>>

\* ... reloads a tab, which releases the old page's locks before the new page
\* asks for one ...
Reload(t) ==
    LET s == stored[t] IN
    /\ page[t] # "none"
    /\ Act
    /\ Starts(t, s)
    /\ Abandons(t)
    /\ IF s = None
       THEN holder' = HolderWithout(t) /\ waiters' = WaitersWithout(t)
       ELSE Claim(s, t, HolderWithout(t), WaitersWithout(t))
    /\ UNCHANGED serverVars

\* ... or closes it.
Shut(t) ==
    /\ page[t] # "none"
    /\ Act
    /\ Abandons(t)
    /\ page' = [page EXCEPT ![t] = "none"]
    /\ stored' = [stored EXCEPT ![t] = None]
    /\ sessionId' = [sessionId EXCEPT ![t] = None]
    /\ received' = [received EXCEPT ![t] = 0]
    /\ everOpened' = [everOpened EXCEPT ![t] = FALSE]
    /\ endCode' = [endCode EXCEPT ![t] = None]
    /\ text' = [text EXCEPT ![t] = Blank]
    /\ outrun' = [outrun EXCEPT ![t] = FALSE]
    /\ holder' = HolderWithout(t)
    /\ waiters' = WaitersWithout(t)
    /\ UNCHANGED serverVars

-----------------------------------------------------------------------------
\* A lock that has become free is given to a page that waits for it.
Grant(s) ==
    /\ holder[s] = None
    /\ \E t \in waiters[s] :
          /\ holder' = [holder EXCEPT ![s] = t]
          /\ waiters' = [waiters EXCEPT ![s] = @ \ {t}]
    /\ UNCHANGED <<serverVars, lineVars, pageVars, boundVars>>

\* connect goes on: the lock is this page's, and so is the session ...
Claimed(t) ==
    /\ page[t] = "claiming"
    /\ holder[stored[t]] = t
    /\ sessionId' = [sessionId EXCEPT ![t] = stored[t]]
    /\ page' = [page EXCEPT ![t] = "fetching"]
    /\ UNCHANGED <<stored, received, everOpened, endCode, ws, text, outrun>>
    /\ UNCHANGED <<serverVars, lineVars, lockVars, boundVars>>

\* ... or somebody else kept it for 500 ms, and the page goes without.
WaitsInVain(t) == t \in waiters[stored[t]] /\ holder[stored[t]] # None
TimedOut(t) ==
    /\ page[t] = "claiming"
    /\ WaitsInVain(t)
    /\ waiters' = [waiters EXCEPT ![stored[t]] = @ \ {t}]
    /\ page' = [page EXCEPT ![t] = "fetching"]
    /\ UNCHANGED <<stored, sessionId, received, everOpened, endCode, ws, text, outrun>>
    /\ UNCHANGED <<holder, serverVars, lineVars, boundVars>>

\* open, once the token was fetched: a new WebSocket.
Fetched(t, c) ==
    /\ page[t] = "fetching"
    /\ line[c] = "down" /\ ~Listening(c)
    /\ page' = [page EXCEPT ![t] = "connecting"]
    /\ ws' = [ws EXCEPT ![t] = c]
    /\ line' = [line EXCEPT ![c] = "opening"]
    /\ code' = [code EXCEPT ![c] = "dropped"]
    /\ UNCHANGED <<stored, sessionId, received, everOpened, endCode, text, outrun>>
    /\ UNCHANGED <<hello, role, wire, serverVars, lockVars, boundVars>>

\* onOpen: says which session this page had, and how much of it it has.
HelloOfStranger(t) == [id |-> None, offset |-> received[t]]  \* mutant: no id
HelloFromLast(t) ==  \* mutant: asks for the last byte again
    [id |-> sessionId[t], offset |-> received[t] - 1]
HelloOf(t) == [id |-> sessionId[t], offset |-> received[t]]
Opened(t) ==
    LET c == ws[t] IN
    /\ page[t] = "connecting"
    /\ page' = [page EXCEPT ![t] = "open"]
    /\ everOpened' = [everOpened EXCEPT ![t] = TRUE]
    /\ line' = [line EXCEPT ![c] = "up"]
    /\ hello' = [hello EXCEPT ![c] = HelloOf(t)]
    /\ UNCHANGED <<stored, sessionId, received, endCode, ws, text, outrun>>
    /\ UNCHANGED <<role, code, wire, serverVars, lockVars, boundVars>>

\* onMessage takes the next message.
NextMessage(t, type) ==
    /\ page[t] = "open"
    /\ wire[ws[t]] # <<>>
    /\ Head(wire[ws[t]]).type = type
    /\ wire' = [wire EXCEPT ![ws[t]] = Tail(@)]
    /\ UNCHANGED <<page, everOpened, ws, outrun>>
    /\ UNCHANGED <<line, hello, role, code, serverVars, boundVars>>

\* onMessage, OUTPUT: it is written to the terminal.
ReceiveOutput(t) ==
    LET m == Head(wire[ws[t]]) IN
    /\ NextMessage(t, "output")
    /\ received' = [received EXCEPT ![t] = @ + (m.to - m.from)]
    /\ text' = [text EXCEPT ![t] = TextOf(m.id, m.to)]
    /\ UNCHANGED <<stored, sessionId, endCode, lockVars>>

\* onMessage, SESSION_END.
ReceiveEnd(t) ==
    /\ NextMessage(t, "end")
    /\ endCode' = [endCode EXCEPT ![t] = Head(wire[ws[t]]).code]
    /\ UNCHANGED <<stored, sessionId, received, text, lockVars>>

\* onSession resets the terminal unless the output goes on where it left off.
IsReplaced(t, m) ==  \* mutant: only when the session is another one
    sessionId[t] # None /\ m.id # sessionId[t]
StartsOver(t, m) ==
    \/ sessionId[t] # None /\ m.id # sessionId[t]
    \/ m.offset # received[t]

\* onMessage, SET_SESSION: onSession.
ReceiveSession(t) ==
    LET m == Head(wire[ws[t]]) IN
    /\ NextMessage(t, "session")
    /\ text' = IF StartsOver(t, m) THEN [text EXCEPT ![t] = Blank] ELSE text
    /\ received' = [received EXCEPT ![t] = m.offset]
    /\ \/ /\ m.id = sessionId[t]
          /\ UNCHANGED <<sessionId, stored, lockVars>>
       \/ /\ m.id # sessionId[t]
          /\ sessionId' = [sessionId EXCEPT ![t] = m.id]
          /\ stored' = [stored EXCEPT ![t] = m.id]
          /\ Claim(m.id, t, holder, waiters)
    /\ UNCHANGED endCode

\* What a page does about a close: shouldReconnect, and onClose for the rest.
AfterClose(t, why) ==
    CASE why = "normal" -> "ended"
      [] why = "taken"  -> "takenOver"
      [] why = "policy" -> "refused"
      [] why = "dropped" -> IF everOpened[t] THEN "waiting" ELSE "refused"

\* onClose: the reason is the one SESSION_END gave, else the event's.
CloseCode(t, event) == IF endCode[t] # None THEN endCode[t] ELSE event
OnClose(t, event) ==
    /\ ws' = [ws EXCEPT ![t] = None]
    /\ endCode' = [endCode EXCEPT ![t] = None]
    /\ page' = [page EXCEPT ![t] = AfterClose(t, CloseCode(t, event))]
    /\ UNCHANGED <<stored, sessionId, received, everOpened, text, outrun>>

\* The server's close arrives after all it has sent; not every version of
\* libwebsockets delivers the code.
CloseArrives(t) ==
    /\ page[t] = "open"
    /\ line[ws[t]] = "down"
    /\ wire[ws[t]] = <<>>
    /\ \E event \in {code[ws[t]], "dropped"} : OnClose(t, event)
    /\ UNCHANGED <<serverVars, lineVars, lockVars, boundVars>>

\* The connection dies, or is refused.  What was on its way to the page is lost;
\* what was on its way to the server may still get there.
Dies(t) ==
    LET c == ws[t] IN
    /\ page[t] \in {"connecting", "open"}
    /\ Fault
    /\ OnClose(t, "dropped")
    /\ line' = [line EXCEPT ![c] = IF @ = "opening" THEN "down" ELSE @]
    /\ wire' = [wire EXCEPT ![c] = <<>>]
    /\ UNCHANGED <<hello, role, code, serverVars, lockVars>>

\* reconnectNow: the back-off is over, the network is back or the tab visible.
ReconnectsIfAttached(t) ==  \* mutant: only if it had a session
    page[t] = "waiting" /\ sessionId[t] # None
Reconnects(t) == page[t] = "waiting"
Reconnect(t) ==
    /\ Reconnects(t)
    /\ page' = [page EXCEPT ![t] = "fetching"]
    /\ UNCHANGED <<stored, sessionId, received, everOpened, endCode, ws, text, outrun>>
    /\ UNCHANGED <<serverVars, lineVars, lockVars, boundVars>>

-----------------------------------------------------------------------------
\* The server sends a message, which nobody gets when the client has gone.
Sent(c, m) == IF Listening(c) THEN [wire EXCEPT ![c] = Append(@, m)] ELSE wire

\* The server's end of a connection is gone.
HungUp(c, why) ==
    /\ line' = [line EXCEPT ![c] = "down"]
    /\ code' = [code EXCEPT ![c] = why]
    /\ hello' = [hello EXCEPT ![c] = None]
    /\ role' = [role EXCEPT ![c] = "fresh"]

Resumable(s) == s # None /\ phase[s] = "running"

\* JSON_DATA: the client gets a session of its own ...
ServeNew(c, s) ==
    /\ hello[c] # None
    /\ ~(hello[c].id \in Ids /\ Resumable(hello[c].id))
    /\ \A other \in Ids : phase[other] = "unborn" => s <= other
    /\ Server!Start(s, c)
    /\ UNCHANGED reading
    /\ hello' = [hello EXCEPT ![c] = None]
    /\ role' = [role EXCEPT ![c] = "attached"]
    /\ UNCHANGED <<line, code, wire, pageVars, lockVars, boundVars>>

\* ... or the one it had, with its output from where the client has it if it
\* is still kept; a connection that has the session loses it.
ServeAgain(c, s) ==
    /\ hello[c] # None
    /\ hello[c].id = s /\ Resumable(s)
    /\ Server!Take(s, c)
    /\ shown'[s] \in ResumeOffsets(Capacity, Limit, produced[s], hello[c].offset)
    /\ UNCHANGED reading
    /\ hello' = [hello EXCEPT ![c] = None]
    /\ role' = [d \in Conns |-> IF d = c THEN "attached"
                                ELSE IF d = owner[s] THEN "taken" ELSE role[d]]
    /\ UNCHANGED <<line, code, wire, pageVars, lockVars, boundVars>>

\* The client is told its session, and where in its output it starts ...
Greet(c, s) ==
    /\ owner[s] = c /\ role[c] = "attached"
    /\ role' = [role EXCEPT ![c] = "greeted"]
    /\ wire' = Sent(c, SetSession(s, shown[s]))
    /\ UNCHANGED <<line, hello, code, serverVars, pageVars, lockVars, boundVars>>

\* ... is sent output, from where it is or, if output outran it, from what is
\* still kept, of which there may be nothing ...
NextOutput(s) ==
    IF shown[s] < Oldest(Capacity, produced[s])
    THEN ResumeOffsets(Capacity, Limit, produced[s], shown[s])
    ELSE {shown[s]}
SendOutput(c, s) ==
    /\ owner[s] = c /\ role[c] = "greeted"
    /\ Server!Show(s)
    /\ \E from \in NextOutput(s) :
          \/ /\ from < shown'[s]
             /\ wire' = Sent(c, Output(s, from, shown'[s]))
          \/ /\ from = shown'[s] /\ from = produced[s]
             /\ UNCHANGED wire
    /\ UNCHANGED <<reading, line, hello, role, code, pageVars, lockVars, boundVars>>

\* ... and when there is none left to send, the terminal is read on ...
SomeSent(s) == shown[s] > 0 \/ produced[s] = 0  \* mutant: not all of it
AllSent(s) == shown[s] = produced[s]
ReadOn(c, s) ==
    /\ owner[s] = c /\ role[c] = "greeted"
    /\ phase[s] = "running"
    /\ AllSent(s)
    /\ ~reading[s]
    /\ reading' = [reading EXCEPT ![s] = TRUE]
    /\ UNCHANGED <<phase, owner, produced, shown>>
    /\ UNCHANGED <<lineVars, pageVars, lockVars, boundVars>>

\* ... and, when the command has exited and all of it was sent, the end.
SendEnd(c, s) ==
    /\ owner[s] = c /\ role[c] = "greeted"
    /\ phase[s] = "ended"
    /\ AllSent(s)
    /\ Server!Leave(s)
    /\ UNCHANGED reading
    /\ wire' = Sent(c, SessionEnd("normal"))
    /\ HungUp(c, "normal")
    /\ UNCHANGED <<pageVars, lockVars, boundVars>>

\* A connection that lost its session is told so.
SendTaken(c) ==
    /\ role[c] = "taken"
    /\ wire' = Sent(c, SessionEnd("taken"))
    /\ HungUp(c, "taken")
    /\ UNCHANGED <<serverVars, pageVars, lockVars, boundVars>>

\* The server gives up a connection: its client has gone, or it has not
\* answered, could not be authenticated or could not be given a command.  A
\* session without a client is read on.
Drop(c) ==
    /\ line[c] = "up"
    /\ \/ ~Listening(c) /\ UNCHANGED boundVars
       \/ Listening(c) /\ Fault
    /\ \/ HungUp(c, "dropped")
       \/ hello[c] # None /\ HungUp(c, "policy")
    /\ \/ \E s \in Ids : /\ owner[s] = c /\ Server!Leave(s)
                        /\ reading' = [reading EXCEPT ![s] = phase[s] = "running"]
       \/ (\A s \in Ids : owner[s] # c) /\ UNCHANGED serverVars
    /\ UNCHANGED <<wire, pageVars, lockVars>>

\* A page's RESUME arrives, which wetty.ts sends whenever the terminal has drawn
\* most of what it got: the session's terminal is read on, although the page
\* may not have been sent yet what was read before.
ReceiveResume(c, s) ==
    /\ line[c] = "up"
    /\ owner[s] = c /\ phase[s] = "running"
    /\ reading' = [reading EXCEPT ![s] = TRUE]
    /\ outrun' = [t \in Tabs |->
          outrun[t] \/ (ws[t] = c /\ produced[s] - shown[s] > Limit)]
    /\ UNCHANGED <<phase, owner, produced, shown, lineVars, lockVars, boundVars>>
    /\ UNCHANGED <<page, stored, sessionId, received, everOpened, endCode, ws, text>>

\* A command's output is read, once, and on only if there is no client to send it
\* to first.
Produce(s) ==
    /\ reading[s]
    /\ Server!Produce(s)
    /\ FoldFunction(+, 0, produced') <= MaxOutput
    /\ reading' = [reading EXCEPT ![s] = owner[s] = None]
    /\ UNCHANGED <<lineVars, pageVars, lockVars, boundVars>>

\* A command exits.
End(s) ==
    /\ Server!End(s)
    /\ reading' = [reading EXCEPT ![s] = FALSE]
    /\ UNCHANGED <<lineVars, pageVars, lockVars, boundVars>>

-----------------------------------------------------------------------------
PageStep(t) ==
    \/ Claimed(t) \/ TimedOut(t) \/ (\E c \in Conns : Fetched(t, c)) \/ Opened(t)
    \/ ReceiveOutput(t) \/ ReceiveEnd(t) \/ ReceiveSession(t)
    \/ CloseArrives(t) \/ Reconnect(t)

ServerStep(c) ==
    \/ \E s \in Ids : \/ ServeNew(c, s) \/ ServeAgain(c, s) \/ Greet(c, s)
                      \/ SendOutput(c, s) \/ ReadOn(c, s) \/ SendEnd(c, s)
    \/ SendTaken(c)

Next ==
    \/ \E t \in Tabs : \/ Visit(t) \/ (\E u \in Tabs : Duplicate(t, u))
                       \/ Reload(t) \/ Shut(t) \/ Dies(t) \/ PageStep(t)
    \/ \E c \in Conns : \/ ServerStep(c) \/ Drop(c)
                        \/ \E s \in Ids : ReceiveResume(c, s)
    \/ \E s \in Ids : Grant(s) \/ Produce(s) \/ End(s)

Spec == Init /\ [][Next]_vars

\* What the browser and the server do by themselves; the server notices a
\* client that has gone.  Nothing makes a command write or exit.
Fairness ==
    /\ \A t \in Tabs : WF_vars(PageStep(t))
    /\ \A c \in Conns : WF_vars(ServerStep(c)) /\ WF_vars(Drop(c) /\ ~Listening(c))
    /\ \A s \in Ids : WF_vars(Grant(s))

FairSpec == Spec /\ Fairness

-----------------------------------------------------------------------------
Codes == {"normal", "taken", "policy", "dropped"}
Messages ==
    [type : {"session"}, id : Ids, offset : Nat]
        \cup [type : {"output"}, id : Ids, from : Nat, to : Nat]
        \cup [type : {"end"}, code : {"normal", "taken"}]

\* Every variable has its type.
TypeOK ==
    /\ phase \in [Ids -> {"unborn", "running", "ended", "freed"}]
    /\ owner \in [Ids -> Conns \cup {None}]
    /\ produced \in [Ids -> Nat] /\ shown \in [Ids -> Nat]
    /\ reading \in [Ids -> BOOLEAN]
    /\ line \in [Conns -> {"down", "opening", "up"}]
    /\ hello \in [Conns -> [id : Ids \cup {None}, offset : Nat] \cup {None}]
    /\ role \in [Conns -> {"fresh", "attached", "greeted", "taken"}]
    /\ code \in [Conns -> Codes]
    /\ wire \in [Conns -> Seq(Messages)]
    /\ page \in [Tabs -> {"none", "claiming", "fetching", "connecting", "open",
                          "waiting", "ended", "takenOver", "refused"}]
    /\ stored \in [Tabs -> Ids \cup {None}]
    /\ sessionId \in [Tabs -> Ids \cup {None}]
    /\ received \in [Tabs -> Nat]
    /\ everOpened \in [Tabs -> BOOLEAN]
    /\ endCode \in [Tabs -> {None, "normal", "taken"}]
    /\ ws \in [Tabs -> Conns \cup {None}]
    /\ text \in [Tabs -> [id : Ids \cup {None}, to : Nat]]
    /\ outrun \in [Tabs -> BOOLEAN]
    /\ holder \in [Ids -> Tabs \cup {None}]
    /\ waiters \in [Ids -> SUBSET Tabs]
    /\ acts \in 0 .. MaxActs /\ faults \in 0 .. MaxFaults

\* The text a terminal shows is one piece of its session's output: whatever is
\* lost and resumed, what onMessage writes next is of the page's session, goes
\* on where the text ends, or starts an empty terminal, and received is its
\* offset.  The offsets are excepted from when a RESUME of the page has had
\* output read on that was more than REPLAY_LIMIT ahead of it until the page
\* is loaded anew: then wsi_output may leave a gap.
ScreenContinues ==
    \A t \in Tabs :
        LET m == Head(wire[ws[t]]) IN
        page[t] = "open" /\ wire[ws[t]] # <<>> /\ m.type = "output" =>
            /\ m.id = sessionId[t]
            /\ ~outrun[t] =>
                  /\ m.from = received[t]
                  /\ text[t] = Blank \/ text[t] = TextOf(m.id, m.from)

\* Where there are Web Locks no two pages use one session, however tabs are
\* duplicated, reloaded and closed (claimSession).
OnePagePerSession ==
    Locks => \A t, u \in Tabs :
        sessionId[t] = sessionId[u] /\ sessionId[t] # None => t = u

\* A page that shows the end of its session ('logout' of onClose) shows it of a
\* command that has exited, and has received all its output that the server
\* read, up to a RESUME as in ScreenContinues.
EndedShowsAll ==
    \A t \in Tabs : page[t] = "ended" =>
        /\ sessionId[t] # None
        /\ phase[sessionId[t]] \notin {"unborn", "running"}
        /\ outrun[t] \/ received[t] = produced[sessionId[t]]

\* A page changes to another session only if the one it had has ended, whatever
\* connections it lost meanwhile (onSession, 'previous session ended').
ReplacedOnlyIfEnded ==
    [][\A t \in Tabs :
          sessionId[t] # None /\ sessionId'[t] \notin {None, sessionId[t]}
              => phase[sessionId[t]] \in {"ended", "freed"}]_vars

\* A page is told that its session was resumed in another tab only if another
\* tab uses it (onClose, CLOSE_SESSION_TAKEN_OVER).
TakenByAnotherTab ==
    [][\A t \in Tabs :
          page[t] = "open" /\ page'[t] = "takenOver"
              => \E u \in Tabs \ {t} : sessionId[u] = sessionId[t]]_vars

\* A page is attached to its session and has all of its output, unless that
\* outran it, or is over.
Settled(t) ==
    \/ page[t] \in {"none", "ended", "takenOver", "refused"}
    \/ /\ page[t] = "open"
       /\ sessionId[t] # None
       /\ owner[sessionId[t]] = ws[t]
       /\ outrun[t] \/ received[t] = produced[sessionId[t]]

\* When nothing goes wrong any more a page gets its session back and catches up
\* with it, or is told why not (onClose, reconnectNow, claimSession).
PageSettles == \A t \in Tabs : []<>Settled(t)
=============================================================================
