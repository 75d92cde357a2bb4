---------------------------- MODULE ShellSession ----------------------------
(***************************************************************************)
(* What a terminal session promises its users, without connections'         *)
(* handshakes, callbacks, pointers or timers.  A session runs one command,  *)
(* whose output is a stream that only grows; at most one client owns the    *)
(* session, and is shown the stream from somewhere near its end on, without *)
(* a gap as long as it is not more than Capacity behind.  Ownership passes  *)
(* from client to client while the command runs; a session that has ended   *)
(* keeps its client and takes no new one.                                   *)
(*                                                                          *)
(* A session may show a gap where a client reads too slowly, or all the     *)
(* time if it has no memory to keep output in: how often is not said here,  *)
(* see ClientKnowsOffset in Session.tla.                                    *)
(***************************************************************************)
EXTENDS ReplayOffsets

CONSTANTS
    Conns,     \* the clients
    Ids,       \* the sessions
    None,
    Capacity,  \* how much of its output a session keeps
    Limit,     \* how far back a client is shown output when it takes a session
    ReadMax    \* how much output appears at once

VARIABLES
    phase,     \* unborn, running, ended, freed
    owner,     \* the client that owns the session, or None
    produced,  \* length of the session's output so far
    shown      \* how far its owner has been shown it, 0 without an owner

vars == <<phase, owner, produced, shown>>

Init ==
    /\ phase = [s \in Ids |-> "unborn"]
    /\ owner = [s \in Ids |-> None]
    /\ produced = [s \in Ids |-> 0]
    /\ shown = [s \in Ids |-> 0]

OwnsNothing(c) == \A s \in Ids : owner[s] # c

\* A client that owns nothing starts a session of its own.
Start(s, c) ==
    /\ phase[s] = "unborn"
    /\ OwnsNothing(c)
    /\ phase' = [phase EXCEPT ![s] = "running"]
    /\ owner' = [owner EXCEPT ![s] = c]
    /\ UNCHANGED <<produced, shown>>

\* ... or takes one whose command is still running, from whoever has it, and
\* sees no more of the past than a replay shows.
Take(s, c) ==
    /\ phase[s] = "running"
    /\ OwnsNothing(c)
    /\ owner' = [owner EXCEPT ![s] = c]
    /\ \E offset \in Earliest(Capacity, Limit, produced[s]) .. produced[s] :
          shown' = [shown EXCEPT ![s] = offset]
    /\ UNCHANGED <<phase, produced>>

\* The owner goes; nobody can come back to a session that has ended.
Leave(s) ==
    /\ owner[s] # None
    /\ owner' = [owner EXCEPT ![s] = None]
    /\ shown' = [shown EXCEPT ![s] = 0]
    /\ phase' = [phase EXCEPT ![s] = IF @ = "ended" THEN "freed" ELSE @]
    /\ UNCHANGED produced

\* Output appears, while the command runs.
Produce(s) ==
    /\ phase[s] = "running"
    /\ \E n \in 1 .. ReadMax : produced' = [produced EXCEPT ![s] = @ + n]
    /\ UNCHANGED <<phase, owner, shown>>

\* The owner is shown more of the output.  It misses some only if it is so far
\* behind that the session no longer has what comes next.
Show(s) ==
    LET oldest == Oldest(Capacity, produced[s])
        missed == shown[s] < oldest
        from   == IF missed THEN oldest ELSE shown[s] + 1
    IN
    /\ owner[s] # None
    /\ \E to \in from .. produced[s] :
          shown' = [shown EXCEPT ![s] = to]
    /\ UNCHANGED <<phase, owner, produced>>

\* The command exits.
End(s) ==
    /\ phase[s] = "running"
    /\ phase' = [phase EXCEPT ![s] = IF owner[s] = None THEN "freed" ELSE "ended"]
    /\ UNCHANGED <<owner, produced, shown>>

Next ==
    \E s \in Ids :
        \/ \E c \in Conns : Start(s, c) \/ Take(s, c)
        \/ Leave(s) \/ Produce(s) \/ Show(s) \/ End(s)

Spec == Init /\ [][Next]_vars
=============================================================================
