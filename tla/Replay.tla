------------------------------- MODULE Replay -------------------------------
(***************************************************************************)
(* The ring buffer of src/src/replay.c that keeps the newest output of a    *)
(* session.  A byte is represented by its offset in the session's stream,   *)
(* so a slot that holds k holds the stream's k-th byte; whether that byte   *)
(* is a UTF-8 continuation byte (10xxxxxx) is recorded in "continuation".   *)
(***************************************************************************)
EXTENDS ReplayOffsets, Sequences

CONSTANTS
    Capacity,    \* REPLAY_CAPACITY, the size asked of malloc
    Limit,       \* REPLAY_LIMIT, how far back a resumed client is replayed
    MaxAppend,   \* bound: bytes in one replay_append
    MaxTotal     \* bound: bytes in the whole stream

ASSUME CapacityAssumption == Capacity \in Nat \ {0}
ASSUME LimitAssumption == Limit \in Nat
ASSUME BoundsAssumption == MaxAppend \in Nat /\ MaxTotal \in Nat

VARIABLES
    capacity,     \* r->capacity: 0 when malloc failed
    ring,         \* r->data: slot -> offset of the byte it holds
    total,        \* r->total: bytes appended so far
    continuation  \* the offsets of the stream that are continuation bytes

vars == <<capacity, ring, total, continuation>>

\* What malloc left in a slot nothing was written to.
Garbage == -1

-----------------------------------------------------------------------------
\* Well-formed UTF-8, as far as a replay cares: no character has more than
\* three continuation bytes and the stream starts with a leading byte.
WellFormed(cont) ==
    \A k \in cont : \E lead \in (k - MaxContinuation) .. (k - 1) :
        lead >= 0 /\ lead \notin cont

\* replay_init, with a malloc that may fail.
Init ==
    /\ capacity \in {Capacity, 0}
    /\ ring = [p \in 0 .. capacity - 1 |-> Garbage]
    /\ total = 0
    /\ continuation = {}

\* How many bytes from slot pos on fit before the ring's end.
FirstPart(pos, length) == Smaller(capacity - pos, length)

\* The two memcpys of replay_append: length bytes from stream offset base on
\* go to slot base % capacity and up, what does not fit goes to slot 0 and up.
WrittenOnce(base, length) ==  \* mutant: the second memcpy is missing
    LET pos == base % capacity IN
    [p \in DOMAIN ring |->
        IF pos <= p /\ p < pos + length THEN base + (p - pos) ELSE ring[p]]
Written(base, length) ==
    LET pos   == base % capacity
        first == FirstPart(pos, length)
    IN  [p \in DOMAIN ring |->
            IF p < length - first THEN base + first + p
            ELSE IF pos <= p /\ p < pos + first THEN base + (p - pos)
            ELSE ring[p]]

\* How much of an input longer than the ring is left out.
SkippedUnchecked(length) == length - capacity  \* mutant: also of a shorter one
Skipped(length) == Larger(length - capacity, 0)

\* replay_append: only the newest "capacity" bytes of the input are copied.
AppendOutput(length, cont) ==
    /\ total + length <= MaxTotal
    /\ ring' = IF capacity = 0 THEN ring
               ELSE Written(total + Skipped(length), length - Skipped(length))
    /\ total' = total + length
    /\ continuation' = continuation \cup cont
    /\ UNCHANGED capacity

\* One PTY read after another; the command's output is UTF-8, but a read may
\* end anywhere, also inside a character.
Next ==
    \E length \in 1 .. MaxAppend :
        \E cont \in SUBSET (total .. total + length - 1) :
            /\ WellFormed(continuation \cup cont)
            /\ AppendOutput(length, cont)

Spec == Init /\ [][Next]_vars

-----------------------------------------------------------------------------
\* byte_at(r, offset) & 0xC0 == 0x80, asked of the byte the slot holds.
IsNextContinuation(offset) ==  \* mutant: looks at the next byte
    ring[(offset + 1) % capacity] \in continuation
IsContinuation(offset) == ring[offset % capacity] \in continuation

\* replay_resume_offset: the requested offset if it is covered, otherwise the
\* earliest one, moved on past at most three continuation bytes.
ResumeOffset(requested) ==
    LET earliest == Earliest(capacity, Limit, total)
        Skippable(n) ==
            /\ earliest + n <= total
            /\ \A i \in 0 .. n - 1 : IsContinuation(earliest + i)
    IN  IF Covered(capacity, Limit, total, requested) THEN requested
        ELSE IF earliest = 0 THEN 0
        ELSE earliest + (CHOOSE n \in 0 .. MaxContinuation :
                           /\ Skippable(n)
                           /\ n = MaxContinuation \/ ~Skippable(n + 1))

\* replay_read: the bytes it copies out, in order.
Read(offset, max) ==
    LET length == ReadLength(capacity, total, offset, max)
        pos    == offset % capacity
        first  == FirstPart(pos, length)
    IN  [i \in 1 .. length |->
            IF i <= first THEN ring[pos + i - 1] ELSE ring[i - first - 1]]

-----------------------------------------------------------------------------
TypeOK ==
    /\ capacity \in {Capacity, 0}
    /\ ring \in [0 .. capacity - 1 -> Nat \cup {Garbage}]
    /\ total \in Nat
    /\ continuation \subseteq Nat

\* replay_read: a read returns consecutive bytes of the stream from the offset
\* asked for, as many as there are up to max, and nothing from outside the
\* buffer's window (uninitialised or overwritten slots never get out).
ReadExact ==
    \A offset \in 0 .. total + 1, max \in 1 .. MaxTotal :
        LET kept == capacity > 0 /\ offset \in Oldest(capacity, total) .. total - 1
        IN  Read(offset, max) =
              IF kept THEN [i \in 1 .. Smaller(total - offset, max) |-> offset + i - 1]
              ELSE <<>>

\* replay_resume_offset: the next replay starts inside the window, at most Limit
\* bytes back, exactly where asked whenever that is possible, and a replay from
\* there down to the end reaches the newest byte.
ResumeInWindow ==
    \A requested \in 0 .. total + 1 :
        LET start == ResumeOffset(requested) IN
        /\ start \in ResumeOffsets(capacity, Limit, total, requested)
        /\ Oldest(capacity, total) <= start /\ start <= total
        /\ total - start <= Limit
        /\ capacity > 0 => Len(Read(start, MaxTotal)) = total - start

\* replay_resume_offset: a replay that could not start where asked does not
\* start in the middle of a character (replay.h: "UTF-8 character").
StartsOnCharacter ==
    \A requested \in 0 .. total + 1 :
        LET start == ResumeOffset(requested) IN
        (start # requested /\ start < total) => start \notin continuation

\* A replay starts where the client can go on from: both of these.
ResumesRight == ResumeInWindow /\ StartsOnCharacter

\* Refinement: what the ring keeps is what replay.h promises, the newest bytes
\* of the stream (module RecentOutput), whatever the ring's layout.
Window == INSTANCE RecentOutput WITH
    Keep <- capacity,
    recent <- Read(Oldest(capacity, total), MaxTotal),
    length <- total
KeepsRecentOutput == Window!Spec
=============================================================================
