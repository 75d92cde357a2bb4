---------------------------- MODULE ReplayOffsets ----------------------------
(***************************************************************************)
(* The offset arithmetic of src/src/replay.c.  A session's output is one    *)
(* stream of bytes counted from 0; a replay buffer of capacity cap that has *)
(* seen total bytes still holds the offsets Oldest(cap, total) .. total - 1.*)
(* Nothing here looks at the bytes themselves: Replay.tla models the ring,  *)
(* Session.tla uses these operators for a session's buffer.                 *)
(***************************************************************************)
EXTENDS Integers

\* A UTF-8 character has at most this many continuation bytes; the constant 3
\* of the loop in replay_resume_offset.
MaxContinuation == 3

Smaller(a, b) == IF a <= b THEN a ELSE b
Larger(a, b)  == IF a >= b THEN a ELSE b

\* replay_oldest: the offset of the oldest byte still in the buffer.
Oldest(cap, total) == Larger(total - cap, 0)

\* The furthest back a replay may start: replay_resume_offset's "earliest".
EarliestKept(cap, limit, total) == Oldest(cap, total)  \* mutant: ignores the limit
Earliest(cap, limit, total) == Larger(Oldest(cap, total), total - limit)

\* The requested offset is still covered: the stream is continued exactly.
Covered(cap, limit, total, requested) ==
    Earliest(cap, limit, total) <= requested /\ requested <= total

\* How many bytes replay_read returns.
ReadLengthAnywhere(cap, total, offset, max) ==  \* mutant: window not checked
    IF cap = 0 \/ offset >= total THEN 0 ELSE Smaller(total - offset, max)
ReadLength(cap, total, offset, max) ==
    IF cap = 0 \/ offset < Oldest(cap, total) \/ offset >= total
    THEN 0
    ELSE Smaller(total - offset, max)

\* The results replay_resume_offset may have when the bytes are not modelled:
\* the requested offset, or a start moved on past up to three continuation
\* bytes (never when nothing was cut off).
ResumeOffsets(cap, limit, total, requested) ==
    LET earliest == Earliest(cap, limit, total) IN
    IF Covered(cap, limit, total, requested) THEN {requested}
    ELSE IF earliest = 0 THEN {0}
    ELSE earliest .. Smaller(earliest + MaxContinuation, total)
=============================================================================
