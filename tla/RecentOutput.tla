---------------------------- MODULE RecentOutput ----------------------------
(***************************************************************************)
(* What src/src/replay.h promises of a replay buffer: of a stream that only *)
(* grows it keeps the newest Keep bytes, in order.  As in Replay.tla a byte *)
(* is represented by its offset in the stream.                              *)
(***************************************************************************)
EXTENDS Integers, Sequences

CONSTANT MaxAppend  \* bound: bytes appended at once

VARIABLES
    Keep,    \* how many bytes are kept; never changes
    length,  \* bytes in the whole stream so far
    recent   \* the newest of them

Newest(s) ==
    IF Len(s) <= Keep THEN s ELSE SubSeq(s, Len(s) - Keep + 1, Len(s))

Init ==
    /\ Keep \in Nat
    /\ length = 0
    /\ recent = <<>>

Grow(n) ==
    /\ length' = length + n
    /\ recent' = Newest(recent \o [i \in 1 .. n |-> length + i - 1])
    /\ UNCHANGED Keep

Spec == Init /\ [][\E n \in 1 .. MaxAppend : Grow(n)]_<<Keep, length, recent>>
=============================================================================
