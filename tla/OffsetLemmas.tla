---------------------------- MODULE OffsetLemmas ----------------------------
(***************************************************************************)
(* What the offset arithmetic of ReplayOffsets.tla yields, for every        *)
(* capacity, limit and stream length.                                       *)
(***************************************************************************)
EXTENDS ReplayOffsets, TLAPS

\* replay_oldest and "earliest": both are offsets of the stream, a replay never
\* starts before the oldest byte kept nor further back than the limit.
LEMMA EarliestRange ==
    ASSUME NEW cap \in Nat, NEW limit \in Nat, NEW total \in Nat
    PROVE  /\ Oldest(cap, total) \in 0 .. total
           /\ Earliest(cap, limit, total) \in Nat
           /\ total - Oldest(cap, total) <= cap
           /\ Earliest(cap, limit, total) \in Oldest(cap, total) .. total
           /\ total - Earliest(cap, limit, total) <= limit
    BY DEF Oldest, Earliest, Larger

\* replay_resume_offset: wherever a replay starts, it is inside the window.
LEMMA ResumeRange ==
    ASSUME NEW cap \in Nat, NEW limit \in Nat, NEW total \in Nat,
           NEW requested \in Nat,
           NEW start \in ResumeOffsets(cap, limit, total, requested)
    PROVE  /\ start \in Nat
           /\ start \in Earliest(cap, limit, total) .. total
  <1> DEFINE earliest == Earliest(cap, limit, total)
  <1>1. earliest \in Nat /\ earliest <= total
    BY DEF Earliest, Oldest, Larger
  <1>2. CASE Covered(cap, limit, total, requested)
    BY <1>1, <1>2 DEF ResumeOffsets, Covered
  <1>3. CASE ~Covered(cap, limit, total, requested) /\ earliest = 0
    BY <1>1, <1>3 DEF ResumeOffsets
  <1>4. CASE ~Covered(cap, limit, total, requested) /\ earliest # 0
    <2>1. start \in earliest .. Smaller(earliest + MaxContinuation, total)
      BY <1>4 DEF ResumeOffsets
    <2> QED BY <1>1, <2>1 DEF Smaller, MaxContinuation
  <1> QED BY <1>2, <1>3, <1>4

\* replay_resume_offset: with nothing in the stream there is one place to start.
LEMMA ResumeEmpty ==
    ASSUME NEW cap \in Nat, NEW limit \in Nat, NEW requested \in Nat,
           NEW start \in ResumeOffsets(cap, limit, 0, requested)
    PROVE  start = 0
  <1>1. start \in Earliest(cap, limit, 0) .. 0
    BY ResumeRange
  <1> QED BY <1>1 DEF Earliest, Oldest, Larger

\* replay_read: a read inside the window stays inside the stream and gets at
\* least one byte unless it starts at the end, or there is no buffer.
LEMMA ReadRange ==
    ASSUME NEW cap \in Nat, NEW total \in Nat, NEW max \in Nat \ {0},
           NEW offset \in Oldest(cap, total) .. total
    PROVE  /\ ReadLength(cap, total, offset, max) \in 0 .. (total - offset)
           /\ ReadLength(cap, total, offset, max) <= max
           /\ cap # 0 /\ offset < total => ReadLength(cap, total, offset, max) > 0
  <1>1. Oldest(cap, total) \in Nat /\ Oldest(cap, total) <= total
    BY DEF Oldest, Larger
  <1>2. ReadLength(cap, total, offset, max) =
          IF cap = 0 \/ offset >= total THEN 0 ELSE Smaller(total - offset, max)
    BY <1>1 DEF ReadLength
  <1> QED BY <1>1, <1>2 DEF Smaller
=============================================================================
